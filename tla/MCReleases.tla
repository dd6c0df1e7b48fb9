------------------------------ MODULE MCReleases ------------------------------
(***************************************************************************)
(* The two things this system calls a release, each with everybody who     *)
(* drives it: a release of a workspace, and rollouts of the system itself. *)
(* They share no state; focus picks the one that moves.                    *)
(***************************************************************************)
EXTENDS ReleaseOrchestration, ClusterRollout

VARIABLE focus

bothVars == <<orchestrationVars, rolloutVars, focus>>

BothInit == ReleaseInit /\ RolloutInit /\ focus \in {"release", "rollout"}

BothNext ==
    \/ focus = "release" /\ ReleaseNext /\ UNCHANGED <<rolloutVars, focus>>
    \/ focus = "rollout" /\ RolloutNext /\ UNCHANGED <<orchestrationVars, focus>>

(* The fairness of RolloutSpec, asked where the rollout moves. *)
BothSpec ==
    /\ BothInit /\ [][BothNext]_bothVars
    /\ WF_rolloutVars(focus = "rollout" /\ Orchestrator)

(* Types of the rows of a release, and of what the two nodes keep. *)
BothTypeOK == ReleaseTypeOK /\ RolloutTypeOK
=============================================================================
