---------------------------- MODULE MCQueuedWork ----------------------------
(***************************************************************************)
(* One model-checking run for five components in which something is asked  *)
(* for, is done by somebody else and ends once: wakes, uploads, confirmed  *)
(* actions, research computations and remote runs.  They share no table    *)
(* and no lock, so a run of one interleaved with a run of another shows    *)
(* nothing that each alone does not: focus picks the component that moves, *)
(* and every behaviour of each of the five is explored.                    *)
(***************************************************************************)
EXTENDS RuntimeLifecycle, SourceUploads, ConfirmationActions, ResearchExecution,
        LighthouseFederation

VARIABLE focus

queuedVars == <<lifecycleVars, uploadVars, confirmationVars, researchVars, federationVars,
                focus>>

QueuedInit ==
    /\ LifecycleInit /\ UploadInit /\ ConfirmationInit /\ ResearchInit /\ FederationInit
    /\ focus \in {"lifecycle", "uploads", "confirmations", "research", "federation"}

QueuedNext ==
    \/ /\ focus = "lifecycle" /\ LifecycleNext
       /\ UNCHANGED <<uploadVars, confirmationVars, researchVars, federationVars, focus>>
    \/ /\ focus = "uploads" /\ UploadNext
       /\ UNCHANGED <<lifecycleVars, confirmationVars, researchVars, federationVars, focus>>
    \/ /\ focus = "confirmations" /\ ConfirmationNext
       /\ UNCHANGED <<lifecycleVars, uploadVars, researchVars, federationVars, focus>>
    \/ /\ focus = "research" /\ ResearchNext
       /\ UNCHANGED <<lifecycleVars, uploadVars, confirmationVars, federationVars, focus>>
    \/ /\ focus = "federation" /\ FederationNext
       /\ UNCHANGED <<lifecycleVars, uploadVars, confirmationVars, researchVars, focus>>

(***************************************************************************)
(* Each component's own fairness, asked of the component that moves.       *)
(***************************************************************************)
QueuedFairness ==
    /\ WF_lifecycleVars(focus = "lifecycle" /\ ControllerLoop)
    /\ \A w \in Verifiers : WF_uploadVars(focus = "uploads" /\ VerifierStep(w))
    /\ \A u \in Uploads :
          /\ WF_uploadVars(focus = "uploads" /\ ComesDue(u))
          /\ WF_uploadVars(focus = "uploads" /\ JobLeaseRunsOut(u))
    /\ \A k \in Workers : WF_researchVars(focus = "research" /\ ResearchWorkerStep(k))
    /\ \A j \in Computations : WF_researchVars(focus = "research" /\ FallsSilent(j))
    /\ WF_federationVars(focus = "federation" /\ ServerStep)
    /\ WF_federationVars(focus = "federation" /\ DeviceStep)

QueuedSpec == QueuedInit /\ [][QueuedNext]_queuedVars /\ QueuedFairness

(* The five components' variables stay in their types. *)
QueuedTypeOK ==
    /\ LifecycleTypeOK /\ UploadTypeOK /\ ConfirmationTypeOK /\ ResearchTypeOK
    /\ FederationTypeOK

(* What a user was told has ended stays ended: uploads, computations and      *)
(* remote runs.  Each says what it excepts: an upload or a job taken over     *)
(* from somebody slow, where several controllers or workers run, and the      *)
(* cancellation a research worker has overlooked.                             *)
EndedWorkStays == EndedUploadsStay /\ EndedExecutionsStay /\ EndedRunsStay

(* Work that was begun is brought to its end although those who do it may     *)
(* die: uploads and computations.                                             *)
BegunWorkEnds == UploadsEnd /\ ExecutionsEnd
=============================================================================
