---------------------------- MODULE DeploymentLedger ----------------------------
(***************************************************************************)
(* What the deployment queue promises to those who watch a deployment's    *)
(* status (the release orchestration, the API's observers), with workers,  *)
(* leases and crashes hidden.                                              *)
(*                                                                         *)
(* A deployment enters as queued, is worked on, and ends ready, failed or  *)
(* cancelled.  It becomes ready only out of a build: from "building", or   *)
(* from a status that overtook a build still going on ("cancelled" by its  *)
(* owner, "failed" by another worker's rollback), never straight from the  *)
(* queue.  A cancelled deployment is not queued again, and the route only  *)
(* ever names a deployment that is proven, that is, was ready once.        *)
(***************************************************************************)
CONSTANTS Deployments, NoDeployment

VARIABLES ledger, proven, route

ledgerVars == <<ledger, proven, route>>

LedgerInit ==
    /\ ledger = [d \in Deployments |-> "absent"]
    /\ proven = {}
    /\ route = NoDeployment

Moves(d, sources, next) ==
    /\ ledger[d] \in sources
    /\ ledger' = [ledger EXCEPT ![d] = next]

Enter(d) == Moves(d, {"absent"}, "queued") /\ UNCHANGED <<proven, route>>
Start(d) == Moves(d, {"queued", "building"}, "building") /\ UNCHANGED <<proven, route>>
Withdraw(d) == Moves(d, {"queued", "building"}, "cancelled") /\ UNCHANGED <<proven, route>>
Again(d) == Moves(d, {"ready", "failed"}, "queued") /\ UNCHANGED <<proven, route>>

(* The build is proven healthy and may take the route in the same step. *)
Prove(d) ==
    /\ Moves(d, {"building", "cancelled", "failed"}, "ready")
    /\ proven' = proven \union {d}
    /\ route' \in {route, d}

(* A failure of any kind; the route may go back to some proven deployment. *)
Break(d) ==
    /\ Moves(d, {"queued", "building", "ready", "failed", "cancelled"}, "failed")
    /\ route' \in proven \union {route, NoDeployment}
    /\ UNCHANGED proven

(* The route moves to a deployment that was proven before. *)
Reroute == route' \in proven /\ UNCHANGED <<ledger, proven>>

LedgerNext ==
    \/ \E d \in Deployments :
           Enter(d) \/ Start(d) \/ Withdraw(d) \/ Again(d) \/ Prove(d) \/ Break(d)
    \/ Reroute

LedgerSpec == LedgerInit /\ [][LedgerNext]_ledgerVars

=============================================================================
