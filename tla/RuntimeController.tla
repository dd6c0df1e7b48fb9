--------------------------- MODULE RuntimeController ---------------------------
(***************************************************************************)
(* The Runtime Controller's deployment queue (runtime_controller_base.py:  *)
(* claim, execute, fail).  A worker claims the oldest claimable            *)
(* deployment under a lease, builds it and starts its containers, records  *)
(* the result and, when asked to, moves the public route, verifies it from *)
(* outside and puts the former route back when the verification fails.     *)
(*                                                                         *)
(* A worker handles one deployment at a time and every database            *)
(* transaction of `execute` is a step of its own: between two of them the  *)
(* API, the clock and the other workers run, and the worker may crash.     *)
(***************************************************************************)
EXTENDS HostingRows

CONSTANTS
    Jobs,                \* requests with execution_mode = job
    LeaseCoversBuild,    \* whether no build outlives its lease
    MaxCrashes           \* bound: controller crashes

ASSUME ControllerAssumption ==
    /\ Jobs \subseteq Deployments \ (AutoActivated \union PublicServices)
    /\ LeaseCoversBuild \in BOOLEAN
    /\ MaxCrashes \in Nat

VARIABLES
    phase,       \* where each worker is in run_once / execute / fail
    target,      \* the deployment each worker claimed
    previous,    \* result.previous_active_deployment_id, read when publishing
    container,   \* the engine: whether the deployment's containers run
    crashes      \* controller crashes so far

workerVars == <<phase, target, previous>>
controllerVars == <<rowVars, phase, target, previous, container, crashes>>

Phases == {"idle", "building", "built", "verifying", "cleanup", "failing"}

ControllerTypeOK ==
    /\ RowsTypeOK
    /\ phase \in [Workers -> Phases]
    /\ target \in [Workers -> Routes]
    /\ previous \in [Workers -> Routes]
    /\ container \in [Deployments -> BOOLEAN]
    /\ crashes \in 0 .. MaxCrashes

ControllerInit ==
    /\ RowsInit
    /\ phase = [w \in Workers |-> "idle"]
    /\ target = [w \in Workers |-> NoDeployment]
    /\ previous = [w \in Workers |-> NoDeployment]
    /\ container = [d \in Deployments |-> FALSE]
    /\ crashes = 0

-----------------------------------------------------------------------------
(* Leases. *)

Busy(w, d) == phase[w] # "idle" /\ target[w] = d

(* The clock passes lease_expires_at.  With LeaseCoversBuild the lease of a  *)
(* worker that is still at work does not run out, only that of a worker that *)
(* crashed.                                                                  *)
LeaseRunsOut(d) ==
    /\ status[d] = "building"
    /\ ~leaseExpired[d]
    /\ LeaseCoversBuild => \A w \in Workers : ~Busy(w, d)
    /\ leaseExpired' = [leaseExpired EXCEPT ![d] = TRUE]
    /\ UNCHANGED <<status, leaseOwner, runtime, routeVars, runtimeStatus,
                   everHealthy, repairs, workerVars, container, crashes>>

(* Mutant: the sweep for abandoned builds is missing. *)
QueuedOnly(d) == status[d] = "queued"

(* Mutant: an unfinished build is claimed whether its lease ran out or not. *)
Unfinished(d) == status[d] \in {"queued", "building"}

Claimable(d) ==
    \/ status[d] = "queued"
    \/ status[d] = "building" /\ leaseExpired[d]

Goto(w, next) == phase' = [phase EXCEPT ![w] = next]

(* claim: FOR UPDATE SKIP LOCKED on the oldest claimable row. *)
Claim(w) ==
    /\ phase[w] = "idle"
    /\ \E d \in Deployments :
        /\ Claimable(d)
        /\ \A e \in Deployments : Claimable(e) => d <= e
        /\ status' = [status EXCEPT ![d] = "building"]
        /\ leaseOwner' = [leaseOwner EXCEPT ![d] = w]
        /\ leaseExpired' = [leaseExpired EXCEPT ![d] = FALSE]
        /\ target' = [target EXCEPT ![w] = d]
    /\ Goto(w, "building")
    /\ UNCHANGED <<runtime, routeVars, runtimeStatus, everHealthy, repairs,
                   previous, container, crashes>>

-----------------------------------------------------------------------------
(* execute. *)

(* Containers of the deterministic name are removed, created and started, and *)
(* pass their health probe; those of a one-shot job are gone once it exits 0. *)
StartContainers(w) ==
    /\ phase[w] = "building"
    /\ container' = [container EXCEPT ![target[w]] = target[w] \notin Jobs \union Static]
    /\ Goto(w, "built")
    /\ UNCHANGED <<rowVars, target, previous, crashes>>

(* An exception before any container was touched, or one after it, whose     *)
(* handler removes what was started.                                         *)
BuildRaises(w) ==
    /\ phase[w] = "building"
    /\ container' \in {container, [container EXCEPT ![target[w]] = FALSE]}
    /\ Goto(w, "failing")
    /\ UNCHANGED <<rowVars, target, previous, crashes>>

(* An exception between the health probe and the publishing transaction: the *)
(* database release gate blocks an activation, and removes the containers,   *)
(* or the storage measurement raises, and leaves them.                       *)
PublishRaises(w) ==
    /\ phase[w] = "built"
    /\ \/ /\ target[w] \in AutoActivated
          /\ container' = [container EXCEPT ![target[w]] = FALSE]
       \/ UNCHANGED container
    /\ Goto(w, "failing")
    /\ UNCHANGED <<rowVars, target, previous, crashes>>

(* UPDATE ... WHERE id=:id AND lease_owner=:worker. *)
LeaseHeld(w, d) == leaseOwner[d] = w

PublishedStatus(d) ==
    IF d \in AutoActivated THEN "ready" ELSE StatusOfRoute(active, "provisioned")

(* The publishing transaction: under the workspace lock the row becomes ready *)
(* if the lease is still held, and the route moves whether it is or not.      *)
Publish(w) ==
    /\ phase[w] = "built"
    /\ LET d == target[w] IN
        /\ IF LeaseHeld(w, d)
           THEN /\ status' = [status EXCEPT ![d] = "ready"]
                /\ everHealthy' = everHealthy \union {d}
                /\ runtime' = [runtime EXCEPT ![d] =
                       IF d \in PublicServices \ Static
                       THEN "running" ELSE "not_applicable"]
                /\ ReleaseLease(d)
           ELSE UNCHANGED <<status, everHealthy, runtime, leaseVars>>
        /\ previous' = [previous EXCEPT ![w] = active]
        /\ IF d \in AutoActivated THEN PointRouteAt(d) ELSE UNCHANGED routeVars
        /\ runtimeStatus' = PublishedStatus(d)
        /\ Goto(w, IF d \in AutoActivated \intersect PublicServices
                   THEN "verifying" ELSE "idle")
    /\ UNCHANGED <<repairs, target, container, crashes>>

(* The public route answers with this deployment's id within 20 seconds. *)
RouteAnswers(w) ==
    /\ phase[w] = "verifying"
    /\ Served(target[w])
    /\ Goto(w, "idle")
    /\ UNCHANGED <<rowVars, target, previous, container, crashes>>

(* Mutant: the rollback forgets to move the Pages pointer back. *)
RestoreWorkspaceOnly(route) == active' = route /\ UNCHANGED pagesPointer

RestoreRoute(route) == PointRouteAt(route)

(* Mutant: the row stays ready until `fail` gets to it. *)
MarkLater(d) == d \in Deployments /\ UNCHANGED status

MarkFailed(d) == status' = [status EXCEPT ![d] = "failed"]

(* It does not: the former route is put back, whoever holds the route now. *)
RouteFails(w) ==
    /\ phase[w] = "verifying"
    /\ RestoreRoute(previous[w])
    /\ runtimeStatus' = StatusOfRoute(previous[w], "failed")
    /\ MarkFailed(target[w])
    /\ Goto(w, "cleanup")
    /\ UNCHANGED <<leaseVars, runtime, everHealthy, repairs, target, previous,
                   container, crashes>>

(* The failed revision's containers are removed, unless the engine raises. *)
RemoveContainers(w) ==
    /\ phase[w] = "cleanup"
    /\ container' \in {container, [container EXCEPT ![target[w]] = FALSE]}
    /\ Goto(w, "failing")
    /\ UNCHANGED <<rowVars, target, previous, crashes>>

(* fail: unconditional, whatever became of the row meanwhile. *)
Fail(w) ==
    /\ phase[w] = "failing"
    /\ status' = [status EXCEPT ![target[w]] = "failed"]
    /\ ReleaseLease(target[w])
    /\ runtimeStatus' = StatusOfRoute(active, "failed")
    /\ Goto(w, "idle")
    /\ UNCHANGED <<runtime, routeVars, everHealthy, repairs, target, previous,
                   container, crashes>>

(* The process dies between two transactions and restarts with nothing. *)
Crash(w) ==
    /\ phase[w] # "idle"
    /\ crashes < MaxCrashes
    /\ crashes' = crashes + 1
    /\ Goto(w, "idle")
    /\ UNCHANGED <<rowVars, target, previous, container>>

WorkerStep(w) ==
    \/ Claim(w)
    \/ StartContainers(w)
    \/ BuildRaises(w)
    \/ PublishRaises(w)
    \/ Publish(w)
    \/ RouteAnswers(w)
    \/ RouteFails(w)
    \/ RemoveContainers(w)
    \/ Fail(w)

ControllerNext ==
    \/ ApiNext /\ UNCHANGED <<workerVars, container, crashes>>
    \/ \E d \in Deployments : LeaseRunsOut(d)
    \/ \E w \in Workers : WorkerStep(w) \/ Crash(w)

(* run_forever loops for ever, and every call it makes has a timeout; the    *)
(* clock reaches every lease's expiry.                                       *)
ControllerFairness ==
    /\ \A w \in Workers : WF_controllerVars(WorkerStep(w))
    /\ \A d \in Deployments : WF_controllerVars(LeaseRunsOut(d))

ControllerSpec ==
    ControllerInit /\ [][ControllerNext]_controllerVars /\ ControllerFairness

-----------------------------------------------------------------------------
(* Properties of the queue. *)

(* A service recorded ready still has the containers that passed its probe. *)
ReadyIsBacked ==
    \A d \in Deployments \ (Jobs \union Static) : status[d] = "ready" => container[d]

(* Every accepted request is settled: a queued or building deployment ends   *)
(* ready, failed or cancelled although controllers crash in the middle of    *)
(* the build.                                                                *)
EveryDeploymentSettles ==
    \A d \in Deployments :
        status[d] \in {"queued", "building"}
            ~> status[d] \in {"ready", "failed", "cancelled"}

(* The queue with its leases, crashes and rollbacks implements the ledger the *)
(* observers of a deployment rely on.                                         *)
Ledger == INSTANCE DeploymentLedger
              WITH ledger <- status, proven <- everHealthy, route <- active

ImplementsLedger == Ledger!LedgerSpec

=============================================================================
