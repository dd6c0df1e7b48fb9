-------------------------- MODULE WorkspaceRetention --------------------------
(***************************************************************************)
(* Retention of deployments (services/workspace_retention.py), on top of   *)
(* the queue that builds them.  Applying a confirmed plan takes three      *)
(* kinds of transaction of an API process - mark what retires, delete one  *)
(* release directory at a time, write the outcome - and, in between, the   *)
(* Runtime Controller, which alone may remove containers and acknowledges  *)
(* that it has.  Builds, repairs and cancellations run at the same time.   *)
(*                                                                         *)
(* Time is one bit per deployment: it is older than every age the policies *)
(* name, or younger.  Pins, open releases and the Pages pointer protect    *)
(* deployments too; they are left out (the pointer follows the route).     *)
(***************************************************************************)
EXTENDS RuntimeController

CONSTANTS
    Appliers,           \* API requests that apply a plan
    MaxOperations,      \* bound: plans ever applied
    KeepRecent,         \* policy.keep_recent_deployments
    EvidencePolicies,   \* the values of policy.retire_terminal_evidence
    WindowPolicies      \* whether policy.rollback_max_age_hours is set

ASSUME RetentionAssumption ==
    /\ MaxOperations \in Nat
    /\ KeepRecent \in Nat
    /\ EvidencePolicies \subseteq BOOLEAN
    /\ WindowPolicies \subseteq BOOLEAN

Policies == [evidence : EvidencePolicies, window : WindowPolicies]

VARIABLES
    retirement,    \* result.retention.state of each deployment
    operation,     \* result.retention.run_id, with its plan digest; 0: none
    acknowledged,  \* containers_retired_run_id, with its names digest; 0: none
    evidenceToo,   \* where result.retention.retire_terminal_evidence is true
    rollbackRef,   \* result.previous_active_deployment_id
    release,       \* whether the release directory is on disk
    aged,          \* the deployments older than the policies' ages
    applier,       \* where each request is
    policyOf,      \* its policy
    plan,          \* its plan: candidate |-> the operation it executes
    todo,          \* the candidates it has not handled yet
    removed,       \* those whose release directory it removed
    opened         \* plans applied so far

retirementVars == <<retirement, operation, acknowledged, evidenceToo>>
applyVars == <<applier, policyOf, plan, todo, removed, opened>>
retentionVars ==
    <<controllerVars, retirementVars, rollbackRef, release, aged, applyVars>>

Retirements == {"none", "retiring", "retry_required", "retired"}
NoOperation == 0
Operations == 1 .. MaxOperations
NoPolicy == [evidence |-> FALSE, window |-> FALSE]

RetentionTypeOK ==
    /\ ControllerTypeOK
    /\ retirement \in [Deployments -> Retirements]
    /\ operation \in [Deployments -> Operations \union {NoOperation}]
    /\ acknowledged \in [Deployments -> Operations \union {NoOperation}]
    /\ evidenceToo \subseteq Deployments
    /\ rollbackRef \in [Deployments -> Routes]
    /\ release \in [Deployments -> BOOLEAN]
    /\ aged \subseteq Deployments
    /\ applier \in [Appliers -> {"idle", "deleting"}]
    /\ policyOf \in [Appliers -> Policies \union {NoPolicy}]
    /\ \A p \in Appliers :
        /\ plan[p] \in [DOMAIN plan[p] -> Operations]
        /\ todo[p] \union removed[p] \subseteq DOMAIN plan[p]
        /\ DOMAIN plan[p] \subseteq Deployments
    /\ opened \in 0 .. MaxOperations

RetentionInit ==
    /\ ControllerInit
    /\ retirement = [d \in Deployments |-> "none"]
    /\ operation = [d \in Deployments |-> NoOperation]
    /\ acknowledged = [d \in Deployments |-> NoOperation]
    /\ evidenceToo = {}
    /\ rollbackRef = [d \in Deployments |-> NoDeployment]
    /\ release = [d \in Deployments |-> FALSE]
    /\ aged = {}
    /\ applier = [p \in Appliers |-> "idle"]
    /\ policyOf = [p \in Appliers |-> NoPolicy]
    /\ plan = [p \in Appliers |-> <<>>]
    /\ todo = [p \in Appliers |-> {}]
    /\ removed = [p \in Appliers |-> {}]
    /\ opened = 0

-----------------------------------------------------------------------------
(* The plan, recomputed wherever it matters from the rows as they are. *)

Ended(d) == status[d] \in {"ready", "failed", "cancelled", "rolled_back"}

(* A retirement that somebody has to finish. *)
Pending(d) == retirement[d] \in {"retiring", "retry_required"}

(* Old failures and old jobs may go when the policy says so. *)
Expendable(policy, d) == policy.evidence /\ Ended(d) /\ d \in aged

(* The rollback window of d has passed, and what runs now is healthy. *)
WindowPassed(policy, d) ==
    /\ policy.window
    /\ status[active] = "ready"
    /\ d \in aged

(* The newest healthy services. *)
RecentServices(policy) ==
    LET counted == {d \in Deployments \ Jobs :
                        status[d] = "ready" /\ ~(policy.window /\ d \in aged)}
    IN {d \in counted : Cardinality({e \in counted : e > d}) < KeepRecent}

(* Mutant: the deployment to go back to is not looked at. *)
RoutedOnly(policy) == {active}

(* What the route, and the row of the deployment that holds it, refer to. *)
Referenced(policy) ==
    {active} \union
        IF active = NoDeployment THEN {}
        ELSE {d \in {rollbackRef[active]} : ~WindowPassed(policy, d)}

Kept(policy) ==
    Referenced(policy) \union RecentServices(policy) \union
    {d \in Deployments :
        \/ ~Ended(d)
        \/ d \in Jobs /\ ~Expendable(policy, d)
        \/ status[d] = "failed" /\ ~Expendable(policy, d)}

(* _build_plan: an unfinished retirement is a candidate again at any age. *)
Candidates(policy) ==
    {d \in Deployments \ Kept(policy) :
        /\ retirement[d] # "retired"
        /\ Pending(d) \/ d \in aged}

-----------------------------------------------------------------------------
(* apply_workspace_retention. *)

(* A retirement under way keeps its operation, and with it its acknowledgement. *)
OperationFor(d) ==
    IF Pending(d) /\ operation[d] # NoOperation THEN operation[d] ELSE opened + 1

(* The plan is confirmed by its digest and everything in it is marked, in one *)
(* transaction under the workspace lock.  What was ready no longer is, and a  *)
(* pointer to a rollback target whose window has passed is cleared.           *)
MarkRetiring(p, policy) ==
    LET chosen == Candidates(policy)
        inPlan(old, new) == [d \in Deployments |-> IF d \in chosen THEN new[d] ELSE old[d]]
        op == [d \in Deployments |-> OperationFor(d)]
    IN
    /\ applier[p] = "idle"
    /\ opened < MaxOperations
    /\ opened' = opened + 1
    /\ chosen # {}
    /\ retirement' = inPlan(retirement, [d \in Deployments |-> "retiring"])
    /\ operation' = inPlan(operation, op)
    /\ acknowledged' = inPlan(acknowledged, [d \in Deployments |->
           IF op[d] = operation[d] THEN acknowledged[d] ELSE NoOperation])
    /\ evidenceToo' = evidenceToo \union IF policy.evidence THEN chosen ELSE {}
    /\ rollbackRef' = [d \in Deployments |->
           IF d = active /\ policy.window /\ rollbackRef[d] \in chosen
           THEN NoDeployment ELSE rollbackRef[d]]
    /\ status' = [d \in Deployments |->
           IF d \in chosen /\ status[d] = "ready" THEN "rolled_back" ELSE status[d]]
    /\ plan' = [plan EXCEPT ![p] = [d \in chosen |-> op[d]]]
    /\ todo' = [todo EXCEPT ![p] = chosen]
    /\ removed' = [removed EXCEPT ![p] = {}]
    /\ policyOf' = [policyOf EXCEPT ![p] = policy]
    /\ applier' = [applier EXCEPT ![p] = "deleting"]
    /\ UNCHANGED <<leaseVars, runtime, routeVars, runtimeStatus, everHealthy, repairs,
                   workerVars, container, crashes, release, aged>>

(* Mutant: the directory goes although containers may still use it. *)
MayDeleteUnacknowledged(p, d) ==
    /\ d \in Candidates(policyOf[p])
    /\ operation[d] = plan[p][d]

MayDelete(p, d) ==
    /\ d \in Candidates(policyOf[p])
    /\ operation[d] = plan[p][d]
    /\ acknowledged[d] = operation[d]

(* One candidate, under the workspace lock and its own: the plan is computed *)
(* afresh, and unless it still has the candidate, for the same operation and *)
(* with the containers acknowledged gone, nothing is deleted.  The removal   *)
(* itself may fail.                                                          *)
HandleCandidate(p, d) ==
    /\ applier[p] = "deleting"
    /\ d \in todo[p]
    /\ todo' = [todo EXCEPT ![p] = @ \ {d}]
    /\ \/ /\ MayDelete(p, d)
          /\ release' = [release EXCEPT ![d] = FALSE]
          /\ retirement' = [retirement EXCEPT ![d] = "retired"]
          /\ removed' = [removed EXCEPT ![p] = @ \union {d}]
       \/ UNCHANGED <<release, retirement, removed>>
    /\ UNCHANGED <<controllerVars, operation, acknowledged, evidenceToo, rollbackRef,
                   aged, applier, policyOf, plan, opened>>

(* Mutant: what another request has retired meanwhile is not looked at. *)
SameOperation(p, d) == operation[d] = plan[p][d]

(* The rows whose outcome is written: not one that another request has       *)
(* retired meanwhile, nor one whose operation is no longer the one executed. *)
StillThisOperation(p, d) == retirement[d] # "retired" /\ operation[d] = plan[p][d]

(* The outcome of the others, in one transaction. *)
WriteOutcome(p) ==
    /\ applier[p] = "deleting"
    /\ todo[p] = {}
    /\ retirement' = [d \in Deployments |->
           IF d \in DOMAIN plan[p] \ removed[p] /\ StillThisOperation(p, d)
           THEN "retry_required" ELSE retirement[d]]
    /\ applier' = [applier EXCEPT ![p] = "idle"]
    /\ plan' = [plan EXCEPT ![p] = <<>>]
    /\ removed' = [removed EXCEPT ![p] = {}]
    /\ policyOf' = [policyOf EXCEPT ![p] = NoPolicy]
    /\ UNCHANGED <<controllerVars, operation, acknowledged, evidenceToo, rollbackRef,
                   release, aged, todo, opened>>

(* The API process dies; the rows stay marked. *)
ApplyDies(p) ==
    /\ applier[p] = "deleting"
    /\ applier' = [applier EXCEPT ![p] = "idle"]
    /\ plan' = [plan EXCEPT ![p] = <<>>]
    /\ todo' = [todo EXCEPT ![p] = {}]
    /\ removed' = [removed EXCEPT ![p] = {}]
    /\ policyOf' = [policyOf EXCEPT ![p] = NoPolicy]
    /\ UNCHANGED <<controllerVars, retirementVars, rollbackRef, release, aged, opened>>

-----------------------------------------------------------------------------
(* reconcile_retention_runtime_containers, between two builds. *)

(* _retention_is_protected, read from the rows under both locks. *)
RouteNeeds(d) ==
    \/ active = d
    \/ active # NoDeployment /\ rollbackRef[active] = d

(* The containers are removed and the acknowledgement is bound to the        *)
(* operation; or the engine raises half way and no acknowledgement is left.  *)
RetireContainers(w, d) ==
    /\ phase[w] = "idle"
    /\ Pending(d)
    /\ operation[d] # NoOperation
    /\ status[d] \in {"failed", "rolled_back", "cancelled"}
    /\ d \in Jobs => d \in evidenceToo
    /\ ~RouteNeeds(d)
    /\ acknowledged[d] # operation[d]
    /\ \/ /\ container' = [container EXCEPT ![d] = FALSE]
          /\ acknowledged' = [acknowledged EXCEPT ![d] = operation[d]]
       \/ /\ container' \in {container, [container EXCEPT ![d] = FALSE]}
          /\ acknowledged' = [acknowledged EXCEPT ![d] = NoOperation]
    /\ UNCHANGED <<rowVars, workerVars, crashes, retirement, operation, evidenceToo,
                   rollbackRef, release, aged, applyVars>>

-----------------------------------------------------------------------------
(* The queue, with what it does to the columns and files named here. *)

(* execute extracts the source into the release directory before it touches a *)
(* container, and may raise before or after it has; publishing replaces the   *)
(* whole result document if the lease is held, naming the route it found.     *)
BuildStep(w) ==
    LET d == target[w]
        published == phase[w] = "built" /\ phase'[w] \in {"verifying", "idle"}
                         /\ LeaseHeld(w, d)
    IN
    /\ WorkerStep(w) \/ Crash(w)
    /\ \/ StartContainers(w) /\ release' = [release EXCEPT ![d] = TRUE]
       \/ BuildRaises(w) /\ release' \in {release, [release EXCEPT ![d] = TRUE]}
       \/ phase[w] # "building" /\ UNCHANGED release
       \/ Crash(w) /\ UNCHANGED release
    /\ IF published /\ status'[d] = "ready"
       THEN /\ retirement' = [retirement EXCEPT ![d] = "none"]
            /\ operation' = [operation EXCEPT ![d] = NoOperation]
            /\ acknowledged' = [acknowledged EXCEPT ![d] = NoOperation]
            /\ evidenceToo' = evidenceToo \ {d}
            /\ rollbackRef' = [rollbackRef EXCEPT ![d] = active]
       ELSE UNCHANGED <<retirementVars, rollbackRef>>
    /\ UNCHANGED <<aged, applyVars>>

Ages(d) ==
    /\ status[d] # "absent"
    /\ \A e \in Deployments : e < d => e \in aged
    /\ d \notin aged
    /\ aged' = aged \union {d}
    /\ UNCHANGED <<controllerVars, retirementVars, rollbackRef, release, applyVars>>

RetentionNext ==
    \/ \E w \in Workers : BuildStep(w)
    \/ \E w \in Workers, d \in Deployments : RetireContainers(w, d)
    \/ /\ \/ ApiNext /\ UNCHANGED <<workerVars, container, crashes>>
          \/ \E d \in Deployments : LeaseRunsOut(d)
       /\ UNCHANGED <<retirementVars, rollbackRef, release, aged, applyVars>>
    \/ \E p \in Appliers :
        \/ \E policy \in Policies : MarkRetiring(p, policy)
        \/ \E d \in Deployments : HandleCandidate(p, d)
        \/ WriteOutcome(p)
        \/ ApplyDies(p)
    \/ \E d \in Deployments : Ages(d)

RetentionSpec == RetentionInit /\ [][RetentionNext]_retentionVars

-----------------------------------------------------------------------------
(* Properties of retention. *)

(* The revision behind the public route is not being retired, nor retired,   *)
(* although the route may be given back to a former holder at any time.      *)
RouteIsNotRetired == active # NoDeployment => retirement[active] = "none"

(* A release directory is only deleted once the containers that mount it are  *)
(* gone, whoever acknowledged that and however often the plan was applied.  A *)
(* repair breaks this: it leaves the acknowledgement in place, and when it is *)
(* cancelled in the middle of its build the plan, applied again, deletes the  *)
(* directory under the new containers.                                        *)
ContainersHaveTheirRelease ==
    repairs = 0 => \A d \in Deployments : container[d] => release[d]

(* What one request has recorded as retired no other one turns back into     *)
(* unfinished work: only a rebuild clears it.                                *)
RetiredStaysRetired ==
    [][\A d \in Deployments :
           retirement[d] = "retired" /\ retirement'[d] # "retired"
               => status'[d] = "ready"]_retentionVars

=============================================================================
