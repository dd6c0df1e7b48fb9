------------------------------ MODULE HostingRows ------------------------------
(***************************************************************************)
(* The two database rows every hosting component writes, for one           *)
(* workspace: its row in digital_asset.workspaces and its rows in          *)
(* digital_asset.deployments, with the single-transaction API handlers     *)
(* that request, cancel and repair a deployment.                           *)
(*                                                                         *)
(* A deployment is named by its place in the order of created_at.  The     *)
(* `health` column is folded into `status`: every UPDATE that sets         *)
(* status='ready' sets health='healthy', every one that sets 'failed' sets *)
(* 'unhealthy', and the others leave 'pending'.  Evidence kept in the      *)
(* `result` document (logs, digests, probe output) is left out, and so is  *)
(* the status of the workspace component.                                  *)
(***************************************************************************)
EXTENDS Naturals, FiniteSets

CONSTANTS
    MaxDeployments,   \* bound: revisions the workspace ever requests
    MaxRepairs,       \* bound: repairs its credentials ever request
    Workers,          \* Runtime Controller processes sharing the database
    NoWorker,         \* lease_owner IS NULL
    AutoActivated,    \* requests with activate true and no acceptance demanded
    PublicServices,   \* services whose component has a public route
    Static            \* revisions with runtime_family = static

Deployments == 1 .. MaxDeployments
NoDeployment == 0
Routes == Deployments \union {NoDeployment}

(* A service is anything but a one-shot job; the deployments that are not *)
(* public are jobs, workers and agents, and a job is never activated.     *)
ASSUME RowsAssumption ==
    /\ MaxDeployments \in Nat
    /\ MaxRepairs \in Nat
    /\ NoWorker \notin Workers
    /\ AutoActivated \subseteq Deployments
    /\ PublicServices \subseteq Deployments
    /\ Static \subseteq PublicServices

VARIABLES
    status,         \* deployments.status, "absent" before the INSERT
    leaseOwner,     \* deployments.lease_owner
    leaseExpired,   \* deployments.lease_expires_at < now()
    runtime,        \* deployments.runtime_state, its passing states left out
    active,         \* workspaces.active_deployment_id
    pagesPointer,   \* pages_routes.active_deployment_id of the workspace
    runtimeStatus,  \* workspaces.runtime_status
    everHealthy,    \* history: deployments that passed the health gate once
    repairs         \* repairs requested so far

leaseVars == <<leaseOwner, leaseExpired>>
routeVars == <<active, pagesPointer>>
rowVars == <<status, leaseOwner, leaseExpired, runtime, active, pagesPointer,
             runtimeStatus, everHealthy, repairs>>

Statuses ==
    {"absent", "queued", "building", "ready", "failed", "cancelled", "rolled_back"}
RuntimeStates ==
    {"not_applicable", "running", "suspended", "wake_requested", "error"}
RuntimeStatuses == {"provisioned", "building", "ready", "failed"}

RowsTypeOK ==
    /\ status \in [Deployments -> Statuses]
    /\ leaseOwner \in [Deployments -> Workers \union {NoWorker}]
    /\ leaseExpired \in [Deployments -> BOOLEAN]
    /\ runtime \in [Deployments -> RuntimeStates]
    /\ active \in Routes
    /\ pagesPointer \in Routes
    /\ runtimeStatus \in RuntimeStatuses
    /\ everHealthy \subseteq Deployments
    /\ repairs \in 0 .. MaxRepairs

RowsInit ==
    /\ status = [d \in Deployments |-> "absent"]
    /\ leaseOwner = [d \in Deployments |-> NoWorker]
    /\ leaseExpired = [d \in Deployments |-> FALSE]
    /\ runtime = [d \in Deployments |-> "not_applicable"]
    /\ active = NoDeployment
    /\ pagesPointer = NoDeployment
    /\ runtimeStatus = "provisioned"
    /\ everHealthy = {}
    /\ repairs = 0

-----------------------------------------------------------------------------
(* Helpers shared by the handlers. *)

(* Mutant: a workspace without a route gets a status of its own. *)
StatusOutsideCheck(route, missing) ==
    IF route = NoDeployment THEN "not_deployed" ELSE "ready"

(* The value `CASE WHEN active_deployment_id IS NULL THEN missing ELSE 'ready' *)
(* END` that every handler computes from the route it leaves behind.          *)
StatusOfRoute(route, missing) == IF route = NoDeployment THEN missing ELSE "ready"

(* Both route columns move in one transaction. *)
PointRouteAt(route) ==
    /\ active' = route
    /\ pagesPointer' = route

ReleaseLease(d) ==
    /\ leaseOwner' = [leaseOwner EXCEPT ![d] = NoWorker]
    /\ leaseExpired' = [leaseExpired EXCEPT ![d] = FALSE]

(* What active_workspace_runtime answers a gateway request with: the active *)
(* deployment, provided that it is ready and healthy.                       *)
Served(d) == active = d /\ status[d] = "ready"

-----------------------------------------------------------------------------
(* The API handlers.  Each is one transaction. *)

(* request_workspace_deployment: the workspace row is locked, so deployments *)
(* are created one after the other.                                          *)
RequestDeployment(d) ==
    /\ status[d] = "absent"
    /\ \A e \in Deployments : e < d => status[e] # "absent"
    /\ status' = [status EXCEPT ![d] = "queued"]
    /\ runtimeStatus' = "building"
    /\ UNCHANGED <<leaseVars, runtime, routeVars, everHealthy, repairs>>

(* cancel_workspace_deployment leaves lease_owner and the workspace alone. *)
CancelDeployment(d) ==
    /\ status[d] \in {"queued", "building"}
    /\ status' = [status EXCEPT ![d] = "cancelled"]
    /\ UNCHANGED <<leaseVars, runtime, routeVars, runtimeStatus, everHealthy,
                   repairs>>

(* Mutant: a cancelled deployment may be repaired too. *)
RepairableOnceEnded(d) ==
    \/ status[d] \in {"failed", "cancelled"}
    \/ status[d] = "ready" /\ active = d

Repairable(d) ==
    \/ status[d] = "failed"
    \/ status[d] = "ready" /\ active = d

(* repair_workspace_deployment: only a failed deployment, or the active one. *)
RepairDeployment(d) ==
    /\ repairs < MaxRepairs
    /\ repairs' = repairs + 1
    /\ Repairable(d)
    /\ status' = [status EXCEPT ![d] = "queued"]
    /\ ReleaseLease(d)
    /\ runtimeStatus' = IF active = d THEN "building" ELSE runtimeStatus
    /\ UNCHANGED <<runtime, routeVars, everHealthy>>

ApiNext ==
    \E d \in Deployments :
        \/ RequestDeployment(d)
        \/ CancelDeployment(d)
        \/ RepairDeployment(d)

-----------------------------------------------------------------------------
(* Properties of the rows, checked of every specification that writes them. *)

(* The public route never points at a revision that did not pass the health *)
(* gate at least once, whatever crashes, cancellations, repairs and failed  *)
(* verifications interleave with the builds.                                *)
RouteWasHealthy == active \in everHealthy \union {NoDeployment}

(* workspaces.runtime_status never contradicts the route: it says 'ready'    *)
(* only when there is a route, and 'failed' or 'provisioned' only when there *)
(* is none.                                                                  *)
StatusAgreesWithRoute ==
    /\ runtimeStatus = "ready" => active # NoDeployment
    /\ runtimeStatus \in {"failed", "provisioned"} => active = NoDeployment

(* The Pages site and the workspace always route to the same revision. *)
PagesPointerFollowsRoute == pagesPointer = active

(* All columns that speak of the route say the same. *)
ColumnsAgree == StatusAgreesWithRoute /\ PagesPointerFollowsRoute

=============================================================================
