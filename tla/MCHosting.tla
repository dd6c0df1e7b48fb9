------------------------------- MODULE MCHosting -------------------------------
(***************************************************************************)
(* The hosting data plane in one run, from two sides.  Focus "plane": two  *)
(* controllers and the API's activations on two revisions, none of whose   *)
(* builds outlives its lease.  Focus "queue": the controller that is       *)
(* deployed, alone with its queue of a static site, a service and a job,   *)
(* however long a build takes.  The queue is an instance of the module     *)
(* that models it, on rows of its own; focus picks the side that moves.    *)
(***************************************************************************)
EXTENDS HostingPlane

CONSTANTS
    DeployedWorkers,   \* the controllers compose.production.yaml runs: one
    PlaneLength        \* bound: revisions of the plane

VARIABLES
    qStatus, qLeaseOwner, qLeaseExpired, qRuntime, qActive, qPagesPointer, qRuntimeStatus,
    qEverHealthy, qRepairs, qPhase, qTarget, qPrevious, qContainer, qCrashes,
    focus

Queue == INSTANCE RuntimeController
    WITH Workers <- DeployedWorkers, LeaseCoversBuild <- FALSE,
         AutoActivated <- {1, 2}, PublicServices <- {1, 2}, Static <- {1}, Jobs <- {3},
         status <- qStatus, leaseOwner <- qLeaseOwner, leaseExpired <- qLeaseExpired,
         runtime <- qRuntime, active <- qActive, pagesPointer <- qPagesPointer,
         runtimeStatus <- qRuntimeStatus, everHealthy <- qEverHealthy, repairs <- qRepairs,
         phase <- qPhase, target <- qTarget, previous <- qPrevious,
         container <- qContainer, crashes <- qCrashes

queueVars == <<qStatus, qLeaseOwner, qLeaseExpired, qRuntime, qActive, qPagesPointer,
               qRuntimeStatus, qEverHealthy, qRepairs, qPhase, qTarget, qPrevious,
               qContainer, qCrashes>>

HostingInit == PlaneInit /\ Queue!ControllerInit /\ focus \in {"plane", "queue"}

HostingNext ==
    \/ /\ focus = "plane" /\ PlaneNext
       /\ \A d \in Deployments : d > PlaneLength => status'[d] = "absent"
       /\ UNCHANGED <<queueVars, focus>>
    \/ focus = "queue" /\ Queue!ControllerNext /\ UNCHANGED <<planeVars, focus>>

(* The fairness of ControllerSpec, asked where the queue moves. *)
HostingSpec ==
    /\ HostingInit /\ [][HostingNext]_<<planeVars, queueVars, focus>>
    /\ \A w \in DeployedWorkers : WF_queueVars(focus = "queue" /\ Queue!WorkerStep(w))
    /\ \A d \in Deployments : WF_queueVars(focus = "queue" /\ Queue!LeaseRunsOut(d))

(***************************************************************************)
(* The properties of the plane are those of its modules.  These two are    *)
(* RuntimeController's properties of the queue.                            *)
(***************************************************************************)
(* A service recorded ready still has the containers that passed its probe, *)
(* with the one controller that is deployed: through crashes, lost leases,  *)
(* rollbacks, cancellations and repairs.                                    *)
DeployedServicesAreBacked == Queue!ReadyIsBacked

(* Every accepted request is settled: a queued or building deployment ends   *)
(* ready, failed or cancelled although the controller crashes in the middle  *)
(* of a build, or takes longer than its lease.                               *)
DeployedQueueSettles == Queue!EveryDeploymentSettles
=============================================================================
