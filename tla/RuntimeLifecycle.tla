---------------------------- MODULE RuntimeLifecycle ----------------------------
(***************************************************************************)
(* Scale-to-zero (runtime_controller_base.py, reconcile_runtime_lifecycle  *)
(* and the passes that follow it in run_forever): one controller loop stops *)
(* the containers of idle services, starts them again on demand, requeues  *)
(* an active service whose containers vanished and stops containers that no *)
(* healthy service owns, while the gateway and the release layer ask for    *)
(* wakes through the database at any time.                                 *)
(*                                                                         *)
(* One database transaction or one engine call is one step.  The lifecycle *)
(* of a service starts here with its first successful build.               *)
(***************************************************************************)
EXTENDS Naturals, FiniteSets

CONSTANTS
    Services,         \* dynamic public services of the workspace
    Routed,           \* those the gateway routes to
    SuspendEnabled,   \* runtime_idle_suspend_enabled
    MaxWakes,         \* bound: wakes requested for a staged candidate
    MaxFaults         \* bound: vanished containers, repairs, controller crashes

ASSUME LifecycleAssumption ==
    /\ Routed \subseteq Services
    /\ SuspendEnabled \in BOOLEAN
    /\ MaxWakes \in Nat
    /\ MaxFaults \in Nat

NoService == "none"
ASSUME NoServiceAssumption == NoService \notin Services

VARIABLES
    status,      \* deployments.status: ready, queued or failed
    state,       \* deployments.runtime_state
    recent,      \* runtime_last_request_at is within the idle timeout
    exists,      \* the engine still has the service's containers
    up,          \* ... and they run
    pass,        \* the pass of run_forever the controller is in
    toWake,      \* candidates of this pass seen waiting for a wake
    toSuspend,   \* candidates of this pass seen idle
    current,     \* the service whose containers are being started or stopped
    resident,    \* resident_names, read before the engine is listed
    wakes,       \* candidate wakes so far
    faults       \* faults so far

rowVars == <<status, state, recent>>
engineVars == <<exists, up>>
loopVars == <<pass, toWake, toSuspend, current, resident>>
boundVars == <<wakes, faults>>
lifecycleVars == <<rowVars, engineVars, loopVars, boundVars>>

States == {"running", "suspending", "suspended", "wake_requested", "waking", "error"}
Passes == {"scan", "lifecycle", "starting", "probing", "stopping", "marking",
           "drift", "orphans", "reaping", "building"}

LifecycleTypeOK ==
    /\ status \in [Services -> {"ready", "queued", "failed"}]
    /\ state \in [Services -> States]
    /\ recent \in [Services -> BOOLEAN]
    /\ exists \in [Services -> BOOLEAN]
    /\ up \in [Services -> BOOLEAN]
    /\ pass \in Passes
    /\ toWake \subseteq Services
    /\ toSuspend \subseteq Services
    /\ current \in Services \union {NoService}
    /\ resident \subseteq Services
    /\ wakes \in 0 .. MaxWakes
    /\ faults \in 0 .. MaxFaults

LifecycleInit ==
    /\ status = [s \in Services |-> "ready"]
    /\ state = [s \in Services |-> "running"]
    /\ recent = [s \in Services |-> TRUE]
    /\ exists = [s \in Services |-> TRUE]
    /\ up = [s \in Services |-> TRUE]
    /\ pass = "scan"
    /\ toWake = {}
    /\ toSuspend = {}
    /\ current = NoService
    /\ resident = {}
    /\ wakes = 0
    /\ faults = 0

SetState(s, next) == state' = [state EXCEPT ![s] = next]

-----------------------------------------------------------------------------
(* Requests from outside the controller. *)

WokenByRequest == {"suspended", "suspending", "error"}

(* active_workspace_runtime, register_request: one UPDATE touches the time of *)
(* the last request and asks for a wake.                                      *)
GatewayRequest(s) ==
    /\ s \in Routed
    /\ status[s] = "ready"
    /\ recent' = [recent EXCEPT ![s] = TRUE]
    /\ SetState(s, IF state[s] \in WokenByRequest THEN "wake_requested" ELSE state[s])
    /\ UNCHANGED <<status, engineVars, loopVars, boundVars>>

(* ensure_candidate_runtime_running and, from the release layer,             *)
(* _prepare_candidate_runtime_for_acceptance: a wake of a ready candidate,   *)
(* even of one that is running.                                              *)
CandidateWake(s) ==
    /\ wakes < MaxWakes
    /\ wakes' = wakes + 1
    /\ status[s] = "ready"
    /\ recent' = [recent EXCEPT ![s] = TRUE]
    /\ SetState(s, "wake_requested")
    /\ UNCHANGED <<status, engineVars, loopVars, faults>>

(* The idle timeout passes since the last request. *)
GoesIdle(s) ==
    /\ recent[s]
    /\ recent' = [recent EXCEPT ![s] = FALSE]
    /\ UNCHANGED <<status, state, engineVars, loopVars, boundVars>>

(* repair_workspace_deployment leaves runtime_state alone. *)
Repair(s) ==
    /\ faults < MaxFaults
    /\ faults' = faults + 1
    /\ \/ status[s] = "failed"
       \/ status[s] = "ready" /\ s \in Routed
    /\ status' = [status EXCEPT ![s] = "queued"]
    /\ UNCHANGED <<state, recent, engineVars, loopVars, wakes>>

(* The containers are removed behind the controller's back. *)
ContainersVanish(s) ==
    /\ faults < MaxFaults
    /\ faults' = faults + 1
    /\ exists[s]
    /\ exists' = [exists EXCEPT ![s] = FALSE]
    /\ up' = [up EXCEPT ![s] = FALSE]
    /\ UNCHANGED <<rowVars, loopVars, wakes>>

-----------------------------------------------------------------------------
(* reconcile_runtime_lifecycle. *)

Goto(next) == pass' = next

(* A suspension under way, or one that is due. *)
Idle(s) ==
    \/ state[s] = "suspending"
    \/ state[s] = "running" /\ ~recent[s]

(* _runtime_lifecycle_candidates, without any lock.  Its limit of 128 rows and *)
(* the minimum interval between two scans are left out.                       *)
Scan ==
    /\ pass = "scan"
    /\ LET seen == {s \in Services : status[s] = "ready"} IN
        /\ toWake' = {s \in seen : state[s] \in {"wake_requested", "waking"}}
        /\ toSuspend' = {s \in seen : SuspendEnabled /\ Idle(s)}
    /\ Goto("lifecycle")
    /\ UNCHANGED <<rowVars, engineVars, current, resident, boundVars>>

(* _wake_runtime, first transaction: nothing to do if the wake is gone. *)
BeginWake ==
    /\ pass = "lifecycle"
    /\ \E s \in toWake :
        /\ toWake' = toWake \ {s}
        /\ IF state[s] \in {"wake_requested", "waking"}
           THEN SetState(s, "waking") /\ current' = s /\ Goto("starting")
           ELSE UNCHANGED <<state, current, pass>>
    /\ UNCHANGED <<status, recent, engineVars, toSuspend, resident, boundVars>>

(* _suspend_runtime, first transaction; candidates to wake come first. *)
BeginSuspend ==
    /\ pass = "lifecycle"
    /\ toWake = {}
    /\ \E s \in toSuspend :
        /\ toSuspend' = toSuspend \ {s}
        /\ IF Idle(s)
           THEN SetState(s, "suspending") /\ current' = s /\ Goto("stopping")
           ELSE UNCHANGED <<state, current, pass>>
    /\ UNCHANGED <<status, recent, engineVars, toWake, resident, boundVars>>

(* Mutant: the deployment's own word for a failure is written. *)
FailedOnError == "failed"

AfterError == "error"

(* _record_runtime_lifecycle_error: a request that came in meanwhile wins. *)
RecordError ==
    /\ SetState(current, IF state[current] \in {"waking", "suspending"}
                         THEN AfterError ELSE state[current])
    /\ Goto("lifecycle")
    /\ UNCHANGED <<status, recent, toWake, toSuspend, current, resident, boundVars>>

StartStoppedContainers ==
    /\ pass = "starting"
    /\ exists[current]
    /\ up' = [up EXCEPT ![current] = TRUE]
    /\ Goto("probing")
    /\ UNCHANGED <<rowVars, exists, toWake, toSuspend, current, resident, boundVars>>

(* A missing container, an engine error or a failed health probe. *)
WakeRaises == pass \in {"starting", "probing"} /\ RecordError /\ UNCHANGED engineVars

(* The health probe passed: the second transaction of _wake_runtime. *)
FinishWake ==
    /\ pass = "probing"
    /\ up[current]
    /\ IF state[current] = "waking"
       THEN /\ SetState(current, "running")
            /\ recent' = [recent EXCEPT ![current] = TRUE]
       ELSE UNCHANGED <<state, recent>>
    /\ Goto("lifecycle")
    /\ UNCHANGED <<status, engineVars, toWake, toSuspend, current, resident, boundVars>>

StopContainers ==
    /\ pass = "stopping"
    /\ up' = [up EXCEPT ![current] = FALSE]
    /\ Goto("marking")
    /\ UNCHANGED <<rowVars, exists, toWake, toSuspend, current, resident, boundVars>>

StopRaises == pass = "stopping" /\ RecordError /\ UNCHANGED engineVars

(* Mutant: the row is marked suspended whatever it says by now. *)
MarkableAlways(s) == s \in Services

Markable(s) == state[s] = "suspending"

(* The second transaction of _suspend_runtime. *)
FinishSuspend ==
    /\ pass = "marking"
    /\ SetState(current, IF Markable(current) THEN "suspended" ELSE state[current])
    /\ Goto("lifecycle")
    /\ UNCHANGED <<status, recent, engineVars, toWake, toSuspend, current, resident,
                   boundVars>>

EndLifecyclePass ==
    /\ pass = "lifecycle"
    /\ toWake = {} /\ toSuspend = {}
    /\ Goto("drift")
    /\ UNCHANGED <<rowVars, engineVars, toWake, toSuspend, current, resident, boundVars>>

-----------------------------------------------------------------------------
(* The other passes of run_forever. *)

(* reconcile_runtime_drift: an active ready service whose containers are gone *)
(* is queued again.                                                           *)
RequeueDrifted ==
    /\ pass = "drift"
    /\ status' = [s \in Services |->
           IF s \in Routed /\ status[s] = "ready" /\ ~exists[s]
           THEN "queued" ELSE status[s]]
    /\ Goto("orphans")
    /\ UNCHANGED <<state, recent, engineVars, toWake, toSuspend, current, resident,
                   boundVars>>

(* Mutant: only the service the workspace routes to is resident, as before   *)
(* staged candidates were counted in.                                        *)
ResidentIfRouted(s) ==
    /\ s \in Routed
    /\ status[s] = "ready"
    /\ state[s] \in {"wake_requested", "waking", "running", "suspending"}

Resident(s) ==
    /\ status[s] = "ready"
    /\ state[s] \in {"wake_requested", "waking", "running", "suspending"}

(* reconcile_orphan_runtime_containers reads the resident names first ... *)
ReadResidents ==
    /\ pass = "orphans"
    /\ resident' = {s \in Services : Resident(s)}
    /\ Goto("reaping")
    /\ UNCHANGED <<rowVars, engineVars, toWake, toSuspend, current, boundVars>>

(* ... and stops what runs and is not among them. *)
StopOrphans ==
    /\ pass = "reaping"
    /\ up' = [s \in Services |-> up[s] /\ s \in resident]
    /\ Goto("building")
    /\ UNCHANGED <<rowVars, exists, toWake, toSuspend, current, resident, boundVars>>

(* run_once, seen from here (module RuntimeController has its steps): the     *)
(* build of a queued service ends ready with fresh containers, or failed.     *)
Build ==
    /\ pass = "building"
    /\ \/ \E s \in Services :
           /\ status[s] = "queued"
           /\ \/ /\ status' = [status EXCEPT ![s] = "ready"]
                 /\ SetState(s, "running")
                 /\ recent' = [recent EXCEPT ![s] = TRUE]
                 /\ exists' = [exists EXCEPT ![s] = TRUE]
                 /\ up' = [up EXCEPT ![s] = TRUE]
              \/ /\ status' = [status EXCEPT ![s] = "failed"]
                 /\ exists' = [exists EXCEPT ![s] = FALSE]
                 /\ up' = [up EXCEPT ![s] = FALSE]
                 /\ UNCHANGED <<state, recent>>
       \/ /\ \A s \in Services : status[s] # "queued"
          /\ UNCHANGED <<rowVars, engineVars>>
    /\ Goto("scan")
    /\ UNCHANGED <<toWake, toSuspend, current, resident, boundVars>>

(* The controller dies in any pass, or a pass raises, and it starts over. *)
Crash ==
    /\ faults < MaxFaults
    /\ faults' = faults + 1
    /\ pass # "scan"
    /\ Goto("scan")
    /\ toWake' = {} /\ toSuspend' = {} /\ resident' = {} /\ current' = NoService
    /\ UNCHANGED <<rowVars, engineVars, wakes>>

ControllerLoop ==
    \/ Scan
    \/ BeginWake \/ StartStoppedContainers \/ WakeRaises \/ FinishWake
    \/ BeginSuspend \/ StopContainers \/ StopRaises \/ FinishSuspend
    \/ EndLifecyclePass
    \/ RequeueDrifted
    \/ ReadResidents \/ StopOrphans
    \/ Build

Requests ==
    \E s \in Services :
        \/ GatewayRequest(s)
        \/ CandidateWake(s)
        \/ GoesIdle(s)
        \/ Repair(s)
        \/ ContainersVanish(s)

LifecycleNext == ControllerLoop \/ Crash \/ Requests

(* run_forever never stops looping, and each of its calls has a timeout. *)
LifecycleSpec ==
    LifecycleInit /\ [][LifecycleNext]_lifecycleVars /\ WF_lifecycleVars(ControllerLoop)

-----------------------------------------------------------------------------
(* Properties. *)

(* The engine does what the row says: a service the gateway believes to be    *)
(* running has running containers, unless they vanished, and a suspended one  *)
(* holds none.  Neither a suspension that a request overtook nor the orphan   *)
(* pass, which works from names read earlier, may break this, and staged      *)
(* candidates wait for their acceptance with their containers up.             *)
RowsMatchEngine ==
    \A s \in Services :
        /\ status[s] = "ready" /\ state[s] = "running" /\ exists[s] => up[s]
        /\ status[s] = "ready" /\ state[s] = "suspended" => ~up[s]

(* A request that arrives while the service is being suspended, or after it,  *)
(* is never forgotten: the service runs again, or fails where its owner can   *)
(* see it.                                                                    *)
WakeIsHonoured ==
    \A s \in Services :
        status[s] = "ready" /\ state[s] = "wake_requested"
            ~> state[s] \in {"running", "error"} \/ status[s] # "ready"

=============================================================================
