---------------------------- MODULE RouteActivation ----------------------------
(***************************************************************************)
(* activate_workspace_deployment (services/workspace_deployments.py): a    *)
(* caller wakes a healthy candidate, switches the public route to it under *)
(* the workspace lock, probes the route from outside for up to 20 seconds  *)
(* without any lock, and then confirms the switch or restores the former   *)
(* route, again under the lock.  Any number of callers may do this at the  *)
(* same time, each in its own API process, which may die in the middle.    *)
(***************************************************************************)
EXTENDS HostingRows

CONSTANTS
    Callers   \* API requests that activate a deployment

VARIABLES
    call,        \* where each caller is
    candidate,   \* the deployment it activates
    former,      \* previous_active_deployment_id, read with the switch
    outcome      \* how its last call ended

callVars == <<call, candidate, former, outcome>>

Calls == {"idle", "waking", "prepared", "probing", "answered"}

(* "unchanged": 409 with route_changed False; "refused": any other 409 before *)
(* the switch; "superseded": another revision held the route afterwards.      *)
Outcomes == {"none", "unchanged", "refused", "restored", "superseded", "verified"}

CallsTypeOK ==
    /\ call \in [Callers -> Calls]
    /\ candidate \in [Callers -> Routes]
    /\ former \in [Callers -> Routes]
    /\ outcome \in [Callers -> Outcomes]

CallsInit ==
    /\ call = [a \in Callers |-> "idle"]
    /\ candidate = [a \in Callers |-> NoDeployment]
    /\ former = [a \in Callers |-> NoDeployment]
    /\ outcome = [a \in Callers |-> "none"]

Advance(a, next) == call' = [call EXCEPT ![a] = next]

Return(a, result) ==
    /\ Advance(a, "idle")
    /\ outcome' = [outcome EXCEPT ![a] = result]

-----------------------------------------------------------------------------
(* Preparing the candidate. *)

(* prepare_workspace_deployment_for_activation and the first transaction of  *)
(* ensure_candidate_runtime_running: whatever runtime_state says, a wake is  *)
(* requested.  Jobs and workers never get past it.                           *)
Prepare(a, d) ==
    /\ call[a] = "idle"
    /\ status[d] = "ready"
    /\ candidate' = [candidate EXCEPT ![a] = d]
    /\ outcome' = [outcome EXCEPT ![a] = "none"]
    /\ IF d \in Static
       THEN Advance(a, "prepared") /\ UNCHANGED runtime
       ELSE Advance(a, "waking") /\ runtime' = [runtime EXCEPT ![d] = "wake_requested"]
    /\ UNCHANGED <<status, leaseVars, routeVars, runtimeStatus, everHealthy,
                   repairs, former>>

(* The poll loop of ensure_candidate_runtime_running. *)
SeesRunning(a) ==
    /\ call[a] = "waking"
    /\ status[candidate[a]] = "ready"
    /\ runtime[candidate[a]] = "running"
    /\ Advance(a, "prepared")
    /\ UNCHANGED <<rowVars, candidate, former, outcome>>

(* The candidate is no longer healthy, its wake failed, or 30 seconds passed. *)
WakeFails(a) ==
    /\ call[a] = "waking"
    /\ Return(a, "unchanged")
    /\ UNCHANGED <<rowVars, candidate, former>>

-----------------------------------------------------------------------------
(* _activate_prepared_workspace_deployment. *)

(* Mutant: what the wake saw is trusted under the lock. *)
SwitchableAsPrepared(d) == d \in Deployments

Switchable(d) ==
    /\ status[d] = "ready"
    /\ d \in Static \/ runtime[d] = "running"

SwitchRoute(a) ==
    /\ call[a] = "prepared"
    /\ Switchable(candidate[a])
    /\ former' = [former EXCEPT ![a] = active]
    /\ PointRouteAt(candidate[a])
    /\ runtimeStatus' = "ready"
    /\ Advance(a, "probing")
    /\ UNCHANGED <<status, leaseVars, runtime, everHealthy, repairs, candidate,
                   outcome>>

(* The lock finds the candidate not running (route_changed False), or not    *)
(* ready, not accepted, or behind the database release gate.                 *)
SwitchRefused(a) ==
    /\ call[a] = "prepared"
    /\ \/ Return(a, "refused")
       \/ /\ status[candidate[a]] = "ready"
          /\ ~Switchable(candidate[a])
          /\ Return(a, "unchanged")
    /\ UNCHANGED <<rowVars, candidate, former>>

(* _verify_public_deployment_route sees the candidate's id behind the URL. *)
ProbeAnswers(a) ==
    /\ call[a] = "probing"
    /\ Served(candidate[a])
    /\ Advance(a, "answered")
    /\ UNCHANGED <<rowVars, candidate, former, outcome>>

(* Mutant: the confirmation does not read the route again. *)
StillRoutedOnProbe(a) == call[a] = "answered"

StillRouted(a) == active = candidate[a]

ConfirmRoute(a) ==
    /\ call[a] = "answered"
    /\ Return(a, IF StillRouted(a) THEN "verified" ELSE "superseded")
    /\ UNCHANGED <<rowVars, candidate, former>>

(* Mutant: a failed caller puts its former route back in any case. *)
MayRestoreAlways(a) == a \in Callers

MayRestore(a) == active = candidate[a]

(* The probe timed out: the former route comes back if the candidate still   *)
(* holds the route; the candidate is marked failed either way.               *)
RestoreFormer(a) ==
    /\ call[a] = "probing"
    /\ IF MayRestore(a)
       THEN /\ PointRouteAt(former[a])
            /\ runtimeStatus' = StatusOfRoute(former[a], "failed")
            /\ Return(a, "restored")
       ELSE /\ UNCHANGED <<routeVars, runtimeStatus>>
            /\ Return(a, "superseded")
    /\ status' = [status EXCEPT ![candidate[a]] = "failed"]
    /\ UNCHANGED <<leaseVars, runtime, everHealthy, repairs, candidate, former>>

(* The API process dies; nothing resumes its call. *)
CallDies(a) ==
    /\ call[a] # "idle"
    /\ Return(a, "none")
    /\ UNCHANGED <<rowVars, candidate, former>>

CallStep(a) ==
    \/ \E d \in Deployments : Prepare(a, d)
    \/ SeesRunning(a)
    \/ WakeFails(a)
    \/ SwitchRoute(a)
    \/ SwitchRefused(a)
    \/ ProbeAnswers(a)
    \/ ConfirmRoute(a)
    \/ RestoreFormer(a)
    \/ CallDies(a)

-----------------------------------------------------------------------------
(* The surroundings of the callers. *)

(* The scale-to-zero controller (module RuntimeLifecycle), seen from here: a *)
(* requested wake succeeds or fails, an idle runtime is suspended, and a     *)
(* gateway request asks for a wake.                                          *)
LifecycleStep(d) ==
    /\ status[d] = "ready"
    /\ d \in PublicServices \ Static
    /\ \/ /\ runtime[d] = "wake_requested"
          /\ \E next \in {"running", "error"} : runtime' = [runtime EXCEPT ![d] = next]
       \/ /\ runtime[d] = "running"
          /\ runtime' = [runtime EXCEPT ![d] = "suspended"]
       \/ /\ runtime[d] \in {"suspended", "error"}
          /\ active = d
          /\ runtime' = [runtime EXCEPT ![d] = "wake_requested"]
    /\ UNCHANGED <<status, leaseVars, routeVars, runtimeStatus, everHealthy, repairs>>

(* A build of the deployment queue that does not activate, in one step. *)
BuildEnds(d) ==
    /\ status[d] = "queued"
    /\ d \notin AutoActivated
    /\ \/ /\ status' = [status EXCEPT ![d] = "ready"]
          /\ everHealthy' = everHealthy \union {d}
          /\ runtime' = [runtime EXCEPT ![d] =
                 IF d \in PublicServices \ Static THEN "running" ELSE "not_applicable"]
          /\ runtimeStatus' = StatusOfRoute(active, "provisioned")
       \/ /\ status' = [status EXCEPT ![d] = "failed"]
          /\ runtimeStatus' = StatusOfRoute(active, "failed")
          /\ UNCHANGED <<everHealthy, runtime>>
    /\ UNCHANGED <<leaseVars, routeVars, repairs>>

SurroundingsNext ==
    \/ ApiNext
    \/ \E d \in Deployments : LifecycleStep(d) \/ BuildEnds(d)

activationVars == <<rowVars, callVars>>

ActivationInit == RowsInit /\ CallsInit

ActivationNext ==
    \/ SurroundingsNext /\ UNCHANGED callVars
    \/ \E a \in Callers : CallStep(a)

ActivationSpec == ActivationInit /\ [][ActivationNext]_activationVars

-----------------------------------------------------------------------------
(* Properties of the callers. *)

ActivationTypeOK == RowsTypeOK /\ CallsTypeOK

(* A call whose probe failed never moves a route that another activation has *)
(* taken over since.                                                         *)
FailureSparesOtherRoutes ==
    [][\A a \in Callers :
           outcome'[a] # outcome[a] /\ active # candidate[a]
               => active' = active]_activationVars

(* A call that reports a verified route reports it of the revision that holds *)
(* the route at that very moment, not of the one it held while probed.        *)
VerifiedHoldsRoute ==
    [][\A a \in Callers :
           outcome[a] # "verified" /\ outcome'[a] = "verified"
               => active' = candidate[a]]_activationVars

(* The route is only ever given to a revision that is ready and whose runtime *)
(* is up at that moment, although the wake was awaited without a lock; giving *)
(* it back to a former holder is the only exception.                          *)
RouteGivenToRunning ==
    [][\A a \in Callers :
           call[a] = "prepared" /\ call'[a] = "probing"
               => /\ status[active'] = "ready"
                  /\ active' \in Static \/ runtime[active'] = "running"]_activationVars

=============================================================================
