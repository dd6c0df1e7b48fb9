------------------------- MODULE RouteActivationProofs -------------------------
(***************************************************************************)
(* Theorems about explicit activations, for any number of callers and      *)
(* deployments.  The lemmas about a single step of a caller are what the   *)
(* proofs of the modules that compose callers with others rest on.         *)
(***************************************************************************)
EXTENDS RouteActivation, TLAPS

(* A caller at work has a candidate at hand. *)
CallsAreForSomething ==
    \A a \in Callers : call[a] # "idle" => candidate[a] \in Deployments

CallsInv == RowsTypeOK /\ CallsTypeOK /\ CallsAreForSomething

-----------------------------------------------------------------------------
(* Types, handler by handler. *)

LEMMA RowsInitTyped == RowsInit => RowsTypeOK
  BY RowsAssumption
  DEF RowsInit, RowsTypeOK, Statuses, RuntimeStates, RuntimeStatuses, Routes, NoDeployment

LEMMA CallsInitTyped == CallsInit => CallsTypeOK /\ CallsAreForSomething
  BY DEF CallsInit, CallsTypeOK, CallsAreForSomething, Calls, Outcomes, Routes, NoDeployment

LEMMA ApiKeepsTypes ==
    ASSUME RowsTypeOK, NEW d \in Deployments,
           RequestDeployment(d) \/ CancelDeployment(d) \/ RepairDeployment(d)
    PROVE  RowsTypeOK'
<1> USE RowsAssumption DEF RowsTypeOK, Statuses, RuntimeStatuses
<1>1. CASE RequestDeployment(d)
  BY <1>1 DEF RequestDeployment, leaseVars, routeVars
<1>2. CASE CancelDeployment(d)
  BY <1>2 DEF CancelDeployment, leaseVars, routeVars
<1>3. CASE RepairDeployment(d)
  BY <1>3 DEF RepairDeployment, ReleaseLease, routeVars
<1> QED
  BY <1>1, <1>2, <1>3

LEMMA SurroundingsKeepTypes ==
    ASSUME RowsTypeOK, NEW d \in Deployments, LifecycleStep(d) \/ BuildEnds(d)
    PROVE  RowsTypeOK'
<1> USE DEF RowsTypeOK, Statuses, RuntimeStates, RuntimeStatuses
<1>1. CASE LifecycleStep(d)
  BY <1>1 DEF LifecycleStep, leaseVars, routeVars
<1>2. CASE BuildEnds(d)
  BY <1>2 DEF BuildEnds, StatusOfRoute, leaseVars, routeVars
<1> QED
  BY <1>1, <1>2

LEMMA PrepareKeepsTypes ==
    ASSUME CallsInv, NEW a \in Callers, NEW d \in Deployments, Prepare(a, d)
    PROVE  CallsInv'
<1> USE DEF CallsInv, RowsTypeOK, CallsTypeOK, CallsAreForSomething
<1>1. /\ candidate' = [candidate EXCEPT ![a] = d]
      /\ outcome' = [outcome EXCEPT ![a] = "none"]
      /\ \E next \in {"prepared", "waking"} : call' = [call EXCEPT ![a] = next]
      /\ runtime' \in {runtime, [runtime EXCEPT ![d] = "wake_requested"]}
      /\ UNCHANGED <<status, leaseOwner, leaseExpired, active, pagesPointer,
                     runtimeStatus, everHealthy, repairs, former>>
  BY DEF Prepare, Advance, leaseVars, routeVars
<1> QED
  BY <1>1 DEF Calls, Outcomes, Routes, RuntimeStates

LEMMA CallKeepsTypes ==
    ASSUME CallsInv, NEW a \in Callers, CallStep(a)
    PROVE  CallsInv'
<1> USE DEF CallsInv
<1>1. ASSUME NEW d \in Deployments, Prepare(a, d)
      PROVE  CallsInv'
  BY <1>1, PrepareKeepsTypes
<1>2. CASE SeesRunning(a)
  BY <1>2 DEF SeesRunning, Advance, rowVars, RowsTypeOK, CallsTypeOK,
              CallsAreForSomething, Calls
<1>3. CASE WakeFails(a) \/ SwitchRefused(a) \/ ConfirmRoute(a) \/ CallDies(a)
  BY <1>3 DEF WakeFails, SwitchRefused, ConfirmRoute, CallDies, Return, Advance, rowVars,
              RowsTypeOK, CallsTypeOK, CallsAreForSomething, Calls, Outcomes
<1>4. CASE SwitchRoute(a)
  BY <1>4 DEF SwitchRoute, PointRouteAt, Advance, leaseVars, RowsTypeOK, CallsTypeOK,
              CallsAreForSomething, Calls, RuntimeStatuses
<1>5. CASE ProbeAnswers(a)
  BY <1>5 DEF ProbeAnswers, Advance, rowVars, RowsTypeOK, CallsTypeOK,
              CallsAreForSomething, Calls
<1>6. CASE RestoreFormer(a)
  BY <1>6 DEF RestoreFormer, PointRouteAt, StatusOfRoute, Return, Advance, leaseVars,
              routeVars, RowsTypeOK, CallsTypeOK, CallsAreForSomething, Calls, Outcomes,
              RuntimeStatuses, Statuses
<1> QED
  BY <1>1, <1>2, <1>3, <1>4, <1>5, <1>6 DEF CallStep

LEMMA InitCalls == ActivationInit => CallsInv
  BY RowsInitTyped, CallsInitTyped DEF ActivationInit, CallsInv

LEMMA StepCalls == CallsInv /\ [ActivationNext]_activationVars => CallsInv'
<1> SUFFICES ASSUME CallsInv, [ActivationNext]_activationVars
             PROVE  CallsInv'
  OBVIOUS
<1>1. CASE UNCHANGED callVars
           /\ \E d \in Deployments :
                  \/ RequestDeployment(d) \/ CancelDeployment(d) \/ RepairDeployment(d)
                  \/ LifecycleStep(d) \/ BuildEnds(d)
  <2>1. RowsTypeOK'
    BY <1>1, ApiKeepsTypes, SurroundingsKeepTypes DEF CallsInv
  <2> QED
    BY <1>1, <2>1 DEF CallsInv, callVars, CallsTypeOK, CallsAreForSomething
<1>2. CASE \E a \in Callers : CallStep(a)
  BY <1>2, CallKeepsTypes
<1>3. CASE UNCHANGED activationVars
  BY <1>3 DEF activationVars, rowVars, callVars, CallsInv, RowsTypeOK, CallsTypeOK,
              CallsAreForSomething
<1> QED
  BY <1>1, <1>2, <1>3 DEF ActivationNext, SurroundingsNext, ApiNext

(* Every row and every caller keeps its type. *)
THEOREM ActivationTypeCorrect == ActivationSpec => []ActivationTypeOK
<1>1. CallsInv => ActivationTypeOK
  BY DEF CallsInv, ActivationTypeOK
<1> QED
  BY InitCalls, StepCalls, <1>1, PTL DEF ActivationSpec

-----------------------------------------------------------------------------
(* What a step of a caller does to the route. *)

(* A step of a caller leaves the other callers alone. *)
LEMMA CallIsOwn ==
    ASSUME CallsInv, NEW a \in Callers, NEW b \in Callers, a # b, CallStep(a)
    PROVE  /\ outcome'[b] = outcome[b]
           /\ call'[b] = call[b]
           /\ candidate'[b] = candidate[b]
           /\ former'[b] = former[b]
  BY DEF CallsInv, CallsTypeOK, CallStep, Prepare, SeesRunning, WakeFails, SwitchRoute,
         SwitchRefused, ProbeAnswers, ConfirmRoute, RestoreFormer, CallDies, Return, Advance

(* A step that ends a call moves the route only away from its own candidate. *)
LEMMA EndSparesOthers ==
    ASSUME CallsInv, NEW a \in Callers, CallStep(a), outcome'[a] # outcome[a],
           active # candidate[a]
    PROVE  active' = active
  BY DEF CallsInv, CallsTypeOK, CallStep, Prepare, SeesRunning, WakeFails, SwitchRoute,
         SwitchRefused, ProbeAnswers, ConfirmRoute, RestoreFormer, MayRestore, CallDies,
         Return, Advance, rowVars, routeVars

(* A step that verifies finds the route on its candidate and leaves it there. *)
LEMMA VerifiedIsRouted ==
    ASSUME CallsInv, NEW a \in Callers, CallStep(a), outcome[a] # "verified",
           outcome'[a] = "verified"
    PROVE  active' = candidate[a]
  BY DEF CallsInv, CallsTypeOK, CallStep, Prepare, SeesRunning, WakeFails, SwitchRoute,
         SwitchRefused, ProbeAnswers, ConfirmRoute, StillRouted, RestoreFormer, CallDies,
         Return, Advance, rowVars, routeVars

(* A step that gives the route away gives it to a revision that is up. *)
LEMMA SwitchedIsRunning ==
    ASSUME CallsInv, NEW a \in Callers, CallStep(a), call[a] = "prepared",
           call'[a] = "probing"
    PROVE  /\ status[active'] = "ready"
           /\ active' \in Static \/ runtime[active'] = "running"
  BY DEF CallsInv, CallsTypeOK, CallStep, Prepare, SeesRunning, WakeFails, SwitchRoute,
         Switchable, SwitchRefused, ProbeAnswers, ConfirmRoute, RestoreFormer, CallDies,
         Return, Advance, PointRouteAt

-----------------------------------------------------------------------------

(* A call whose probe failed, whose wake failed or whose process died does    *)
(* not move a route that somebody else has taken over since, however many     *)
(* callers act on the workspace.                                              *)
THEOREM FailuresSpareOtherRoutes == ActivationSpec => FailureSparesOtherRoutes
<1>1. CallsInv /\ [ActivationNext]_activationVars =>
          [\A a \in Callers :
               outcome'[a] # outcome[a] /\ active # candidate[a]
                   => active' = active]_activationVars
  <2> SUFFICES ASSUME CallsInv, ActivationNext, NEW a \in Callers,
                      outcome'[a] # outcome[a], active # candidate[a]
               PROVE  active' = active
    OBVIOUS
  <2>1. PICK b \in Callers : CallStep(b)
    BY DEF ActivationNext, callVars
  <2>2. a = b
    BY <2>1, CallIsOwn
  <2> QED
    BY <2>1, <2>2, EndSparesOthers
<1> QED
  BY InitCalls, StepCalls, <1>1, PTL DEF ActivationSpec, FailureSparesOtherRoutes

(* A call reports a verified route only of the revision that holds the route  *)
(* at that moment.                                                            *)
THEOREM VerifiedCallsHoldRoute == ActivationSpec => VerifiedHoldsRoute
<1>1. CallsInv /\ [ActivationNext]_activationVars =>
          [\A a \in Callers :
               outcome[a] # "verified" /\ outcome'[a] = "verified"
                   => active' = candidate[a]]_activationVars
  <2> SUFFICES ASSUME CallsInv, ActivationNext, NEW a \in Callers,
                      outcome[a] # "verified", outcome'[a] = "verified"
               PROVE  active' = candidate[a]
    OBVIOUS
  <2>1. PICK b \in Callers : CallStep(b)
    BY DEF ActivationNext, callVars
  <2>2. a = b
    BY <2>1, CallIsOwn
  <2> QED
    BY <2>1, <2>2, VerifiedIsRouted
<1> QED
  BY InitCalls, StepCalls, <1>1, PTL DEF ActivationSpec, VerifiedHoldsRoute

(* A call gives the route only to a revision that is ready and up under the   *)
(* lock of the switch, whatever happened to it while its wake was awaited.    *)
THEOREM SwitchesGoToRunning == ActivationSpec => RouteGivenToRunning
<1>1. CallsInv /\ [ActivationNext]_activationVars =>
          [\A a \in Callers :
               call[a] = "prepared" /\ call'[a] = "probing"
                   => /\ status[active'] = "ready"
                      /\ active' \in Static \/ runtime[active'] = "running"]_activationVars
  <2> SUFFICES ASSUME CallsInv, ActivationNext, NEW a \in Callers,
                      call[a] = "prepared", call'[a] = "probing"
               PROVE  /\ status[active'] = "ready"
                      /\ active' \in Static \/ runtime[active'] = "running"
    OBVIOUS
  <2>1. PICK b \in Callers : CallStep(b)
    BY DEF ActivationNext, callVars
  <2>2. a = b
    BY <2>1, CallIsOwn
  <2> QED
    BY <2>1, <2>2, SwitchedIsRunning
<1> QED
  BY InitCalls, StepCalls, <1>1, PTL DEF ActivationSpec, RouteGivenToRunning

=============================================================================
