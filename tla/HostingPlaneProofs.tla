-------------------------- MODULE HostingPlaneProofs --------------------------
(***************************************************************************)
(* Theorems about the whole hosting data plane of a workspace: what module *)
(* RuntimeControllerProofs shows of the queue alone still holds when any   *)
(* number of API requests activate deployments on the same rows.           *)
(***************************************************************************)
EXTENDS HostingPlane, RuntimeControllerProofs, RouteActivationProofs

(* A step that is not the queue's own. *)
OutsideQueue ==
    /\ \/ \E a \in Callers : CallStep(a)
       \/ (\E d \in Deployments : LifecycleStep(d)) /\ UNCHANGED callVars
    /\ UNCHANGED <<workerVars, container, crashes>>

PlaneBase == BaseInv /\ CallsInv

(* A caller may mark its candidate failed and may give the route to it or     *)
(* back to the former holder: all three are safe because the candidate was    *)
(* ready, the former one routed, and both are therefore proven.               *)
ReadyIsProven == \A d \in Deployments : status[d] = "ready" => d \in everHealthy

CandidatesAreProven ==
    \A a \in Callers : call[a] # "idle" => candidate[a] \in everHealthy

FormersAreProven == \A a \in Callers : former[a] \in everHealthy \union {NoDeployment}

CandidatesAreRequested ==
    \A a \in Callers :
        call[a] # "idle" => status[candidate[a]] \notin {"absent", "rolled_back"}

CallersAreSafe ==
    ReadyIsProven /\ CandidatesAreProven /\ FormersAreProven /\ CandidatesAreRequested

PlaneLedgerInv == PlaneBase /\ LedgerInv /\ CallersAreSafe

-----------------------------------------------------------------------------

LEMMA PlaneCases ==
    ASSUME [PlaneNext]_planeVars
    PROVE  \/ [ControllerNext]_controllerVars /\ UNCHANGED callVars
           \/ OutsideQueue
  BY DEF PlaneNext, OutsideQueue, planeVars

LEMMA InitPlane == PlaneInit => PlaneBase
  BY InitBase, CallsInitTyped DEF PlaneInit, PlaneBase, BaseInv, ControllerTypeOK, CallsInv

LEMMA StepPlane == PlaneBase /\ [PlaneNext]_planeVars => PlaneBase'
<1> SUFFICES ASSUME PlaneBase, [PlaneNext]_planeVars
             PROVE  PlaneBase'
  OBVIOUS
<1>1. CASE [ControllerNext]_controllerVars /\ UNCHANGED callVars
  <2>1. BaseInv'
    BY <1>1, StepBase DEF PlaneBase
  <2> QED
    BY <1>1, <2>1
    DEF PlaneBase, BaseInv, ControllerTypeOK, CallsInv, CallsTypeOK, CallsAreForSomething,
        callVars
<1>2. CASE OutsideQueue
  <2>1. CASE \E a \in Callers : CallStep(a)
    <3>1. CallsInv'
      BY <2>1, CallKeepsTypes DEF PlaneBase
    <3> QED
      BY <1>2, <3>1
      DEF OutsideQueue, PlaneBase, BaseInv, ControllerTypeOK, WorksOnSomething, CallsInv,
          workerVars
  <2>2. CASE (\E d \in Deployments : LifecycleStep(d)) /\ UNCHANGED callVars
    <3>1. RowsTypeOK'
      BY <2>2, SurroundingsKeepTypes DEF PlaneBase, CallsInv
    <3> QED
      BY <1>2, <2>2, <3>1
      DEF OutsideQueue, PlaneBase, BaseInv, ControllerTypeOK, WorksOnSomething, CallsInv,
          CallsTypeOK, CallsAreForSomething, workerVars, callVars
  <2> QED
    BY <1>2, <2>1, <2>2 DEF OutsideQueue
<1> QED
  BY <1>1, <1>2, PlaneCases

(* Every row, every worker and every caller keeps its type. *)
THEOREM PlaneTypeCorrect == PlaneSpec => []PlaneTypeOK
<1>1. PlaneBase => PlaneTypeOK
  BY DEF PlaneBase, BaseInv, CallsInv, PlaneTypeOK
<1> QED
  BY InitPlane, StepPlane, <1>1, PTL DEF PlaneSpec

-----------------------------------------------------------------------------

LEMMA OutsideKeepsColumns ==
    ASSUME PlaneBase, ColumnsInv, OutsideQueue
    PROVE  StatusAgreesWithRoute' /\ PagesPointerFollowsRoute'
<1> USE DEF ColumnsInv, StatusAgreesWithRoute, PagesPointerFollowsRoute
<1>1. CASE UNCHANGED <<routeVars, runtimeStatus>>
  BY <1>1 DEF routeVars
<1>2. ASSUME NEW a \in Callers, SwitchRoute(a)
      PROVE  StatusAgreesWithRoute' /\ PagesPointerFollowsRoute'
  <2>1. candidate[a] # NoDeployment
    BY <1>2 DEF SwitchRoute, PlaneBase, CallsInv, CallsAreForSomething, Deployments,
                NoDeployment
  <2> QED
    BY <1>2, <2>1 DEF SwitchRoute, PointRouteAt
<1>3. ASSUME NEW a \in Callers, RestoreFormer(a)
      PROVE  StatusAgreesWithRoute' /\ PagesPointerFollowsRoute'
  BY <1>3 DEF RestoreFormer, PointRouteAt, StatusOfRoute, routeVars
<1>4. ASSUME NEW a \in Callers, NEW d \in Deployments, Prepare(a, d)
      PROVE  UNCHANGED <<routeVars, runtimeStatus>>
  BY <1>4 DEF Prepare
<1>5. ASSUME NEW a \in Callers,
             \/ SeesRunning(a) \/ WakeFails(a) \/ SwitchRefused(a)
             \/ ProbeAnswers(a) \/ ConfirmRoute(a) \/ CallDies(a)
      PROVE  UNCHANGED <<routeVars, runtimeStatus>>
  BY <1>5 DEF SeesRunning, WakeFails, SwitchRefused, ProbeAnswers, ConfirmRoute, CallDies,
              rowVars, routeVars
<1>6. ASSUME NEW d \in Deployments, LifecycleStep(d)
      PROVE  UNCHANGED <<routeVars, runtimeStatus>>
  BY <1>6 DEF LifecycleStep
<1> QED
  BY <1>1, <1>2, <1>3, <1>4, <1>5, <1>6 DEF OutsideQueue, CallStep

(* The columns that speak of the route agree after every transaction of the   *)
(* queue, of the API and of every activation that overlaps with them.         *)
THEOREM PlaneColumnsAgree == PlaneSpec => []ColumnsAgree
<1>1. PlaneInit => ColumnsInv
  BY InitColumns DEF PlaneInit
<1>2. PlaneBase /\ ColumnsInv /\ [PlaneNext]_planeVars => ColumnsInv'
  BY StepColumns, StepPlane, PlaneCases, OutsideKeepsColumns DEF ColumnsInv, PlaneBase
<1>3. ColumnsInv => ColumnsAgree
  BY DEF ColumnsInv, ColumnsAgree
<1> QED
  BY InitPlane, StepPlane, <1>1, <1>2, <1>3, PTL DEF PlaneSpec

-----------------------------------------------------------------------------
(* The route and the ledger. *)

LEMMA InitPlaneLedger == PlaneInit => PlaneLedgerInv
  BY InitPlane, InitLedger
  DEF PlaneInit, PlaneLedgerInv, CallersAreSafe, ReadyIsProven, CandidatesAreProven,
      FormersAreProven, CandidatesAreRequested, CallsInit, ControllerInit, RowsInit

(* What the callers rely on is not taken back by any step of the queue. *)
LEMMA QueueKeepsCallersSafe ==
    ASSUME PlaneLedgerInv, [ControllerNext]_controllerVars, UNCHANGED callVars
    PROVE  CallersAreSafe'
<1> BaseInv /\ PlaneBase
  BY DEF PlaneLedgerInv, PlaneBase
<1> USE DEF PlaneBase, BaseInv, ControllerTypeOK, RowsTypeOK, WorksOnSomething, PlaneLedgerInv,
            CallersAreSafe, ReadyIsProven, CandidatesAreProven, FormersAreProven,
            CandidatesAreRequested, CallsInv, CallsAreForSomething, callVars
<1>1. ASSUME NEW d \in Deployments,
             RequestDeployment(d) \/ CancelDeployment(d) \/ RepairDeployment(d)
      PROVE  CallersAreSafe'
  BY <1>1 DEF RequestDeployment, CancelDeployment, RepairDeployment
<1>2. ASSUME NEW w \in Workers, Claim(w)
      PROVE  CallersAreSafe'
  BY <1>2 DEF Claim
<1>3. ASSUME NEW w \in Workers, Publish(w)
      PROVE  CallersAreSafe'
  <2>1. target[w] \in Deployments
    BY <1>3 DEF Publish
  <2>2. \/ UNCHANGED <<status, everHealthy>>
        \/ /\ status' = [status EXCEPT ![target[w]] = "ready"]
           /\ everHealthy' = everHealthy \union {target[w]}
    BY <1>3 DEF Publish
  <2> QED
    BY <2>1, <2>2
<1>4. ASSUME NEW w \in Workers, RouteFails(w) \/ Fail(w)
      PROVE  CallersAreSafe'
  BY <1>4 DEF RouteFails, MarkFailed, Fail
<1>5. CASE UNCHANGED <<status, everHealthy>>
  BY <1>5
<1>6. ASSUME NEW w \in Workers,
             StartContainers(w) \/ BuildRaises(w) \/ PublishRaises(w)
             \/ RouteAnswers(w) \/ RemoveContainers(w) \/ Crash(w)
      PROVE  UNCHANGED <<status, everHealthy>>
  BY <1>6 DEF StartContainers, BuildRaises, PublishRaises, RouteAnswers,
              RemoveContainers, Crash, rowVars
<1>7. ASSUME NEW d \in Deployments, LeaseRunsOut(d)
      PROVE  UNCHANGED <<status, everHealthy>>
  BY <1>7 DEF LeaseRunsOut
<1>8. CASE UNCHANGED controllerVars
  BY <1>5, <1>8 DEF controllerVars, rowVars
<1> QED
  BY <1>1, <1>2, <1>3, <1>4, <1>5, <1>6, <1>7, <1>8
  DEF ControllerNext, ApiNext, WorkerStep

(* Nor does a step of a caller take back what the workers and the other       *)
(* callers rely on; to the ledger it is a move of the route to a proven       *)
(* deployment, a failure of its candidate, or nothing.                        *)
LEMMA OutsideKeepsLedger ==
    ASSUME PlaneLedgerInv, OutsideQueue
    PROVE  /\ FencedRoute' /\ TargetsAreRequested' /\ LeaseMeansBuild' /\ CallersAreSafe'
           /\ Ledger!LedgerNext \/ UNCHANGED Ledger!ledgerVars
<1> DEFINE Kept == /\ FencedRoute' /\ TargetsAreRequested' /\ LeaseMeansBuild'
                   /\ CallersAreSafe'
                   /\ Ledger!LedgerNext \/ UNCHANGED Ledger!ledgerVars
<1> SUFFICES Kept
  OBVIOUS
<1> UNCHANGED <<workerVars, container, crashes>>
  BY DEF OutsideQueue
<1> PlaneBase /\ BaseInv /\ RouteInv /\ CallsInv
  BY DEF PlaneLedgerInv, PlaneBase, LedgerInv
<1> USE DEF PlaneLedgerInv, LedgerInv, RouteInv, FencedRoute, RouteWasHealthy,
            WorkersAreFenced, Holds, VerifyingIsProven, PreviousIsProven,
            TargetsAreRequested, LeaseMeansBuild,
            CallersAreSafe, ReadyIsProven, CandidatesAreProven, FormersAreProven,
            CandidatesAreRequested,
            BaseInv, ControllerTypeOK, RowsTypeOK, WorksOnSomething, CallsInv, CallsTypeOK,
            CallsAreForSomething, workerVars,
            Ledger!LedgerNext, Ledger!ledgerVars
<1>1. ASSUME NEW a \in Callers, NEW d \in Deployments, Prepare(a, d)
      PROVE  Kept
  <2>1. /\ UNCHANGED <<status, leaseOwner, leaseExpired, active, everHealthy, former>>
        /\ candidate' = [candidate EXCEPT ![a] = d]
        /\ status[d] = "ready"
        /\ \A b \in Callers : b # a => call'[b] = call[b]
    BY <1>1 DEF Prepare, Advance, leaseVars, routeVars
  <2> QED
    BY <2>1
<1>2. ASSUME NEW a \in Callers, SwitchRoute(a)
      PROVE  Kept
  <2>1. /\ UNCHANGED <<status, leaseOwner, leaseExpired, everHealthy, candidate>>
        /\ former' = [former EXCEPT ![a] = active]
        /\ active' = candidate[a]
        /\ call[a] # "idle"
        /\ \A b \in Callers : b # a => call'[b] = call[b]
    BY <1>2 DEF SwitchRoute, PointRouteAt, Advance, leaseVars
  <2>2. candidate[a] \in everHealthy
    BY <2>1
  <2>3. Ledger!Reroute
    BY <2>1, <2>2 DEF Ledger!Reroute
  <2> QED
    BY <2>1, <2>2, <2>3
<1>3. ASSUME NEW a \in Callers, RestoreFormer(a)
      PROVE  Kept
  <2>1. /\ UNCHANGED <<leaseOwner, leaseExpired, everHealthy, candidate, former>>
        /\ status' = [status EXCEPT ![candidate[a]] = "failed"]
        /\ active' \in {active, former[a]}
        /\ call[a] # "idle"
        /\ call'[a] = "idle"
        /\ \A b \in Callers : b # a => call'[b] = call[b]
    BY <1>3 DEF RestoreFormer, PointRouteAt, Return, Advance, leaseVars, routeVars
  <2>2. /\ candidate[a] \in everHealthy \intersect Deployments
        /\ status[candidate[a]] \in Statuses \ {"absent", "rolled_back"}
    BY <2>1
  <2>3. Ledger!Break(candidate[a])
    BY <2>1, <2>2 DEF Ledger!Break, Ledger!Moves, Statuses
  <2>4. FencedRoute' /\ TargetsAreRequested'
    BY <2>1, <2>2
  <2>5. LeaseMeansBuild' /\ CallersAreSafe'
    BY <2>1, <2>2
  <2> QED
    BY <2>2, <2>3, <2>4, <2>5
<1>4. CASE /\ UNCHANGED <<status, leaseOwner, leaseExpired, active, everHealthy>>
           /\ UNCHANGED <<candidate, former>>
           /\ \A b \in Callers : call'[b] = "idle" \/ call[b] # "idle"
  BY <1>4
<1>5. ASSUME NEW a \in Callers,
             \/ SeesRunning(a) \/ WakeFails(a) \/ SwitchRefused(a)
             \/ ProbeAnswers(a) \/ ConfirmRoute(a) \/ CallDies(a)
      PROVE  Kept
  BY <1>4, <1>5 DEF SeesRunning, WakeFails, SwitchRefused, ProbeAnswers, ConfirmRoute,
                    CallDies, Return, Advance, rowVars
<1>6. ASSUME NEW d \in Deployments, LifecycleStep(d), UNCHANGED callVars
      PROVE  Kept
  BY <1>4, <1>6 DEF LifecycleStep, leaseVars, routeVars, callVars
<1> QED
  BY <1>1, <1>2, <1>3, <1>5, <1>6 DEF OutsideQueue, CallStep

LEMMA StepPlaneLedger ==
    ASSUME BuildsAreFenced
    PROVE  PlaneLedgerInv /\ [PlaneNext]_planeVars =>
               PlaneLedgerInv' /\ [Ledger!LedgerNext]_(Ledger!ledgerVars)
<1> SUFFICES ASSUME PlaneLedgerInv, [PlaneNext]_planeVars
             PROVE  PlaneLedgerInv' /\ [Ledger!LedgerNext]_(Ledger!ledgerVars)
  OBVIOUS
<1>1. PlaneBase'
  BY StepPlane DEF PlaneLedgerInv
<1>2. CASE [ControllerNext]_controllerVars /\ UNCHANGED callVars
  <2>1. LedgerInv' /\ [Ledger!LedgerNext]_(Ledger!ledgerVars)
    BY <1>2, StepLedger, StepMapsToLedger DEF PlaneLedgerInv
  <2>2. CallersAreSafe'
    BY <1>2, QueueKeepsCallersSafe
  <2> QED
    BY <1>1, <2>1, <2>2 DEF PlaneLedgerInv
<1>3. CASE OutsideQueue
  <2>1. /\ FencedRoute' /\ TargetsAreRequested' /\ LeaseMeansBuild' /\ CallersAreSafe'
        /\ Ledger!LedgerNext \/ UNCHANGED Ledger!ledgerVars
    BY <1>3, OutsideKeepsLedger
  <2>2. LedgerInv'
    BY <1>1, <2>1 DEF LedgerInv, RouteInv, FencedRoute, PlaneBase
  <2> QED
    BY <1>1, <2>1, <2>2 DEF PlaneLedgerInv
<1> QED
  BY <1>2, <1>3, PlaneCases

(* With a single controller, or as long as no build outlives its lease, the   *)
(* public route never points at a revision that did not pass the health gate, *)
(* although the queue and the activations both move it, and both put a former *)
(* route back when a probe fails.                                             *)
THEOREM PlaneRouteStaysHealthy ==
    ASSUME BuildsAreFenced
    PROVE  PlaneSpec => []RouteWasHealthy
<1>1. PlaneLedgerInv => RouteWasHealthy
  BY DEF PlaneLedgerInv, LedgerInv, RouteInv
<1> QED
  BY InitPlaneLedger, StepPlaneLedger, <1>1, PTL DEF PlaneSpec

(* Under the same condition the queue together with the activations still     *)
(* implements the ledger that whoever watches a deployment relies on.         *)
THEOREM PlaneImplementsLedger ==
    ASSUME BuildsAreFenced
    PROVE  PlaneSpec => ImplementsLedger
<1>1. PlaneInit => Ledger!LedgerInit
  BY DEF PlaneInit, ControllerInit, RowsInit, Ledger!LedgerInit
<1> QED
  BY InitPlaneLedger, StepPlaneLedger, <1>1, PTL
  DEF PlaneSpec, ImplementsLedger, Ledger!LedgerSpec

=============================================================================
