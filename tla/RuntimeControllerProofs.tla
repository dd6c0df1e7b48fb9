------------------------ MODULE RuntimeControllerProofs ------------------------
(***************************************************************************)
(* Theorems about the deployment queue, for every number of deployments,   *)
(* workers, repairs and crashes.                                           *)
(***************************************************************************)
EXTENDS RuntimeController, TLAPS

(* A worker that is not idle has a deployment at hand. *)
WorksOnSomething ==
    \A w \in Workers : phase[w] # "idle" => target[w] \in Deployments

(* A single controller, as compose.production.yaml runs one. *)
OneWorker == \A v, w \in Workers : v = w

(* Two builds of one deployment are impossible: nobody else is there to claim *)
(* it, or its lease lasts until the build has ended.                          *)
BuildsAreFenced == OneWorker \/ LeaseCoversBuild

(* The lease of d is w's, nobody else may take it, and nobody but w decided   *)
(* the fate of d since w claimed it, except that its owner may have cancelled *)
(* it.                                                                        *)
Holds(w, d) ==
    /\ leaseOwner[d] = w
    /\ OneWorker \/ ~leaseExpired[d]
    /\ status[d] \in {"building", "cancelled"}

(* A worker either holds its deployment or works on one that is proven: this *)
(* is what keeps the route on proven deployments, because Publish moves it   *)
(* without looking at the lease.                                             *)
WorkersAreFenced ==
    \A w \in Workers :
        phase[w] # "idle" => Holds(w, target[w]) \/ target[w] \in everHealthy

(* A worker that verifies or cleans up has published its deployment. *)
VerifyingIsProven ==
    \A w \in Workers :
        phase[w] \in {"verifying", "cleanup"} => target[w] \in everHealthy

(* So is the route it may go back to. *)
PreviousIsProven ==
    \A w \in Workers : previous[w] \in everHealthy \union {NoDeployment}

BaseInv == ControllerTypeOK /\ WorksOnSomething

ColumnsInv == BaseInv /\ StatusAgreesWithRoute /\ PagesPointerFollowsRoute

RouteInv ==
    /\ BaseInv
    /\ RouteWasHealthy
    /\ WorkersAreFenced
    /\ VerifyingIsProven
    /\ PreviousIsProven

(* A deployment at hand was requested, and the queue retires nothing; a lease *)
(* is held only over a deployment that is being built or whose build was      *)
(* overtaken by a cancellation or by the rollback of another worker.          *)
TargetsAreRequested ==
    \A w \in Workers :
        phase[w] # "idle" => status[target[w]] \notin {"absent", "rolled_back"}

LeaseMeansBuild ==
    \A d \in Deployments :
        leaseOwner[d] # NoWorker => status[d] \in {"building", "cancelled", "failed"}

LedgerInv == RouteInv /\ TargetsAreRequested /\ LeaseMeansBuild

-----------------------------------------------------------------------------

LEMMA InitBase == ControllerInit => BaseInv
  BY RowsAssumption, ControllerAssumption
  DEF ControllerInit, RowsInit, BaseInv, ControllerTypeOK, RowsTypeOK,
      WorksOnSomething, Statuses, RuntimeStates, RuntimeStatuses, Routes,
      NoDeployment, Phases

LEMMA StepBase == BaseInv /\ [ControllerNext]_controllerVars => BaseInv'
<1> SUFFICES ASSUME BaseInv, [ControllerNext]_controllerVars
             PROVE  BaseInv'
  OBVIOUS
<1> USE RowsAssumption, ControllerAssumption
        DEF BaseInv, ControllerTypeOK, RowsTypeOK, WorksOnSomething,
            Statuses, RuntimeStates, RuntimeStatuses, Routes, NoDeployment, Phases
<1>1. CASE \E d \in Deployments : RequestDeployment(d) /\ UNCHANGED <<workerVars, container, crashes>>
  BY <1>1 DEF RequestDeployment, leaseVars, routeVars, workerVars
<1>2. CASE \E d \in Deployments : CancelDeployment(d) /\ UNCHANGED <<workerVars, container, crashes>>
  BY <1>2 DEF CancelDeployment, leaseVars, routeVars, workerVars
<1>3. CASE \E d \in Deployments : RepairDeployment(d) /\ UNCHANGED <<workerVars, container, crashes>>
  BY <1>3 DEF RepairDeployment, ReleaseLease, routeVars, workerVars
<1>4. CASE \E d \in Deployments : LeaseRunsOut(d)
  BY <1>4 DEF LeaseRunsOut, routeVars, workerVars
<1>5. ASSUME NEW w \in Workers, Claim(w)
      PROVE  BaseInv'
  BY <1>5 DEF Claim, Goto, routeVars
<1>6. ASSUME NEW w \in Workers, StartContainers(w)
      PROVE  BaseInv'
  BY <1>6 DEF StartContainers, Goto, rowVars
<1>7. ASSUME NEW w \in Workers, BuildRaises(w)
      PROVE  BaseInv'
  BY <1>7 DEF BuildRaises, Goto, rowVars
<1>8. ASSUME NEW w \in Workers, PublishRaises(w)
      PROVE  BaseInv'
  BY <1>8 DEF PublishRaises, Goto, rowVars
<1>9. ASSUME NEW w \in Workers, Publish(w)
      PROVE  BaseInv'
  <2> DEFINE d == target[w]
  <2>1. d \in Deployments /\ phase[w] = "built"
    BY <1>9 DEF Publish
  <2>2. /\ status' \in [Deployments -> Statuses]
        /\ leaseOwner' \in [Deployments -> Workers \union {NoWorker}]
        /\ leaseExpired' \in [Deployments -> BOOLEAN]
        /\ runtime' \in [Deployments -> RuntimeStates]
        /\ everHealthy' \subseteq Deployments
    <3>1. CASE LeaseHeld(w, d)
      <4>1. /\ status' = [status EXCEPT ![d] = "ready"]
            /\ everHealthy' = everHealthy \union {d}
            /\ leaseOwner' = [leaseOwner EXCEPT ![d] = NoWorker]
            /\ leaseExpired' = [leaseExpired EXCEPT ![d] = FALSE]
        BY <1>9, <3>1 DEF Publish, ReleaseLease
      <4>2. runtime' \in [Deployments -> RuntimeStates]
        BY <1>9, <2>1, <3>1 DEF Publish
      <4> QED
        BY <2>1, <4>1, <4>2
    <3>2. CASE ~LeaseHeld(w, d)
      BY <1>9, <2>1, <3>2 DEF Publish, leaseVars
    <3> QED
      BY <3>1, <3>2
  <2>3. active' \in Routes /\ pagesPointer' \in Routes /\ runtimeStatus' \in RuntimeStatuses
    BY <1>9, <2>1 DEF Publish, PointRouteAt, PublishedStatus, StatusOfRoute, routeVars
  <2>4. previous' \in [Workers -> Routes] /\ phase' \in [Workers -> Phases]
    BY <1>9, <2>1 DEF Publish, Goto
  <2>5. WorksOnSomething'
    BY <1>9, <2>1 DEF Publish, Goto
  <2> QED
    BY <1>9, <2>2, <2>3, <2>4, <2>5 DEF Publish
<1>10. ASSUME NEW w \in Workers, RouteAnswers(w)
       PROVE  BaseInv'
  BY <1>10 DEF RouteAnswers, Goto, rowVars
<1>11. ASSUME NEW w \in Workers, RouteFails(w)
       PROVE  BaseInv'
  BY <1>11 DEF RouteFails, RestoreRoute, MarkFailed, PointRouteAt, StatusOfRoute, Goto, leaseVars
<1>12. ASSUME NEW w \in Workers, RemoveContainers(w)
       PROVE  BaseInv'
  BY <1>12 DEF RemoveContainers, Goto, rowVars
<1>13. ASSUME NEW w \in Workers, Fail(w)
       PROVE  BaseInv'
  BY <1>13 DEF Fail, Goto, ReleaseLease, StatusOfRoute, routeVars
<1>14. ASSUME NEW w \in Workers, Crash(w)
       PROVE  BaseInv'
  BY <1>14 DEF Crash, Goto, rowVars
<1>15. CASE UNCHANGED controllerVars
  BY <1>15 DEF controllerVars, rowVars
<1> QED
  BY <1>1, <1>2, <1>3, <1>4, <1>5, <1>6, <1>7, <1>8, <1>9, <1>10, <1>11, <1>12,
     <1>13, <1>14, <1>15
  DEF ControllerNext, ApiNext, WorkerStep

(* Every variable of the deployment queue keeps its type. *)
THEOREM ControllerTypeCorrect == ControllerSpec => []ControllerTypeOK
<1>1. BaseInv => ControllerTypeOK
  BY DEF BaseInv
<1> QED
  BY InitBase, StepBase, <1>1, PTL DEF ControllerSpec

-----------------------------------------------------------------------------

LEMMA InitColumns == ControllerInit => ColumnsInv
  BY InitBase
  DEF ControllerInit, RowsInit, ColumnsInv, StatusAgreesWithRoute,
      PagesPointerFollowsRoute, NoDeployment

LEMMA StepColumns == ColumnsInv /\ [ControllerNext]_controllerVars => ColumnsInv'
<1> SUFFICES ASSUME ColumnsInv, [ControllerNext]_controllerVars
             PROVE  StatusAgreesWithRoute' /\ PagesPointerFollowsRoute'
  BY StepBase DEF ColumnsInv
<1> USE DEF ColumnsInv, StatusAgreesWithRoute, PagesPointerFollowsRoute
<1>1. ASSUME NEW d \in Deployments,
             RequestDeployment(d) \/ CancelDeployment(d) \/ RepairDeployment(d)
      PROVE  StatusAgreesWithRoute' /\ PagesPointerFollowsRoute'
  BY <1>1 DEF RequestDeployment, CancelDeployment, RepairDeployment, routeVars
<1>2. ASSUME NEW w \in Workers, Publish(w)
      PROVE  StatusAgreesWithRoute' /\ PagesPointerFollowsRoute'
  <2>1. target[w] \in Deployments /\ target[w] # NoDeployment
    BY <1>2 DEF Publish, BaseInv, WorksOnSomething, Deployments, NoDeployment
  <2> QED
    BY <1>2, <2>1
    DEF Publish, PublishedStatus, StatusOfRoute, PointRouteAt, routeVars
<1>3. ASSUME NEW w \in Workers, RouteFails(w)
      PROVE  StatusAgreesWithRoute' /\ PagesPointerFollowsRoute'
  BY <1>3 DEF RouteFails, RestoreRoute, StatusOfRoute, PointRouteAt
<1>4. ASSUME NEW w \in Workers, Fail(w)
      PROVE  StatusAgreesWithRoute' /\ PagesPointerFollowsRoute'
  BY <1>4 DEF Fail, StatusOfRoute, routeVars
<1>5. CASE UNCHANGED <<runtimeStatus, routeVars>>
  BY <1>5 DEF routeVars
<1>6. ASSUME NEW w \in Workers,
             Claim(w) \/ StartContainers(w) \/ BuildRaises(w) \/ PublishRaises(w)
             \/ RouteAnswers(w) \/ RemoveContainers(w) \/ Crash(w)
      PROVE  UNCHANGED <<runtimeStatus, routeVars>>
  BY <1>6 DEF Claim, StartContainers, BuildRaises, PublishRaises, RouteAnswers,
              RemoveContainers, Crash, rowVars, routeVars
<1>7. ASSUME NEW d \in Deployments, LeaseRunsOut(d)
      PROVE  UNCHANGED <<runtimeStatus, routeVars>>
  BY <1>7 DEF LeaseRunsOut
<1>8. CASE UNCHANGED controllerVars
  BY <1>5, <1>8 DEF controllerVars, rowVars, routeVars
<1> QED
  BY <1>1, <1>2, <1>3, <1>4, <1>5, <1>6, <1>7, <1>8
  DEF ControllerNext, ApiNext, WorkerStep

(* The workspace's status column and the Pages pointer agree with the public  *)
(* route after every transaction of the API and of every worker, whether      *)
(* leases cover the builds or not.                                            *)
THEOREM RouteColumnsAgree == ControllerSpec => []ColumnsAgree
<1>1. ColumnsInv => ColumnsAgree
  BY DEF ColumnsInv, ColumnsAgree
<1> QED
  BY InitColumns, StepColumns, <1>1, PTL DEF ControllerSpec

-----------------------------------------------------------------------------
(* The route when no two workers build one deployment. *)

LEMMA InitRoute == ControllerInit => RouteInv
  BY InitBase
  DEF ControllerInit, RowsInit, RouteInv, RouteWasHealthy, WorkersAreFenced,
      VerifyingIsProven, PreviousIsProven

(* The part of the invariant about single steps; the route and the workers. *)
FencedRoute ==
    RouteWasHealthy /\ WorkersAreFenced /\ VerifyingIsProven /\ PreviousIsProven

LEMMA StepRoute ==
    ASSUME BuildsAreFenced
    PROVE  RouteInv /\ [ControllerNext]_controllerVars => RouteInv'
<1> SUFFICES ASSUME RouteInv, [ControllerNext]_controllerVars
             PROVE  FencedRoute'
  BY StepBase DEF RouteInv, FencedRoute
<1> USE DEF FencedRoute, RouteInv, RouteWasHealthy, WorkersAreFenced,
            VerifyingIsProven, PreviousIsProven, Holds
<1> BaseInv
  OBVIOUS
<1> USE DEF BaseInv, ControllerTypeOK, RowsTypeOK, WorksOnSomething
<1>1. ASSUME NEW d \in Deployments, RequestDeployment(d), UNCHANGED <<workerVars, container, crashes>>
      PROVE  FencedRoute'
  BY <1>1 DEF RequestDeployment, leaseVars, routeVars, workerVars
<1>2. ASSUME NEW d \in Deployments, CancelDeployment(d), UNCHANGED <<workerVars, container, crashes>>
      PROVE  FencedRoute'
  BY <1>2 DEF CancelDeployment, leaseVars, routeVars, workerVars
(* Neither status that can be repaired is one a fenced worker holds. *)
<1>3. ASSUME NEW d \in Deployments, RepairDeployment(d), UNCHANGED <<workerVars, container, crashes>>
      PROVE  FencedRoute'
  BY <1>3 DEF RepairDeployment, Repairable, ReleaseLease, routeVars, workerVars
(* The only step that needs BuildsAreFenced. *)
<1>4. ASSUME NEW d \in Deployments, LeaseRunsOut(d)
      PROVE  FencedRoute'
  BY <1>4, BuildsAreFenced DEF BuildsAreFenced, LeaseRunsOut, Busy, routeVars, workerVars
(* A deployment that somebody holds is not claimable by another worker. *)
<1>5. ASSUME NEW w \in Workers, Claim(w)
      PROVE  FencedRoute'
  <2>1. PICK d \in Deployments :
            /\ Claimable(d)
            /\ status' = [status EXCEPT ![d] = "building"]
            /\ leaseOwner' = [leaseOwner EXCEPT ![d] = w]
            /\ leaseExpired' = [leaseExpired EXCEPT ![d] = FALSE]
            /\ target' = [target EXCEPT ![w] = d]
    BY <1>5 DEF Claim
  <2>2. /\ phase[w] = "idle"
        /\ phase' = [phase EXCEPT ![w] = "building"]
        /\ UNCHANGED <<everHealthy, active, previous>>
    BY <1>5 DEF Claim, Goto, routeVars
  <2>3. \A v \in Workers : v # w => ~Holds(v, d)
    BY <2>1 DEF Claimable, OneWorker
  <2>4. WorkersAreFenced'
    BY <2>1, <2>2, <2>3
  <2> QED
    BY <2>1, <2>2, <2>4
<1>6. ASSUME NEW w \in Workers,
             StartContainers(w) \/ BuildRaises(w) \/ PublishRaises(w)
             \/ RouteAnswers(w) \/ Crash(w)
      PROVE  FencedRoute'
  BY <1>6 DEF StartContainers, BuildRaises, PublishRaises, RouteAnswers, Crash,
              Goto, rowVars
(* A worker without its lease works on a proven deployment. *)
<1>7. ASSUME NEW w \in Workers, Publish(w)
      PROVE  FencedRoute'
  <2> DEFINE d == target[w]
  <2>1. d \in Deployments /\ phase[w] = "built" /\ target' = target
    BY <1>7 DEF Publish
  <2>2. phase' = [phase EXCEPT ![w] =
            IF d \in AutoActivated \intersect PublicServices THEN "verifying" ELSE "idle"]
    BY <1>7 DEF Publish, Goto
  <2>3. /\ active' \in {active, d}
        /\ previous' = [previous EXCEPT ![w] = active]
    BY <1>7 DEF Publish, PointRouteAt, routeVars
  <2>4. /\ everHealthy \subseteq everHealthy'
        /\ d \in everHealthy'
        /\ \A v \in Workers : phase[v] # "idle" /\ v # w =>
               Holds(v, target[v])' \/ target[v] \in everHealthy'
    <3>1. CASE LeaseHeld(w, d)
      <4>1. /\ status' = [status EXCEPT ![d] = "ready"]
            /\ everHealthy' = everHealthy \union {d}
            /\ leaseOwner' = [leaseOwner EXCEPT ![d] = NoWorker]
            /\ leaseExpired' = [leaseExpired EXCEPT ![d] = FALSE]
        BY <1>7, <3>1 DEF Publish, ReleaseLease
      <4> QED
        BY <2>1, <3>1, <4>1 DEF LeaseHeld
    <3>2. CASE ~LeaseHeld(w, d)
      BY <1>7, <2>1, <3>2 DEF Publish, LeaseHeld, leaseVars
    <3> QED
      BY <3>1, <3>2
  <2> QED
    BY <2>1, <2>2, <2>3, <2>4
(* What it fails is proven, so nobody loses a deployment it holds. *)
<1>8. ASSUME NEW w \in Workers, RouteFails(w)
      PROVE  FencedRoute'
  BY <1>8 DEF RouteFails, RestoreRoute, MarkFailed, PointRouteAt, Goto, leaseVars
<1>9. ASSUME NEW w \in Workers, RemoveContainers(w)
      PROVE  FencedRoute'
  BY <1>9 DEF RemoveContainers, Goto, rowVars
<1>10. ASSUME NEW w \in Workers, Fail(w)
       PROVE  FencedRoute'
  BY <1>10 DEF Fail, ReleaseLease, Goto, routeVars
<1>11. CASE UNCHANGED controllerVars
  BY <1>11 DEF controllerVars, rowVars
<1> QED
  BY <1>1, <1>2, <1>3, <1>4, <1>5, <1>6, <1>7, <1>8, <1>9, <1>10, <1>11
  DEF ControllerNext, ApiNext, WorkerStep

(* With a single controller, or as long as no build outlives its lease, the   *)
(* public route never points at a revision that did not pass the health gate, *)
(* whatever crashes, cancellations, repairs and rollbacks interleave with the *)
(* builds.                                                                    *)
THEOREM RouteStaysHealthy ==
    ASSUME BuildsAreFenced
    PROVE  ControllerSpec => []RouteWasHealthy
<1>1. RouteInv => RouteWasHealthy
  BY DEF RouteInv
<1> QED
  BY InitRoute, StepRoute, <1>1, PTL DEF ControllerSpec

-----------------------------------------------------------------------------
(* The refinement of the ledger. *)

LEMMA InitLedger == ControllerInit => LedgerInv
  BY InitRoute DEF ControllerInit, RowsInit, LedgerInv, TargetsAreRequested, LeaseMeansBuild

LEMMA StepLedger ==
    ASSUME BuildsAreFenced
    PROVE  LedgerInv /\ [ControllerNext]_controllerVars => LedgerInv'
<1> SUFFICES ASSUME LedgerInv, [ControllerNext]_controllerVars
             PROVE  TargetsAreRequested' /\ LeaseMeansBuild'
  BY StepRoute DEF LedgerInv
<1> BaseInv
  BY DEF LedgerInv, RouteInv
<1> USE DEF BaseInv, ControllerTypeOK, RowsTypeOK, WorksOnSomething, LedgerInv,
            TargetsAreRequested, LeaseMeansBuild
<1>1. ASSUME NEW d \in Deployments,
             RequestDeployment(d) \/ CancelDeployment(d) \/ RepairDeployment(d),
             UNCHANGED <<workerVars, container, crashes>>
      PROVE  TargetsAreRequested' /\ LeaseMeansBuild'
  BY <1>1 DEF RequestDeployment, CancelDeployment, RepairDeployment, ReleaseLease,
              leaseVars, workerVars
<1>2. ASSUME NEW d \in Deployments, LeaseRunsOut(d)
      PROVE  TargetsAreRequested' /\ LeaseMeansBuild'
  BY <1>2 DEF LeaseRunsOut, workerVars
<1>3. ASSUME NEW w \in Workers, Claim(w)
      PROVE  TargetsAreRequested' /\ LeaseMeansBuild'
  BY <1>3 DEF Claim, Goto
<1>4. ASSUME NEW w \in Workers, Publish(w)
      PROVE  TargetsAreRequested' /\ LeaseMeansBuild'
  <2>1. /\ target[w] \in Deployments
        /\ target' = target
        /\ \A v \in Workers : phase'[v] # "idle" => phase[v] # "idle"
    BY <1>4 DEF Publish, Goto
  <2>2. CASE LeaseHeld(w, target[w])
    <3>1. /\ status' = [status EXCEPT ![target[w]] = "ready"]
          /\ leaseOwner' = [leaseOwner EXCEPT ![target[w]] = NoWorker]
      BY <1>4, <2>2 DEF Publish, ReleaseLease
    <3> QED
      BY <2>1, <3>1
  <2>3. CASE ~LeaseHeld(w, target[w])
    BY <1>4, <2>1, <2>3 DEF Publish, leaseVars
  <2> QED
    BY <2>2, <2>3
<1>5. ASSUME NEW w \in Workers, RouteFails(w)
      PROVE  TargetsAreRequested' /\ LeaseMeansBuild'
  BY <1>5 DEF RouteFails, MarkFailed, Goto, leaseVars
<1>6. ASSUME NEW w \in Workers, Fail(w)
      PROVE  TargetsAreRequested' /\ LeaseMeansBuild'
  BY <1>6 DEF Fail, ReleaseLease, Goto
<1>7. ASSUME NEW w \in Workers,
             StartContainers(w) \/ BuildRaises(w) \/ PublishRaises(w)
             \/ RouteAnswers(w) \/ RemoveContainers(w) \/ Crash(w)
      PROVE  TargetsAreRequested' /\ LeaseMeansBuild'
  BY <1>7 DEF StartContainers, BuildRaises, PublishRaises, RouteAnswers,
              RemoveContainers, Crash, Goto, rowVars
<1>8. CASE UNCHANGED controllerVars
  BY <1>8 DEF controllerVars, rowVars
<1> QED
  BY <1>1, <1>2, <1>3, <1>4, <1>5, <1>6, <1>7, <1>8
  DEF ControllerNext, ApiNext, WorkerStep

LEMMA StepMapsToLedger ==
    LedgerInv /\ [ControllerNext]_controllerVars => [Ledger!LedgerNext]_(Ledger!ledgerVars)
<1> SUFFICES ASSUME LedgerInv, [ControllerNext]_controllerVars
             PROVE  Ledger!LedgerNext \/ UNCHANGED Ledger!ledgerVars
  OBVIOUS
<1> BaseInv /\ RouteInv
  BY DEF LedgerInv, RouteInv
<1> USE DEF BaseInv, ControllerTypeOK, RowsTypeOK, WorksOnSomething,
            Ledger!LedgerNext, Ledger!Moves
<1>1. ASSUME NEW d \in Deployments, RequestDeployment(d)
      PROVE  Ledger!Enter(d)
  BY <1>1 DEF RequestDeployment, Ledger!Enter, routeVars
<1>2. ASSUME NEW d \in Deployments, CancelDeployment(d)
      PROVE  Ledger!Withdraw(d)
  BY <1>2 DEF CancelDeployment, Ledger!Withdraw, routeVars
<1>3. ASSUME NEW d \in Deployments, RepairDeployment(d)
      PROVE  Ledger!Again(d)
  BY <1>3 DEF RepairDeployment, Repairable, Ledger!Again, routeVars
<1>4. ASSUME NEW w \in Workers, Claim(w)
      PROVE  Ledger!LedgerNext
  <2>1. PICK d \in Deployments :
            Claimable(d) /\ status' = [status EXCEPT ![d] = "building"]
    BY <1>4 DEF Claim
  <2>2. Ledger!Start(d)
    BY <1>4, <2>1 DEF Claim, Claimable, Ledger!Start, routeVars
  <2> QED
    BY <2>2
(* With the lease the row becomes ready, and may take the route; without it  *)
(* the deployment is proven already, and only the route moves.               *)
<1>5. ASSUME NEW w \in Workers, Publish(w)
      PROVE  Ledger!LedgerNext \/ UNCHANGED Ledger!ledgerVars
  <2> DEFINE d == target[w]
  <2>1. d \in Deployments /\ phase[w] = "built"
    BY <1>5 DEF Publish
  <2>2. active' \in {active, d}
    BY <1>5 DEF Publish, PointRouteAt, routeVars
  <2>3. CASE LeaseHeld(w, d)
    <3>1. status' = [status EXCEPT ![d] = "ready"] /\ everHealthy' = everHealthy \union {d}
      BY <1>5, <2>3 DEF Publish
    <3>2. status[d] \in {"building", "cancelled", "failed"}
      BY <2>1, <2>3, RowsAssumption DEF LeaseHeld, LedgerInv, LeaseMeansBuild
    <3>3. Ledger!Prove(d)
      BY <2>2, <3>1, <3>2 DEF Ledger!Prove
    <3> QED
      BY <2>1, <3>3
  <2>4. CASE ~LeaseHeld(w, d)
    <3>1. status' = status /\ everHealthy' = everHealthy
      BY <1>5, <2>4 DEF Publish
    <3>2. d \in everHealthy
      BY <2>1, <2>4 DEF RouteInv, WorkersAreFenced, Holds, LeaseHeld
    <3>3. active' = active \/ Ledger!Reroute
      BY <2>2, <3>1, <3>2 DEF Ledger!Reroute
    <3> QED
      BY <3>1, <3>3 DEF Ledger!ledgerVars
  <2> QED
    BY <2>3, <2>4
<1>6. ASSUME NEW w \in Workers, RouteFails(w) \/ Fail(w)
      PROVE  Ledger!Break(target[w]) /\ target[w] \in Deployments
  <2>1. target[w] \in Deployments /\ status[target[w]] \in Statuses \ {"absent", "rolled_back"}
    BY <1>6 DEF RouteFails, Fail, LedgerInv, TargetsAreRequested
  <2>2. active' \in everHealthy \union {active, NoDeployment}
    BY <1>6 DEF RouteFails, Fail, RestoreRoute, PointRouteAt, routeVars, RouteInv,
                PreviousIsProven
  <2>3. status' = [status EXCEPT ![target[w]] = "failed"] /\ everHealthy' = everHealthy
    BY <1>6 DEF RouteFails, Fail, MarkFailed
  <2> QED
    BY <2>1, <2>2, <2>3 DEF Ledger!Break, Statuses
<1>7. ASSUME NEW w \in Workers,
             StartContainers(w) \/ BuildRaises(w) \/ PublishRaises(w)
             \/ RouteAnswers(w) \/ RemoveContainers(w) \/ Crash(w)
      PROVE  UNCHANGED Ledger!ledgerVars
  BY <1>7 DEF StartContainers, BuildRaises, PublishRaises, RouteAnswers,
              RemoveContainers, Crash, rowVars, Ledger!ledgerVars
<1>8. ASSUME NEW d \in Deployments, LeaseRunsOut(d)
      PROVE  UNCHANGED Ledger!ledgerVars
  BY <1>8 DEF LeaseRunsOut, routeVars, Ledger!ledgerVars
<1>9. CASE UNCHANGED controllerVars
  BY <1>9 DEF controllerVars, rowVars, Ledger!ledgerVars
<1> QED
  BY <1>1, <1>2, <1>3, <1>4, <1>5, <1>6, <1>7, <1>8, <1>9
  DEF ControllerNext, ApiNext, WorkerStep

(* With a single controller, or as long as no build outlives its lease, the   *)
(* queue with its claims, crashes and rollbacks is an implementation of the   *)
(* ledger of module DeploymentLedger.                                         *)
THEOREM QueueImplementsLedger ==
    ASSUME BuildsAreFenced
    PROVE  ControllerSpec => ImplementsLedger
<1>1. ControllerInit => Ledger!LedgerInit
  BY DEF ControllerInit, RowsInit, Ledger!LedgerInit
<1> QED
  BY InitLedger, StepLedger, StepMapsToLedger, <1>1, PTL
  DEF ControllerSpec, ImplementsLedger, Ledger!LedgerSpec

-----------------------------------------------------------------------------
(* What the row of a ready deployment promises about the engine. *)

Needed(d) == d \notin Jobs \union Static

(* A worker that may remove the containers of its deployment, or has yet to    *)
(* start them, works on one that is not ready; one that is about to publish    *)
(* has started them.                                                           *)
WorkIsNotReady ==
    \A w \in Workers :
        /\ phase[w] \in {"building", "built", "cleanup", "failing"}
               => status[target[w]] # "ready"
        /\ phase[w] = "built" /\ Needed(target[w]) => container[target[w]]

BackedInv == BaseInv /\ ReadyIsBacked /\ WorkIsNotReady

LEMMA InitBacked == ControllerInit => BackedInv
  BY InitBase DEF ControllerInit, RowsInit, BackedInv, ReadyIsBacked, WorkIsNotReady

LEMMA StepBacked ==
    ASSUME OneWorker
    PROVE  BackedInv /\ [ControllerNext]_controllerVars => BackedInv'
<1> SUFFICES ASSUME BackedInv, [ControllerNext]_controllerVars
             PROVE  ReadyIsBacked' /\ WorkIsNotReady'
  BY StepBase DEF BackedInv
<1> USE DEF BackedInv, BaseInv, ControllerTypeOK, RowsTypeOK, WorksOnSomething,
            ReadyIsBacked, WorkIsNotReady, Needed, OneWorker
<1>1. ASSUME NEW d \in Deployments,
             RequestDeployment(d) \/ CancelDeployment(d) \/ RepairDeployment(d),
             UNCHANGED <<workerVars, container, crashes>>
      PROVE  ReadyIsBacked' /\ WorkIsNotReady'
  BY <1>1 DEF RequestDeployment, CancelDeployment, RepairDeployment, workerVars
<1>2. ASSUME NEW d \in Deployments, LeaseRunsOut(d)
      PROVE  ReadyIsBacked' /\ WorkIsNotReady'
  BY <1>2 DEF LeaseRunsOut, workerVars
<1>3. ASSUME NEW w \in Workers, Claim(w)
      PROVE  ReadyIsBacked' /\ WorkIsNotReady'
  BY <1>3 DEF Claim, Goto
<1>4. ASSUME NEW w \in Workers, StartContainers(w)
      PROVE  ReadyIsBacked' /\ WorkIsNotReady'
  BY <1>4 DEF StartContainers, Goto, rowVars
<1>5. ASSUME NEW w \in Workers,
             BuildRaises(w) \/ PublishRaises(w) \/ RemoveContainers(w)
      PROVE  ReadyIsBacked' /\ WorkIsNotReady'
  BY <1>5 DEF BuildRaises, PublishRaises, RemoveContainers, Goto, rowVars
(* Nobody else is at work on what this worker records as ready. *)
<1>6. ASSUME NEW w \in Workers, Publish(w)
      PROVE  ReadyIsBacked' /\ WorkIsNotReady'
  <2>1. /\ target[w] \in Deployments
        /\ phase[w] = "built"
        /\ UNCHANGED <<target, container>>
        /\ phase'[w] \in {"verifying", "idle"}
    BY <1>6 DEF Publish, Goto
  <2>2. status' \in {status, [status EXCEPT ![target[w]] = "ready"]}
    BY <1>6 DEF Publish
  <2> QED
    BY <2>1, <2>2
<1>7. ASSUME NEW w \in Workers, RouteFails(w)
      PROVE  ReadyIsBacked' /\ WorkIsNotReady'
  BY <1>7 DEF RouteFails, MarkFailed, Goto
<1>8. ASSUME NEW w \in Workers, RouteAnswers(w) \/ Crash(w)
      PROVE  ReadyIsBacked' /\ WorkIsNotReady'
  BY <1>8 DEF RouteAnswers, Crash, Goto, rowVars
<1>9. ASSUME NEW w \in Workers, Fail(w)
      PROVE  ReadyIsBacked' /\ WorkIsNotReady'
  BY <1>9 DEF Fail, Goto
<1>10. CASE UNCHANGED controllerVars
  BY <1>10 DEF controllerVars, rowVars
<1> QED
  BY <1>1, <1>2, <1>3, <1>4, <1>5, <1>6, <1>7, <1>8, <1>9, <1>10
  DEF ControllerNext, ApiNext, WorkerStep

(* With a single controller, a service recorded ready always has its          *)
(* containers, although builds raise at any point, the controller crashes,    *)
(* leases run out under it, and owners cancel and repair meanwhile.  (With    *)
(* two, one may remove what a repair has let the other build again.)          *)
THEOREM ReadyServicesAreBacked ==
    ASSUME OneWorker
    PROVE  ControllerSpec => []ReadyIsBacked
<1>1. BackedInv => ReadyIsBacked
  BY DEF BackedInv
<1> QED
  BY InitBacked, StepBacked, <1>1, PTL DEF ControllerSpec

=============================================================================
