-------------------------- MODULE SharedRecordsProofs --------------------------
(***************************************************************************)
(* Theorems about workspace retention, the membership of a task and the    *)
(* stock of an item, for every number of deployments, controllers, plans,  *)
(* people, browsers, warehouses, receipts and shipments, and the types of  *)
(* all the components of MCSharedRecords.                                  *)
(***************************************************************************)
EXTENDS MCSharedRecords, RuntimeControllerProofs, FiniteSetTheorems, WellFoundedInduction

-----------------------------------------------------------------------------
(* Retention.  Two theorems are about one controller (OneWorker), and one of *)
(* them about policies that leave rollback_max_age_hours unset, which is its *)
(* default.                                                                  *)

NoWindow == TRUE \notin WindowPolicies

(* Requests in the middle of a plan know what they do to their candidates. *)
AppliersAreSound ==
    /\ applier \in [Appliers -> {"idle", "deleting"}]
    /\ policyOf \in [Appliers -> Policies \union {NoPolicy}]
    /\ plan = [p \in Appliers |-> plan[p]]
    /\ todo \in [Appliers -> SUBSET Deployments]
    /\ removed \in [Appliers -> SUBSET Deployments]
    /\ \A p \in Appliers :
        /\ plan[p] \in [DOMAIN plan[p] -> Operations]
        /\ todo[p] \union removed[p] \subseteq DOMAIN plan[p]
        /\ DOMAIN plan[p] \subseteq Deployments

RetirementTypes ==
    /\ retirement \in [Deployments -> Retirements]
    /\ operation \in [Deployments -> Operations \union {NoOperation}]
    /\ acknowledged \in [Deployments -> Operations \union {NoOperation}]
    /\ evidenceToo \subseteq Deployments
    /\ rollbackRef \in [Deployments -> Routes]
    /\ release \in [Deployments -> BOOLEAN]
    /\ aged \subseteq Deployments
    /\ opened \in 0 .. MaxOperations

RetentionBase == BaseInv /\ RetirementTypes /\ AppliersAreSound

LEMMA RetentionStarts == RetentionInit => RetentionBase
<1> SUFFICES ASSUME RetentionInit PROVE RetentionBase
  OBVIOUS
<1>1. BaseInv
  BY InitBase DEF RetentionInit
<1>2. RetirementTypes
  BY RetentionAssumption, RowsAssumption
  DEF RetentionInit, RetirementTypes, Retirements, NoOperation, Operations, Routes,
      NoDeployment
<1>3. AppliersAreSound
  <2>1. \A p \in Appliers : plan[p] = <<>>
    BY DEF RetentionInit
  <2>2. DOMAIN <<>> = {} /\ <<>> \in [{} -> Operations]
    BY SMT
  <2>3. plan = [p \in Appliers |-> plan[p]]
    BY DEF RetentionInit
  <2> QED
    BY <2>1, <2>2, <2>3 DEF RetentionInit, AppliersAreSound
<1> QED
  BY <1>1, <1>2, <1>3 DEF RetentionBase

(* What marking a plan does, place by place. *)
Marks(p, rules) ==
    LET chosen == Candidates(rules) IN
    /\ retirement' = [d \in Deployments |->
           IF d \in chosen THEN "retiring" ELSE retirement[d]]
    /\ operation' = [d \in Deployments |->
           IF d \in chosen THEN OperationFor(d) ELSE operation[d]]
    /\ acknowledged' = [d \in Deployments |->
           IF d \in chosen /\ OperationFor(d) # operation[d]
           THEN NoOperation ELSE acknowledged[d]]
    /\ status' = [d \in Deployments |->
           IF d \in chosen /\ status[d] = "ready" THEN "rolled_back" ELSE status[d]]
    /\ plan' = [plan EXCEPT ![p] = [d \in chosen |-> OperationFor(d)]]
    /\ opened < MaxOperations /\ opened' = opened + 1

LEMMA MarkingMarks ==
    ASSUME RetentionBase, NEW p \in Appliers, NEW rules \in Policies,
           MarkRetiring(p, rules)
    PROVE  /\ Marks(p, rules)
           /\ Candidates(rules) \subseteq Deployments
           /\ \A d \in Deployments : OperationFor(d) \in 1 .. MaxOperations
<1>1. Candidates(rules) \subseteq Deployments
  BY DEF Candidates
<1>2. opened \in Nat /\ opened + 1 \in 1 .. MaxOperations
  BY RetentionAssumption DEF MarkRetiring, RetentionBase, RetirementTypes
<1>3. \A d \in Deployments : OperationFor(d) \in 1 .. MaxOperations
  BY <1>2 DEF OperationFor, RetentionBase, RetirementTypes, Operations
<1>4. /\ retirement' = [d \in Deployments |->
             IF d \in Candidates(rules) THEN "retiring" ELSE retirement[d]]
      /\ operation' = [d \in Deployments |->
             IF d \in Candidates(rules) THEN OperationFor(d) ELSE operation[d]]
      /\ acknowledged' = [d \in Deployments |->
             IF d \in Candidates(rules) /\ OperationFor(d) # operation[d]
             THEN NoOperation ELSE acknowledged[d]]
  <2> DEFINE chosen == Candidates(rules)
             op == [d \in Deployments |-> OperationFor(d)]
             ack == [d \in Deployments |->
                        IF op[d] = operation[d] THEN acknowledged[d] ELSE NoOperation]
             ret == [d \in Deployments |-> "retiring"]
  <2>1. /\ retirement' = [d \in Deployments |-> IF d \in chosen THEN ret[d] ELSE retirement[d]]
        /\ operation' = [d \in Deployments |-> IF d \in chosen THEN op[d] ELSE operation[d]]
        /\ acknowledged' = [d \in Deployments |-> IF d \in chosen THEN ack[d] ELSE acknowledged[d]]
    BY DEF MarkRetiring
  <2> HIDE DEF chosen
  <2>2. \A d \in Deployments :
            (IF d \in chosen THEN ack[d] ELSE acknowledged[d]) =
            (IF d \in chosen /\ OperationFor(d) # operation[d]
             THEN NoOperation ELSE acknowledged[d])
    OBVIOUS
  <2> QED
    BY <2>1, <2>2 DEF chosen
<1>5. /\ plan' = [plan EXCEPT ![p] = [d \in Candidates(rules) |-> OperationFor(d)]]
      /\ status' = [d \in Deployments |->
           IF d \in Candidates(rules) /\ status[d] = "ready"
           THEN "rolled_back" ELSE status[d]]
  <2> DEFINE chosen == Candidates(rules)
             op == [d \in Deployments |-> OperationFor(d)]
  <2>1. plan' = [plan EXCEPT ![p] = [d \in chosen |-> op[d]]]
    BY DEF MarkRetiring
  <2>2. [d \in chosen |-> op[d]] = [d \in chosen |-> OperationFor(d)]
    BY <1>1
  <2> QED
    BY <2>1, <2>2 DEF MarkRetiring
<1> QED
  BY <1>1, <1>3, <1>4, <1>5 DEF Marks, MarkRetiring

LEMMA MarkingKeepsBase ==
    ASSUME RetentionBase, NEW p \in Appliers, NEW rules \in Policies,
           MarkRetiring(p, rules)
    PROVE  RetentionBase'
<1>1. /\ Marks(p, rules)
      /\ Candidates(rules) \subseteq Deployments
      /\ \A d \in Deployments : OperationFor(d) \in Operations
  BY MarkingMarks DEF Operations
<1>2. BaseInv'
  <2>1. status' \in [Deployments -> Statuses]
    BY <1>1 DEF Marks, RetentionBase, BaseInv, ControllerTypeOK, RowsTypeOK, Statuses
  <2> QED
    BY <2>1 DEF MarkRetiring, RetentionBase, BaseInv, ControllerTypeOK, RowsTypeOK,
       WorksOnSomething, leaseVars, routeVars, workerVars
<1>3. RetirementTypes'
  <2>1. /\ retirement' \in [Deployments -> Retirements]
        /\ operation' \in [Deployments -> Operations \union {NoOperation}]
        /\ acknowledged' \in [Deployments -> Operations \union {NoOperation}]
    BY <1>1 DEF Marks, RetentionBase, RetirementTypes, Retirements
  <2>2. opened' \in 0 .. MaxOperations
    BY <1>1, RetentionAssumption DEF Marks, RetentionBase, RetirementTypes
  <2>3. evidenceToo' \subseteq Deployments
    BY <1>1 DEF MarkRetiring, RetentionBase, RetirementTypes
  <2>4. rollbackRef' \in [Deployments -> Routes]
    BY DEF MarkRetiring, RetentionBase, RetirementTypes, Routes
  <2> QED
    BY <2>1, <2>2, <2>3, <2>4 DEF MarkRetiring, RetentionBase, RetirementTypes
<1>4. AppliersAreSound'
  <2> DEFINE chosen == Candidates(rules)
             mine == [d \in chosen |-> OperationFor(d)]
  <2>1. chosen \subseteq Deployments /\ mine \in [chosen -> Operations] /\ DOMAIN mine = chosen
    BY <1>1
  <2>2. /\ plan' = [plan EXCEPT ![p] = mine]
        /\ todo' = [todo EXCEPT ![p] = chosen]
        /\ removed' = [removed EXCEPT ![p] = {}]
        /\ policyOf' = [policyOf EXCEPT ![p] = rules]
        /\ applier' = [applier EXCEPT ![p] = "deleting"]
    BY <1>1 DEF Marks, MarkRetiring
  <2>3. plan = [r \in Appliers |-> plan[r]]
    BY DEF RetentionBase, AppliersAreSound
  <2> HIDE DEF chosen, mine
  <2>4. plan' = [r \in Appliers |-> IF r = p THEN mine ELSE plan[r]]
    BY <2>2, <2>3
  <2>5. plan' = [r \in Appliers |-> plan'[r]]
    BY <2>4
  <2>6. \A r \in Appliers : r # p => /\ plan'[r] = plan[r] /\ todo'[r] = todo[r]
                                     /\ removed'[r] = removed[r]
    BY <2>2, <2>4 DEF RetentionBase, AppliersAreSound
  <2>7. plan'[p] = mine /\ todo'[p] = chosen /\ removed'[p] = {}
    BY <2>2, <2>4 DEF RetentionBase, AppliersAreSound
  <2>8. /\ todo' \in [Appliers -> SUBSET Deployments]
        /\ removed' \in [Appliers -> SUBSET Deployments]
        /\ applier' \in [Appliers -> {"idle", "deleting"}]
        /\ policyOf' \in [Appliers -> Policies \union {NoPolicy}]
    BY <2>1, <2>2 DEF RetentionBase, AppliersAreSound
  <2>9. ASSUME NEW r \in Appliers
        PROVE  /\ plan'[r] \in [DOMAIN plan'[r] -> Operations]
               /\ todo'[r] \union removed'[r] \subseteq DOMAIN plan'[r]
               /\ DOMAIN plan'[r] \subseteq Deployments
    <3>1. CASE r = p
      BY <2>1, <2>7, <3>1
    <3>2. CASE r # p
      BY <2>6, <3>2 DEF RetentionBase, AppliersAreSound
    <3> QED
      BY <3>1, <3>2
  <2> QED
    BY <2>5, <2>8, <2>9 DEF AppliersAreSound
<1> QED
  BY <1>2, <1>3, <1>4 DEF RetentionBase

(* The end of a request, for whatever reason. *)
LEMMA LeavingIsSound ==
    ASSUME AppliersAreSound, NEW p \in Appliers,
           applier' = [applier EXCEPT ![p] = "idle"],
           plan' = [plan EXCEPT ![p] = <<>>],
           removed' = [removed EXCEPT ![p] = {}],
           policyOf' = [policyOf EXCEPT ![p] = NoPolicy],
           todo' \in [Appliers -> SUBSET Deployments], todo'[p] = {},
           \A r \in Appliers : r # p => todo'[r] = todo[r]
    PROVE  AppliersAreSound'
<1>1. DOMAIN <<>> = {} /\ <<>> \in [{} -> Operations]
  BY SMT
<1>2. plan = [r \in Appliers |-> plan[r]]
  BY DEF AppliersAreSound
<1> DEFINE none == <<>>
<1>3. /\ plan' = [plan EXCEPT ![p] = none]
      /\ DOMAIN none = {} /\ none \in [DOMAIN none -> Operations]
  BY <1>1
<1> HIDE DEF none
<1>4. plan' = [r \in Appliers |-> IF r = p THEN none ELSE plan[r]]
  BY <1>2, <1>3
<1>5. plan' = [r \in Appliers |-> plan'[r]] /\ plan'[p] = none
      /\ \A r \in Appliers : r # p => plan'[r] = plan[r]
  BY <1>4
<1>6. /\ removed' \in [Appliers -> SUBSET Deployments] /\ removed'[p] = {}
      /\ \A r \in Appliers : r # p => removed'[r] = removed[r]
      /\ applier' \in [Appliers -> {"idle", "deleting"}]
      /\ policyOf' \in [Appliers -> Policies \union {NoPolicy}]
  BY DEF AppliersAreSound
<1>7. ASSUME NEW r \in Appliers
      PROVE  /\ plan'[r] \in [DOMAIN plan'[r] -> Operations]
             /\ todo'[r] \union removed'[r] \subseteq DOMAIN plan'[r]
             /\ DOMAIN plan'[r] \subseteq Deployments
  <2>1. CASE r = p
    <3>1. plan'[p] \in [DOMAIN plan'[p] -> Operations] /\ DOMAIN plan'[p] = {}
      BY <1>3, <1>5
    <3> QED
      BY <1>6, <2>1, <3>1
  <2>2. CASE r # p
    BY <1>5, <1>6, <2>2 DEF AppliersAreSound
  <2> QED
    BY <2>1, <2>2
<1> QED
  BY <1>5, <1>6, <1>7 DEF AppliersAreSound

LEMMA RequestsKeepBase ==
    ASSUME RetentionBase, NEW p \in Appliers,
           (\E d \in Deployments : HandleCandidate(p, d)) \/ WriteOutcome(p) \/ ApplyDies(p)
    PROVE  RetentionBase'
<1>1. UNCHANGED controllerVars => BaseInv'
  BY DEF RetentionBase, BaseInv, ControllerTypeOK, RowsTypeOK, WorksOnSomething,
     controllerVars, rowVars
<1>2. ASSUME NEW d \in Deployments, HandleCandidate(p, d)
      PROVE  RetentionBase'
  <2>1. /\ todo' = [todo EXCEPT ![p] = @ \ {d}]
        /\ removed' \in {removed, [removed EXCEPT ![p] = @ \union {d}]}
        /\ UNCHANGED <<plan, applier, policyOf>>
        /\ d \in todo[p]
    BY <1>2 DEF HandleCandidate
  <2>2. AppliersAreSound'
    <3>1. /\ todo' \in [Appliers -> SUBSET Deployments]
          /\ removed' \in [Appliers -> SUBSET Deployments]
      BY <2>1 DEF RetentionBase, AppliersAreSound
    <3>2. \A r \in Appliers : todo'[r] \union removed'[r] \subseteq DOMAIN plan[r]
      BY <2>1 DEF RetentionBase, AppliersAreSound
    <3>3. plan' = plan
      BY <2>1
    <3> QED
      BY <2>1, <3>1, <3>2, <3>3 DEF RetentionBase, AppliersAreSound
  <2>3. RetirementTypes'
    <3>1. /\ release' \in {release, [release EXCEPT ![d] = FALSE]}
          /\ retirement' \in {retirement, [retirement EXCEPT ![d] = "retired"]}
          /\ UNCHANGED <<operation, acknowledged, evidenceToo, rollbackRef, aged, opened>>
      BY <1>2 DEF HandleCandidate
    <3>2. release' \in [Deployments -> BOOLEAN]
      BY <3>1 DEF RetentionBase, RetirementTypes
    <3>3. retirement' \in [Deployments -> Retirements]
      BY <3>1 DEF RetentionBase, RetirementTypes, Retirements
    <3> QED
      BY <3>1, <3>2, <3>3 DEF RetentionBase, RetirementTypes
  <2> QED
    BY <1>1, <1>2, <2>2, <2>3 DEF RetentionBase, HandleCandidate
<1>3. CASE WriteOutcome(p)
  <2>1. retirement' \in [Deployments -> Retirements]
    BY <1>3 DEF WriteOutcome, RetentionBase, RetirementTypes, Retirements
  <2>2. RetirementTypes'
    BY <1>3, <2>1 DEF WriteOutcome, RetentionBase, RetirementTypes
  <2>3. AppliersAreSound'
    <3>1. /\ todo' \in [Appliers -> SUBSET Deployments] /\ todo'[p] = {} /\ todo' = todo
          /\ AppliersAreSound
      BY <1>3 DEF WriteOutcome, RetentionBase, AppliersAreSound
    <3> QED
      BY <1>3, <3>1, LeavingIsSound DEF WriteOutcome
  <2> QED
    BY <1>1, <1>3, <2>2, <2>3 DEF RetentionBase, WriteOutcome
<1>4. CASE ApplyDies(p)
  <2>1. RetirementTypes'
    BY <1>4 DEF ApplyDies, RetentionBase, RetirementTypes, retirementVars
  <2>2. AppliersAreSound'
    <3>1. /\ todo' \in [Appliers -> SUBSET Deployments] /\ todo'[p] = {}
          /\ \A r \in Appliers : r # p => todo'[r] = todo[r]
          /\ AppliersAreSound
      BY <1>4 DEF ApplyDies, RetentionBase, AppliersAreSound
    <3> QED
      BY <1>4, <3>1, LeavingIsSound DEF ApplyDies
  <2> QED
    BY <1>1, <1>4, <2>1, <2>2 DEF RetentionBase, ApplyDies
<1> QED
  BY <1>2, <1>3, <1>4

(* What a build changes beside the queue's own rows. *)
PublishesReady(w) ==
    /\ phase[w] = "built" /\ phase'[w] \in {"verifying", "idle"}
    /\ LeaseHeld(w, target[w]) /\ status'[target[w]] = "ready"

Builds(w) ==
    LET d == target[w] IN
    /\ WorkerStep(w) \/ Crash(w)
    /\ \/ StartContainers(w) /\ release' = [release EXCEPT ![d] = TRUE]
       \/ BuildRaises(w) /\ release' \in {release, [release EXCEPT ![d] = TRUE]}
       \/ phase[w] # "building" /\ UNCHANGED release
       \/ Crash(w) /\ UNCHANGED release
    /\ \/ /\ PublishesReady(w)
          /\ retirement' = [retirement EXCEPT ![d] = "none"]
          /\ operation' = [operation EXCEPT ![d] = NoOperation]
          /\ acknowledged' = [acknowledged EXCEPT ![d] = NoOperation]
          /\ evidenceToo' = evidenceToo \ {d}
          /\ rollbackRef' = [rollbackRef EXCEPT ![d] = active]
       \/ /\ ~PublishesReady(w)
          /\ UNCHANGED <<retirement, operation, acknowledged, evidenceToo, rollbackRef>>
    /\ UNCHANGED <<aged, applier, policyOf, plan, todo, removed, opened>>

LEMMA BuildingBuilds ==
    ASSUME NEW w \in Workers, BuildStep(w)
    PROVE  Builds(w)
  BY DEF BuildStep, Builds, PublishesReady, retirementVars, applyVars

LEMMA BuildsKeepBase ==
    ASSUME RetentionBase, NEW w \in Workers, Builds(w)
    PROVE  RetentionBase'
<1>1. ControllerNext
  BY DEF Builds, ControllerNext
<1>2. BaseInv'
  BY <1>1, StepBase DEF RetentionBase
<1>3. AppliersAreSound'
  BY DEF Builds, RetentionBase, AppliersAreSound
<1>4. release' \in {release, [release EXCEPT ![target[w]] = TRUE]}
  BY DEF Builds
<1>5. release' \in [Deployments -> BOOLEAN]
  BY <1>4 DEF RetentionBase, RetirementTypes
<1>6. active \in Routes
  BY DEF RetentionBase, BaseInv, ControllerTypeOK, RowsTypeOK
<1>7. RetirementTypes'
  BY <1>5, <1>6 DEF Builds, RetentionBase, RetirementTypes, Retirements
<1> QED
  BY <1>2, <1>3, <1>7 DEF RetentionBase

LEMMA StepRetention ==
    RetentionBase /\ [RetentionNext]_retentionVars => RetentionBase'
<1> SUFFICES ASSUME RetentionBase, [RetentionNext]_retentionVars
             PROVE  RetentionBase'
  OBVIOUS
<1>1. ASSUME NEW w \in Workers, BuildStep(w)
      PROVE  RetentionBase'
  BY <1>1, BuildingBuilds, BuildsKeepBase
<1>2. ASSUME NEW w \in Workers, NEW d \in Deployments, RetireContainers(w, d)
      PROVE  RetentionBase'
  <2>1. /\ container' \in {container, [container EXCEPT ![d] = FALSE]}
        /\ acknowledged' \in {[acknowledged EXCEPT ![d] = operation[d]],
                              [acknowledged EXCEPT ![d] = NoOperation]}
        /\ UNCHANGED <<rowVars, workerVars, crashes, retirement, operation, evidenceToo,
                       rollbackRef, release, aged, applyVars>>
    BY <1>2 DEF RetireContainers
  <2>2. container' \in [Deployments -> BOOLEAN]
    BY <2>1 DEF RetentionBase, BaseInv, ControllerTypeOK
  <2>3. BaseInv'
    BY <2>1, <2>2 DEF RetentionBase, BaseInv, ControllerTypeOK, RowsTypeOK,
       WorksOnSomething, rowVars, workerVars
  <2>4. acknowledged' \in [Deployments -> Operations \union {NoOperation}]
    BY <2>1 DEF RetentionBase, RetirementTypes
  <2>5. RetirementTypes'
    BY <2>1, <2>4 DEF RetentionBase, RetirementTypes, applyVars
  <2>6. AppliersAreSound'
    BY <2>1 DEF RetentionBase, AppliersAreSound, applyVars
  <2> QED
    BY <2>3, <2>5, <2>6 DEF RetentionBase
<1>3. CASE /\ \/ ApiNext /\ UNCHANGED <<workerVars, container, crashes>>
              \/ \E d \in Deployments : LeaseRunsOut(d)
           /\ UNCHANGED <<retirementVars, rollbackRef, release, aged, applyVars>>
  <2>1. ControllerNext
    BY <1>3 DEF ControllerNext
  <2>2. BaseInv'
    BY <2>1, StepBase DEF RetentionBase
  <2> QED
    BY <1>3, <2>2 DEF RetentionBase, RetirementTypes, AppliersAreSound, retirementVars,
       applyVars
<1>4. ASSUME NEW d \in Deployments, Ages(d)
      PROVE  RetentionBase'
  <2>1. BaseInv'
    BY <1>4 DEF Ages, RetentionBase, BaseInv, ControllerTypeOK, RowsTypeOK,
       WorksOnSomething, controllerVars, rowVars
  <2> QED
    BY <1>4, <2>1 DEF Ages, RetentionBase, RetirementTypes, AppliersAreSound,
       retirementVars, applyVars
<1>5. CASE UNCHANGED retentionVars
  BY <1>5 DEF retentionVars, controllerVars, rowVars, retirementVars, applyVars,
     RetentionBase, BaseInv, ControllerTypeOK, RowsTypeOK, WorksOnSomething,
     RetirementTypes, AppliersAreSound
<1> QED
  BY <1>1, <1>2, <1>3, <1>4, <1>5, MarkingKeepsBase, RequestsKeepBase DEF RetentionNext

-----------------------------------------------------------------------------
(* The route and the way back are never marked. *)

(* The worker that builds holds the lease, whether or not its owner cancelled *)
(* the deployment meanwhile: nobody else claims, and what is being built can  *)
(* neither be repaired nor retired.                                           *)
BuildsHoldLeases ==
    \A w \in Workers : phase[w] \in {"building", "built"} =>
        leaseOwner[target[w]] = w /\ status[target[w]] \in {"building", "cancelled"}

(* A deployment nobody retires has no operation whose outcome a late request *)
(* could write.                                                              *)
OperationsAreNamed ==
    \A d \in Deployments : retirement[d] = "none" => operation[d] = NoOperation

(* The route a verification may give back is named by the row that holds the *)
(* route, which is what keeps it out of every plan.                          *)
VerifiedHasItsWayBack ==
    \A w \in Workers : phase[w] = "verifying" =>
        /\ active = target[w]
        /\ rollbackRef[active] = previous[w]
        /\ previous[w] # NoDeployment => retirement[previous[w]] = "none"

RouteKept ==
    /\ RetentionBase
    /\ BuildsHoldLeases
    /\ OperationsAreNamed
    /\ VerifiedHasItsWayBack
    /\ RouteIsNotRetired

LEMMA NoWindowInUse ==
    ASSUME NoWindow, RetentionBase
    PROVE  /\ \A rules \in Policies : ~rules.window
           /\ \A p \in Appliers : ~policyOf[p].window
<1>1. ASSUME NEW rules \in Policies
      PROVE  ~rules.window
  <2>1. rules.window \in WindowPolicies
    BY DEF Policies
  <2>2. rules.window \in BOOLEAN /\ rules.window # TRUE
    BY <2>1, RetentionAssumption DEF NoWindow
  <2> QED
    BY <2>2
<1>2. ~NoPolicy.window
  BY DEF NoPolicy
<1>3. \A p \in Appliers : policyOf[p] \in Policies \union {NoPolicy}
  BY DEF RetentionBase, AppliersAreSound
<1> QED
  BY <1>1, <1>2, <1>3

(* Whatever else a plan contains. *)
LEMMA ReferencedIsSpared ==
    ASSUME RetentionBase, NEW rules, ~rules.window, active # NoDeployment
    PROVE  active \notin Candidates(rules) /\ rollbackRef[active] \notin Candidates(rules)
  BY DEF Candidates, Kept, Referenced, WindowPassed

LEMMA MarkingKeepsRoute ==
    ASSUME NoWindow, RouteKept, NEW p \in Appliers, NEW rules \in Policies,
           MarkRetiring(p, rules)
    PROVE  RouteKept'
<1>1. Marks(p, rules) /\ Candidates(rules) \subseteq Deployments
  BY MarkingMarks DEF RouteKept
<1>2. ~rules.window
  BY NoWindowInUse DEF RouteKept
<1>3. /\ UNCHANGED <<leaseOwner, active, phase, target, previous>>
      /\ rollbackRef' = [d \in Deployments |->
             IF d = active /\ rules.window /\ rollbackRef[d] \in Candidates(rules)
             THEN NoDeployment ELSE rollbackRef[d]]
  BY DEF MarkRetiring, leaseVars, routeVars, workerVars
<1>4. rollbackRef' = rollbackRef
  BY <1>2, <1>3 DEF RouteKept, RetentionBase, RetirementTypes
<1>5. /\ \A d \in Deployments : retirement'[d] \in {"retiring", retirement[d]}
      /\ \A d \in Deployments \ Candidates(rules) :
             retirement'[d] = retirement[d] /\ operation'[d] = operation[d]
      /\ \A d \in Candidates(rules) : retirement'[d] = "retiring"
      /\ \A d \in Deployments : status[d] # "ready" => status'[d] = status[d]
  BY <1>1 DEF Marks
<1>6. active # NoDeployment => /\ active \notin Candidates(rules)
                               /\ rollbackRef[active] \notin Candidates(rules)
  BY <1>2, ReferencedIsSpared DEF RouteKept
<1>7. active \in Routes /\ previous \in [Workers -> Routes] /\ target \in [Workers -> Routes]
      /\ WorksOnSomething
  BY DEF RouteKept, RetentionBase, BaseInv, ControllerTypeOK, RowsTypeOK
<1>8. BuildsHoldLeases'
  BY <1>3, <1>5, <1>7 DEF RouteKept, BuildsHoldLeases, WorksOnSomething
<1>9. OperationsAreNamed'
  BY <1>5 DEF RouteKept, OperationsAreNamed
<1>10. VerifiedHasItsWayBack' /\ RouteIsNotRetired'
  <2>1. RouteIsNotRetired'
    BY <1>3, <1>5, <1>6, <1>7 DEF RouteKept, RouteIsNotRetired, Routes
  <2>2. ASSUME NEW w \in Workers, phase[w] = "verifying"
        PROVE  /\ active = target[w]
               /\ rollbackRef[active] = previous[w]
               /\ previous[w] # NoDeployment => retirement'[previous[w]] = "none"
    <3>1. target[w] # NoDeployment
      BY <2>2, <1>7 DEF WorksOnSomething, Deployments, NoDeployment
    <3>2. active = target[w] /\ rollbackRef[active] = previous[w]
          /\ (previous[w] # NoDeployment => retirement[previous[w]] = "none")
      BY <2>2 DEF RouteKept, VerifiedHasItsWayBack
    <3> QED
      BY <3>1, <3>2, <1>5, <1>6, <1>7 DEF Routes
  <2> QED
    BY <2>1, <2>2, <1>3, <1>4 DEF VerifiedHasItsWayBack
<1> QED
  BY <1>8, <1>9, <1>10, MarkingKeepsBase DEF RouteKept

LEMMA RequestsKeepRoute ==
    ASSUME NoWindow, RouteKept, NEW p \in Appliers,
           (\E d \in Deployments : HandleCandidate(p, d)) \/ WriteOutcome(p) \/ ApplyDies(p)
    PROVE  RouteKept'
<1>1. UNCHANGED <<leaseOwner, status, active, phase, target, previous, operation, rollbackRef>>
  BY DEF HandleCandidate, WriteOutcome, ApplyDies, controllerVars, rowVars, retirementVars
<1>2. /\ active \in Routes /\ previous \in [Workers -> Routes]
      /\ target \in [Workers -> Routes] /\ WorksOnSomething
      /\ retirement \in [Deployments -> Retirements]
  BY DEF RouteKept, RetentionBase, BaseInv, ControllerTypeOK, RowsTypeOK, RetirementTypes
<1>3. /\ \A d \in Deployments :
             retirement'[d] # retirement[d] =>
                 retirement[d] # "none" \/ (d # active /\ (active # NoDeployment => d # rollbackRef[active]))
      /\ \A d \in Deployments : retirement'[d] # retirement[d] => retirement'[d] # "none"
  <2>1. ASSUME NEW d \in Deployments, HandleCandidate(p, d)
        PROVE  \A e \in Deployments : retirement'[e] # retirement[e] =>
                   /\ retirement'[e] # "none"
                   /\ e # active /\ (active # NoDeployment => e # rollbackRef[active])
    <3>1. CASE UNCHANGED retirement
      BY <3>1
    <3>2. CASE MayDelete(p, d) /\ retirement' = [retirement EXCEPT ![d] = "retired"]
      <4>1. ~policyOf[p].window
        BY NoWindowInUse DEF RouteKept
      <4>2. d \in Candidates(policyOf[p])
        BY <3>2 DEF MayDelete
      <4>3. d # active /\ (active # NoDeployment => d # rollbackRef[active])
        <5>1. CASE active = NoDeployment
          BY <5>1 DEF NoDeployment, Deployments
        <5>2. CASE active # NoDeployment
          <6>1. RetentionBase
            BY DEF RouteKept
          <6> QED
            BY <5>2, <4>1, <4>2, <6>1, ReferencedIsSpared
        <5> QED
          BY <5>1, <5>2
      <4> QED
        BY <4>3, <3>2, <1>2
    <3> QED
      BY <2>1, <3>1, <3>2 DEF HandleCandidate
  <2>2. CASE WriteOutcome(p)
    <3>1. \A d \in Deployments : retirement'[d] # retirement[d] =>
              /\ d \in DOMAIN plan[p] /\ operation[d] = plan[p][d]
              /\ retirement'[d] = "retry_required"
      BY <2>2, <1>2 DEF WriteOutcome, StillThisOperation
    <3>2. plan[p] \in [DOMAIN plan[p] -> Operations] /\ NoOperation \notin Operations
      BY RetentionAssumption
      DEF RouteKept, RetentionBase, AppliersAreSound, Operations, NoOperation
    <3>3. \A d \in Deployments : retirement'[d] # retirement[d] => operation[d] \in Operations
      BY <3>1, <3>2
    <3> QED
      BY <3>1, <3>2, <3>3 DEF RouteKept, OperationsAreNamed
  <2>3. CASE ApplyDies(p)
    BY <2>3 DEF ApplyDies, retirementVars
  <2> QED
    BY <2>1, <2>2, <2>3
<1>4. BuildsHoldLeases' /\ OperationsAreNamed'
  BY <1>1, <1>3 DEF RouteKept, BuildsHoldLeases, OperationsAreNamed
<1>5. RouteIsNotRetired'
  BY <1>1, <1>2, <1>3 DEF RouteKept, RouteIsNotRetired, Routes
<1>6. ASSUME NEW w \in Workers, phase[w] = "verifying"
      PROVE  /\ active = target[w]
             /\ rollbackRef[active] = previous[w]
             /\ previous[w] # NoDeployment => retirement'[previous[w]] = "none"
  <2>1. target[w] # NoDeployment
    BY <1>6, <1>2 DEF WorksOnSomething, Deployments, NoDeployment
  <2>2. active = target[w] /\ rollbackRef[active] = previous[w]
        /\ (previous[w] # NoDeployment => retirement[previous[w]] = "none")
    BY <1>6 DEF RouteKept, VerifiedHasItsWayBack
  <2> QED
    BY <2>1, <2>2, <1>2, <1>3 DEF Routes
<1>7. VerifiedHasItsWayBack'
  BY <1>1, <1>6 DEF VerifiedHasItsWayBack
<1> QED
  BY <1>4, <1>5, <1>7, RequestsKeepBase DEF RouteKept

LEMMA BuildsKeepRoute ==
    ASSUME OneWorker, RouteKept, NEW w \in Workers, Builds(w)
    PROVE  RouteKept'
<1> USE DEF RouteKept, BuildsHoldLeases, OperationsAreNamed, VerifiedHasItsWayBack,
            RouteIsNotRetired
<1>1. \A v \in Workers : v = w
  BY DEF OneWorker
<1>2. /\ active \in Routes /\ previous \in [Workers -> Routes]
      /\ target \in [Workers -> Routes] /\ WorksOnSomething
      /\ phase \in [Workers -> Phases]
      /\ status \in [Deployments -> Statuses]
      /\ leaseOwner \in [Deployments -> Workers \union {NoWorker}]
      /\ retirement \in [Deployments -> Retirements]
      /\ operation \in [Deployments -> Operations \union {NoOperation}]
      /\ rollbackRef \in [Deployments -> Routes]
  BY DEF RetentionBase, BaseInv, ControllerTypeOK, RowsTypeOK, RetirementTypes
<1>3. CASE Publish(w)
  <2> DEFINE d == target[w]
  <2>1. /\ phase[w] = "built" /\ phase' = [phase EXCEPT ![w] =
               IF d \in AutoActivated \intersect PublicServices THEN "verifying" ELSE "idle"]
        /\ LeaseHeld(w, d)
        /\ status' = [status EXCEPT ![d] = "ready"]
        /\ previous' = [previous EXCEPT ![w] = active]
        /\ active' = IF d \in AutoActivated THEN d ELSE active
        /\ target' = target
        /\ d \in Deployments
    BY <1>2, <1>3 DEF Publish, Goto, LeaseHeld, PointRouteAt, routeVars, WorksOnSomething
  <2>2. PublishesReady(w)
    BY <2>1, <1>2 DEF PublishesReady
  <2>3. /\ retirement' = [retirement EXCEPT ![d] = "none"]
        /\ operation' = [operation EXCEPT ![d] = NoOperation]
        /\ rollbackRef' = [rollbackRef EXCEPT ![d] = active]
    BY <2>2 DEF Builds
  <2>4. BuildsHoldLeases' /\ OperationsAreNamed'
    BY <1>1, <1>2, <2>1, <2>3
  <2>5. RouteIsNotRetired'
    BY <1>2, <2>1, <2>3 DEF Routes
  <2>6. VerifiedHasItsWayBack'
    BY <1>1, <1>2, <2>1, <2>3 DEF Routes
  <2> QED
    BY <2>4, <2>5, <2>6, BuildsKeepBase
<1>4. ~PublishesReady(w) => UNCHANGED <<retirement, operation, rollbackRef>>
  BY DEF Builds
<1>5. CASE Claim(w)
  <2>1. /\ target'[w] \in Deployments /\ phase' = [phase EXCEPT ![w] = "building"]
        /\ leaseOwner'[target'[w]] = w /\ status'[target'[w]] = "building"
        /\ UNCHANGED active
    BY <1>2, <1>5 DEF Claim, Goto, routeVars
  <2>2. UNCHANGED <<retirement, operation, rollbackRef>>
    BY <1>4, <1>5 DEF Claim, PublishesReady
  <2>3. phase'[w] = "building"
    BY <1>2, <2>1
  <2> QED
    BY <1>1, <2>1, <2>2, <2>3, BuildsKeepBase
<1>6. CASE \/ StartContainers(w) \/ BuildRaises(w) \/ PublishRaises(w) \/ RouteAnswers(w)
           \/ RemoveContainers(w) \/ Crash(w)
  <2>1. /\ UNCHANGED <<status, leaseOwner, active, target, previous>>
        /\ phase' = [phase EXCEPT ![w] = phase'[w]]
        /\ phase'[w] \in {"built", "failing", "idle"}
        /\ phase'[w] = "built" => phase[w] = "building"
    BY <1>6, <1>2 DEF StartContainers, BuildRaises, PublishRaises, RouteAnswers,
       RemoveContainers, Crash, Goto, rowVars
  <2>2. UNCHANGED <<retirement, operation, rollbackRef>>
    <3>1. phase[w] = "built" => status'[target[w]] # "ready"
      BY <2>1
    <3> QED
      BY <3>1, <1>4 DEF PublishesReady
  <2> QED
    BY <1>1, <2>1, <2>2, BuildsKeepBase
<1>7. CASE RouteFails(w)
  <2>1. /\ phase[w] = "verifying" /\ active' = previous[w] /\ phase'[w] = "cleanup"
        /\ UNCHANGED <<leaseOwner, target, previous>>
    BY <1>7, <1>2 DEF RouteFails, RestoreRoute, PointRouteAt, Goto, leaseVars
  <2>2. UNCHANGED <<retirement, operation, rollbackRef>>
    BY <1>4, <2>1 DEF PublishesReady
  <2> QED
    BY <1>1, <2>1, <2>2, BuildsKeepBase
<1>8. CASE Fail(w)
  <2>1. phase[w] = "failing" /\ UNCHANGED <<active, target, previous>> /\ phase'[w] = "idle"
    BY <1>8, <1>2 DEF Fail, Goto, routeVars
  <2>2. UNCHANGED <<retirement, operation, rollbackRef>>
    BY <1>4, <2>1 DEF PublishesReady
  <2> QED
    BY <1>1, <2>1, <2>2, BuildsKeepBase
<1> QED
  BY <1>3, <1>5, <1>6, <1>7, <1>8 DEF Builds, WorkerStep

LEMMA RouteStarts == RetentionInit => RouteKept
<1> SUFFICES ASSUME RetentionInit PROVE RouteKept
  OBVIOUS
<1>1. RetentionBase
  BY RetentionStarts
<1> QED
  BY <1>1 DEF RetentionInit, ControllerInit, RowsInit, RouteKept, BuildsHoldLeases,
     OperationsAreNamed, VerifiedHasItsWayBack, RouteIsNotRetired

LEMMA StepRouteKept ==
    ASSUME OneWorker, NoWindow
    PROVE  RouteKept /\ [RetentionNext]_retentionVars => RouteKept'
<1> SUFFICES ASSUME RouteKept, [RetentionNext]_retentionVars
             PROVE  RouteKept'
  OBVIOUS
<1> DEFINE Same == UNCHANGED <<active, phase, target, previous, retirement, operation,
                               rollbackRef>>
<1>1. RetentionBase'
  BY StepRetention DEF RouteKept
<1>2. ASSUME Same, BuildsHoldLeases'
      PROVE  RouteKept'
  BY <1>1, <1>2 DEF RouteKept, OperationsAreNamed, VerifiedHasItsWayBack, RouteIsNotRetired
<1>3. UNCHANGED <<phase, target, leaseOwner, status>> => BuildsHoldLeases'
  BY DEF RouteKept, BuildsHoldLeases
<1>4. ASSUME NEW w \in Workers, BuildStep(w)
      PROVE  RouteKept'
  BY <1>4, BuildingBuilds, BuildsKeepRoute
<1>5. ASSUME NEW w \in Workers, NEW d \in Deployments, RetireContainers(w, d)
      PROVE  RouteKept'
  <2>1. Same /\ UNCHANGED <<leaseOwner, status>>
    BY <1>5 DEF RetireContainers, rowVars, workerVars
  <2> QED
    BY <2>1, <1>2, <1>3
<1>6. CASE /\ \/ ApiNext /\ UNCHANGED <<workerVars, container, crashes>>
              \/ \E d \in Deployments : LeaseRunsOut(d)
           /\ UNCHANGED <<retirementVars, rollbackRef, release, aged, applyVars>>
  <2>1. Same
    BY <1>6 DEF ApiNext, RequestDeployment, CancelDeployment, RepairDeployment,
       LeaseRunsOut, routeVars, workerVars, retirementVars
  <2>2. BuildsHoldLeases'
    <3> USE DEF RouteKept, RetentionBase, BaseInv, ControllerTypeOK, RowsTypeOK,
                BuildsHoldLeases, WorksOnSomething
    <3>1. ASSUME NEW d \in Deployments,
                 RequestDeployment(d) \/ CancelDeployment(d) \/ RepairDeployment(d)
          PROVE  BuildsHoldLeases'
      <4>1. /\ status' \in {[status EXCEPT ![d] = "queued"], [status EXCEPT ![d] = "cancelled"]}
            /\ status[d] = "building" => status'[d] = "cancelled"
            /\ status[d] = "cancelled" => FALSE
            /\ leaseOwner'[d] # leaseOwner[d] => status[d] \notin {"building", "cancelled"}
            /\ \A e \in Deployments : e # d => leaseOwner'[e] = leaseOwner[e]
        BY <3>1 DEF RequestDeployment, CancelDeployment, RepairDeployment, Repairable,
           ReleaseLease, leaseVars
      <4> QED
        BY <2>1, <4>1
    <3>2. ASSUME NEW d \in Deployments, LeaseRunsOut(d)
          PROVE  BuildsHoldLeases'
      BY <3>2, <2>1 DEF LeaseRunsOut
    <3> QED
      BY <1>6, <3>1, <3>2 DEF ApiNext
  <2> QED
    BY <2>1, <2>2, <1>2
<1>7. ASSUME NEW d \in Deployments, Ages(d)
      PROVE  RouteKept'
  <2>1. Same /\ UNCHANGED <<leaseOwner, status>>
    BY <1>7 DEF Ages, controllerVars, rowVars, retirementVars
  <2> QED
    BY <2>1, <1>2, <1>3
<1>8. CASE UNCHANGED retentionVars
  <2>1. Same /\ UNCHANGED <<leaseOwner, status>>
    BY <1>8 DEF retentionVars, controllerVars, rowVars, retirementVars
  <2> QED
    BY <2>1, <1>2, <1>3
<1> QED
  BY <1>4, <1>5, <1>6, <1>7, <1>8, MarkingKeepsRoute, RequestsKeepRoute DEF RetentionNext

-----------------------------------------------------------------------------
(* Containers keep the directory they mount. *)

(* Until a deployment is repaired, an acknowledgement stays true: what it   *)
(* speaks of has no containers and nobody is at work on it, or can be.      *)
AcknowledgedIsGone ==
    \A d \in Deployments : acknowledged[d] # NoOperation =>
        /\ ~container[d]
        /\ status[d] \in {"failed", "rolled_back", "cancelled"}
        /\ \A w \in Workers : phase[w] # "idle" => target[w] # d

Mounted == \A d \in Deployments : container[d] => release[d]

ReleasesKept == RetentionBase /\ (repairs = 0 => AcknowledgedIsGone /\ Mounted)

LEMMA BuildsKeepReleases ==
    ASSUME OneWorker, ReleasesKept, NEW w \in Workers, Builds(w)
    PROVE  ReleasesKept'
<1> SUFFICES ASSUME repairs' = 0
             PROVE  AcknowledgedIsGone' /\ Mounted'
  BY BuildsKeepBase DEF ReleasesKept
<1> USE DEF AcknowledgedIsGone, Mounted
<1>1. \A v \in Workers : v = w
  BY DEF OneWorker
<1>2. /\ target \in [Workers -> Routes] /\ WorksOnSomething
      /\ phase \in [Workers -> Phases]
      /\ status \in [Deployments -> Statuses]
      /\ container \in [Deployments -> BOOLEAN]
      /\ release \in [Deployments -> BOOLEAN]
      /\ acknowledged \in [Deployments -> Operations \union {NoOperation}]
  BY DEF ReleasesKept, RetentionBase, BaseInv, ControllerTypeOK, RowsTypeOK, RetirementTypes
<1>3. repairs = 0 /\ AcknowledgedIsGone /\ Mounted
  BY DEF ReleasesKept, Builds, WorkerStep, Claim, StartContainers, BuildRaises,
     PublishRaises, Publish, RouteAnswers, RouteFails, RemoveContainers, Fail, Crash, rowVars
<1>4. /\ acknowledged' \in {acknowledged, [acknowledged EXCEPT ![target[w]] = NoOperation]}
      /\ release' \in {release, [release EXCEPT ![target[w]] = TRUE]}
      /\ PublishesReady(w) => acknowledged' = [acknowledged EXCEPT ![target[w]] = NoOperation]
  BY DEF Builds
<1>5. CASE Claim(w)
  <2>1. PICK d \in Deployments : /\ Claimable(d)
                                 /\ status' = [status EXCEPT ![d] = "building"]
                                 /\ target' = [target EXCEPT ![w] = d]
    BY <1>5 DEF Claim
  <2>2. phase[w] = "idle" /\ UNCHANGED container
    BY <1>5 DEF Claim
  <2>3. release' = release \/ release' = [release EXCEPT ![target[w]] = TRUE]
    BY <1>4
  <2>4. UNCHANGED acknowledged
    BY <2>2 DEF Builds, PublishesReady
  <2> QED
    BY <1>1, <1>2, <1>3, <2>1, <2>2, <2>3, <2>4 DEF Claimable
<1>6. CASE StartContainers(w)
  <2>1. /\ phase[w] = "building" /\ phase'[w] = "built"
        /\ container' \in {[container EXCEPT ![target[w]] = TRUE],
                           [container EXCEPT ![target[w]] = FALSE]}
        /\ UNCHANGED <<status, target, crashes>>
        /\ target[w] \in Deployments
    BY <1>6, <1>2 DEF StartContainers, Goto, rowVars, WorksOnSomething
  <2>2. release' = [release EXCEPT ![target[w]] = TRUE]
    BY <2>1, <1>2 DEF Builds, BuildRaises, Crash, Goto
  <2>3. UNCHANGED acknowledged
    BY <2>1 DEF Builds, PublishesReady
  <2> QED
    BY <1>1, <1>2, <1>3, <2>1, <2>2, <2>3
<1>7. CASE \/ BuildRaises(w) \/ PublishRaises(w) \/ RemoveContainers(w)
           \/ RouteAnswers(w) \/ Crash(w)
  <2>1. /\ container' \in {container, [container EXCEPT ![target[w]] = FALSE]}
        /\ UNCHANGED <<status, target>>
        /\ phase[w] # "idle"
    BY <1>7 DEF BuildRaises, PublishRaises, RemoveContainers, RouteAnswers, Crash, rowVars
  <2> QED
    BY <1>1, <1>2, <1>3, <1>4, <2>1 DEF WorksOnSomething
<1>8. CASE Publish(w)
  <2>1. /\ phase[w] = "built" /\ phase'[w] \in {"verifying", "idle"}
        /\ UNCHANGED <<container, target>>
        /\ \/ UNCHANGED status
           \/ LeaseHeld(w, target[w]) /\ status' = [status EXCEPT ![target[w]] = "ready"]
        /\ target[w] \in Deployments
    BY <1>8, <1>2 DEF Publish, Goto, WorksOnSomething
  <2>2. status' = status \/ acknowledged'[target[w]] = NoOperation
    <3>1. status' # status => PublishesReady(w)
      BY <2>1, <1>2 DEF PublishesReady
    <3> QED
      BY <3>1, <1>2, <1>4, <2>1
  <2> QED
    BY <1>1, <1>2, <1>3, <1>4, <2>1, <2>2
<1>9. CASE RouteFails(w) \/ Fail(w)
  <2>1. /\ phase[w] \in {"verifying", "failing"}
        /\ UNCHANGED <<container, target>>
        /\ status' = [status EXCEPT ![target[w]] = "failed"]
        /\ target[w] \in Deployments
    BY <1>9, <1>2 DEF RouteFails, MarkFailed, Fail, Goto, WorksOnSomething
  <2> QED
    BY <1>1, <1>2, <1>3, <1>4, <2>1
<1> QED
  BY <1>5, <1>6, <1>7, <1>8, <1>9 DEF Builds, WorkerStep

LEMMA StepReleasesKept ==
    ASSUME OneWorker
    PROVE  ReleasesKept /\ [RetentionNext]_retentionVars => ReleasesKept'
<1> SUFFICES ASSUME ReleasesKept, [RetentionNext]_retentionVars
             PROVE  ReleasesKept'
  OBVIOUS
<1>1. ASSUME NEW w \in Workers, BuildStep(w)
      PROVE  ReleasesKept'
  BY <1>1, BuildingBuilds, BuildsKeepReleases
<1>2. RetentionBase'
  BY StepRetention DEF ReleasesKept
<1>3. /\ status \in [Deployments -> Statuses]
      /\ container \in [Deployments -> BOOLEAN]
      /\ release \in [Deployments -> BOOLEAN]
      /\ acknowledged \in [Deployments -> Operations \union {NoOperation}]
      /\ repairs \in Nat
      /\ RetentionBase
  BY RowsAssumption
  DEF ReleasesKept, RetentionBase, BaseInv, ControllerTypeOK, RowsTypeOK, RetirementTypes
<1>4. ASSUME repairs' = 0 => repairs = 0,
             repairs = 0 /\ AcknowledgedIsGone /\ Mounted
                 => AcknowledgedIsGone' /\ Mounted'
      PROVE  ReleasesKept'
  BY <1>2, <1>4 DEF ReleasesKept
<1> USE DEF AcknowledgedIsGone, Mounted
<1>5. ASSUME NEW w \in Workers, NEW d \in Deployments, RetireContainers(w, d)
      PROVE  ReleasesKept'
  <2>1. /\ \/ /\ container' = [container EXCEPT ![d] = FALSE]
              /\ acknowledged' = [acknowledged EXCEPT ![d] = operation[d]]
           \/ /\ container' \in {container, [container EXCEPT ![d] = FALSE]}
              /\ acknowledged' = [acknowledged EXCEPT ![d] = NoOperation]
        /\ status[d] \in {"failed", "rolled_back", "cancelled"}
        /\ UNCHANGED <<status, repairs, phase, target, release>>
        /\ \A v \in Workers : phase[v] = "idle"
    BY <1>5 DEF RetireContainers, rowVars, workerVars, OneWorker
  <2>2. container'[d] => container[d] /\ acknowledged'[d] = NoOperation
    BY <2>1, <1>3
  <2>3. \A e \in Deployments : e # d => /\ container'[e] = container[e]
                                        /\ acknowledged'[e] = acknowledged[e]
    BY <2>1, <1>3
  <2> QED
    BY <1>4, <2>1, <2>2, <2>3
<1>6. CASE /\ \/ ApiNext /\ UNCHANGED <<workerVars, container, crashes>>
              \/ \E d \in Deployments : LeaseRunsOut(d)
           /\ UNCHANGED <<retirementVars, rollbackRef, release, aged, applyVars>>
  <2>1. UNCHANGED <<phase, target, container, acknowledged, release>>
    BY <1>6 DEF LeaseRunsOut, workerVars, retirementVars
  <2>2. ASSUME NEW d \in Deployments,
               RequestDeployment(d) \/ CancelDeployment(d) \/ RepairDeployment(d)
        PROVE  ReleasesKept'
    <3>1. CASE RepairDeployment(d)
      <4>1. repairs' = repairs + 1
        BY <3>1 DEF RepairDeployment
      <4>2. repairs' # 0
        BY <4>1, <1>3
      <4> QED
        BY <4>2, <1>2 DEF ReleasesKept
    <3>2. CASE RequestDeployment(d) \/ CancelDeployment(d)
      <4>1. /\ status[d] \in {"absent", "queued", "building"}
            /\ UNCHANGED repairs
            /\ \A e \in Deployments : e # d => status'[e] = status[e]
        BY <3>2, <1>3 DEF RequestDeployment, CancelDeployment
      <4> QED
        BY <1>4, <2>1, <4>1
    <3> QED
      BY <2>2, <3>1, <3>2
  <2>3. ASSUME NEW d \in Deployments, LeaseRunsOut(d)
        PROVE  ReleasesKept'
    BY <1>4, <2>1, <2>3 DEF LeaseRunsOut
  <2> QED
    BY <1>6, <2>2, <2>3 DEF ApiNext
<1>7. ASSUME NEW p \in Appliers, NEW rules \in Policies, MarkRetiring(p, rules)
      PROVE  ReleasesKept'
  <2>1. /\ UNCHANGED <<phase, target, container, release, repairs>>
    BY <1>7 DEF MarkRetiring, workerVars
  <2>2. \A d \in Deployments :
            /\ acknowledged'[d] \in {acknowledged[d], NoOperation}
            /\ status'[d] # status[d] => status[d] = "ready"
    BY <1>3, <1>7, MarkingMarks DEF Marks
  <2> QED
    BY <1>4, <2>1, <2>2
(* What is deleted was acknowledged for the very operation that deletes it. *)
<1>8. ASSUME NEW p \in Appliers, NEW d \in Deployments, HandleCandidate(p, d)
      PROVE  ReleasesKept'
  <2>1. UNCHANGED <<phase, target, container, status, acknowledged, repairs>>
    BY <1>8 DEF HandleCandidate, controllerVars, rowVars
  <2>2. /\ release' \in {release, [release EXCEPT ![d] = FALSE]}
        /\ release' # release => acknowledged[d] = plan[p][d] /\ d \in DOMAIN plan[p]
    <3>1. d \in DOMAIN plan[p]
      BY <1>3, <1>8 DEF HandleCandidate, RetentionBase, AppliersAreSound
    <3> QED
      BY <3>1, <1>8 DEF HandleCandidate, MayDelete
  <2>3. release' # release => acknowledged[d] # NoOperation
    BY <2>2, <1>3, RetentionAssumption
    DEF RetentionBase, AppliersAreSound, Operations, NoOperation
  <2> QED
    BY <1>3, <1>4, <2>1, <2>2, <2>3
<1>9. ASSUME \/ \E p \in Appliers : WriteOutcome(p) \/ ApplyDies(p)
             \/ \E d \in Deployments : Ages(d)
             \/ UNCHANGED retentionVars
      PROVE  ReleasesKept'
  <2>1. UNCHANGED <<phase, target, container, status, acknowledged, repairs, release>>
    BY <1>9 DEF WriteOutcome, ApplyDies, Ages, retentionVars, controllerVars, rowVars,
       retirementVars
  <2> QED
    BY <1>4, <2>1
<1> QED
  BY <1>1, <1>5, <1>6, <1>7, <1>8, <1>9 DEF RetentionNext

-----------------------------------------------------------------------------
(* What is retired stays so. *)

LEMMA StepRetired ==
    ASSUME RetentionBase, [RetentionNext]_retentionVars
    PROVE  \A d \in Deployments :
               retirement[d] = "retired" /\ retirement'[d] # "retired"
                   => status'[d] = "ready"
<1> DEFINE Final == \A d \in Deployments :
               retirement[d] = "retired" /\ retirement'[d] # "retired"
                   => status'[d] = "ready"
<1>1. retirement \in [Deployments -> Retirements] /\ status \in [Deployments -> Statuses]
  BY DEF RetentionBase, BaseInv, ControllerTypeOK, RowsTypeOK, RetirementTypes
<1>2. ASSUME NEW w \in Workers, BuildStep(w)
      PROVE  Final
  <2>1. Builds(w)
    BY <1>2, BuildingBuilds
  <2> QED
    BY <2>1, <1>1 DEF Builds, PublishesReady
<1>3. ASSUME NEW p \in Appliers, NEW rules \in Policies, MarkRetiring(p, rules)
      PROVE  Final
  <2>1. \A d \in Candidates(rules) : retirement[d] # "retired"
    BY DEF Candidates
  <2> QED
    BY <1>3, <2>1, MarkingMarks DEF Marks
<1>4. ASSUME NEW p \in Appliers,
             (\E d \in Deployments : HandleCandidate(p, d)) \/ WriteOutcome(p) \/ ApplyDies(p)
      PROVE  Final
  BY <1>1, <1>4 DEF HandleCandidate, WriteOutcome, ApplyDies, StillThisOperation,
     retirementVars
<1>5. ASSUME UNCHANGED retirement
      PROVE  Final
  BY <1>5
<1>6. (\/ \E w \in Workers, d \in Deployments : RetireContainers(w, d)
       \/ UNCHANGED <<retirementVars, rollbackRef, release, aged, applyVars>>
       \/ \E d \in Deployments : Ages(d)
       \/ UNCHANGED retentionVars)
      => UNCHANGED retirement
  BY DEF RetireContainers, Ages, retentionVars, retirementVars
<1> QED
  BY <1>2, <1>3, <1>4, <1>5, <1>6 DEF RetentionNext

(* Every row and every request of retention stays in its type.               *)
THEOREM RetentionTypeCorrect == RetentionSpec => []RetentionTypeOK
<1>1. RetentionBase => RetentionTypeOK
  BY DEF RetentionBase, BaseInv, RetirementTypes, AppliersAreSound, RetentionTypeOK
<1> QED
  BY RetentionStarts, StepRetention, <1>1, PTL DEF RetentionSpec

(* With one controller, and while no policy lets the rollback window pass,   *)
(* nothing that the route points at, or is given back to by a verification   *)
(* that fails, is ever retired: builds that lose their lease, repairs,       *)
(* cancellations, crashes and any number of plans applied at the same time   *)
(* included.                                                                 *)
THEOREM RouteIsNeverRetired ==
    ASSUME OneWorker, NoWindow
    PROVE  RetentionSpec => []RouteIsNotRetired
<1>1. RouteKept => RouteIsNotRetired
  BY DEF RouteKept
<1> QED
  BY RouteStarts, StepRouteKept, <1>1, PTL DEF RetentionSpec

(* With one controller, and until somebody asks for a repair, a release      *)
(* directory outlives the containers that mount it, whatever policies are    *)
(* applied.                                                                  *)
THEOREM ReleasesOutliveContainers ==
    ASSUME OneWorker
    PROVE  RetentionSpec => []ContainersHaveTheirRelease
<1>1. RetentionInit => ReleasesKept
  BY RetentionStarts
  DEF RetentionInit, ControllerInit, ReleasesKept, AcknowledgedIsGone, Mounted
<1>2. ReleasesKept => ContainersHaveTheirRelease
  BY DEF ReleasesKept, Mounted, ContainersHaveTheirRelease
<1> QED
  BY StepReleasesKept, <1>1, <1>2, PTL DEF RetentionSpec

(* What is recorded as retired only ever leaves that state by being built    *)
(* again, with any number of controllers and of requests.                    *)
THEOREM RetirementIsFinal == RetentionSpec => RetiredStaysRetired
<1>1. RetentionBase /\ [RetentionNext]_retentionVars
          => [\A d \in Deployments :
                 retirement[d] = "retired" /\ retirement'[d] # "retired"
                     => status'[d] = "ready"]_retentionVars
  BY StepRetired
<1> QED
  BY RetentionStarts, StepRetention, <1>1, PTL DEF RetentionSpec, RetiredStaysRetired

-----------------------------------------------------------------------------
(* The membership of a task. *)

(* What a call that has read goes on to write: the role of an admission is  *)
(* never the owner's, and nobody who was the owner is leaving.              *)
SoundCall(c) ==
    /\ c.by \in People /\ c.about \in People
    /\ c.op \in Admissions => c.role \in RequestRoles \cup {"coordinator"}
    /\ c.op = "leave" => c.knew # "owner"

CallsAreSound ==
    /\ serving = [b \in Browsers |-> serving[b]]
    /\ \A b \in Browsers : serving[b].op # "idle" => SoundCall(serving[b])

MemberRows ==
    /\ roleIn \in [People -> Roles]
    /\ memberNow \in SUBSET People
    /\ \A u \in memberNow : roleIn[u] # "none"
    /\ \A u, v \in memberNow : roleIn[u] = "owner" /\ roleIn[v] = "owner" => u = v
    /\ IsFiniteSet(memberNow)

SpaceRows ==
    /\ asking \subseteq People /\ invited \subseteq People
    /\ policy \in JoinPolicies /\ limit \in Limits
    /\ taskOpen \in BOOLEAN /\ crowded \in BOOLEAN /\ calls \in 0..MaxCalls

(* Until two counts overlap there is room for the one admission under way.  *)
RoomIsLeft ==
    ~crowded =>
        /\ Cardinality(memberNow) <= limit
        /\ \A b, c \in Browsers :
               serving[b].op \in Admissions /\ serving[c].op \in Admissions => b = c
        /\ \A b \in Browsers : serving[b].op \in Admissions => HasRoom

CollaborationInv == CallsAreSound /\ MemberRows /\ SpaceRows /\ RoomIsLeft


LEMMA SizesAreNumbers ==
    CollaborationInv => Cardinality(memberNow) \in Nat /\ limit \in Nat /\ limit > 0
  BY FS_CardinalityType, LimitsAssumption DEF CollaborationInv, MemberRows, SpaceRows

LEMMA CollaborationStarts == CollaborationInit => CollaborationInv
<1> SUFFICES ASSUME CollaborationInit PROVE CollaborationInv
  OBVIOUS
<1>1. CallsAreSound
  BY DEF CollaborationInit, CallsAreSound, NoCall
<1>2. MemberRows
  <2>1. IsFiniteSet(memberNow)
    BY FS_Singleton DEF CollaborationInit
  <2> QED
    BY <2>1, PeopleAssumption DEF CollaborationInit, MemberRows, Roles
<1>3. SpaceRows
  <2>1. 0 \in 0..MaxCalls
    BY MaxCallsAssumption
  <2>2. limit \in Limits
    BY DEF CollaborationInit
  <2> QED
    BY <2>1, <2>2 DEF CollaborationInit, SpaceRows, JoinPolicies
<1>4. RoomIsLeft
  <2>1. Cardinality(memberNow) = 1
    BY FS_Singleton DEF CollaborationInit
  <2>2. limit \in Nat /\ limit > 0
    BY LimitsAssumption DEF CollaborationInit
  <2>3. \A b \in Browsers : serving[b].op \notin Admissions
    BY DEF CollaborationInit, NoCall, Admissions
  <2> QED
    BY <2>1, <2>2, <2>3 DEF RoomIsLeft
<1> QED
  BY <1>1, <1>2, <1>3, <1>4 DEF CollaborationInv

LEMMA ServingKeepsInv ==
    ASSUME CollaborationInv, NEW b \in Browsers, NEW call, Serve(b, call),
           call.op \in Admissions => HasRoom, SoundCall(call)
    PROVE  CollaborationInv'
<1>1. /\ serving' = [serving EXCEPT ![b] = call]
      /\ UNCHANGED <<roleIn, memberNow, asking, invited, policy, limit, taskOpen>>
      /\ calls < MaxCalls /\ calls' = calls + 1
      /\ crowded' = (crowded \/ /\ call.op \in Admissions
                                /\ \E c \in Browsers : serving[c].op \in Admissions)
  BY DEF Serve
<1>2. /\ serving'[b] = call /\ \A c \in Browsers : c # b => serving'[c] = serving[c]
      /\ serving' = [c \in Browsers |-> serving'[c]]
  BY <1>1 DEF CollaborationInv, CallsAreSound
<1>3. CallsAreSound'
  BY <1>2 DEF CollaborationInv, CallsAreSound, SoundCall
<1>4. MemberRows'
  BY <1>1 DEF CollaborationInv, MemberRows
<1>5. SpaceRows'
  <2>1. calls' \in 0..MaxCalls
    BY <1>1, MaxCallsAssumption DEF CollaborationInv, SpaceRows
  <2>2. crowded' \in BOOLEAN
    BY <1>1 DEF CollaborationInv, SpaceRows
  <2> QED
    BY <1>1, <2>1, <2>2 DEF CollaborationInv, SpaceRows
<1>6. RoomIsLeft'
  <2>1. HasRoom' = HasRoom
    BY <1>1 DEF HasRoom
  <2>2. ~crowded' => /\ ~crowded
                     /\ call.op \in Admissions
                            => \A c \in Browsers : serving[c].op \notin Admissions
    BY <1>1
  <2>3. Cardinality(memberNow)' = Cardinality(memberNow)
    BY <1>1
  <2> QED
    BY <1>1, <1>2, <2>1, <2>2, <2>3 DEF CollaborationInv, RoomIsLeft
<1> QED
  BY <1>3, <1>4, <1>5, <1>6 DEF CollaborationInv

(* Every call that reads before it writes. *)
LEMMA BeginsAreSound ==
    ASSUME CollaborationInv, NEW b \in Browsers, NEW u \in People,
           \/ \E role \in RequestRoles : BeginJoin(b, u, role)
           \/ BeginAccept(b, u)
           \/ BeginLeave(b, u)
           \/ \E v \in People : \/ BeginApprove(b, u, v)
                                \/ BeginInvite(b, u, v)
                                \/ BeginTransfer(b, u, v)
    PROVE  \E call : Serve(b, call) /\ SoundCall(call) /\ (call.op \in Admissions => HasRoom)
<1> DEFINE Goal == \E call :
               Serve(b, call) /\ SoundCall(call) /\ (call.op \in Admissions => HasRoom)
<1>1. ASSUME NEW o, NEW v \in People, NEW role, NEW knew, Serve(b, Call(o, u, v, role, knew)),
             o \in Admissions => HasRoom /\ role \in RequestRoles \cup {"coordinator"},
             o = "leave" => knew # "owner"
      PROVE  Goal
  <2> DEFINE call == Call(o, u, v, role, knew)
  <2>1. SoundCall(call) /\ (call.op \in Admissions => HasRoom)
    BY <1>1 DEF SoundCall, Call
  <2> HIDE DEF call
  <2>2. Serve(b, call)
    BY <1>1 DEF call
  <2> QED
    BY <2>1, <2>2
<1> HIDE DEF Goal
<1>2. "ask" \notin Admissions /\ "invite" \notin Admissions /\ "transfer" \notin Admissions
      /\ "leave" \notin Admissions
  BY DEF Admissions
<1>3. ASSUME NEW role \in RequestRoles, BeginJoin(b, u, role)
      PROVE  Goal
  BY <1>1, <1>2, <1>3 DEF BeginJoin
<1>4. ASSUME BeginAccept(b, u)
      PROVE  Goal
  <2>1. HasRoom /\ Serve(b, Call("accept", u, u, "coordinator", roleIn[u]))
    BY <1>4 DEF BeginAccept
  <2>2. "coordinator" \in RequestRoles \cup {"coordinator"} /\ "accept" # "leave"
    OBVIOUS
  <2> QED
    BY <1>1, <2>1, <2>2
<1>5. ASSUME BeginLeave(b, u)
      PROVE  Goal
  <2>1. roleIn[u] # "owner" /\ Serve(b, Call("leave", u, u, "none", roleIn[u]))
    BY <1>5 DEF BeginLeave, MayLeave
  <2> QED
    BY <1>1, <1>2, <2>1
<1>6. ASSUME NEW v \in People,
             BeginApprove(b, u, v) \/ BeginInvite(b, u, v) \/ BeginTransfer(b, u, v)
      PROVE  Goal
  BY <1>1, <1>2, <1>6 DEF BeginApprove, BeginInvite, BeginTransfer
<1>7. Goal
  BY <1>3, <1>4, <1>5, <1>6
<1> QED
  BY <1>7 DEF Goal

(* What the end of a call leaves to the others. *)
LEMMA DoneIsSound ==
    ASSUME CollaborationInv, NEW b \in Browsers, Done(b),
           MemberRows', asking' \subseteq People, invited' \subseteq People,
           ~crowded => \/ Cardinality(memberNow') <= Cardinality(memberNow)
                       \/ /\ serving[b].op \in Admissions
                          /\ Cardinality(memberNow') <= Cardinality(memberNow) + 1
    PROVE  CollaborationInv'
<1>1. /\ serving' = [serving EXCEPT ![b] = NoCall]
      /\ UNCHANGED <<policy, limit, taskOpen, calls, crowded>>
  BY DEF Done
<1>2. /\ serving'[b] = NoCall /\ \A c \in Browsers : c # b => serving'[c] = serving[c]
      /\ serving' = [c \in Browsers |-> serving'[c]]
  BY <1>1 DEF CollaborationInv, CallsAreSound
<1>3. NoCall.op = "idle" /\ "idle" \notin Admissions
  BY DEF NoCall, Admissions
<1>4. CallsAreSound'
  BY <1>2, <1>3 DEF CollaborationInv, CallsAreSound, SoundCall
<1>5. SpaceRows'
  BY <1>1 DEF CollaborationInv, SpaceRows
<1>6. RoomIsLeft'
  <2>1. Cardinality(memberNow) \in Nat /\ Cardinality(memberNow') \in Nat /\ limit \in Nat
    BY SizesAreNumbers, FS_CardinalityType DEF MemberRows
  <2>2. HasRoom = (Cardinality(memberNow) < limit)
    BY DEF HasRoom
  <2>3. HasRoom' = (Cardinality(memberNow') < limit)
    BY <1>1 DEF HasRoom
  <2>4. ASSUME ~crowded
        PROVE  /\ Cardinality(memberNow') <= limit
               /\ \A c \in Browsers : serving'[c].op \in Admissions => HasRoom'
    <3> DEFINE before == Cardinality(memberNow)
               after == Cardinality(memberNow')
    <3>1. /\ before <= limit
          /\ \A c, e \in Browsers :
                 serving[c].op \in Admissions /\ serving[e].op \in Admissions => c = e
          /\ \A c \in Browsers : serving[c].op \in Admissions => before < limit
      BY <2>2, <2>4 DEF CollaborationInv, RoomIsLeft
    <3>2. \/ after <= before
          \/ serving[b].op \in Admissions /\ after <= before + 1
      BY <2>4
    <3>3. before \in Nat /\ after \in Nat /\ limit \in Nat
      BY <2>1
    <3> HIDE DEF before, after
    <3>4. /\ after <= limit
          /\ \A c \in Browsers : serving'[c].op \in Admissions => after < limit
      <4>1. CASE after <= before
        <5>1. \A c \in Browsers : serving'[c].op \in Admissions => serving[c].op \in Admissions
          BY <1>2, <1>3
        <5> QED
          BY <3>1, <3>3, <4>1, <5>1
      <4>2. CASE serving[b].op \in Admissions /\ after <= before + 1
        <5>1. \A c \in Browsers : serving'[c].op \notin Admissions
          BY <1>2, <1>3, <3>1, <4>2
        <5> QED
          BY <3>1, <3>3, <4>2, <5>1
      <4> QED
        BY <3>2, <4>1, <4>2
    <3> QED
      BY <2>3, <3>4 DEF after
  <2>5. limit' = limit /\ crowded' = crowded
    BY <1>1
  <2> QED
    BY <1>2, <1>3, <2>4, <2>5 DEF CollaborationInv, RoomIsLeft
<1> QED
  BY <1>4, <1>5, <1>6 DEF CollaborationInv

LEMMA WritesKeepInv ==
    ASSUME CollaborationInv, NEW b \in Browsers,
           \/ WriteJoin(b) \/ WriteAsk(b) \/ WriteApprove(b) \/ WriteInvite(b)
           \/ WriteAccept(b) \/ WriteTransfer(b) \/ WriteLeave(b) \/ Refused(b)
    PROVE  CollaborationInv'
<1> DEFINE c == serving[b]
<1>1. c.op # "idle" => SoundCall(c)
  BY DEF CollaborationInv, CallsAreSound
<1>2. /\ asking \subseteq People /\ invited \subseteq People
      /\ Cardinality(memberNow) \in Nat /\ IsFiniteSet(memberNow)
  BY SizesAreNumbers DEF CollaborationInv, SpaceRows, MemberRows
<1> HIDE DEF c
<1>3. CASE WriteJoin(b) \/ WriteApprove(b) \/ WriteAccept(b)
  <2>1. /\ c.op \in Admissions /\ Activate(c.about, c.role) /\ Done(b)
        /\ asking' \subseteq asking /\ invited' \subseteq invited
    BY <1>3 DEF WriteJoin, WriteApprove, WriteAccept, Admissions, c
  <2>2. c.about \in People /\ c.role \in RequestRoles \cup {"coordinator"}
    BY <1>1, <2>1 DEF SoundCall, Admissions
  <2> DEFINE u == c.about
             role == c.role
  <2>3. /\ memberNow' = memberNow \cup {u}
        /\ roleIn' = [roleIn EXCEPT ![u] = role]
        /\ u \in People /\ role \in Roles \ {"owner", "none"}
    BY <2>1, <2>2 DEF Activate, Roles, RequestRoles
  <2> HIDE DEF u, role
  <2>4. /\ IsFiniteSet(memberNow')
        /\ Cardinality(memberNow') <= Cardinality(memberNow) + 1
    <3>1. /\ IsFiniteSet(memberNow \cup {u})
          /\ Cardinality(memberNow \cup {u}) \in
                 {Cardinality(memberNow), Cardinality(memberNow) + 1}
      BY <1>2, FS_AddElement
    <3> QED
      BY <1>2, <2>3, <3>1
  <2>5. MemberRows'
    BY <2>3, <2>4 DEF CollaborationInv, MemberRows
  <2> QED
    BY <1>2, <2>1, <2>4, <2>5, DoneIsSound DEF c
<1>4. CASE WriteAsk(b) \/ WriteInvite(b)
  <2>1. /\ c.op # "idle" /\ Done(b) /\ UNCHANGED <<roleIn, memberNow>>
        /\ asking' \subseteq asking \cup {c.about}
        /\ invited' \subseteq invited \cup {c.about}
    BY <1>4 DEF WriteAsk, WriteInvite, c
  <2>2. MemberRows'
    BY <2>1 DEF CollaborationInv, MemberRows
  <2>3. Cardinality(memberNow') <= Cardinality(memberNow)
    BY <1>2, <2>1
  <2> QED
    BY <1>1, <1>2, <2>1, <2>2, <2>3, DoneIsSound DEF SoundCall
<1>5. CASE Refused(b)
  <2>1. Done(b) /\ UNCHANGED <<roleIn, memberNow, asking, invited>>
    BY <1>5 DEF Refused
  <2>2. MemberRows'
    BY <2>1 DEF CollaborationInv, MemberRows
  <2>3. Cardinality(memberNow') <= Cardinality(memberNow)
    BY <1>2, <2>1
  <2> QED
    BY <1>2, <2>1, <2>2, <2>3, DoneIsSound
<1>6. CASE WriteTransfer(b)
  <2> DEFINE u == c.by
             v == c.about
  <2>1. /\ u \in People /\ v \in People
        /\ \A x \in memberNow \ {u, v} : roleIn[x] # "owner"
        /\ roleIn' = [roleIn EXCEPT ![u] = "coordinator", ![v] = "owner"]
        /\ UNCHANGED <<memberNow, asking, invited>> /\ Done(b)
    BY <1>1, <1>6 DEF WriteTransfer, SoundCall, c
  <2> HIDE DEF u, v
  <2>2. /\ roleIn' \in [People -> Roles]
        /\ roleIn'[v] = "owner" /\ (u # v => roleIn'[u] = "coordinator")
        /\ \A x \in People \ {u, v} : roleIn'[x] = roleIn[x]
    BY <2>1 DEF CollaborationInv, MemberRows, Roles
  <2>3. MemberRows'
    BY <2>1, <2>2 DEF CollaborationInv, MemberRows
  <2>4. Cardinality(memberNow') <= Cardinality(memberNow)
    BY <1>2, <2>1
  <2> QED
    BY <1>2, <2>1, <2>3, <2>4, DoneIsSound
<1>7. CASE WriteLeave(b)
  <2>1. /\ memberNow' = memberNow \ {c.about}
        /\ UNCHANGED <<roleIn, asking, invited>> /\ Done(b)
    BY <1>7 DEF WriteLeave, c
  <2>2. IsFiniteSet(memberNow') /\ Cardinality(memberNow') <= Cardinality(memberNow)
    BY <1>2, <2>1, FS_Subset
  <2>3. MemberRows'
    BY <2>1, <2>2 DEF CollaborationInv, MemberRows
  <2> QED
    BY <1>2, <2>1, <2>2, <2>3, DoneIsSound
<1> QED
  BY <1>3, <1>4, <1>5, <1>6, <1>7

LEMMA StepCollaboration ==
    CollaborationInv /\ [CollaborationNext]_collaborationVars => CollaborationInv'
<1> SUFFICES ASSUME CollaborationInv, [CollaborationNext]_collaborationVars
             PROVE  CollaborationInv'
  OBVIOUS
<1>1. ASSUME NEW b \in Browsers, NEW u \in People,
             \/ \E role \in RequestRoles : BeginJoin(b, u, role)
             \/ BeginAccept(b, u)
             \/ BeginLeave(b, u)
             \/ \E v \in People : \/ BeginApprove(b, u, v)
                                  \/ BeginInvite(b, u, v)
                                  \/ BeginTransfer(b, u, v)
      PROVE  CollaborationInv'
  BY <1>1, BeginsAreSound, ServingKeepsInv
<1>2. ASSUME NEW m \in People, UpdateSpace(m)
      PROVE  CollaborationInv'
  <2>1. /\ policy' \in JoinPolicies /\ limit' \in Limits
        /\ limit' >= Cardinality(memberNow)
        /\ crowded' = (crowded \/ \E c \in Browsers : serving[c].op \in Admissions)
        /\ UNCHANGED <<roleIn, memberNow, asking, invited, taskOpen, serving, calls>>
    BY <1>2 DEF UpdateSpace
  <2>2. CallsAreSound' /\ MemberRows'
    BY <2>1 DEF CollaborationInv, CallsAreSound, MemberRows
  <2>3. SpaceRows'
    BY <2>1 DEF CollaborationInv, SpaceRows
  <2>4. RoomIsLeft'
    <3>1. limit' \in Nat /\ Cardinality(memberNow) \in Nat
      BY <2>1, LimitsAssumption, SizesAreNumbers
    <3> QED
      BY <2>1, <3>1 DEF CollaborationInv, RoomIsLeft
  <2> QED
    BY <2>2, <2>3, <2>4 DEF CollaborationInv
<1>3. CASE \/ \E u \in People : Decline(u) \/ \E v \in People : Reject(u, v)
           \/ TaskEnds
           \/ UNCHANGED collaborationVars
  <2>1. /\ UNCHANGED <<roleIn, memberNow, policy, limit, serving, calls, crowded>>
        /\ asking' \subseteq asking /\ invited' \subseteq invited
        /\ taskOpen' \in {FALSE, taskOpen}
    BY <1>3 DEF Decline, Reject, TaskEnds, collaborationVars
  <2>2. CallsAreSound' /\ MemberRows'
    BY <2>1 DEF CollaborationInv, CallsAreSound, MemberRows
  <2>3. SpaceRows'
    BY <2>1 DEF CollaborationInv, SpaceRows
  <2>4. RoomIsLeft'
    BY <2>1 DEF CollaborationInv, RoomIsLeft, HasRoom
  <2> QED
    BY <2>2, <2>3, <2>4 DEF CollaborationInv
<1> QED
  BY <1>1, <1>2, <1>3, WritesKeepInv DEF CollaborationNext

LEMMA InvIsTyped == CollaborationInv => CollaborationTypeOK
<1> SUFFICES ASSUME CollaborationInv PROVE CollaborationTypeOK
  OBVIOUS
<1> DEFINE owners == {u \in memberNow : roleIn[u] = "owner"}
<1>1. Cardinality(owners) <= 1
  <2>1. CASE owners = {}
    BY <2>1, FS_EmptySet
  <2>2. CASE owners # {}
    <3>1. PICK u : owners = {u}
      BY <2>2 DEF CollaborationInv, MemberRows
    <3>2. Cardinality({u}) = 1
      BY FS_Singleton
    <3> HIDE DEF owners
    <3> QED
      BY <3>1, <3>2
  <2> QED
    BY <2>1, <2>2
<1>2. DOMAIN serving = Browsers
  BY DEF CollaborationInv, CallsAreSound
<1> QED
  BY <1>1, <1>2 DEF CollaborationInv, MemberRows, SpaceRows, CollaborationTypeOK

(* The three ways in which a space may lose its owner. *)
OwnerMayBeLost ==
    \E b \in Browsers :
         \/ serving[b].op = "transfer" /\ serving[b].about \notin memberNow
         \/ /\ serving[b].op = "leave" /\ roleIn[serving[b].about] = "owner"
            /\ serving[b].knew # "owner"
         \/ serving[b].op \in Admissions /\ roleIn[serving[b].about] = "owner"

LEMMA StepOwned ==
    ASSUME CollaborationInv, [CollaborationNext]_collaborationVars, Owned, ~OwnerMayBeLost
    PROVE  Owned'
<1>1. PICK o \in memberNow : roleIn[o] = "owner"
  BY DEF Owned
<1>2. roleIn \in [People -> Roles] /\ o \in People
  BY DEF CollaborationInv, MemberRows
<1>3. ASSUME UNCHANGED <<roleIn, memberNow>>
      PROVE  Owned'
  BY <1>1, <1>3 DEF Owned
<1>4. ASSUME NEW b \in Browsers, WriteJoin(b) \/ WriteApprove(b) \/ WriteAccept(b)
      PROVE  Owned'
  <2>1. serving[b].op \in Admissions /\ Activate(serving[b].about, serving[b].role)
    BY <1>4 DEF WriteJoin, WriteApprove, WriteAccept, Admissions
  <2>2. serving[b].about # o
    BY <1>1, <2>1 DEF OwnerMayBeLost
  <2> QED
    BY <1>1, <1>2, <2>1, <2>2 DEF Activate, Owned
<1>5. ASSUME NEW b \in Browsers, WriteTransfer(b)
      PROVE  Owned'
  <2> DEFINE u == serving[b].by
             v == serving[b].about
  <2>1. /\ roleIn' = [roleIn EXCEPT ![u] = "coordinator", ![v] = "owner"]
        /\ UNCHANGED memberNow /\ v \in memberNow
    BY <1>5 DEF WriteTransfer, OwnerMayBeLost
  <2>2. v \in People
    BY <2>1 DEF CollaborationInv, MemberRows
  <2> HIDE DEF u, v
  <2>3. roleIn'[v] = "owner"
    BY <1>2, <2>1, <2>2
  <2> QED
    BY <2>1, <2>3 DEF Owned
<1>6. ASSUME NEW b \in Browsers, WriteLeave(b)
      PROVE  Owned'
  <2>1. /\ serving[b].op = "leave" /\ memberNow' = memberNow \ {serving[b].about}
        /\ UNCHANGED roleIn
    BY <1>6 DEF WriteLeave
  <2>2. serving[b].knew # "owner"
    BY <2>1 DEF CollaborationInv, CallsAreSound, SoundCall
  <2>3. serving[b].about # o
    BY <1>1, <2>1, <2>2 DEF OwnerMayBeLost
  <2> QED
    BY <1>1, <2>1, <2>3 DEF Owned
<1>7. \/ \E b \in Browsers : \/ WriteJoin(b) \/ WriteApprove(b) \/ WriteAccept(b)
                             \/ WriteTransfer(b) \/ WriteLeave(b)
      \/ UNCHANGED <<roleIn, memberNow>>
  BY DEF CollaborationNext, BeginJoin, BeginApprove, BeginInvite, BeginAccept, BeginTransfer,
     BeginLeave, Serve, Decline, Reject, UpdateSpace, TaskEnds, WriteAsk, WriteInvite, Refused,
     collaborationVars
<1> QED
  BY <1>3, <1>4, <1>5, <1>6, <1>7

(* The rows of a space stay in their types, and it has at most one owner.    *)
THEOREM CollaborationTypeCorrect == CollaborationSpec => []CollaborationTypeOK
  BY CollaborationStarts, StepCollaboration, InvIsTyped, PTL DEF CollaborationSpec

(* The limit on the members of a space holds for any number of people and of *)
(* browsers, except after two admissions, or an admission and a change of    *)
(* the limit, counted the same members.                                      *)
THEOREM MembersStayWithinLimit == CollaborationSpec => []LimitHolds
<1>1. CollaborationInv => LimitHolds
  BY DEF CollaborationInv, RoomIsLeft, LimitHolds
<1> QED
  BY CollaborationStarts, StepCollaboration, <1>1, PTL DEF CollaborationSpec

(* A space only loses its owner in one of the three overlaps that nothing in *)
(* the code guards against.                                                  *)
THEOREM OwnersAreOnlyLostSo == CollaborationSpec => OwnershipIsNotLost
<1>1. CollaborationInv /\ [CollaborationNext]_collaborationVars
          => [Owned => Owned'
                \/ \E b \in Browsers :
                     \/ serving[b].op = "transfer" /\ serving[b].about \notin memberNow
                     \/ /\ serving[b].op = "leave" /\ roleIn[serving[b].about] = "owner"
                        /\ serving[b].knew # "owner"
                     \/ serving[b].op \in Admissions /\ roleIn[serving[b].about] = "owner"
             ]_collaborationVars
  BY StepOwned DEF OwnerMayBeLost
<1> QED
  BY CollaborationStarts, StepCollaboration, <1>1, PTL
  DEF CollaborationSpec, OwnershipIsNotLost

-----------------------------------------------------------------------------
(* The stock of an item.  The quantities on hand and in transit are sums     *)
(* over sets of any finite size.  Sums are defined by recursion, so what is  *)
(* needed of them is proved first, by induction over the subsets of the set  *)
(* of indices.                                                               *)

(* Induction over the subsets of a finite set, with the set of those a claim *)
(* holds for in place of the claim.                                          *)
LEMMA SubsetInduction ==
    ASSUME NEW S, IsFiniteSet(S), NEW G,
           \A T \in SUBSET S : (\A U \in SUBSET T : U # T => U \in G) => T \in G
    PROVE  \A T \in SUBSET S : T \in G
<1> DEFINE R == StrictSubsetOrdering(S)
           Bad == {T \in SUBSET S : T \notin G}
<1>1. SUFFICES ASSUME Bad # {} PROVE FALSE
  OBVIOUS
<1>2. IsWellFoundedOn(R, SUBSET S)
  BY FS_StrictSubsetOrderingWellFounded, FS_FiniteSubsetsOfFinite
<1>3. PICK T \in Bad : \A U \in Bad : <<U, T>> \notin R
  <2>1. Bad \subseteq SUBSET S
    OBVIOUS
  <2> HIDE DEF R, Bad
  <2> QED
    BY <1>1, <1>2, <2>1, WFMin
<1>4. ASSUME NEW U \in SUBSET T, U # T
      PROVE  U \in G
  <2>1. <<U, T>> \in R
    BY <1>4 DEF StrictSubsetOrdering
  <2> QED
    BY <2>1, <1>3
<1> QED
  BY <1>3, <1>4

---------------------------------------------------------------------------
(* The recursion behind SumFunctionOnSet, for a function of integers.        *)

First(s) == CHOOSE x \in s : TRUE

Sums(f, S) == {g \in [SUBSET S -> Int] :
    \A s \in SUBSET S : g[s] = IF s = {} THEN 0 ELSE f[First(s)] + g[s \ {First(s)}]}

LEMMA FirstIsIn == ASSUME NEW s, s # {} PROVE First(s) \in s
BY DEF First

(* Two partial tables of sums agree where both are defined ...               *)
LEMMA SumsAgree ==
    ASSUME NEW S, IsFiniteSet(S), NEW f, \A x \in S : f[x] \in Int,
           NEW T \in SUBSET S, NEW U \in SUBSET S,
           NEW g \in Sums(f, T), NEW h \in Sums(f, U)
    PROVE  \A s \in SUBSET (T \intersect U) : g[s] = h[s]
<1> DEFINE V == T \intersect U
           G == {s \in SUBSET V : g[s] = h[s]}
<1>1. ASSUME NEW s \in SUBSET V, \A u \in SUBSET s : u # s => u \in G
      PROVE  s \in G
  <2>1. CASE s = {}
    BY <2>1 DEF Sums
  <2>2. CASE s # {}
    <3>1. First(s) \in s /\ s \ {First(s)} \in SUBSET s /\ s \ {First(s)} # s
      BY <2>2, FirstIsIn
    <3>2. s \ {First(s)} \in G
      BY <3>1, <1>1
    <3>3. g[s] = f[First(s)] + g[s \ {First(s)}] /\ h[s] = f[First(s)] + h[s \ {First(s)}]
      BY <2>2 DEF Sums
    <3> QED
      BY <3>2, <3>3
  <2> QED
    BY <2>1, <2>2
<1>2. IsFiniteSet(V)
  BY FS_Subset
<1>3. \A s \in SUBSET V : s \in G
  <2> HIDE DEF G, V
  <2> QED
    BY <1>1, <1>2, SubsetInduction
<1> QED
  BY <1>3

(* ... and there is a table for every finite set of indices.                 *)
LEMMA SumsExist ==
    ASSUME NEW S, IsFiniteSet(S), NEW f, \A x \in S : f[x] \in Int
    PROVE  Sums(f, S) # {}
<1> DEFINE G == {T \in SUBSET S : Sums(f, T) # {}}
<1>1. ASSUME NEW T \in SUBSET S, \A U \in SUBSET T : U # T => U \in G
      PROVE  T \in G
  <2> DEFINE Of(u) == CHOOSE g \in Sums(f, u) : TRUE
             Rest(s) == s \ {First(s)}
             g == [s \in SUBSET T |->
                     IF s = {} THEN 0 ELSE f[First(s)] + Of(Rest(s))[Rest(s)]]
  <2>1. ASSUME NEW s \in SUBSET T, s # {}
        PROVE  /\ First(s) \in s
               /\ Rest(s) \in SUBSET T /\ Rest(s) \in SUBSET S
               /\ Of(Rest(s)) \in Sums(f, Rest(s))
               /\ Of(Rest(s))[Rest(s)] \in Int
               /\ f[First(s)] \in Int
    <3>1. First(s) \in s
      BY <2>1, FirstIsIn
    <3>2. Rest(s) \in G
      BY <3>1, <1>1
    <3>3. Of(Rest(s)) \in Sums(f, Rest(s))
      BY <3>2
    <3> HIDE DEF Of
    <3> QED
      BY <3>1, <3>3 DEF Sums
  <2>2. g \in [SUBSET T -> Int]
    <3> HIDE DEF Of, Rest
    <3> QED
      BY <2>1
  <2>3. ASSUME NEW s \in SUBSET T, s # {}
        PROVE  g[Rest(s)] = Of(Rest(s))[Rest(s)]
    <3> DEFINE u == Rest(s)
    <3>1. u \in SUBSET T /\ u \in SUBSET S /\ Of(u) \in Sums(f, u)
      BY <2>1, <2>3
    <3>2. CASE u = {}
      <4>1. Of(u)[u] = 0
        <5> HIDE DEF Of, u
        <5> QED
          BY <3>1, <3>2 DEF Sums
      <4> QED
        BY <4>1, <3>2, <3>1
    <3>3. CASE u # {}
      <4>1. /\ Of(Rest(u)) \in Sums(f, Rest(u))
            /\ Rest(u) \in SUBSET S
        BY <2>1, <3>1, <3>3
      <4>2. Of(u)[u] = f[First(u)] + Of(u)[Rest(u)]
        <5> HIDE DEF Of, u
        <5> QED
          BY <3>1, <3>3 DEF Sums
      <4>3. Rest(u) \in SUBSET (u \intersect Rest(u))
        OBVIOUS
      <4>4. Of(u)[Rest(u)] = Of(Rest(u))[Rest(u)]
        <5> DEFINE v == Rest(u)
                   a == Of(u)
                   b == Of(v)
        <5> HIDE DEF Of, Rest, u, v, a, b
        <5>1. /\ a \in Sums(f, u) /\ b \in Sums(f, v) /\ u \in SUBSET S /\ v \in SUBSET S
              /\ v \in SUBSET (u \intersect v)
          BY <3>1, <4>1, <4>3 DEF v, a, b
        <5>2. a[v] = b[v]
          BY <5>1, SumsAgree
        <5> QED
          BY <5>2 DEF v, a, b
      <4> QED
        BY <4>2, <4>4, <3>1, <3>3
    <3> QED
      BY <3>2, <3>3
  <2>4. g \in Sums(f, T)
    <3>1. ASSUME NEW s \in SUBSET T
          PROVE  g[s] = IF s = {} THEN 0 ELSE f[First(s)] + g[s \ {First(s)}]
      <4>1. CASE s = {}
        BY <4>1
      <4>2. CASE s # {}
        <5>1. g[s] = f[First(s)] + Of(Rest(s))[Rest(s)]
          BY <4>2
        <5>2. g[Rest(s)] = Of(Rest(s))[Rest(s)]
          BY <2>3, <4>2
        <5> HIDE DEF g, Of
        <5> QED
          BY <4>2, <5>1, <5>2
      <4> QED
        BY <4>1, <4>2
    <3> HIDE DEF g
    <3> QED
      BY <2>2, <3>1 DEF Sums
  <2> QED
    BY <2>4
<1>2. \A T \in SUBSET S : T \in G
  <2> HIDE DEF G
  <2> QED
    BY <1>1, SubsetInduction
<1> QED
  BY <1>2

(* What SumFunctionOnSet computes, one value taken out first. *)
LEMMA SumIsTaken ==
    ASSUME NEW S, IsFiniteSet(S), NEW f, \A x \in S : f[x] \in Int
    PROVE  \E g \in Sums(f, S) : SumFunctionOnSet(f, S) = g[S]
<1> DEFINE body(g) == [s \in SUBSET S |->
                  IF s = {} THEN 0 ELSE f[First(s)] + g[s \ {First(s)}]]
           iter == CHOOSE g : g = body(g)
<1>1. SumFunctionOnSet(f, S) = iter[S]
  BY DEF SumFunctionOnSet, FoldFunctionOnSet, MapThenFoldSet, First
<1>2. PICK g \in Sums(f, S) : TRUE
  BY SumsExist
<1>3. g = body(g)
  BY <1>2 DEF Sums
<1>4. iter = body(iter)
  <2> HIDE DEF body
  <2> QED
    BY <1>3
<1>5. ASSUME NEW s \in SUBSET S, \A u \in SUBSET s : u # s => iter[u] = g[u]
      PROVE  iter[s] = g[s]
  <2>1. iter[s] = IF s = {} THEN 0 ELSE f[First(s)] + iter[s \ {First(s)}]
    <3> HIDE DEF iter
    <3> QED
      BY <1>4
  <2>2. g[s] = IF s = {} THEN 0 ELSE f[First(s)] + g[s \ {First(s)}]
    BY <1>2 DEF Sums
  <2> HIDE DEF iter
  <2>3. CASE s = {}
    BY <2>1, <2>2, <2>3
  <2>4. CASE s # {}
    <3>1. First(s) \in s
      BY <2>4, FirstIsIn
    <3>2. iter[s \ {First(s)}] = g[s \ {First(s)}]
      BY <3>1, <1>5
    <3> QED
      BY <2>1, <2>2, <2>4, <3>2
  <2> QED
    BY <2>3, <2>4
<1>6. iter[S] = g[S]
  <2> DEFINE G == {s \in SUBSET S : iter[s] = g[s]}
  <2>1. ASSUME NEW T \in SUBSET S, \A U \in SUBSET T : U # T => U \in G
        PROVE  T \in G
    <3> HIDE DEF iter
    <3> QED
      BY <2>1, <1>5
  <2>2. \A T \in SUBSET S : T \in G
    <3> HIDE DEF G
    <3> QED
      BY <2>1, SubsetInduction
  <2> QED
    BY <2>2
<1> QED
  BY <1>1, <1>2, <1>6

(* The sum over a set of indices, taken apart at any one of them. *)
LEMMA SumSplit ==
    ASSUME NEW S, IsFiniteSet(S), NEW f, \A x \in S : f[x] \in Int,
           NEW g \in Sums(f, S)
    PROVE  \A T \in SUBSET S : \A x \in T : g[T] = f[x] + g[T \ {x}]
<1> DEFINE G == {T \in SUBSET S : \A x \in T : g[T] = f[x] + g[T \ {x}]}
<1>1. ASSUME NEW T \in SUBSET S, \A U \in SUBSET T : U # T => U \in G
      PROVE  T \in G
  <2> SUFFICES ASSUME NEW x \in T PROVE g[T] = f[x] + g[T \ {x}]
    OBVIOUS
  <2> DEFINE c == First(T)
  <2>1. c \in T
    BY FirstIsIn
  <2>2. g[T] = f[c] + g[T \ {c}]
    BY DEF Sums
  <2>3. CASE x = c
    BY <2>2, <2>3
  <2>4. CASE x # c
    <3> HIDE DEF c
    <3>1. T \ {c} \in G /\ T \ {x} \in G /\ x \in T \ {c} /\ c \in T \ {x}
      BY <2>1, <2>4, <1>1
    <3>2. g[T \ {c}] = f[x] + g[(T \ {c}) \ {x}]
      BY <3>1
    <3>3. g[T \ {x}] = f[c] + g[(T \ {x}) \ {c}]
      BY <3>1
    <3>4. (T \ {c}) \ {x} = (T \ {x}) \ {c}
      OBVIOUS
    <3>5. /\ f[x] \in Int /\ f[c] \in Int
          /\ g[(T \ {x}) \ {c}] \in Int
      BY <2>1 DEF Sums
    <3>6. g[T] = f[c] + (f[x] + g[(T \ {x}) \ {c}])
      BY <2>2, <3>2, <3>4
    <3> DEFINE rest == g[(T \ {x}) \ {c}]
    <3> HIDE DEF rest
    <3>7. /\ g[T] = f[c] + (f[x] + rest)
          /\ g[T \ {x}] = f[c] + rest
          /\ rest \in Int
      BY <3>6, <3>3, <3>5 DEF rest
    <3> QED
      BY <3>7, <3>5
  <2> QED
    BY <2>3, <2>4
<1>2. \A T \in SUBSET S : T \in G
  <2> HIDE DEF G
  <2> QED
    BY <1>1, SubsetInduction
<1> QED
  BY <1>2

(* From here on nothing but these facts is used of sums. *)

Summable(f, S) == IsFiniteSet(S) /\ \A x \in S : f[x] \in Int

(* Elementary facts of sums of integers.                                     *)
LEMMA SumType ==
    ASSUME NEW S, NEW f, Summable(f, S)
    PROVE  SumFunctionOnSet(f, S) \in Int
<1>1. PICK g \in Sums(f, S) : SumFunctionOnSet(f, S) = g[S]
  BY SumIsTaken DEF Summable
<1> QED
  BY <1>1 DEF Sums

LEMMA SumEmpty ==
    ASSUME NEW f
    PROVE  SumFunctionOnSet(f, {}) = 0
<1>1. PICK g \in Sums(f, {}) : SumFunctionOnSet(f, {}) = g[{}]
  BY SumIsTaken, FS_EmptySet
<1> QED
  BY <1>1 DEF Sums

LEMMA SumRemove ==
    ASSUME NEW S, NEW f, Summable(f, S), NEW x \in S
    PROVE  /\ SumFunctionOnSet(f, S) = f[x] + SumFunctionOnSet(f, S \ {x})
           /\ f[x] \in Int
           /\ Summable(f, S \ {x})
           /\ SumFunctionOnSet(f, S \ {x}) \in Int
<1>1. PICK g \in Sums(f, S) : SumFunctionOnSet(f, S) = g[S]
  BY SumIsTaken DEF Summable
<1>2. Summable(f, S \ {x})
  BY FS_RemoveElement DEF Summable
<1>3. PICK h \in Sums(f, S \ {x}) : SumFunctionOnSet(f, S \ {x}) = h[S \ {x}]
  BY <1>2, SumIsTaken DEF Summable
<1>4. g[S] = f[x] + g[S \ {x}]
  BY SumSplit DEF Summable
<1>5. g[S \ {x}] = h[S \ {x}]
  <2>1. \A s \in SUBSET (S \intersect (S \ {x})) : g[s] = h[s]
    <3>1. S \ {x} \in SUBSET S /\ S \in SUBSET S
      OBVIOUS
    <3> DEFINE T == S \ {x}
    <3> HIDE DEF T
    <3>2. T \in SUBSET S /\ h \in Sums(f, T)
      BY <3>1, <1>3 DEF T
    <3>3. \A s \in SUBSET (S \intersect T) : g[s] = h[s]
      BY <3>1, <3>2, <1>1, SumsAgree DEF Summable
    <3> QED
      BY <3>3 DEF T
  <2> QED
    BY <2>1
<1>6. f[x] \in Int
  BY DEF Summable
<1> QED
  BY <1>1, <1>2, <1>3, <1>4, <1>5, <1>6, SumType

(* Sums that differ in known ways, by induction over the indices. *)

LEMMA SumSame ==
    ASSUME NEW S, NEW f, NEW g, Summable(f, S), \A x \in S : g[x] = f[x]
    PROVE  SumFunctionOnSet(g, S) = SumFunctionOnSet(f, S)
<1> DEFINE G == {T \in SUBSET S : SumFunctionOnSet(g, T) = SumFunctionOnSet(f, T)}
<1>1. ASSUME NEW T \in SUBSET S, \A U \in SUBSET T : U # T => U \in G
      PROVE  T \in G
  <2>1. Summable(f, T) /\ Summable(g, T)
    BY FS_Subset DEF Summable
  <2>2. CASE T = {}
    BY <2>2, SumEmpty
  <2>3. ASSUME NEW x \in T PROVE T \in G
    <3>1. T \ {x} \in G
      BY <1>1
    <3> QED
      BY <2>1, <3>1, SumRemove
  <2> QED
    BY <2>2, <2>3
<1>2. \A T \in SUBSET S : T \in G
  <2> HIDE DEF G
  <2> QED
    BY <1>1, SubsetInduction DEF Summable
<1> QED
  BY <1>2

LEMMA SumUpdate ==
    ASSUME NEW S, NEW f, NEW g, Summable(f, S), NEW x \in S, g[x] \in Int,
           \A y \in S \ {x} : g[y] = f[y]
    PROVE  SumFunctionOnSet(g, S) = SumFunctionOnSet(f, S) - f[x] + g[x]
<1>1. Summable(g, S)
  BY DEF Summable
<1>2. SumFunctionOnSet(g, S \ {x}) = SumFunctionOnSet(f, S \ {x})
  BY SumRemove, SumSame
<1> QED
  BY <1>1, <1>2, SumRemove

LEMMA SumMinus ==
    ASSUME NEW S, NEW f, NEW g, NEW h, Summable(f, S), Summable(g, S),
           \A x \in S : h[x] = f[x] - g[x]
    PROVE  SumFunctionOnSet(h, S) = SumFunctionOnSet(f, S) - SumFunctionOnSet(g, S)
<1> DEFINE G == {T \in SUBSET S : SumFunctionOnSet(h, T) =
                     SumFunctionOnSet(f, T) - SumFunctionOnSet(g, T)}
<1>1. ASSUME NEW T \in SUBSET S, \A U \in SUBSET T : U # T => U \in G
      PROVE  T \in G
  <2>1. Summable(f, T) /\ Summable(g, T) /\ Summable(h, T)
    BY FS_Subset DEF Summable
  <2>2. CASE T = {}
    BY <2>2, SumEmpty
  <2>3. ASSUME NEW x \in T PROVE T \in G
    <3>1. T \ {x} \in G /\ h[x] = f[x] - g[x]
      BY <1>1
    <3> QED
      BY <2>1, <3>1, SumRemove
  <2> QED
    BY <2>2, <2>3
<1>2. \A T \in SUBSET S : T \in G
  <2> HIDE DEF G
  <2> QED
    BY <1>1, SubsetInduction DEF Summable
<1> QED
  BY <1>2

LEMMA SumOfZeros ==
    ASSUME NEW S, NEW f, NEW U \in SUBSET S, Summable(f, S), \A x \in S \ U : f[x] = 0
    PROVE  SumFunctionOnSet(f, S) = SumFunctionOnSet(f, U)
<1> DEFINE G == {T \in SUBSET S : SumFunctionOnSet(f, T) =
                                  SumFunctionOnSet(f, T \intersect U)}
<1>1. ASSUME NEW T \in SUBSET S, \A V \in SUBSET T : V # T => V \in G
      PROVE  T \in G
  <2>1. Summable(f, T) /\ Summable(f, T \intersect U)
    BY FS_Subset DEF Summable
  <2>2. CASE T = {}
    BY <2>2, SumEmpty
  <2>3. ASSUME NEW x \in T PROVE T \in G
    <3>1. T \ {x} \in G
      BY <1>1
    <3>2. SumFunctionOnSet(f, T) = f[x] + SumFunctionOnSet(f, T \ {x})
      BY <2>1, SumRemove
    <3>3. CASE x \in U
      <4>1. (T \ {x}) \intersect U = (T \intersect U) \ {x}
        OBVIOUS
      <4>2. SumFunctionOnSet(f, T \intersect U) =
                f[x] + SumFunctionOnSet(f, (T \intersect U) \ {x})
        BY <2>1, <3>3, SumRemove
      <4> QED
        BY <3>1, <3>2, <4>1, <4>2
    <3>4. CASE x \notin U
      <4>1. (T \ {x}) \intersect U = T \intersect U
        BY <3>4
      <4>2. f[x] = 0 /\ SumFunctionOnSet(f, T \ {x}) \in Int
        BY <3>4, <2>1, SumRemove
      <4>3. SumFunctionOnSet(f, T \ {x}) = SumFunctionOnSet(f, T \intersect U)
        BY <3>1, <4>1
      <4>4. SumFunctionOnSet(f, T) = SumFunctionOnSet(f, T \intersect U)
        BY <3>2, <4>2, <4>3
      <4> QED
        BY <4>4
    <3> QED
      BY <3>3, <3>4
  <2> QED
    BY <2>2, <2>3
<1>2. \A T \in SUBSET S : T \in G
  <2> HIDE DEF G
  <2> QED
    BY <1>1, SubsetInduction DEF Summable
<1>3. S \intersect U = U
  OBVIOUS
<1> QED
  BY <1>2, <1>3

LEMMA SumIsNatural ==
    ASSUME NEW S, NEW f, IsFiniteSet(S), \A x \in S : f[x] \in Nat
    PROVE  SumFunctionOnSet(f, S) \in Nat
<1> DEFINE G == {T \in SUBSET S : SumFunctionOnSet(f, T) \in Nat}
<1>1. ASSUME NEW T \in SUBSET S, \A U \in SUBSET T : U # T => U \in G
      PROVE  T \in G
  <2>1. Summable(f, T)
    BY FS_Subset DEF Summable
  <2>2. CASE T = {}
    BY <2>2, SumEmpty
  <2>3. ASSUME NEW x \in T PROVE T \in G
    <3>1. T \ {x} \in G /\ f[x] \in Nat
      BY <1>1
    <3> QED
      BY <2>1, <3>1, SumRemove
  <2> QED
    BY <2>2, <2>3
<1>2. \A T \in SUBSET S : T \in G
  <2> HIDE DEF G
  <2> QED
    BY <1>1, SubsetInduction
<1> QED
  BY <1>2

-----------------------------------------------------------------------------
(* The stock. *)

(* What the stock's variables hold, each receipt and issue a finite number. *)
StockInv ==
    /\ StockTypeOK
    /\ IsFiniteSet(received) /\ IsFiniteSet(issued)
    /\ StockIsConserved

(* While an archiving request is at work, and afterwards, stock only comes  *)
(* in by what sets `moving`.                                                *)
ArchivedIsStill ==
    /\ (archiving \/ archived) /\ ~moving => OnHand(Lots) = 0
    /\ archived /\ ~moving => /\ \A s \in Shipments : ~InTransit(s)
                              /\ \A c \in Clerks : clerk[c] = NoReceipt
    /\ ~(archiving /\ archived)

---------------------------------------------------------------------------

(* The lots are finitely many, so their sums are defined.                    *)
LEMMA LotsAreFinite ==
    /\ IsFiniteSet(Lots)
    /\ \A h \in Warehouses : IsFiniteSet(LotsOf(h)) /\ LotsOf(h) \in SUBSET Lots
<1>1. IsFiniteSet(Lots)
  BY StockAssumption, FS_Product DEF Lots
<1>2. ASSUME NEW h \in Warehouses
      PROVE  LotsOf(h) \in SUBSET Lots
  BY DEF Lots, LotsOf
<1> QED
  BY <1>1, <1>2, FS_Subset

(* Some expiry date among those taken from is the earliest.                  *)
LEMMA ExpiriesHaveALeast ==
    ASSUME NEW E \in SUBSET Nat, E # {}
    PROVE  \E x \in E : \A y \in E : y >= x
<1> DEFINE R == {p \in Nat \X Nat : p[1] < p[2]}
<1>1. IsWellFoundedOn(R, Nat)
  BY NatLessThanWellFounded DEF OpToRel
<1>2. PICK x \in E : \A y \in E : <<y, x>> \notin R
  <2> HIDE DEF R
  <2> QED
    BY <1>1, WFMin
<1>3. \A y \in E : ~(y < x)
  BY <1>2
<1> QED
  BY <1>3

(* The amounts of a taking on all the lots, none on those it does not touch. *)
OnAll(t) == [l \in Lots |-> IF l \in DOMAIN t THEN t[l] ELSE 0]

(* A taking, seen on all the lots, sums up to the quantity asked for.        *)
LEMMA TakingIsASum ==
    ASSUME NEW q \in Nat, NEW ls \in SUBSET Lots, NEW t \in Takings(q, ls),
           lots \in [Lots -> Nat]
    PROVE  /\ \A l \in Lots : OnAll(t)[l] \in Nat /\ OnAll(t)[l] <= lots[l]
           /\ DOMAIN t = ls
           /\ SumFunctionOnSet(OnAll(t), Lots) = q
           /\ \A h \in Warehouses :
                  TakenFrom(t, h) = SumFunctionOnSet(OnAll(t), LotsOf(h))
<1>1. /\ t \in [ls -> 0 .. q] /\ SumFunction(t) = q
      /\ \A l \in ls : t[l] <= lots[l]
  BY DEF Takings
<1>2. \A l \in Lots : OnAll(t)[l] \in Nat /\ OnAll(t)[l] <= lots[l]
  BY <1>1 DEF OnAll
<1>3. DOMAIN t = ls
  BY <1>1
<1>4. ASSUME NEW S \in SUBSET Lots
      PROVE  SumFunctionOnSet(OnAll(t), S) = SumFunctionOnSet(t, ls \intersect S)
  <2> DEFINE U == ls \intersect S
  <2>1. /\ IsFiniteSet(S) /\ U \in SUBSET S /\ IsFiniteSet(U)
    BY LotsAreFinite, FS_Subset
  <2>2. Summable(OnAll(t), S) /\ Summable(OnAll(t), U)
    BY <1>2, <2>1 DEF Summable
  <2>3. \A l \in S \ U : OnAll(t)[l] = 0
    BY <1>3 DEF OnAll
  <2>4. \A l \in U : t[l] = OnAll(t)[l]
    BY <1>3 DEF OnAll
  <2> HIDE DEF U
  <2>5. SumFunctionOnSet(OnAll(t), S) = SumFunctionOnSet(OnAll(t), U)
    BY <2>1, <2>2, <2>3, SumOfZeros
  <2>6. SumFunctionOnSet(t, U) = SumFunctionOnSet(OnAll(t), U)
    BY <2>2, <2>4, SumSame
  <2> QED
    BY <2>5, <2>6 DEF U
<1>5. SumFunctionOnSet(OnAll(t), Lots) = q
  <2>1. SumFunction(t) = SumFunctionOnSet(t, ls)
    BY <1>3 DEF SumFunction
  <2>2. ls \intersect Lots = ls
    OBVIOUS
  <2> QED
    BY <1>1, <1>4, <2>1, <2>2
<1>6. \A h \in Warehouses : TakenFrom(t, h) = SumFunctionOnSet(OnAll(t), LotsOf(h))
  BY <1>3, <1>4, LotsAreFinite DEF TakenFrom
<1> QED
  BY <1>2, <1>3, <1>5, <1>6

(* Taking moves the stock on hand and the ledger by the same amounts.        *)
LEMMA TakeMoves ==
    ASSUME StockInv, NEW q \in Nat, NEW ls \in SUBSET Lots, NEW t \in Takings(q, ls), Take(t)
    PROVE  /\ lots' \in [Lots -> Nat] /\ ledger' \in [Warehouses -> Int]
           /\ OnHand(Lots)' = OnHand(Lots) - q /\ OnHand(Lots)' \in Nat
           /\ \A h \in Warehouses : ledger'[h] = OnHand(LotsOf(h))'
<1>1. lots \in [Lots -> Nat] /\ ledger \in [Warehouses -> Int]
  BY DEF StockInv, StockTypeOK
<1>2. /\ \A l \in Lots : OnAll(t)[l] \in Nat /\ OnAll(t)[l] <= lots[l]
      /\ DOMAIN t = ls
      /\ SumFunctionOnSet(OnAll(t), Lots) = q
      /\ \A h \in Warehouses : TakenFrom(t, h) = SumFunctionOnSet(OnAll(t), LotsOf(h))
  BY <1>1, TakingIsASum
<1>3. \A l \in Lots : lots'[l] = lots[l] - OnAll(t)[l]
  BY <1>1 DEF Take, OnAll
<1>4. lots' \in [Lots -> Nat]
  <2>1. lots' = [l \in Lots |-> lots'[l]]
    BY DEF Take
  <2>2. \A l \in Lots : lots'[l] \in Nat
    BY <1>1, <1>2, <1>3
  <2> QED
    BY <2>1, <2>2
<1>5. ASSUME NEW S \in SUBSET Lots
      PROVE  /\ SumFunctionOnSet(lots', S) =
                   SumFunctionOnSet(lots, S) - SumFunctionOnSet(OnAll(t), S)
             /\ SumFunctionOnSet(lots, S) \in Nat
             /\ SumFunctionOnSet(OnAll(t), S) \in Int
             /\ SumFunctionOnSet(lots', S) \in Nat
  <2>1. IsFiniteSet(S)
    BY LotsAreFinite, FS_Subset
  <2>2. Summable(lots, S) /\ Summable(OnAll(t), S)
    BY <1>1, <1>2, <2>1 DEF Summable
  <2>3. \A l \in S : lots[l] \in Nat /\ lots'[l] \in Nat
    BY <1>1, <1>4
  <2>4. \A l \in S : lots'[l] = lots[l] - OnAll(t)[l]
    BY <1>3
  <2> QED
    BY <2>1, <2>2, <2>3, <2>4, SumMinus, SumType, SumIsNatural
<1>6. OnHand(Lots)' = OnHand(Lots) - q /\ OnHand(Lots)' \in Nat
  BY <1>2, <1>5 DEF OnHand
<1>7. ASSUME NEW h \in Warehouses
      PROVE  ledger'[h] = OnHand(LotsOf(h))'
  <2>1. ledger[h] = OnHand(LotsOf(h))
    BY DEF StockInv, StockIsConserved
  <2>2. ledger'[h] = ledger[h] - TakenFrom(t, h)
    BY DEF Take
  <2>3. LotsOf(h) \in SUBSET Lots
    BY LotsAreFinite
  <2>4. OnHand(LotsOf(h))' = OnHand(LotsOf(h)) - TakenFrom(t, h)
    BY <1>2, <1>5, <2>3 DEF OnHand, LotsOf
  <2> QED
    BY <2>1, <2>2, <2>4
<1>8. ledger' \in [Warehouses -> Int]
  <2>1. \A h \in Warehouses : ledger'[h] \in Int
    <3> SUFFICES ASSUME NEW h \in Warehouses PROVE ledger'[h] \in Int
      OBVIOUS
    <3>1. LotsOf(h) \in SUBSET Lots
      BY LotsAreFinite
    <3>2. SumFunctionOnSet(lots', LotsOf(h)) \in Nat
      BY <1>5, <3>1
    <3>3. OnHand(LotsOf(h))' = SumFunctionOnSet(lots', LotsOf(h))
      BY DEF OnHand, LotsOf
    <3> QED
      BY <1>7, <3>2, <3>3
  <2>2. ledger' = [h \in Warehouses |-> ledger'[h]]
    BY DEF Take
  <2> QED
    BY <2>1, <2>2
<1> QED
  BY <1>4, <1>6, <1>7, <1>8

(* So does adding.                                                           *)
LEMMA AddMoves ==
    ASSUME StockInv, NEW h \in Warehouses, NEW x \in Expiries, NEW q \in Nat, Add(h, x, q)
    PROVE  /\ lots' \in [Lots -> Nat] /\ ledger' \in [Warehouses -> Int]
           /\ OnHand(Lots)' = OnHand(Lots) + q
           /\ \A k \in Warehouses : ledger'[k] = OnHand(LotsOf(k))'
<1> DEFINE a == <<h, x>>
<1>1. lots \in [Lots -> Nat] /\ ledger \in [Warehouses -> Int] /\ a \in Lots
  BY DEF StockInv, StockTypeOK, Lots
<1>2. /\ lots'[a] = lots[a] + q
      /\ \A l \in Lots \ {a} : lots'[l] = lots[l]
      /\ lots' \in [Lots -> Nat]
  BY <1>1 DEF Add
<1>3. ASSUME NEW S \in SUBSET Lots
      PROVE  /\ SumFunctionOnSet(lots, S) \in Int
             /\ a \in S => SumFunctionOnSet(lots', S) = SumFunctionOnSet(lots, S) + q
             /\ a \notin S => SumFunctionOnSet(lots', S) = SumFunctionOnSet(lots, S)
  <2> HIDE DEF a
  <2>1. IsFiniteSet(S)
    BY LotsAreFinite, FS_Subset
  <2>2. Summable(lots, S)
    BY <1>1, <2>1 DEF Summable
  <2>3. SumFunctionOnSet(lots, S) \in Int
    BY <2>2, SumType
  <2>4. CASE a \in S
    <3>1. lots[a] \in Int /\ lots'[a] \in Int /\ \A l \in S \ {a} : lots'[l] = lots[l]
      BY <1>1, <1>2
    <3>2. SumFunctionOnSet(lots', S) = SumFunctionOnSet(lots, S) - lots[a] + lots'[a]
      BY <2>2, <2>4, <3>1, SumUpdate
    <3> QED
      BY <1>2, <2>3, <2>4, <3>1, <3>2
  <2>5. CASE a \notin S
    <3>1. \A l \in S : lots'[l] = lots[l]
      BY <1>2, <2>5
    <3> QED
      BY <2>2, <2>3, <2>5, <3>1, SumSame
  <2> QED
    BY <2>4, <2>5
<1>4. OnHand(Lots)' = OnHand(Lots) + q
  BY <1>1, <1>3 DEF OnHand
<1>5. ledger' \in [Warehouses -> Int]
  BY <1>1 DEF Add
<1>6. ASSUME NEW k \in Warehouses
      PROVE  ledger'[k] = OnHand(LotsOf(k))'
  <2>1. ledger[k] = OnHand(LotsOf(k))
    BY DEF StockInv, StockIsConserved
  <2>2. ledger'[k] = IF k = h THEN ledger[k] + q ELSE ledger[k]
    BY <1>1 DEF Add
  <2>3. LotsOf(k) \in SUBSET Lots /\ (a \in LotsOf(k) <=> k = h)
    BY LotsAreFinite DEF LotsOf
  <2>4. OnHand(LotsOf(k))' = IF k = h THEN OnHand(LotsOf(k)) + q ELSE OnHand(LotsOf(k))
    <3> DEFINE S == LotsOf(k)
    <3>1. S \in SUBSET Lots /\ (a \in S <=> k = h)
      BY <2>3
    <3>2. OnHand(LotsOf(k))' = SumFunctionOnSet(lots', S)
      BY DEF OnHand, LotsOf
    <3> HIDE DEF S, a
    <3>3. SumFunctionOnSet(lots', S) =
            IF k = h THEN SumFunctionOnSet(lots, S) + q ELSE SumFunctionOnSet(lots, S)
      BY <1>3, <3>1
    <3> QED
      BY <3>2, <3>3 DEF OnHand, S
  <2> QED
    BY <2>1, <2>2, <2>4
<1> QED
  BY <1>2, <1>4, <1>5, <1>6

(* One more receipt, or issue, counts once.                                  *)
LEMMA TotalGrows ==
    ASSUME NEW S \in SUBSET Int, IsFiniteSet(S), NEW r \in Int, r \notin S
    PROVE  /\ Total(S \union {r}) = Total(S) + r
           /\ Total(S) \in Int
           /\ IsFiniteSet(S \union {r})
<1> DEFINE T == S \union {r}
           f == [q \in S |-> q]
           g == [q \in T |-> q]
<1>1. IsFiniteSet(T)
  BY FS_AddElement
<1>2. /\ Summable(f, S) /\ Summable(g, T) /\ r \in T /\ g[r] = r
      /\ T \ {r} = S
      /\ \A q \in S : g[q] = f[q]
  BY <1>1 DEF Summable
<1>3. Total(S) = SumFunctionOnSet(f, S) /\ Total(T) = SumFunctionOnSet(g, T)
  BY DEF Total, SumFunction
<1> HIDE DEF T, f, g
<1>4. SumFunctionOnSet(g, T) = r + SumFunctionOnSet(g, S)
  <2>1. SumFunctionOnSet(g, T) = g[r] + SumFunctionOnSet(g, T \ {r})
    BY <1>2, SumRemove
  <2> QED
    BY <1>2, <2>1
<1>5. SumFunctionOnSet(g, S) = SumFunctionOnSet(f, S) /\ SumFunctionOnSet(f, S) \in Int
  BY <1>2, SumSame, SumType
<1> QED
  BY <1>1, <1>3, <1>4, <1>5 DEF T

(* What each shipment carries. *)
Carried(sh) == [s \in Shipments |-> IF sh[s].status = "in_transit" THEN sh[s].quantity ELSE 0]

(* A shipment that starts or ends changes what is in transit by its quantity. *)
LEMMA CarriedMoves ==
    ASSUME shipment \in [Shipments -> Shipped], shipment' \in [Shipments -> Shipped],
           NEW s \in Shipments, \A r \in Shipments \ {s} : shipment'[r] = shipment[r]
    PROVE  /\ InTransitTotal \in Int
           /\ InTransitTotal' = InTransitTotal - Carried(shipment)[s] + Carried(shipment')[s]
<1>1. /\ InTransitTotal = SumFunctionOnSet(Carried(shipment), Shipments)
      /\ InTransitTotal' = SumFunctionOnSet(Carried(shipment'), Shipments)
  BY DEF InTransitTotal, SumFunction, Carried, InTransit
<1>2. ASSUME NEW r \in Shipments
      PROVE  Carried(shipment)[r] \in Int /\ Carried(shipment')[r] \in Int
  <2>1. shipment[r].quantity \in Nat /\ shipment'[r].quantity \in Nat
    BY DEF Shipped
  <2> QED
    BY <2>1 DEF Carried
<1>3. Summable(Carried(shipment), Shipments)
  BY <1>2, StockAssumption DEF Summable
<1>4. \A r \in Shipments \ {s} : Carried(shipment')[r] = Carried(shipment)[r]
  BY DEF Carried
<1>5. Carried(shipment')[s] \in Int
  BY <1>2
<1> DEFINE f == Carried(shipment)
           g == Carried(shipment')
<1> HIDE DEF f, g
<1>6. SumFunctionOnSet(g, Shipments) = SumFunctionOnSet(f, Shipments) - f[s] + g[s]
  <2>1. Summable(f, Shipments) /\ g[s] \in Int /\ \A r \in Shipments \ {s} : g[r] = f[r]
    BY <1>3, <1>4, <1>5 DEF f, g
  <2> QED
    BY <2>1, SumUpdate
<1> QED
  BY <1>1, <1>3, <1>6, SumType DEF f, g

LEMMA EarliestIsAnExpiry ==
    ASSUME lots \in [Lots -> Nat], NEW q \in Nat \ {0}, NEW ls \in SUBSET Lots,
           NEW t \in Takings(q, ls)
    PROVE  EarliestTaken(t) \in Expiries
<1> DEFINE E == {x \in Expiries : \E l \in ls : t[l] > 0 /\ l[2] = x}
<1>1. t \in [ls -> 0 .. q] /\ SumFunction(t) = q /\ DOMAIN t = ls
  BY DEF Takings
<1>2. \A l \in ls : l[2] \in Expiries /\ t[l] \in Nat
  BY <1>1 DEF Lots
<1>3. ASSUME E = {} PROVE FALSE
  <2>1. \A l \in ls \ {} : t[l] = 0
    BY <1>2, <1>3
  <2>2. IsFiniteSet(ls)
    BY LotsAreFinite, FS_Subset
  <2>3. Summable(t, ls)
    BY <1>2, <2>2 DEF Summable
  <2>4. SumFunctionOnSet(t, ls) = 0
    BY <2>1, <2>3, SumOfZeros, SumEmpty
  <2> QED
    BY <1>1, <2>4 DEF SumFunction
<1>4. E \in SUBSET Nat /\ E \in SUBSET Expiries
  BY StockAssumption
<1>5. PICK x \in E : \A y \in E : y >= x
  <2> HIDE DEF E
  <2> QED
    BY <1>3, <1>4, ExpiriesHaveALeast
<1>6. /\ x \in Expiries
      /\ \E l \in DOMAIN t : t[l] > 0 /\ l[2] = x
      /\ \A l \in DOMAIN t : t[l] > 0 => l[2] >= x
  BY <1>1, <1>2, <1>5
<1> HIDE DEF E
<1> QED
  BY <1>6 DEF EarliestTaken

LEMMA StockStarts == StockInit => StockInv /\ ArchivedIsStill
<1> SUFFICES ASSUME StockInit PROVE StockInv /\ ArchivedIsStill
  OBVIOUS
<1>1. NotShipped \in Shipped
  BY StockAssumption DEF NotShipped, Shipped
<1>2. StockTypeOK
  <2>1. {archived, archiving, moving} \subseteq BOOLEAN
    BY DEF StockInit
  <2>2. /\ lots \in [Lots -> Nat] /\ ledger \in [Warehouses -> Int]
        /\ received \subseteq Inbounds /\ issued \subseteq Outbounds
        /\ clerk \in [Clerks -> Inbounds \union {NoReceipt}]
    BY DEF StockInit
  <2>3. shipment \in [Shipments -> Shipped]
    BY <1>1 DEF StockInit
  <2> QED
    BY <2>1, <2>2, <2>3 DEF StockTypeOK
<1>3. IsFiniteSet(received) /\ IsFiniteSet(issued)
  BY FS_EmptySet DEF StockInit
<1>4. ASSUME NEW S \in SUBSET Lots
      PROVE  OnHand(S) = 0
  <2>1. IsFiniteSet(S)
    BY LotsAreFinite, FS_Subset
  <2>2. \A l \in S : lots[l] = 0
    BY DEF StockInit
  <2>3. Summable(lots, S)
    BY <2>1, <2>2 DEF Summable
  <2>4. SumFunctionOnSet(lots, S) = SumFunctionOnSet(lots, {})
    BY <2>2, <2>3, SumOfZeros
  <2> QED
    BY <2>4, SumEmpty DEF OnHand
<1>5. OnHand(Lots) = 0 /\ \A h \in Warehouses : OnHand(LotsOf(h)) = 0
  BY <1>4, LotsAreFinite
<1>6. InTransitTotal = 0
  <2>1. \A s \in Shipments : Carried(shipment)[s] = 0
    BY DEF StockInit, NotShipped, Carried
  <2>2. Summable(Carried(shipment), Shipments)
    BY <2>1, StockAssumption DEF Summable
  <2>3. SumFunctionOnSet(Carried(shipment), Shipments) =
            SumFunctionOnSet(Carried(shipment), {})
    BY <2>1, <2>2, SumOfZeros
  <2> QED
    BY <2>3, SumEmpty DEF InTransitTotal, SumFunction, Carried, InTransit
<1>7. Total(received) = 0 /\ Total(issued) = 0
  <2>1. received = {} /\ issued = {}
    BY DEF StockInit
  <2> QED
    BY <2>1, SumEmpty DEF Total, SumFunction
<1>8. StockIsConserved
  <2>1. \A l \in Lots : lots[l] >= 0
    BY DEF StockInit
  <2>2. \A h \in Warehouses : ledger[h] = 0
    BY DEF StockInit
  <2> QED
    BY <1>5, <1>6, <1>7, <2>1, <2>2 DEF StockIsConserved
<1>9. ArchivedIsStill
  BY DEF StockInit, ArchivedIsStill
<1> QED
  BY <1>2, <1>3, <1>8, <1>9 DEF StockInv

(* What leaves the stock alone leaves its books alone.                       *)
LEMMA StockAtRest ==
    ASSUME UNCHANGED <<lots, ledger, received, issued, shipment>>
    PROVE  /\ OnHand(Lots)' = OnHand(Lots)
           /\ StockIsConserved' <=> StockIsConserved
           /\ \A s \in Shipments : InTransit(s)' <=> InTransit(s)
<1>1. OnHand(Lots)' = OnHand(Lots)
  BY DEF OnHand, Lots
<1>2. \A h \in Warehouses : OnHand(LotsOf(h))' = OnHand(LotsOf(h))
  BY DEF OnHand, LotsOf
<1>3. InTransitTotal' = InTransitTotal /\ Total(received)' = Total(received)
      /\ Total(issued)' = Total(issued)
  BY DEF InTransitTotal, InTransit, Total
<1> QED
  BY <1>1, <1>2, <1>3 DEF StockIsConserved, InTransit

(* A receipt, an issue, a dispatch and the end of a shipment each keep the    *)
(* books: what changes on hand changes in transit or in what was asked for.   *)
LEMMA BooksAreKept ==
    ASSUME StockInv, lots' \in [Lots -> Nat],
           \A h \in Warehouses : ledger'[h] = OnHand(LotsOf(h))',
           OnHand(Lots)' + InTransitTotal' = Total(received)' - Total(issued)'
    PROVE  StockIsConserved'
<1>1. \A l \in Lots : lots'[l] >= 0
  OBVIOUS
<1> QED
  BY <1>1 DEF StockIsConserved

LEMMA OnHandIsNatural ==
    ASSUME StockInv
    PROVE  OnHand(Lots) \in Nat
  BY LotsAreFinite, SumIsNatural DEF OnHand, StockInv, StockTypeOK

LEMMA TransitUnmoved ==
    ASSUME UNCHANGED shipment
    PROVE  InTransitTotal' = InTransitTotal
  BY DEF InTransitTotal, InTransit

LEMMA TransitIsAnInteger ==
    ASSUME StockInv
    PROVE  InTransitTotal \in Int
<1>1. \A s \in Shipments : Carried(shipment)[s] \in Int
  BY DEF StockInv, StockTypeOK, Shipped, Carried
<1>2. SumFunctionOnSet(Carried(shipment), Shipments) \in Int
  BY <1>1, StockAssumption, SumType DEF Summable
<1> QED
  BY <1>2 DEF InTransitTotal, SumFunction, Carried, InTransit

LEMMA TotalsAreIntegers ==
    ASSUME StockInv
    PROVE  Total(received) \in Int /\ Total(issued) \in Int
<1>1. ASSUME NEW S \in SUBSET Int, IsFiniteSet(S)
      PROVE  Total(S) \in Int
  <2>1. Summable([q \in S |-> q], S)
    BY <1>1 DEF Summable
  <2> QED
    BY <2>1, SumType DEF Total, SumFunction
<1>2. received \in SUBSET Int /\ issued \in SUBSET Int
  BY StockAssumption DEF StockInv, StockTypeOK
<1> QED
  BY <1>1, <1>2 DEF StockInv

(* The operations, one by one.                                               *)
LEMMA PostReceiptKeeps ==
    ASSUME StockInv, ArchivedIsStill, NEW c \in Clerks, PostReceipt(c)
    PROVE  StockInv' /\ ArchivedIsStill'
<1> DEFINE r == clerk[c]
<1>1. /\ r \in Inbounds /\ r \in Nat \ {0}
      /\ clerk' \in [Clerks -> Inbounds \union {NoReceipt}]
      /\ received \in SUBSET Int
      /\ {archived', archiving', moving'} \subseteq BOOLEAN
  BY StockAssumption DEF StockInv, StockTypeOK, PostReceipt, NoReceipt
<1>2. CASE FirstReceipt(r)
  <2>1. PICK h \in Warehouses, x \in Expiries : Add(h, x, r)
    BY <1>2 DEF PostReceipt
  <2>2. received' = received \union {r} /\ r \notin received
    BY <1>2 DEF PostReceipt, FirstReceipt
  <2>3. /\ lots' \in [Lots -> Nat] /\ ledger' \in [Warehouses -> Int]
        /\ OnHand(Lots)' = OnHand(Lots) + r
        /\ \A k \in Warehouses : ledger'[k] = OnHand(LotsOf(k))'
    BY <1>1, <2>1, AddMoves
  <2>4. /\ Total(received)' = Total(received) + r
        /\ IsFiniteSet(received')
    <3>1. /\ Total(received \union {r}) = Total(received) + r
          /\ IsFiniteSet(received \union {r})
      BY <1>1, <2>2, TotalGrows DEF StockInv
    <3>2. Total(received)' = Total(received \union {r})
      BY <2>2 DEF Total
    <3> QED
      BY <2>2, <3>1, <3>2
  <2>5. UNCHANGED <<shipment, issued>> /\ InTransitTotal' = InTransitTotal
        /\ Total(issued)' = Total(issued)
    BY TransitUnmoved DEF PostReceipt, Total
  <2>6. OnHand(Lots)' + InTransitTotal' = Total(received)' - Total(issued)'
    BY <1>1, <2>3, <2>4, <2>5, OnHandIsNatural, TransitIsAnInteger, TotalsAreIntegers
    DEF StockInv, StockIsConserved
  <2>7. StockIsConserved'
    BY <2>3, <2>6, BooksAreKept
  <2>8. StockTypeOK'
    BY <1>1, <2>2, <2>3, <2>5 DEF StockInv, StockTypeOK
  <2>9. StockInv'
    BY <2>4, <2>5, <2>7, <2>8 DEF StockInv
  <2>10. ~archived \/ moving
    BY <1>1 DEF ArchivedIsStill, NoReceipt
  <2>11. ArchivedIsStill'
    BY <1>1, <2>10 DEF ArchivedIsStill, PostReceipt, StockInv, StockTypeOK
  <2> QED
    BY <2>9, <2>11
<1>3. CASE ~FirstReceipt(r)
  <2>1. UNCHANGED <<lots, ledger, received, issued, shipment, archived, archiving>>
    BY <1>3 DEF PostReceipt
  <2>2. StockTypeOK'
    BY <1>1, <2>1 DEF StockInv, StockTypeOK
  <2>3. StockInv'
    BY <2>1, <2>2, StockAtRest DEF StockInv
  <2>4. ~archived \/ moving
    BY <1>1 DEF ArchivedIsStill, NoReceipt
  <2>5. ArchivedIsStill'
    BY <1>1, <2>1, <2>4 DEF ArchivedIsStill, PostReceipt, StockInv, StockTypeOK
  <2> QED
    BY <2>3, <2>5
<1> QED
  BY <1>2, <1>3

(* Nothing can be taken from an item whose stock an archiving request has    *)
(* found gone.                                                               *)
LEMMA NothingToTake ==
    ASSUME StockInv, ArchivedIsStill, ~archived, NEW q \in Nat \ {0},
           OnHand(Lots) - q \in Nat
    PROVE  ~archiving \/ moving
  BY DEF ArchivedIsStill

LEMMA IssueKeeps ==
    ASSUME StockInv, ArchivedIsStill, NEW o \in Outbounds, Issue(o)
    PROVE  StockInv' /\ ArchivedIsStill'
<1>1. o \in Nat \ {0} /\ issued \in SUBSET Int
  BY StockAssumption DEF StockInv, StockTypeOK
<1>2. PICK t \in Takings(o, Lots) : Take(t)
  BY DEF Issue
<1>3. /\ lots' \in [Lots -> Nat] /\ ledger' \in [Warehouses -> Int]
      /\ OnHand(Lots)' = OnHand(Lots) - o /\ OnHand(Lots)' \in Nat
      /\ \A h \in Warehouses : ledger'[h] = OnHand(LotsOf(h))'
  BY <1>1, <1>2, TakeMoves
<1>4. /\ Total(issued)' = Total(issued) + o
      /\ IsFiniteSet(issued')
  <2>1. issued' = issued \union {o} /\ o \notin issued
    BY DEF Issue
  <2>2. /\ Total(issued \union {o}) = Total(issued) + o
        /\ IsFiniteSet(issued \union {o})
    BY <1>1, <2>1, TotalGrows DEF StockInv
  <2>3. Total(issued)' = Total(issued \union {o})
    BY <2>1 DEF Total
  <2> QED
    BY <2>1, <2>2, <2>3
<1>5. UNCHANGED <<shipment, received, clerk>> /\ InTransitTotal' = InTransitTotal
      /\ Total(received)' = Total(received)
  BY TransitUnmoved DEF Issue, Total
<1>6. OnHand(Lots)' + InTransitTotal' = Total(received)' - Total(issued)'
  BY <1>1, <1>3, <1>4, <1>5, OnHandIsNatural, TransitIsAnInteger, TotalsAreIntegers
  DEF StockInv, StockIsConserved
<1>7. StockIsConserved'
  BY <1>3, <1>6, BooksAreKept
<1>8. StockTypeOK'
  BY <1>3, <1>5 DEF StockInv, StockTypeOK, Issue
<1>9. ~archiving \/ moving
  BY <1>1, <1>3, NothingToTake DEF Issue
<1>10. ArchivedIsStill'
  BY <1>9 DEF ArchivedIsStill, Issue, StockInv, StockTypeOK
<1> QED
  BY <1>4, <1>5, <1>7, <1>8, <1>10 DEF StockInv

LEMMA DispatchKeeps ==
    ASSUME StockInv, ArchivedIsStill, NEW s \in Shipments, NEW q \in Inbounds,
           NEW h \in Warehouses, NEW k \in Warehouses, Dispatch(s, q, h, k)
    PROVE  StockInv' /\ ArchivedIsStill'
<1>1. q \in Nat \ {0} /\ LotsOf(h) \in SUBSET Lots
  BY StockAssumption, LotsAreFinite
<1>2. PICK t \in Takings(q, LotsOf(h)) :
          /\ Take(t)
          /\ shipment' = [shipment EXCEPT ![s] =
                 [status |-> "in_transit", from |-> h, to |-> k, quantity |-> q,
                  expiry |-> EarliestTaken(t)]]
  BY DEF Dispatch
<1>3. /\ lots' \in [Lots -> Nat] /\ ledger' \in [Warehouses -> Int]
      /\ OnHand(Lots)' = OnHand(Lots) - q /\ OnHand(Lots)' \in Nat
      /\ \A j \in Warehouses : ledger'[j] = OnHand(LotsOf(j))'
  BY <1>1, <1>2, TakeMoves
<1>4. EarliestTaken(t) \in Expiries
  BY <1>1, <1>2, EarliestIsAnExpiry DEF StockInv, StockTypeOK
<1>5. shipment \in [Shipments -> Shipped]
  BY DEF StockInv, StockTypeOK
<1>6. shipment' \in [Shipments -> Shipped]
  <2>1. [status |-> "in_transit", from |-> h, to |-> k, quantity |-> q,
         expiry |-> EarliestTaken(t)] \in Shipped
    BY <1>1, <1>4 DEF Shipped
  <2> QED
    BY <1>2, <1>5, <2>1
<1>7. InTransitTotal' = InTransitTotal + q
  <2>1. /\ shipment'[s].status = "in_transit" /\ shipment'[s].quantity = q
        /\ \A r \in Shipments \ {s} : shipment'[r] = shipment[r]
    BY <1>2, <1>5
  <2>2. Carried(shipment)[s] = 0 /\ Carried(shipment')[s] = q
    BY <2>1 DEF Carried, Dispatch
  <2> QED
    BY <1>1, <1>5, <1>6, <2>1, <2>2, CarriedMoves
<1>8. UNCHANGED <<received, issued, clerk>> /\ Total(received)' = Total(received)
      /\ Total(issued)' = Total(issued)
  BY DEF Dispatch, Total
<1>9. OnHand(Lots)' + InTransitTotal' = Total(received)' - Total(issued)'
  BY <1>1, <1>3, <1>7, <1>8, OnHandIsNatural, TransitIsAnInteger, TotalsAreIntegers
  DEF StockInv, StockIsConserved
<1>10. StockIsConserved'
  BY <1>3, <1>9, BooksAreKept
<1>11. StockTypeOK'
  BY <1>3, <1>6, <1>8 DEF StockInv, StockTypeOK, Dispatch
<1>12. ~archiving \/ moving
  BY <1>1, <1>3, NothingToTake DEF Dispatch
<1>13. ArchivedIsStill'
  BY <1>12 DEF ArchivedIsStill, Dispatch, StockInv, StockTypeOK
<1> QED
  BY <1>8, <1>10, <1>11, <1>13 DEF StockInv

LEMMA EndShipmentKeeps ==
    ASSUME StockInv, ArchivedIsStill, NEW s \in Shipments, NEW h \in Warehouses,
           NEW end \in {"arrived", "cancelled"}, EndShipment(s, end, h)
    PROVE  StockInv' /\ ArchivedIsStill'
<1> DEFINE q == shipment[s].quantity
<1>1. /\ shipment \in [Shipments -> Shipped] /\ shipment[s] \in Shipped
      /\ q \in Nat /\ shipment[s].expiry \in Expiries
      /\ shipment[s].status = "in_transit"
  BY DEF StockInv, StockTypeOK, Shipped, EndShipment, InTransit
<1>2. /\ lots' \in [Lots -> Nat] /\ ledger' \in [Warehouses -> Int]
      /\ OnHand(Lots)' = OnHand(Lots) + q
      /\ \A k \in Warehouses : ledger'[k] = OnHand(LotsOf(k))'
  BY <1>1, AddMoves DEF EndShipment
<1>3. /\ shipment' = [shipment EXCEPT ![s] = [shipment[s] EXCEPT !.status = end]]
      /\ [shipment[s] EXCEPT !.status = end] \in Shipped
  BY <1>1 DEF EndShipment, Shipped
<1>4. /\ shipment' \in [Shipments -> Shipped]
      /\ shipment'[s].status = end
      /\ \A r \in Shipments \ {s} : shipment'[r] = shipment[r]
  BY <1>1, <1>3 DEF Shipped
<1>5. InTransitTotal' = InTransitTotal - q
  <2>1. Carried(shipment)[s] = q /\ Carried(shipment')[s] = 0
    BY <1>1, <1>4 DEF Carried
  <2> QED
    BY <1>1, <1>4, <2>1, CarriedMoves
<1>6. UNCHANGED <<received, issued, clerk>> /\ Total(received)' = Total(received)
      /\ Total(issued)' = Total(issued)
  BY DEF EndShipment, Total
<1>7. OnHand(Lots)' + InTransitTotal' = Total(received)' - Total(issued)'
  BY <1>1, <1>2, <1>5, <1>6, OnHandIsNatural, TransitIsAnInteger, TotalsAreIntegers
  DEF StockInv, StockIsConserved
<1>8. StockIsConserved'
  BY <1>2, <1>7, BooksAreKept
<1>9. {archived, archiving, moving'} \subseteq BOOLEAN
  BY DEF StockInv, StockTypeOK, EndShipment
<1>10. StockTypeOK'
  BY <1>2, <1>4, <1>6, <1>9 DEF StockInv, StockTypeOK, EndShipment
<1>11. ~archived \/ moving
  BY DEF ArchivedIsStill, EndShipment
<1>12. ArchivedIsStill'
  BY <1>9, <1>11 DEF ArchivedIsStill, EndShipment, StockInv, StockTypeOK
<1> QED
  BY <1>6, <1>8, <1>10, <1>12 DEF StockInv

LEMMA ArchivingKeeps ==
    ASSUME StockInv, ArchivedIsStill, FindNoStock \/ ArchiveItem
    PROVE  StockInv' /\ ArchivedIsStill'
<1>1. UNCHANGED <<lots, ledger, received, issued, shipment, clerk>>
  BY DEF FindNoStock, ArchiveItem
<1>2. /\ OnHand(Lots)' = OnHand(Lots) /\ StockIsConserved'
      /\ \A s \in Shipments : InTransit(s)' <=> InTransit(s)
  BY <1>1, StockAtRest DEF StockInv
<1>3. {archived', archiving', moving'} \subseteq BOOLEAN
  BY DEF FindNoStock, ArchiveItem, StockInv, StockTypeOK
<1>4. StockInv'
  BY <1>1, <1>2, <1>3 DEF StockInv, StockTypeOK
<1>5. CASE FindNoStock
  BY <1>2, <1>5 DEF FindNoStock, ArchivedIsStill, NoStock, StockInv, StockTypeOK
<1>6. CASE ArchiveItem
  BY <1>1, <1>2, <1>3, <1>6 DEF ArchiveItem, ArchivedIsStill, StockInv, StockTypeOK
<1> QED
  BY <1>4, <1>5, <1>6

LEMMA StockHolds ==
    StockInv /\ ArchivedIsStill /\ [StockNext]_stockVars => (StockInv /\ ArchivedIsStill)'
<1> SUFFICES ASSUME StockInv, ArchivedIsStill, [StockNext]_stockVars
             PROVE  StockInv' /\ ArchivedIsStill'
  OBVIOUS
<1>1. ASSUME NEW c \in Clerks, NEW r \in Inbounds, FindItem(c, r)
      PROVE  StockInv' /\ ArchivedIsStill'
  <2>1. UNCHANGED <<lots, ledger, received, issued, shipment, archived, archiving, moving>>
    BY <1>1 DEF FindItem
  <2>2. clerk' \in [Clerks -> Inbounds \union {NoReceipt}]
    BY <1>1 DEF FindItem, StockInv, StockTypeOK
  <2>3. StockInv'
    BY <2>1, <2>2, StockAtRest DEF StockInv, StockTypeOK
  <2>4. ArchivedIsStill'
    BY <1>1, <2>1, StockAtRest DEF ArchivedIsStill, FindItem
  <2> QED
    BY <2>3, <2>4
<1>2. CASE UNCHANGED stockVars
  <2>1. UNCHANGED <<lots, ledger, received, issued, clerk, shipment, archived, archiving, moving>>
    BY <1>2 DEF stockVars
  <2>2. StockInv'
    BY <2>1, StockAtRest DEF StockInv, StockTypeOK
  <2>3. ArchivedIsStill'
    BY <2>1, StockAtRest DEF ArchivedIsStill
  <2> QED
    BY <2>2, <2>3
<1>3. ASSUME NEW s \in Shipments, ArriveShipment(s) \/ CancelShipment(s)
      PROVE  StockInv' /\ ArchivedIsStill'
  <2>1. shipment[s].to \in Warehouses /\ shipment[s].from \in Warehouses
    BY DEF StockInv, StockTypeOK, Shipped
  <2> QED
    BY <1>3, <2>1, EndShipmentKeeps DEF ArriveShipment, CancelShipment
<1> QED
  BY <1>1, <1>2, <1>3, PostReceiptKeeps, IssueKeeps, DispatchKeeps, ArchivingKeeps DEF StockNext

(* Nothing that was received is lost or doubled, and the ledger tells what the *)
(* lots hold, whatever receipts, issues, transfers and retries interleave.     *)
THEOREM StockConserved == StockSpec => []StockIsConserved
<1>1. StockInv => StockIsConserved
  BY DEF StockInv
<1> QED
  BY StockStarts, StockHolds, <1>1, PTL DEF StockSpec

(* An item is archived empty, except for stock that is on its way in.          *)
THEOREM ArchivedItemsAreEmpty == StockSpec => []ArchivedItemIsEmpty
<1>1. ArchivedIsStill => ArchivedItemIsEmpty
  BY DEF ArchivedIsStill, ArchivedItemIsEmpty
<1> QED
  BY StockStarts, StockHolds, <1>1, PTL DEF StockSpec

-----------------------------------------------------------------------------
(* The run that checks the three components, only one of which moves.        *)

LEMMA EachOnItsOwn == SharedSpec => RetentionSpec /\ CollaborationSpec /\ StockSpec
<1>1. SharedInit => RetentionInit /\ CollaborationInit /\ StockInit
  BY DEF SharedInit
<1>2. [SharedNext]_sharedVars
          => /\ [RetentionNext]_retentionVars
             /\ [CollaborationNext]_collaborationVars
             /\ [StockNext]_stockVars
  BY DEF SharedNext, sharedVars
<1> QED
  BY <1>1, <1>2, PTL DEF SharedSpec, RetentionSpec, CollaborationSpec, StockSpec

(* The variables of retention, collaboration and stock stay in their types.  *)
THEOREM SharedTypeCorrect == SharedSpec => []SharedTypeOK
<1>1. StockInv => StockTypeOK
  BY DEF StockInv
<1>2. StockSpec => []StockTypeOK
  BY StockStarts, StockHolds, <1>1, PTL DEF StockSpec
<1> QED
  BY EachOnItsOwn, RetentionTypeCorrect, CollaborationTypeCorrect, <1>2, PTL
  DEF SharedTypeOK

=============================================================================
