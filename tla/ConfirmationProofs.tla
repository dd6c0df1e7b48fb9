-------------------------- MODULE ConfirmationProofs --------------------------
(***************************************************************************)
(* Theorems about confirmed actions, for any number of actions, tabs,      *)
(* grants and executors, and any number of edits and deaths.               *)
(***************************************************************************)
EXTENDS ConfirmationActions, TLAPS

(* What the user agreed to is what the row still says, from the confirmation *)
(* to the end of the execution.                                              *)
ConsentIsKept ==
    \A i \in Actions :
        confirmation[i] \in {"authorized", "executing", "outcome_unknown"} =>
            consented[i] = arguments[i]

(* An action nobody has started to execute was not run. *)
UnstartedIsUntouched ==
    \A i \in Actions :
        confirmation[i] \in {"none", "pending", "authorized", "cancelled", "expired"} =>
            runs[i] = 0 /\ \A e \in Executors : running[e] # i

RunsAreCounted ==
    \A i \in Actions : runs[i] <= 1 /\ (confirmation[i] = "completed" => runs[i] = 1)

(* What an executor has at hand, it has claimed: the action is executing, or *)
(* was given up after 30 minutes, and cannot be claimed a second time.       *)
ClaimsAreMarked ==
    \A e \in Executors :
        IF executor[e] = "idle" THEN running[e] = NoAction
        ELSE /\ running[e] \in Actions
             /\ confirmation[running[e]] \in {"executing", "outcome_unknown"}
             /\ runsWith[e] = arguments[running[e]]
             /\ executor[e] = "claimed" => runs[running[e]] = 0
             /\ executor[e] = "succeeded" => runs[running[e]] = 1

ExecutorsAreAlone ==
    \A e, f \in Executors :
        executor[e] # "idle" /\ executor[f] # "idle" /\ running[e] = running[f] => e = f

(* What was on a screen was the row at the revision it names. *)
TellsTheRow(c) ==
    /\ c.revision <= revision[c.action]
    /\ c.revision = revision[c.action] => c.arguments = arguments[c.action]

ScreensTellTheRows ==
    /\ \A t \in Tabs : card[t] # NoAction => TellsTheRow(card[t])
    /\ \A g \in grants : TellsTheRow(g)

ConfirmationInv ==
    /\ ConfirmationTypeOK
    /\ ConsentIsKept
    /\ UnstartedIsUntouched
    /\ RunsAreCounted
    /\ ClaimsAreMarked
    /\ ExecutorsAreAlone
    /\ ScreensTellTheRows

-----------------------------------------------------------------------------
(* What _expire_stale makes of a row: it closes what was not started, gives  *)
(* up what took too long, and never lowers a revision.                       *)
LEMMA ExpiryMoves ==
    ASSUME ConfirmationTypeOK, NEW i \in Actions
    PROVE  /\ StatusNow(i) \in Statuses
           /\ \/ StatusNow(i) = confirmation[i]
              \/ confirmation[i] \in {"pending", "authorized"} /\ StatusNow(i) = "expired"
              \/ confirmation[i] = "executing" /\ StatusNow(i) = "outcome_unknown"
           /\ RevisionNow(i) \in Nat
           /\ RevisionNow(i) >= revision[i]
           /\ KeychainNow(i) \in {"none", "authorized", "claimed", "consumed", "expired",
                                  "outcome_unknown"}
  BY DEF ConfirmationTypeOK, StatusNow, RevisionNow, KeychainNow, Lapses, Overruns, Statuses

(* A row this step only lets expire, if it touches it at all. *)
ExpiresAtMost(i) ==
    /\ \/ confirmation'[i] = confirmation[i]
       \/ confirmation[i] \in {"pending", "authorized"} /\ confirmation'[i] = "expired"
       \/ confirmation[i] = "executing" /\ confirmation'[i] = "outcome_unknown"
    /\ revision'[i] >= revision[i]

Keys == {"none", "authorized", "claimed", "consumed", "expired", "outcome_unknown"}

(* A transaction that sets one row leaves the others to their expiry. *)
LEMMA PutMoves ==
    ASSUME ConfirmationTypeOK, NEW i \in Actions, NEW status \in Statuses, NEW key \in Keys,
           Put(i, status, key)
    PROVE  /\ confirmation' \in [Actions -> Statuses]
           /\ revision' \in [Actions -> Nat]
           /\ keychain' \in [Actions -> Keys]
           /\ confirmation'[i] = status
           /\ revision'[i] = revision[i] + 1
           /\ \A j \in Actions \ {i} : ExpiresAtMost(j)
<1>1. /\ confirmation' = [j \in Actions |-> IF j = i THEN status ELSE StatusNow(j)]
      /\ revision' = [j \in Actions |-> IF j = i THEN revision[i] + 1 ELSE RevisionNow(j)]
      /\ keychain' = [j \in Actions |-> IF j = i THEN key ELSE KeychainNow(j)]
  BY DEF Put
<1>2. revision[i] \in Nat
  BY DEF ConfirmationTypeOK
<1> QED
  BY <1>1, <1>2, ExpiryMoves DEF ExpiresAtMost, Keys

LEMMA ExpiryOnly ==
    ASSUME ConfirmationTypeOK, ExpireRows
    PROVE  /\ confirmation' \in [Actions -> Statuses]
           /\ revision' \in [Actions -> Nat]
           /\ keychain' \in [Actions -> Keys]
           /\ \A j \in Actions : ExpiresAtMost(j)
  BY ExpiryMoves DEF ExpireRows, ExpiresAtMost, Keys

LEMMA ClosedDeliveries ==
    ASSUME ConfirmationTypeOK, CloseDeliveries
    PROVE  delivery' \in [Actions -> {"none", "pending", "acked", "expired"}]
  BY DEF ConfirmationTypeOK, CloseDeliveries, DeliveryNow

-----------------------------------------------------------------------------
LEMMA InitConfirmation == ConfirmationInit => ConfirmationInv
  BY ConfirmationAssumption
  DEF ConfirmationInit, ConfirmationInv, ConfirmationTypeOK, ConsentIsKept,
      UnstartedIsUntouched, RunsAreCounted, ClaimsAreMarked, ExecutorsAreAlone,
      ScreensTellTheRows, Statuses, Cards, SomeArguments

(* What a tab acts upon: its card is of a pending action. *)
LEMMA CurrentCard ==
    ASSUME ConfirmationTypeOK, NEW t \in Tabs, CardIsCurrent(t)
    PROVE  /\ card[t] \in Cards
           /\ card[t].action \in Actions
           /\ confirmation[card[t].action] = "pending"
           /\ card[t].revision = revision[card[t].action]
<1>1. card[t] \in Cards
  BY DEF CardIsCurrent, ConfirmationTypeOK
<1>2. card[t].action \in Actions
  BY <1>1 DEF Cards
<1> QED
  BY <1>1, <1>2, ExpiryMoves DEF CardIsCurrent

LEMMA StepTypes ==
    ConfirmationTypeOK /\ [ConfirmationNext]_confirmationVars => ConfirmationTypeOK'
<1> SUFFICES ASSUME ConfirmationTypeOK, [ConfirmationNext]_confirmationVars
             PROVE  ConfirmationTypeOK'
  OBVIOUS
<1> USE ConfirmationAssumption DEF Keys
<1>1. ASSUME NEW i \in Actions, NEW a \in Arguments, Propose(i, a)
      PROVE  ConfirmationTypeOK'
  <2>1. Put(i, "pending", "none") /\ CloseDeliveries
    BY <1>1 DEF Propose
  <2> QED
    BY <1>1, <2>1, PutMoves, ClosedDeliveries
    DEF Propose, ConfirmationTypeOK, executorVars, Statuses
<1>2. ASSUME NEW i \in Actions, Acknowledge(i)
      PROVE  ConfirmationTypeOK'
  <2>1. ExpireRows /\ delivery' \in [Actions -> {"none", "pending", "acked", "expired"}]
    BY <1>2 DEF Acknowledge, DeliveryNow, ConfirmationTypeOK
  <2> QED
    BY <1>2, <2>1, ExpiryOnly DEF Acknowledge, ConfirmationTypeOK, executorVars
<1>3. ASSUME NEW i \in Actions, Lapse(i) \/ Overrun(i)
      PROVE  ConfirmationTypeOK'
  BY <1>3 DEF Lapse, Overrun, ConfirmationTypeOK, executorVars
<1>4. ASSUME NEW t \in Tabs, NEW i \in Actions, Review(t, i)
      PROVE  ConfirmationTypeOK'
  <2>1. [action |-> i, revision |-> revision[i], arguments |-> arguments[i]] \in Cards
    BY DEF Cards, ConfirmationTypeOK
  <2>2. ExpireRows /\ CloseDeliveries
    BY <1>4 DEF Review
  <2> QED
    BY <1>4, <2>1, <2>2, ExpiryOnly, ClosedDeliveries
    DEF Review, ConfirmationTypeOK, executorVars
<1>5. ASSUME NEW t \in Tabs, NEW a \in Arguments, Edit(t, a)
      PROVE  ConfirmationTypeOK'
  <2> DEFINE i == card[t].action
  <2>1. i \in Actions /\ keychain[i] \in Keys
    BY <1>5, CurrentCard DEF Edit, ConfirmationTypeOK
  <2>2. Put(i, "pending", keychain[i]) /\ CloseDeliveries
    BY <1>5 DEF Edit
  <2>3. [action |-> i, revision |-> revision[i] + 1, arguments |-> a] \in Cards
    BY <2>1 DEF Cards, ConfirmationTypeOK
  <2> QED
    BY <1>5, <2>1, <2>2, <2>3, PutMoves, ClosedDeliveries
    DEF Edit, ConfirmationTypeOK, executorVars, Statuses
<1>6. ASSUME NEW t \in Tabs, Cancel(t)
      PROVE  ConfirmationTypeOK'
  <2> DEFINE i == card[t].action
  <2>1. i \in Actions /\ keychain[i] \in Keys
    BY <1>6, CurrentCard DEF Cancel, ConfirmationTypeOK
  <2>2. Put(i, "cancelled", keychain[i]) /\ CloseDeliveries
    BY <1>6 DEF Cancel
  <2> QED
    BY <1>6, <2>1, <2>2, PutMoves, ClosedDeliveries
    DEF Cancel, ConfirmationTypeOK, executorVars, Statuses
<1>7. ASSUME NEW t \in Tabs, IssueGrant(t)
      PROVE  ConfirmationTypeOK'
  BY <1>7 DEF IssueGrant, ConfirmationTypeOK, executorVars, actionVars
<1>8. ASSUME NEW t \in Tabs, NEW g \in grants, Confirm(t, g)
      PROVE  ConfirmationTypeOK'
  <2> DEFINE i == card[t].action
  <2>1. i \in Actions
    BY <1>8, CurrentCard DEF Confirm
  <2>2. Put(i, "authorized", "authorized") /\ CloseDeliveries
    BY <1>8 DEF Confirm
  <2>3. g.arguments \in Arguments
    BY DEF ConfirmationTypeOK, Cards
  <2> QED
    BY <1>8, <2>1, <2>2, <2>3, PutMoves, ClosedDeliveries
    DEF Confirm, ConfirmationTypeOK, executorVars, Statuses
<1>9. ASSUME NEW g \in grants, GrantRunsOut(g)
      PROVE  ConfirmationTypeOK'
  BY <1>9 DEF GrantRunsOut, ConfirmationTypeOK, executorVars, actionVars
<1>10. ASSUME NEW e \in Executors, NEW i \in Actions, Claim(e, i)
       PROVE  ConfirmationTypeOK'
  <2>1. Put(i, "executing", "claimed") /\ CloseDeliveries
    BY <1>10 DEF Claim
  <2> QED
    BY <1>10, <2>1, PutMoves, ClosedDeliveries DEF Claim, ConfirmationTypeOK, Statuses
<1>11. ASSUME NEW e \in Executors, RunCommand(e)
       PROVE  ConfirmationTypeOK'
  <2>1. runs' \in [Actions -> Nat]
    <3>1. CASE runs' = [runs EXCEPT ![running[e]] = @ + 1]
      <4>1. running[e] \in Actions /\ runs[running[e]] \in Nat
        BY <1>11 DEF RunCommand, ConfirmationTypeOK
      <4> QED
        BY <3>1, <4>1 DEF ConfirmationTypeOK
    <3>2. CASE runs' = runs
      BY <3>2 DEF ConfirmationTypeOK
    <3> QED
      BY <1>11, <3>1, <3>2 DEF RunCommand
  <2>2. /\ executor' \in [Executors -> {"idle", "claimed", "succeeded", "failed", "raised"}]
        /\ \A f \in Executors : (executor'[f] = "idle") = (executor[f] = "idle")
    BY <1>11 DEF RunCommand, ConfirmationTypeOK
  <2> QED
    BY <1>11, <2>1, <2>2 DEF RunCommand, ConfirmationTypeOK, actionVars
<1>12. ASSUME NEW e \in Executors, Report(e)
       PROVE  ConfirmationTypeOK'
  <2> DEFINE i == running[e]
  <2>1. /\ i \in Actions
        /\ StatusAfter(executor[e]) \in Statuses
    BY <1>12 DEF Report, ConfirmationTypeOK, StatusAfter, Statuses
  <2>2. CASE StatusNow(i) = "executing"
    <3>1. KeychainAfter(i, StatusAfter(executor[e])) \in Keys
      BY <2>1 DEF KeychainAfter, ConfirmationTypeOK
    <3>2. Put(i, StatusAfter(executor[e]), KeychainAfter(i, StatusAfter(executor[e])))
      BY <1>12, <2>2 DEF Report
    <3>3. /\ confirmation' \in [Actions -> Statuses]
          /\ revision' \in [Actions -> Nat]
          /\ keychain' \in [Actions -> Keys]
      BY <2>1, <3>1, <3>2, PutMoves
    <3>4. /\ lapsed' \subseteq Actions
          /\ delivery' \in [Actions -> {"none", "pending", "acked", "expired"}]
      BY <1>12, <2>2, <2>1 DEF Report, ConfirmationTypeOK, DeliveryNow
    <3> QED
      BY <1>12, <3>3, <3>4 DEF Report, ExecutorEnds, ConfirmationTypeOK, SomeArguments
  <2>3. CASE StatusNow(i) # "executing"
    BY <1>12, <2>3 DEF Report, ExecutorEnds, ConfirmationTypeOK, SomeArguments
  <2> QED
    BY <2>2, <2>3
<1>13. ASSUME NEW e \in Executors, ExecutorDies(e)
       PROVE  ConfirmationTypeOK'
  BY <1>13 DEF ExecutorDies, ExecutorEnds, ConfirmationTypeOK, actionVars, SomeArguments
<1>14. CASE ExpireStale
  BY <1>14, ExpiryOnly, ClosedDeliveries
  DEF ExpireStale, ConfirmationTypeOK, executorVars
<1>15. CASE UNCHANGED confirmationVars
  BY <1>15 DEF confirmationVars, actionVars, executorVars, ConfirmationTypeOK
<1> QED
  BY <1>1, <1>2, <1>3, <1>4, <1>5, <1>6, <1>7, <1>8, <1>9, <1>10, <1>11, <1>12, <1>13,
     <1>14, <1>15 DEF ConfirmationNext, ExecutorStep

(* What a screen told of a row it still tells, or the row's revision is past  *)
(* it: a row changes its arguments only together with its revision.          *)
LEMMA ScreensStay ==
    ASSUME ConfirmationTypeOK, ConfirmationTypeOK', NEW c \in Cards, TellsTheRow(c),
           \A j \in Actions : revision'[j] >= revision[j],
           \A j \in Actions : arguments'[j] = arguments[j] \/ revision'[j] > revision[j]
    PROVE  /\ c.revision <= revision'[c.action]
           /\ c.revision = revision'[c.action] => c.arguments = arguments'[c.action]
<1> DEFINE j == c.action
<1>1. j \in Actions /\ c.revision \in Nat
  BY DEF Cards
<1>2. revision[j] \in Nat /\ revision'[j] \in Nat
  BY <1>1 DEF ConfirmationTypeOK
<1>3. c.revision <= revision[j] /\ (c.revision = revision[j] => c.arguments = arguments[j])
  BY DEF TellsTheRow
<1>4. revision'[j] >= revision[j] /\ (arguments'[j] = arguments[j] \/ revision'[j] > revision[j])
  BY <1>1
<1> QED
  BY <1>1, <1>2, <1>3, <1>4

-----------------------------------------------------------------------------
(* The calls of the user: no executor moves.  What a transaction may do to   *)
(* the row it is about is told by the status it finds there.                 *)
LEMMA StepUser ==
    ASSUME ConfirmationInv, ConfirmationTypeOK',
           \/ \E i \in Actions :
                 \/ \E a \in Arguments : Propose(i, a)
                 \/ Acknowledge(i) \/ Lapse(i) \/ Overrun(i)
           \/ \E t \in Tabs :
                 \/ \E i \in Actions : Review(t, i)
                 \/ \E a \in Arguments : Edit(t, a)
                 \/ Cancel(t) \/ IssueGrant(t)
                 \/ \E g \in grants : Confirm(t, g)
           \/ \E g \in grants : GrantRunsOut(g)
           \/ ExpireStale
           \/ UNCHANGED confirmationVars
    PROVE  ConfirmationInv'
<1> USE DEF ConfirmationInv, Keys
<1>1. ASSUME NEW i \in Actions, NEW a \in Arguments, Propose(i, a)
      PROVE  ConfirmationInv'
  <2>1. /\ confirmation[i] = "none" /\ confirmation'[i] = "pending"
        /\ revision'[i] = revision[i] + 1
        /\ \A j \in Actions \ {i} : ExpiresAtMost(j)
    BY <1>1, PutMoves DEF Propose, Statuses
  <2>2. arguments' = [arguments EXCEPT ![i] = a] /\ UNCHANGED <<executorVars, consented, card, grants>>
    BY <1>1 DEF Propose
  <2>3. ConsentIsKept' /\ UnstartedIsUntouched' /\ RunsAreCounted'
    BY <2>1, <2>2 DEF ConsentIsKept, UnstartedIsUntouched, RunsAreCounted, ExpiresAtMost,
       executorVars, ConfirmationTypeOK
  <2>4. ClaimsAreMarked' /\ ExecutorsAreAlone'
    BY <2>1, <2>2 DEF ClaimsAreMarked, ExecutorsAreAlone, ExpiresAtMost, executorVars,
       ConfirmationTypeOK
  <2>5. \A j \in Actions :
            /\ revision'[j] >= revision[j]
            /\ arguments'[j] = arguments[j] \/ revision'[j] > revision[j]
    BY <2>1, <2>2 DEF ExpiresAtMost, ConfirmationTypeOK
  <2>6. ScreensTellTheRows'
    BY <2>2, <2>5, ScreensStay DEF ScreensTellTheRows, TellsTheRow, ConfirmationTypeOK
  <2> QED
    BY <2>3, <2>4, <2>6
<1>2. ASSUME NEW i \in Actions, Lapse(i) \/ Overrun(i)
      PROVE  ConfirmationInv'
  BY <1>2 DEF Lapse, Overrun, executorVars, ConsentIsKept, UnstartedIsUntouched,
     RunsAreCounted, ClaimsAreMarked, ExecutorsAreAlone, ScreensTellTheRows, TellsTheRow
<1>3. ASSUME NEW t \in Tabs, NEW i \in Actions, Review(t, i)
      PROVE  ConfirmationInv'
  <2>1. \A j \in Actions : ExpiresAtMost(j)
    BY <1>3, ExpiryOnly DEF Review
  <2>2. /\ card' = [card EXCEPT
               ![t] = [action |-> i, revision |-> revision[i], arguments |-> arguments[i]]]
        /\ UNCHANGED <<arguments, grants, executorVars, consented>>
    BY <1>3 DEF Review
  <2>3. revision'[i] = revision[i]
    BY <1>3, ExpiryMoves DEF Review, ExpireRows, RevisionNow
  <2>4. ConsentIsKept' /\ UnstartedIsUntouched' /\ RunsAreCounted'
    BY <2>1, <2>2 DEF ConsentIsKept, UnstartedIsUntouched, RunsAreCounted, ExpiresAtMost,
       executorVars, ConfirmationTypeOK
  <2>5. ClaimsAreMarked' /\ ExecutorsAreAlone'
    BY <2>1, <2>2 DEF ClaimsAreMarked, ExecutorsAreAlone, ExpiresAtMost, executorVars,
       ConfirmationTypeOK
  <2>6. \A j \in Actions : revision'[j] >= revision[j] /\ arguments'[j] = arguments[j]
    BY <2>1, <2>2 DEF ExpiresAtMost
  <2>7. ASSUME NEW s \in Tabs, card'[s] # NoAction
        PROVE  TellsTheRow(card[s])'
    <3>1. CASE s = t
      BY <2>2, <2>3, <3>1 DEF TellsTheRow, ConfirmationTypeOK
    <3>2. CASE s # t
      BY <2>2, <2>6, <2>7, <3>2, ScreensStay
      DEF ScreensTellTheRows, TellsTheRow, ConfirmationTypeOK
    <3> QED
      BY <3>1, <3>2
  <2>8. ScreensTellTheRows'
    BY <2>2, <2>6, <2>7, ScreensStay DEF ScreensTellTheRows, TellsTheRow, ConfirmationTypeOK
  <2> QED
    BY <2>4, <2>5, <2>8
<1>4. ASSUME NEW t \in Tabs, NEW a \in Arguments, Edit(t, a)
      PROVE  ConfirmationInv'
  <2> DEFINE i == card[t].action
  <2>1. i \in Actions /\ confirmation[i] = "pending" /\ keychain[i] \in Keys
    BY <1>4, CurrentCard DEF Edit, ConfirmationTypeOK
  <2>2. /\ confirmation'[i] = "pending" /\ revision'[i] = revision[i] + 1
        /\ \A j \in Actions \ {i} : ExpiresAtMost(j)
    BY <1>4, <2>1, PutMoves DEF Edit, Statuses
  <2>3. /\ arguments' = [arguments EXCEPT ![i] = a]
        /\ card' = [card EXCEPT
               ![t] = [action |-> i, revision |-> revision[i] + 1, arguments |-> a]]
        /\ UNCHANGED <<executorVars, consented, grants>>
    BY <1>4 DEF Edit
  <2>4. ConsentIsKept' /\ UnstartedIsUntouched' /\ RunsAreCounted'
    BY <2>1, <2>2, <2>3 DEF ConsentIsKept, UnstartedIsUntouched, RunsAreCounted, ExpiresAtMost,
       executorVars, ConfirmationTypeOK
  <2>5. ClaimsAreMarked' /\ ExecutorsAreAlone'
    BY <2>1, <2>2, <2>3 DEF ClaimsAreMarked, ExecutorsAreAlone, ExpiresAtMost, executorVars,
       ConfirmationTypeOK
  <2>6. \A j \in Actions :
            /\ revision'[j] >= revision[j]
            /\ arguments'[j] = arguments[j] \/ revision'[j] > revision[j]
    BY <2>1, <2>2, <2>3 DEF ExpiresAtMost, ConfirmationTypeOK
  <2>7. ASSUME NEW u \in Tabs, card'[u] # NoAction
        PROVE  TellsTheRow(card[u])'
    <3>1. CASE u = t
      <4>1. card'[u] = [action |-> i, revision |-> revision[i] + 1, arguments |-> a]
        BY <2>3, <3>1 DEF ConfirmationTypeOK
      <4>2. /\ card'[u].action = i /\ card'[u].revision = revision[i] + 1
            /\ card'[u].arguments = a
        BY <4>1
      <4>3. revision[i] \in Nat /\ revision'[i] = revision[i] + 1 /\ arguments'[i] = a
        BY <2>1, <2>2, <2>3 DEF ConfirmationTypeOK
      <4> QED
        BY <4>2, <4>3 DEF TellsTheRow
    <3>2. CASE u # t
      <4>1. card'[u] = card[u] /\ card[u] \in Cards /\ TellsTheRow(card[u])
        BY <2>3, <2>7, <3>2 DEF ScreensTellTheRows, ConfirmationTypeOK
      <4> QED
        BY <2>6, <4>1, ScreensStay DEF TellsTheRow
    <3> QED
      BY <3>1, <3>2
  <2>8. ASSUME NEW g \in grants'
        PROVE  TellsTheRow(g)'
    BY <2>3, <2>6, ScreensStay DEF ScreensTellTheRows, TellsTheRow, ConfirmationTypeOK
  <2>9. ScreensTellTheRows'
    BY <2>7, <2>8 DEF ScreensTellTheRows
  <2> QED
    BY <2>4, <2>5, <2>9
<1>5. ASSUME NEW t \in Tabs, Cancel(t)
      PROVE  ConfirmationInv'
  <2> DEFINE i == card[t].action
  <2>1. i \in Actions /\ confirmation[i] = "pending" /\ keychain[i] \in Keys
    BY <1>5, CurrentCard DEF Cancel, ConfirmationTypeOK
  <2>2. /\ confirmation'[i] = "cancelled" /\ revision'[i] = revision[i] + 1
        /\ \A j \in Actions \ {i} : ExpiresAtMost(j)
    BY <1>5, <2>1, PutMoves DEF Cancel, Statuses
  <2>3. UNCHANGED <<arguments, executorVars, consented, card, grants>>
    BY <1>5 DEF Cancel
  <2>4. ConsentIsKept' /\ UnstartedIsUntouched' /\ RunsAreCounted'
    BY <2>1, <2>2, <2>3 DEF ConsentIsKept, UnstartedIsUntouched, RunsAreCounted, ExpiresAtMost,
       executorVars, ConfirmationTypeOK
  <2>5. ClaimsAreMarked' /\ ExecutorsAreAlone'
    BY <2>1, <2>2, <2>3 DEF ClaimsAreMarked, ExecutorsAreAlone, ExpiresAtMost, executorVars,
       ConfirmationTypeOK
  <2>6. \A j \in Actions : revision'[j] >= revision[j] /\ arguments'[j] = arguments[j]
    BY <2>1, <2>2, <2>3 DEF ExpiresAtMost, ConfirmationTypeOK
  <2>7. ScreensTellTheRows'
    BY <2>3, <2>6, ScreensStay DEF ScreensTellTheRows, TellsTheRow, ConfirmationTypeOK
  <2> QED
    BY <2>4, <2>5, <2>7
<1>6. ASSUME NEW t \in Tabs, IssueGrant(t)
      PROVE  ConfirmationInv'
  BY <1>6 DEF IssueGrant, actionVars, executorVars, ConsentIsKept, UnstartedIsUntouched,
     RunsAreCounted, ClaimsAreMarked, ExecutorsAreAlone, ScreensTellTheRows, TellsTheRow
<1>7. ASSUME NEW t \in Tabs, NEW g \in grants, Confirm(t, g)
      PROVE  ConfirmationInv'
  <2> DEFINE i == card[t].action
  <2>1. i \in Actions /\ confirmation[i] = "pending"
    BY <1>7, CurrentCard DEF Confirm
  <2>2. /\ confirmation'[i] = "authorized" /\ revision'[i] = revision[i] + 1
        /\ \A j \in Actions \ {i} : ExpiresAtMost(j)
    BY <1>7, <2>1, PutMoves DEF Confirm, Statuses
  <2>3. g.arguments = arguments[i]
    BY <1>7 DEF Confirm, GrantCovers, ScreensTellTheRows, TellsTheRow
  <2>4. /\ consented' = [consented EXCEPT ![i] = g.arguments]
        /\ grants' \subseteq grants
        /\ UNCHANGED <<arguments, executorVars, card>>
    BY <1>7 DEF Confirm
  <2>5. ConsentIsKept' /\ UnstartedIsUntouched' /\ RunsAreCounted'
    BY <2>1, <2>2, <2>3, <2>4 DEF ConsentIsKept, UnstartedIsUntouched, RunsAreCounted,
       ExpiresAtMost, executorVars, ConfirmationTypeOK
  <2>6. ClaimsAreMarked' /\ ExecutorsAreAlone'
    BY <2>1, <2>2, <2>4 DEF ClaimsAreMarked, ExecutorsAreAlone, ExpiresAtMost, executorVars,
       ConfirmationTypeOK
  <2>7. \A j \in Actions : revision'[j] >= revision[j] /\ arguments'[j] = arguments[j]
    BY <2>1, <2>2, <2>4 DEF ExpiresAtMost, ConfirmationTypeOK
  <2>8. ScreensTellTheRows'
    BY <2>4, <2>7, ScreensStay DEF ScreensTellTheRows, TellsTheRow, ConfirmationTypeOK
  <2> QED
    BY <2>5, <2>6, <2>8
<1>8. ASSUME NEW g \in grants, GrantRunsOut(g)
      PROVE  ConfirmationInv'
  BY <1>8 DEF GrantRunsOut, actionVars, executorVars, ConsentIsKept, UnstartedIsUntouched,
     RunsAreCounted, ClaimsAreMarked, ExecutorsAreAlone, ScreensTellTheRows, TellsTheRow
<1>9. CASE ExpireStale \/ \E i \in Actions : Acknowledge(i)
  <2>1. \A j \in Actions : ExpiresAtMost(j)
    BY <1>9, ExpiryOnly DEF ExpireStale, Acknowledge
  <2>2. UNCHANGED <<arguments, executorVars, consented, card, grants>>
    BY <1>9 DEF ExpireStale, Acknowledge
  <2>3. ConsentIsKept' /\ UnstartedIsUntouched' /\ RunsAreCounted'
    BY <2>1, <2>2 DEF ConsentIsKept, UnstartedIsUntouched, RunsAreCounted, ExpiresAtMost,
       executorVars, ConfirmationTypeOK
  <2>4. ClaimsAreMarked' /\ ExecutorsAreAlone'
    BY <2>1, <2>2 DEF ClaimsAreMarked, ExecutorsAreAlone, ExpiresAtMost, executorVars,
       ConfirmationTypeOK
  <2>5. \A j \in Actions : revision'[j] >= revision[j] /\ arguments'[j] = arguments[j]
    BY <2>1, <2>2 DEF ExpiresAtMost
  <2>6. ScreensTellTheRows'
    BY <2>2, <2>5, ScreensStay DEF ScreensTellTheRows, TellsTheRow, ConfirmationTypeOK
  <2> QED
    BY <2>3, <2>4, <2>6
<1>10. CASE UNCHANGED confirmationVars
  BY <1>10 DEF confirmationVars, actionVars, executorVars, ConsentIsKept, UnstartedIsUntouched,
     RunsAreCounted, ClaimsAreMarked, ExecutorsAreAlone, ScreensTellTheRows, TellsTheRow
<1> QED
  BY <1>1, <1>2, <1>3, <1>4, <1>5, <1>6, <1>7, <1>8, <1>9, <1>10

-----------------------------------------------------------------------------
(* The executors.  Claiming needs an authorised action, which nobody else    *)
(* has at hand, and marks it; that is all the exclusion there is.            *)
LEMMA StepClaim ==
    ASSUME ConfirmationInv, ConfirmationTypeOK', NEW e \in Executors, NEW i \in Actions,
           Claim(e, i)
    PROVE  ConfirmationInv'
<1> USE DEF ConfirmationInv
<1>1. confirmation[i] = "authorized" /\ executor[e] = "idle"
  BY ExpiryMoves DEF Claim, Usable
<1>2. /\ confirmation'[i] = "executing" /\ revision'[i] = revision[i] + 1
      /\ \A j \in Actions \ {i} : ExpiresAtMost(j)
  BY PutMoves DEF Claim, Statuses, Keys
<1>3. /\ executor' = [executor EXCEPT ![e] = "claimed"]
      /\ running' = [running EXCEPT ![e] = i]
      /\ runsWith' = [runsWith EXCEPT ![e] = arguments[i]]
      /\ UNCHANGED <<arguments, runs, consented, grants, card>>
  BY DEF Claim
<1>4. runs[i] = 0 /\ \A f \in Executors : running[f] # i
  BY <1>1 DEF UnstartedIsUntouched
<1>5. ConsentIsKept' /\ RunsAreCounted'
  BY <1>1, <1>2, <1>3 DEF ConsentIsKept, RunsAreCounted, ExpiresAtMost, ConfirmationTypeOK
<1>6. UnstartedIsUntouched'
  BY <1>1, <1>2, <1>3 DEF UnstartedIsUntouched, ExpiresAtMost, ConfirmationTypeOK
<1>7. ClaimsAreMarked'
  <2> SUFFICES ASSUME NEW f \in Executors
               PROVE  IF executor'[f] = "idle" THEN running'[f] = NoAction
                      ELSE /\ running'[f] \in Actions
                           /\ confirmation'[running'[f]] \in {"executing", "outcome_unknown"}
                           /\ runsWith'[f] = arguments'[running'[f]]
                           /\ executor'[f] = "claimed" => runs'[running'[f]] = 0
                           /\ executor'[f] = "succeeded" => runs'[running'[f]] = 1
    BY DEF ClaimsAreMarked
  <2>1. CASE f = e
    BY <1>2, <1>3, <1>4, <2>1 DEF ConfirmationTypeOK
  <2>2. CASE f # e
    BY <1>2, <1>3, <1>4, <2>2 DEF ClaimsAreMarked, ExpiresAtMost, ConfirmationTypeOK
  <2> QED
    BY <2>1, <2>2
<1>8. ExecutorsAreAlone'
  BY <1>3, <1>4 DEF ExecutorsAreAlone, ConfirmationTypeOK
<1>9. \A j \in Actions : revision'[j] >= revision[j] /\ arguments'[j] = arguments[j]
  BY <1>2, <1>3 DEF ExpiresAtMost, ConfirmationTypeOK
<1>10. ScreensTellTheRows'
  BY <1>3, <1>9, ScreensStay DEF ScreensTellTheRows, TellsTheRow, ConfirmationTypeOK
<1> QED
  BY <1>5, <1>6, <1>7, <1>8, <1>10

LEMMA StepRun ==
    ASSUME ConfirmationInv, ConfirmationTypeOK', NEW e \in Executors, RunCommand(e)
    PROVE  ConfirmationInv'
<1> USE DEF ConfirmationInv
<1> DEFINE i == running[e]
<1>1. /\ executor[e] = "claimed" /\ i \in Actions /\ runs[i] = 0
      /\ confirmation[i] \in {"executing", "outcome_unknown"}
  BY DEF RunCommand, ClaimsAreMarked
<1>2. UNCHANGED <<actionVars, grants, card, running, runsWith, consented>>
  BY DEF RunCommand
<1>3. PICK outcome \in {"succeeded", "failed", "raised"}, done \in BOOLEAN :
          /\ outcome = "succeeded" => done
          /\ executor' = [executor EXCEPT ![e] = outcome]
          /\ runs' = IF done THEN [runs EXCEPT ![i] = @ + 1] ELSE runs
  BY DEF RunCommand
<1>4. /\ outcome = "succeeded" => runs'[i] = 1
      /\ runs'[i] <= 1
      /\ \A j \in Actions \ {i} : runs'[j] = runs[j]
  BY <1>1, <1>3 DEF ConfirmationTypeOK
<1>5. ConsentIsKept' /\ ScreensTellTheRows'
  BY <1>2 DEF ConsentIsKept, ScreensTellTheRows, TellsTheRow, actionVars
<1>6. UnstartedIsUntouched' /\ RunsAreCounted'
  BY <1>1, <1>2, <1>4 DEF UnstartedIsUntouched, RunsAreCounted, actionVars
<1>7. ExecutorsAreAlone'
  BY <1>1, <1>2, <1>3 DEF ExecutorsAreAlone, ConfirmationTypeOK
<1>8. ClaimsAreMarked'
  <2> SUFFICES ASSUME NEW f \in Executors
               PROVE  IF executor'[f] = "idle" THEN running'[f] = NoAction
                      ELSE /\ running'[f] \in Actions
                           /\ confirmation'[running'[f]] \in {"executing", "outcome_unknown"}
                           /\ runsWith'[f] = arguments'[running'[f]]
                           /\ executor'[f] = "claimed" => runs'[running'[f]] = 0
                           /\ executor'[f] = "succeeded" => runs'[running'[f]] = 1
    BY DEF ClaimsAreMarked
  <2>1. CASE f = e
    BY <1>1, <1>2, <1>3, <1>4, <2>1 DEF ClaimsAreMarked, ConfirmationTypeOK, actionVars
  <2>2. CASE f # e /\ executor[f] = "idle"
    BY <1>2, <1>3, <2>2 DEF ClaimsAreMarked, ConfirmationTypeOK
  <2>3. CASE f # e /\ executor[f] # "idle"
    <3>1. running[f] \in Actions \ {i} /\ executor'[f] = executor[f]
      BY <1>1, <1>3, <2>3 DEF ClaimsAreMarked, ExecutorsAreAlone, ConfirmationTypeOK
    <3> QED
      BY <1>2, <1>4, <2>3, <3>1 DEF ClaimsAreMarked, actionVars
  <2> QED
    BY <2>1, <2>2, <2>3
<1> QED
  BY <1>5, <1>6, <1>7, <1>8

(* An executor that reports, or dies, lets its action go; the action is       *)
(* past the statuses that promise it was not run.                             *)
LEMMA StepEnd ==
    ASSUME ConfirmationInv, ConfirmationTypeOK', NEW e \in Executors,
           Report(e) \/ ExecutorDies(e)
    PROVE  ConfirmationInv'
<1> USE DEF ConfirmationInv
<1> DEFINE i == running[e]
<1>1. /\ executor[e] # "idle" /\ i \in Actions
      /\ confirmation[i] \in {"executing", "outcome_unknown"}
      /\ executor[e] = "succeeded" => runs[i] = 1
  BY DEF Report, ExecutorDies, ClaimsAreMarked
<1>2. /\ executor' = [executor EXCEPT ![e] = "idle"]
      /\ running' = [running EXCEPT ![e] = NoAction]
      /\ \A f \in Executors \ {e} : runsWith'[f] = runsWith[f]
      /\ UNCHANGED <<runs, arguments, consented, grants, card>>
  BY DEF Report, ExecutorDies, ExecutorEnds, actionVars, ConfirmationTypeOK
<1>3. /\ \A j \in Actions \ {i} : ExpiresAtMost(j)
      /\ revision'[i] >= revision[i]
      /\ confirmation'[i] \in {confirmation[i], "completed", "failed", "outcome_unknown"}
      /\ confirmation'[i] = "completed" => runs[i] = 1
      /\ confirmation'[i] = "outcome_unknown" =>
             confirmation[i] \in {"executing", "outcome_unknown"}
  <2>1. CASE Report(e) /\ StatusNow(i) = "executing"
    <3>1. /\ StatusAfter(executor[e]) \in {"completed", "failed", "outcome_unknown"}
          /\ StatusAfter(executor[e]) = "completed" => executor[e] = "succeeded"
      BY DEF StatusAfter
    <3>2. KeychainAfter(i, StatusAfter(executor[e])) \in Keys
      BY <1>1 DEF KeychainAfter, ConfirmationTypeOK, Keys
    <3>3. Put(i, StatusAfter(executor[e]), KeychainAfter(i, StatusAfter(executor[e])))
      BY <2>1 DEF Report
    <3>4. /\ confirmation'[i] = StatusAfter(executor[e])
          /\ revision'[i] = revision[i] + 1
          /\ \A j \in Actions \ {i} : ExpiresAtMost(j)
      BY <1>1, <3>1, <3>2, <3>3, PutMoves DEF Statuses
    <3> QED
      BY <1>1, <3>1, <3>4 DEF ConfirmationTypeOK
  <2>2. CASE ~(Report(e) /\ StatusNow(i) = "executing")
    <3>1. UNCHANGED <<confirmation, revision>>
      BY <2>2 DEF Report, ExecutorDies, actionVars
    <3> QED
      BY <1>1, <3>1 DEF ExpiresAtMost, ConfirmationTypeOK
  <2> QED
    BY <2>1, <2>2
<1>4. ConsentIsKept' /\ RunsAreCounted'
  BY <1>1, <1>2, <1>3 DEF ConsentIsKept, RunsAreCounted, ExpiresAtMost
<1>5. UnstartedIsUntouched'
  BY <1>1, <1>2, <1>3, ConfirmationAssumption
  DEF UnstartedIsUntouched, ExpiresAtMost, ConfirmationTypeOK
<1>6. ExecutorsAreAlone'
  BY <1>2 DEF ExecutorsAreAlone, ConfirmationTypeOK
<1>7. ClaimsAreMarked'
  <2> SUFFICES ASSUME NEW f \in Executors
               PROVE  IF executor'[f] = "idle" THEN running'[f] = NoAction
                      ELSE /\ running'[f] \in Actions
                           /\ confirmation'[running'[f]] \in {"executing", "outcome_unknown"}
                           /\ runsWith'[f] = arguments'[running'[f]]
                           /\ executor'[f] = "claimed" => runs'[running'[f]] = 0
                           /\ executor'[f] = "succeeded" => runs'[running'[f]] = 1
    BY DEF ClaimsAreMarked
  <2>1. CASE f = e
    BY <1>2, <2>1 DEF ConfirmationTypeOK
  <2>2. CASE f # e /\ executor[f] = "idle"
    BY <1>2, <2>2 DEF ClaimsAreMarked, ConfirmationTypeOK
  <2>3. CASE f # e /\ executor[f] # "idle"
    <3>1. /\ running[f] \in Actions \ {i}
          /\ executor'[f] = executor[f] /\ running'[f] = running[f]
      BY <1>1, <1>2, <2>3 DEF ClaimsAreMarked, ExecutorsAreAlone, ConfirmationTypeOK
    <3> QED
      BY <1>2, <1>3, <2>3, <3>1 DEF ClaimsAreMarked, ExpiresAtMost
  <2> QED
    BY <2>1, <2>2, <2>3
<1>8. \A j \in Actions : revision'[j] >= revision[j] /\ arguments'[j] = arguments[j]
  BY <1>2, <1>3 DEF ExpiresAtMost
<1>9. ScreensTellTheRows'
  BY <1>2, <1>8, ScreensStay DEF ScreensTellTheRows, TellsTheRow, ConfirmationTypeOK
<1> QED
  BY <1>4, <1>5, <1>6, <1>7, <1>9

LEMMA StepConfirmation ==
    ConfirmationInv /\ [ConfirmationNext]_confirmationVars => ConfirmationInv'
<1> SUFFICES ASSUME ConfirmationInv, [ConfirmationNext]_confirmationVars
             PROVE  ConfirmationInv'
  OBVIOUS
<1>1. ConfirmationTypeOK'
  BY StepTypes DEF ConfirmationInv
<1>2. CASE \E e \in Executors : ExecutorStep(e) \/ ExecutorDies(e)
  BY <1>1, <1>2, StepClaim, StepRun, StepEnd DEF ExecutorStep
<1>3. CASE ~\E e \in Executors : ExecutorStep(e) \/ ExecutorDies(e)
  BY <1>1, <1>3, StepUser DEF ConfirmationNext
<1> QED
  BY <1>2, <1>3

LEMMA AlwaysConfirmation == ConfirmationSpec => []ConfirmationInv
  BY InitConfirmation, StepConfirmation, PTL DEF ConfirmationSpec

-----------------------------------------------------------------------------
(* Type correctness of confirmed actions. *)
THEOREM ConfirmationTypeCorrect == ConfirmationSpec => []ConfirmationTypeOK
<1>1. ConfirmationInv => ConfirmationTypeOK
  BY DEF ConfirmationInv
<1> QED
  BY <1>1, AlwaysConfirmation, PTL

(* The command runs with the arguments that were on the screen of the Passkey *)
(* ceremony, for any number of tabs, edits, grants and actions: what a screen *)
(* told is the row's as long as the revision is, and a confirmation is of the *)
(* row's revision (confirm_confirmation_action, consume_step_up_grant).       *)
THEOREM ReviewedIsRun == ConfirmationSpec => []RunsWhatWasReviewed
<1>1. ConfirmationInv => RunsWhatWasReviewed
  BY DEF ConfirmationInv, ConsentIsKept, ClaimsAreMarked, RunsWhatWasReviewed
<1> QED
  BY <1>1, AlwaysConfirmation, PTL

(* One confirmation runs its command at most once, for any number of          *)
(* executors, deaths and overruns (execute_authorized_confirmation_action).   *)
THEOREM OneConfirmationOneRun == ConfirmationSpec => []RunsAtMostOnce
<1>1. ConfirmationInv => RunsAtMostOnce
  BY DEF ConfirmationInv, RunsAreCounted, ExecutorsAreAlone, RunsAtMostOnce
<1> QED
  BY <1>1, AlwaysConfirmation, PTL

(* The status never contradicts what happened: what is cancelled or expired   *)
(* was not run and is not being run, what is completed was run once           *)
(* (_expire_stale, cancel_confirmation_action, the last transaction of        *)
(* execute_authorized_confirmation_action).                                   *)
THEOREM StatusIsTrue == ConfirmationSpec => []StatusTellsWhatRan
<1>1. ConfirmationInv => StatusTellsWhatRan
  BY DEF ConfirmationInv, UnstartedIsUntouched, RunsAreCounted, StatusTellsWhatRan
<1> QED
  BY <1>1, AlwaysConfirmation, PTL

=============================================================================
