-------------------------- MODULE ConfirmationActions --------------------------
(***************************************************************************)
(* The Passkey-gated execution of a proposed command                       *)
(* (services/confirmation_actions.py, services/passkey_grants.py): a run   *)
(* proposes, the user reviews, edits or cancels on one of several browser  *)
(* tabs, a Passkey ceremony yields a single-use grant for one revision,    *)
(* confirming exchanges it for a keychain, and an executor spends that on  *)
(* the command itself, which runs outside every transaction.               *)
(*                                                                         *)
(* Each request is one transaction that locks the action's row and first   *)
(* closes what has run out (_expire_stale).                                *)
(***************************************************************************)
EXTENDS Naturals, FiniteSets

CONSTANTS
    Actions,          \* rows of secretariat.confirmation_actions
    NoAction,
    Arguments,        \* argument lists of the command
    SecretActions,    \* actions whose command issues a credential
    Tabs,             \* browser tabs of the requester
    Executors,        \* requests that execute an authorised action
    MaxEdits,         \* bound: edits of all actions together
    MaxGrants,        \* bound: grants outstanding at a time
    MaxExecutorDeaths \* bound: executors that die

ASSUME ConfirmationAssumption ==
    /\ NoAction \notin Actions
    /\ Arguments # {}
    /\ SecretActions \subseteq Actions
    /\ MaxEdits \in Nat /\ MaxGrants \in Nat /\ MaxExecutorDeaths \in Nat

VARIABLES
    confirmation,  \* status of each action, "none" before the INSERT
    revision,
    arguments,     \* decrypted arguments_ciphertext
    keychain,      \* execution_keychains.status, "none" before the confirmation
    scope,         \* arguments the keychain's digests stand for
    lapsed,        \* actions whose expires_at has passed
    overrun,       \* actions executing for more than 30 minutes
    delivery,      \* confirmation_credential_deliveries.status
    grants,        \* unused step-up grants: action, revision, what was on the screen
    card,          \* what each tab shows
    executor,      \* where each executing request is
    running,       \* the action it runs
    runsWith,      \* the arguments it read
    runs,          \* history: how often the command of each action was run
    consented,     \* history: the arguments on the screen of the granted ceremony
    edits,
    executorDeaths

actionVars == <<confirmation, revision, arguments, keychain, scope, lapsed, overrun,
                delivery>>
executorVars == <<executor, running, runsWith, runs>>
confirmationVars == <<actionVars, grants, card, executorVars, consented, edits,
                      executorDeaths>>

Statuses == {"none", "pending", "authorized", "executing", "completed", "cancelled",
             "failed", "expired", "outcome_unknown"}
Cards == [action : Actions, revision : Nat, arguments : Arguments]

ConfirmationTypeOK ==
    /\ confirmation \in [Actions -> Statuses]
    /\ revision \in [Actions -> Nat]
    /\ arguments \in [Actions -> Arguments]
    /\ keychain \in [Actions ->
           {"none", "authorized", "claimed", "consumed", "expired", "outcome_unknown"}]
    /\ scope \in [Actions -> Arguments]
    /\ lapsed \union overrun \subseteq Actions
    /\ delivery \in [Actions -> {"none", "pending", "acked", "expired"}]
    /\ grants \subseteq Cards
    /\ card \in [Tabs -> Cards \union {NoAction}]
    /\ executor \in [Executors -> {"idle", "claimed", "succeeded", "failed", "raised"}]
    /\ running \in [Executors -> Actions \union {NoAction}]
    /\ \A e \in Executors : (executor[e] = "idle") = (running[e] = NoAction)
    /\ runsWith \in [Executors -> Arguments]
    /\ runs \in [Actions -> Nat]
    /\ consented \in [Actions -> Arguments \union {NoAction}]
    /\ edits \in 0 .. MaxEdits
    /\ executorDeaths \in 0 .. MaxExecutorDeaths

SomeArguments == CHOOSE a \in Arguments : TRUE

ConfirmationInit ==
    /\ confirmation = [i \in Actions |-> "none"]
    /\ revision = [i \in Actions |-> 0]
    /\ arguments = [i \in Actions |-> SomeArguments]
    /\ keychain = [i \in Actions |-> "none"]
    /\ scope = [i \in Actions |-> SomeArguments]
    /\ lapsed = {} /\ overrun = {}
    /\ delivery = [i \in Actions |-> "none"]
    /\ grants = {}
    /\ card = [t \in Tabs |-> NoAction]
    /\ executor = [e \in Executors |-> "idle"]
    /\ running = [e \in Executors |-> NoAction]
    /\ runsWith = [e \in Executors |-> SomeArguments]
    /\ runs = [i \in Actions |-> 0]
    /\ consented = [i \in Actions |-> NoAction]
    /\ edits = 0
    /\ executorDeaths = 0

-----------------------------------------------------------------------------
(* _expire_stale. *)

KeychainNow(i) ==
    IF keychain[i] = "authorized" /\ i \in lapsed THEN "expired" ELSE keychain[i]

(* Mutant: what has lapsed expires, whatever it is doing. *)
LapsesAnyhow(i) == i \in lapsed /\ confirmation[i] \in {"pending", "authorized", "executing"}

Lapses(i) ==
    /\ i \in lapsed
    /\ \/ confirmation[i] = "pending"
       \/ confirmation[i] = "authorized" /\ KeychainNow(i) = "expired"

Overruns(i) == confirmation[i] = "executing" /\ i \in overrun

StatusNow(i) ==
    IF Lapses(i) THEN "expired"
    ELSE IF Overruns(i) THEN "outcome_unknown" ELSE confirmation[i]

RevisionNow(i) == IF StatusNow(i) # confirmation[i] THEN revision[i] + 1 ELSE revision[i]

(* Deliveries live 15 minutes, so "lapsed" stands for their expiry as well *)
(* once the action is over.                                                *)
DeliveryLapses(i) == delivery[i] = "pending" /\ i \in lapsed

DeliveryNow(i) == IF DeliveryLapses(i) THEN "expired" ELSE delivery[i]

(* The row of i as a transaction leaves it that puts it in "status", all   *)
(* others as _expire_stale does.                                           *)
Put(i, status, key) ==
    /\ confirmation' = [j \in Actions |-> IF j = i THEN status ELSE StatusNow(j)]
    /\ revision' = [j \in Actions |-> IF j = i THEN revision[i] + 1 ELSE RevisionNow(j)]
    /\ keychain' = [j \in Actions |-> IF j = i THEN key ELSE KeychainNow(j)]

CloseDeliveries == delivery' = [i \in Actions |-> DeliveryNow(i)]

ExpireRows ==
    /\ confirmation' = [i \in Actions |-> StatusNow(i)]
    /\ revision' = [i \in Actions |-> RevisionNow(i)]
    /\ keychain' = [i \in Actions |-> KeychainNow(i)]

(* list_confirmation_actions, and every other read of the requester's. *)
ExpireStale ==
    /\ ExpireRows
    /\ CloseDeliveries
    /\ UNCHANGED <<arguments, scope, lapsed, overrun, grants, card, executorVars, consented,
                   edits, executorDeaths>>

-----------------------------------------------------------------------------
(* propose_confirmation_action.  A run that repeats its proposal is given  *)
(* the action it has and changes nothing.                                  *)
Propose(i, a) ==
    /\ confirmation[i] = "none"
    /\ Put(i, "pending", "none")
    /\ arguments' = [arguments EXCEPT ![i] = a]
    /\ CloseDeliveries
    /\ UNCHANGED <<scope, lapsed, overrun, grants, card, executorVars, consented, edits,
                   executorDeaths>>

(* A tab shows an action as it reads it. *)
Review(t, i) ==
    /\ StatusNow(i) = "pending"
    /\ card' = [card EXCEPT
           ![t] = [action |-> i, revision |-> revision[i], arguments |-> arguments[i]]]
    /\ ExpireRows
    /\ CloseDeliveries
    /\ UNCHANGED <<arguments, scope, lapsed, overrun, grants, executorVars, consented, edits,
                   executorDeaths>>

(* The tab's card is of the revision the action still has. *)
CardIsCurrent(t) ==
    /\ card[t] # NoAction
    /\ StatusNow(card[t].action) = "pending"
    /\ card[t].revision = revision[card[t].action]

(* edit_confirmation_action; the tab shows the answer. *)
Edit(t, a) ==
    /\ CardIsCurrent(t)
    /\ edits < MaxEdits
    /\ edits' = edits + 1
    /\ LET i == card[t].action IN
        /\ Put(i, "pending", keychain[i])
        /\ arguments' = [arguments EXCEPT ![i] = a]
        /\ card' = [card EXCEPT
               ![t] = [action |-> i, revision |-> revision[i] + 1, arguments |-> a]]
    /\ CloseDeliveries
    /\ UNCHANGED <<scope, lapsed, overrun, grants, executorVars, consented, executorDeaths>>

(* cancel_confirmation_action. *)
Cancel(t) ==
    /\ CardIsCurrent(t)
    /\ Put(card[t].action, "cancelled", keychain[card[t].action])
    /\ CloseDeliveries
    /\ UNCHANGED <<arguments, scope, lapsed, overrun, grants, card, executorVars, consented,
                   edits, executorDeaths>>

(* issue_step_up_grant, at the end of a ceremony for what the tab shows. *)
IssueGrant(t) ==
    /\ card[t] # NoAction
    /\ card[t] \notin grants
    /\ Cardinality(grants) < MaxGrants
    /\ grants' = grants \union {card[t]}
    /\ UNCHANGED <<actionVars, card, executorVars, consented, edits, executorDeaths>>

GrantRunsOut(g) ==
    /\ grants' = grants \ {g}
    /\ UNCHANGED <<actionVars, card, executorVars, consented, edits, executorDeaths>>

(* Mutant: a grant holds for the action, whatever its revision. *)
GrantOfAction(g, i) == g.action = i

(* consume_step_up_grant: purpose and resource agree. *)
GrantCovers(g, i) == g.action = i /\ g.revision = revision[i]

(* confirm_confirmation_action, from a card that is current. *)
Confirm(t, g) ==
    /\ CardIsCurrent(t)
    /\ g \in grants
    /\ LET i == card[t].action IN
        /\ GrantCovers(g, i)
        /\ Put(i, "authorized", "authorized")
        /\ scope' = [scope EXCEPT ![i] = arguments[i]]
        /\ consented' = [consented EXCEPT ![i] = g.arguments]
    /\ grants' = grants \ {g}
    /\ CloseDeliveries
    /\ UNCHANGED <<arguments, lapsed, overrun, card, executorVars, edits, executorDeaths>>

-----------------------------------------------------------------------------
(* execute_authorized_confirmation_action. *)

(* Mutant: an execution under way may be picked up again. *)
UsableOrClaimed(i) == StatusNow(i) \in {"authorized", "executing"}

Usable(i) ==
    /\ StatusNow(i) = "authorized"
    /\ KeychainNow(i) = "authorized"
    /\ scope[i] = arguments[i]

(* Its first transaction ... *)
Claim(e, i) ==
    /\ executor[e] = "idle"
    /\ Usable(i)
    /\ Put(i, "executing", "claimed")
    /\ overrun' = overrun \ {i}
    /\ executor' = [executor EXCEPT ![e] = "claimed"]
    /\ running' = [running EXCEPT ![e] = i]
    /\ runsWith' = [runsWith EXCEPT ![e] = arguments[i]]
    /\ CloseDeliveries
    /\ UNCHANGED <<arguments, scope, lapsed, grants, card, runs, consented, edits,
                   executorDeaths>>

(* ... the command, which may have changed the business data even when it *)
(* reports a failure or raises ...                                         *)
RunCommand(e) ==
    /\ executor[e] = "claimed"
    /\ \E outcome \in {"succeeded", "failed", "raised"}, done \in BOOLEAN :
        /\ outcome = "succeeded" => done
        /\ executor' = [executor EXCEPT ![e] = outcome]
        /\ runs' = IF done THEN [runs EXCEPT ![running[e]] = @ + 1] ELSE runs
    /\ UNCHANGED <<actionVars, grants, card, running, runsWith, consented, edits,
                   executorDeaths>>

ExecutorEnds(e) ==
    /\ executor' = [executor EXCEPT ![e] = "idle"]
    /\ running' = [running EXCEPT ![e] = NoAction]
    /\ runsWith' = [runsWith EXCEPT ![e] = SomeArguments]
    /\ UNCHANGED runs

StatusAfter(outcome) ==
    IF outcome = "succeeded" THEN "completed"
    ELSE IF outcome = "failed" THEN "failed" ELSE "outcome_unknown"

KeychainAfter(i, status) ==
    IF keychain[i] # "claimed" THEN keychain[i]
    ELSE IF status = "outcome_unknown" THEN status ELSE "consumed"

(* A result that reports a failure may hold credentials too. *)
Issues(e) ==
    IF running[e] \notin SecretActions \/ executor[e] = "raised" THEN {FALSE}
    ELSE IF executor[e] = "succeeded" THEN {TRUE} ELSE BOOLEAN

(* ... and its last transaction, if the action is still executing.  A      *)
(* result that comes later is lost, the credentials in it with it.         *)
Report(e) ==
    /\ executor[e] \in {"succeeded", "failed", "raised"}
    /\ LET i == running[e]
           status == StatusAfter(executor[e])
       IN IF StatusNow(i) = "executing"
          THEN /\ Put(i, status, KeychainAfter(i, status))
               /\ lapsed' = lapsed \ {i}
               /\ \E issued \in Issues(e) :
                      delivery' = [j \in Actions |->
                          IF j = i /\ issued THEN "pending" ELSE DeliveryNow(j)]
          ELSE UNCHANGED <<confirmation, revision, keychain, lapsed, delivery>>
    /\ ExecutorEnds(e)
    /\ UNCHANGED <<arguments, scope, overrun, grants, card, consented, edits, executorDeaths>>

ExecutorDies(e) ==
    /\ executor[e] # "idle"
    /\ executorDeaths < MaxExecutorDeaths
    /\ executorDeaths' = executorDeaths + 1
    /\ ExecutorEnds(e)
    /\ UNCHANGED <<actionVars, grants, card, consented, edits>>

(* fetch_confirmation_credentials leaves the ciphertext until the browser  *)
(* acknowledges it (acknowledge_confirmation_credentials).                 *)
Acknowledge(i) ==
    /\ delivery[i] = "pending" /\ ~DeliveryLapses(i)
    /\ delivery' = [j \in Actions |-> IF j = i THEN "acked" ELSE DeliveryNow(j)]
    /\ ExpireRows
    /\ UNCHANGED <<arguments, scope, lapsed, overrun, grants, card, executorVars, consented,
                   edits, executorDeaths>>

Lapse(i) ==
    /\ i \notin lapsed
    /\ confirmation[i] \in {"pending", "authorized", "executing"} \/ delivery[i] = "pending"
    /\ lapsed' = lapsed \union {i}
    /\ UNCHANGED <<confirmation, revision, arguments, keychain, scope, overrun, delivery,
                   grants, card, executorVars, consented, edits, executorDeaths>>

Overrun(i) ==
    /\ i \notin overrun
    /\ confirmation[i] = "executing"
    /\ overrun' = overrun \union {i}
    /\ UNCHANGED <<confirmation, revision, arguments, keychain, scope, lapsed, delivery,
                   grants, card, executorVars, consented, edits, executorDeaths>>

-----------------------------------------------------------------------------
ExecutorStep(e) == (\E i \in Actions : Claim(e, i)) \/ RunCommand(e) \/ Report(e)

ConfirmationNext ==
    \/ \E i \in Actions :
        \/ \E a \in Arguments : Propose(i, a)
        \/ Acknowledge(i)
        \/ Lapse(i)
        \/ Overrun(i)
    \/ \E t \in Tabs :
        \/ \E i \in Actions : Review(t, i)
        \/ \E a \in Arguments : Edit(t, a)
        \/ Cancel(t)
        \/ IssueGrant(t)
        \/ \E g \in grants : Confirm(t, g)
    \/ \E g \in grants : GrantRunsOut(g)
    \/ \E e \in Executors : ExecutorStep(e) \/ ExecutorDies(e)
    \/ ExpireStale

ConfirmationSpec == ConfirmationInit /\ [][ConfirmationNext]_confirmationVars

-----------------------------------------------------------------------------
(* Properties of confirmed actions. *)

(* A command runs with the arguments that were on the screen of the Passkey *)
(* ceremony that authorised it, whatever other tabs edit and confirm        *)
(* meanwhile and however many actions wait.                                 *)
RunsWhatWasReviewed ==
    \A e \in Executors : executor[e] # "idle" => runsWith[e] = consented[running[e]]

(* One confirmation runs its command at most once, whatever executors are   *)
(* retried, race or die.                                                    *)
RunsAtMostOnce ==
    /\ \A i \in Actions : runs[i] <= 1
    /\ \A e, f \in Executors :
           executor[e] # "idle" /\ executor[f] # "idle" /\ running[e] = running[f] => e = f

(* The status a user reads never contradicts what happened: what is         *)
(* cancelled or expired was not run and is not being run, what is completed *)
(* was.                                                                     *)
StatusTellsWhatRan ==
    \A i \in Actions :
        /\ confirmation[i] \in {"pending", "authorized", "cancelled", "expired"} =>
               runs[i] = 0 /\ \A e \in Executors : running[e] # i
        /\ confirmation[i] = "completed" => runs[i] = 1

=============================================================================
