-------------------------- MODULE ReleaseOrchestration --------------------------
(***************************************************************************)
(* Durable releases (services/workspace_releases.py).  A release session   *)
(* requests a candidate deployment, runs its lifecycle jobs one after the  *)
(* other, accepts the candidate and waits for an explicit activation,      *)
(* which module RouteActivation carries out.                               *)
(*                                                                         *)
(* Every state change of a release is a compare-and-set on its `state`     *)
(* column (_transition).  Drivers (the Runtime Controller's reconciler and *)
(* the API's resume and cancel calls) read the row, act on deployments in  *)
(* transactions of their own and only then set the state, so any number of *)
(* them may work on one release from what they read earlier.  Reading the  *)
(* row and the transaction that follows is one step here, the              *)
(* compare-and-set another.  The reconciler's lease on a release is left   *)
(* out: it is void as soon as it runs out, and no transition checks it.    *)
(***************************************************************************)
EXTENDS RouteActivation, Sequences, SequencesExt

CONSTANTS
    Releases,     \* release sessions of the workspace
    NoRelease,
    Drivers,      \* processes that advance releases
    Reconciler,   \* the one of them that is the Runtime Controller
    ApiResumes,   \* whether the others, API processes, also resume releases
    JobCount      \* lifecycle jobs each release requires

ASSUME ReleaseAssumption ==
    /\ NoRelease \notin Releases
    /\ Reconciler \in Drivers
    /\ ApiResumes \in BOOLEAN
    /\ JobCount \in Nat
    /\ AutoActivated = {}

JobNumbers == 1 .. JobCount
NoJob == 0

VARIABLES
    releaseState,   \* release_sessions.state, "absent" before the INSERT
    candidateOf,    \* candidate_deployment_id
    previousOf,     \* previous_deployment_id
    currentJob,     \* current_job_deployment_id, as the job's number
    completed,      \* completed_jobs: the job whose deployment each entry names
    line,           \* the releases in the order of updated_at
    requestedFor,   \* whose idempotency key a deployment carries
    jobStatus,      \* deployments.status of the jobs, which never take the route
    woken,          \* deployments whose runtime_wake_requested_at is not null
    accepted,       \* history: candidates that passed their acceptance
    keyActive,      \* the requesting credential is neither revoked nor expired
    driver,         \* what each driver read and is about to set
    serving,        \* the release an API call activates or rolls back
    stage           \* how far that call is

releaseVars == <<releaseState, candidateOf, previousOf, currentJob, completed, line>>
environmentVars == <<requestedFor, jobStatus, accepted, keyActive>>
stageVars == <<serving, stage>>
orchestrationVars == <<activationVars, releaseVars, environmentVars, woken, driver,
                       stageVars>>

Terminal == {"verified", "failed", "rolled_back", "cancelled", "blocked"}
Passive == Terminal \union {"awaiting_activation"}
Advancing == {"planned", "candidate_requested", "candidate_ready", "jobs_running",
              "accepted", "activating", "public_verifying"}
ReleaseStates == Advancing \union Passive \union {"absent"}

Resting == [step |-> "idle", release |-> NoRelease, seen |-> "absent",
            done |-> <<>>, job |-> NoJob, next |-> "absent"]

ReleaseTypeOK ==
    /\ ActivationTypeOK
    /\ releaseState \in [Releases -> ReleaseStates]
    /\ candidateOf \in [Releases -> Routes]
    /\ previousOf \in [Releases -> Routes]
    /\ currentJob \in [Releases -> JobNumbers \union {NoJob}]
    /\ \A r \in Releases : completed[r] \in Seq(JobNumbers) /\ Len(completed[r]) <= JobCount
    /\ line \in Seq(Releases)
    /\ requestedFor \in [Deployments -> Releases \union {NoRelease}]
    /\ jobStatus \in [Releases -> [JobNumbers -> Statuses]]
    /\ woken \subseteq Deployments
    /\ accepted \subseteq Deployments
    /\ keyActive \in BOOLEAN
    /\ \A p \in Drivers :
        /\ driver[p].step \in {"idle", "accept", "commit", "block"}
        /\ driver[p].release \in Releases \union {NoRelease}
        /\ driver[p].seen \in ReleaseStates
        /\ driver[p].next \in ReleaseStates
    /\ serving \in [Callers -> Releases \union {NoRelease}]
    /\ stage \in [Callers -> {"none", "preparing", "marking", "routing", "rolling"}]

ReleaseInit ==
    /\ ActivationInit
    /\ releaseState = [r \in Releases |-> "absent"]
    /\ candidateOf = [r \in Releases |-> NoDeployment]
    /\ previousOf = [r \in Releases |-> NoDeployment]
    /\ currentJob = [r \in Releases |-> NoJob]
    /\ completed = [r \in Releases |-> <<>>]
    /\ line = <<>>
    /\ requestedFor = [d \in Deployments |-> NoRelease]
    /\ jobStatus = [r \in Releases |-> [j \in JobNumbers |-> "absent"]]
    /\ woken = {}
    /\ accepted = {}
    /\ keyActive = TRUE
    /\ driver = [p \in Drivers |-> Resting]
    /\ serving = [a \in Callers |-> NoRelease]
    /\ stage = [a \in Callers |-> "none"]

-----------------------------------------------------------------------------
(* The release row. *)

(* The trigger on release_sessions stamps updated_at: r goes to the end. *)
Touch(r) ==
    \/ /\ \A i \in 1 .. Len(line) : line[i] # r
       /\ line' = Append(line, r)
    \/ \E i \in 1 .. Len(line) : line[i] = r /\ line' = Append(RemoveAt(line, i), r)

(* _transition: UPDATE ... WHERE id=:id AND state=:expected_state. *)
Transition(r, expected, next) ==
    IF releaseState[r] = expected
    THEN releaseState' = [releaseState EXCEPT ![r] = next] /\ Touch(r)
    ELSE UNCHANGED <<releaseState, line>>

(* create_workspace_release; a replay of its idempotency key changes nothing. *)
Create(r) ==
    /\ keyActive
    /\ releaseState[r] = "absent"
    /\ releaseState' = [releaseState EXCEPT ![r] = "planned"]
    /\ previousOf' = [previousOf EXCEPT ![r] = active]
    /\ Touch(r)
    /\ UNCHANGED <<activationVars, candidateOf, currentJob, completed,
                   environmentVars, driver, stageVars>>

-----------------------------------------------------------------------------
(* Drivers: resume_workspace_release, one transition at a time. *)

FirstInLine(r) ==
    \E i \in 1 .. Len(line) :
        /\ line[i] = r
        /\ \A k \in 1 .. i - 1 : releaseState[line[k]] \in Passive

(* Driver p reads release r in state `seen`; the reconciler acts with the     *)
(* requesting credential, an API call with one of its own.                   *)
Picks(p, r, seen) ==
    /\ p = Reconciler => keyActive
    /\ driver[p].step = "idle"
    /\ releaseState[r] = seen
    /\ UNCHANGED <<releaseState, candidateOf, previousOf, currentJob, completed>>

(* Mutant: the reconciler's claim does not count as an update. *)
ClaimsQuietly(p, r) ==
    /\ IF p = Reconciler THEN FirstInLine(r) ELSE ApiResumes
    /\ UNCHANGED line

(* The API resumes whichever release it is asked to, the reconciler the one *)
(* updated longest ago, and claiming it is an update.                       *)
Claims(p, r) ==
    IF p = Reconciler THEN FirstInLine(r) /\ Touch(r) ELSE ApiResumes /\ UNCHANGED line

(* What p read of r, and the state it is about to set. *)
Intends(p, step, r, job, next) ==
    driver' = [driver EXCEPT ![p] =
        [step |-> step, release |-> r, seen |-> releaseState[r],
         done |-> completed[r], job |-> job, next |-> next]]

Yields(p) == driver' = [driver EXCEPT ![p] = Resting]

(* The deployment with the key release:<r>:candidate exists already. *)
CandidateKeyUsed(r) == \E d \in Deployments : requestedFor[d] = r

(* Mutant: request_workspace_deployment does not look for the key. *)
CandidateRowFresh(r) == TRUE

CandidateRow(r) == ~CandidateKeyUsed(r)

(* _request_candidate. *)
RequestCandidate(p, r) ==
    /\ Picks(p, r, "planned")
    /\ Claims(p, r)
    /\ IF CandidateRow(r)
       THEN \E d \in Deployments :
                /\ RequestDeployment(d)
                /\ requestedFor' = [requestedFor EXCEPT ![d] = r]
       ELSE UNCHANGED <<rowVars, requestedFor>>
    /\ Intends(p, "commit", r, NoJob, "candidate_requested")
    /\ UNCHANGED <<callVars, jobStatus, accepted, keyActive, stageVars>>

(* What an observed status makes of the release; "absent" when it is too soon. *)
Verdict(observed, good) ==
    CASE observed = "ready" -> good
      [] observed \in {"failed", "cancelled"} -> "failed"
      [] OTHER -> "absent"

(* _observe_candidate. *)
ObserveCandidate(p, r) ==
    /\ Picks(p, r, "candidate_requested")
    /\ Claims(p, r)
    /\ LET next == Verdict(status[candidateOf[r]], "candidate_ready") IN
        IF next = "absent" THEN Yields(p) ELSE Intends(p, "commit", r, NoJob, next)
    /\ UNCHANGED <<activationVars, environmentVars, stageVars>>

(* Mutant: the last job is taken for optional. *)
JobsLeftButOne(r) == Len(completed[r]) + 1 < JobCount

JobsLeft(r) == Len(completed[r]) < JobCount

(* _candidate_ready: the next job, under the key release:<r>:job:<name>. *)
RequestJob(p, r) ==
    /\ Picks(p, r, "candidate_ready")
    /\ Claims(p, r)
    /\ JobsLeft(r)
    /\ LET job == Len(completed[r]) + 1 IN
        /\ IF jobStatus[r][job] = "absent"
           THEN /\ jobStatus' = [jobStatus EXCEPT ![r][job] = "queued"]
                /\ runtimeStatus' = "building"
           ELSE UNCHANGED <<jobStatus, runtimeStatus>>
        /\ Intends(p, "commit", r, job, "jobs_running")
    /\ UNCHANGED <<status, leaseVars, runtime, routeVars, everHealthy, repairs, callVars,
                   requestedFor, accepted, keyActive, stageVars>>

(* _candidate_ready once the jobs are done, with                             *)
(* _prepare_candidate_runtime_for_acceptance: a candidate must be woken once *)
(* before it is accepted, and the driver never waits for that.               *)
PrepareAcceptance(p, r) ==
    /\ Picks(p, r, "candidate_ready")
    /\ Claims(p, r)
    /\ ~JobsLeft(r)
    /\ LET d == candidateOf[r] IN
        \/ /\ d \in Static \/ (status[d] = "ready" /\ runtime[d] = "running" /\ d \in woken)
           /\ Intends(p, "accept", r, NoJob, "absent")
           /\ UNCHANGED runtime
        \/ /\ d \notin Static
           /\ status[d] # "ready" \/ runtime[d] = "error"
           /\ Intends(p, "commit", r, NoJob, "failed")
           /\ UNCHANGED runtime
        \/ /\ d \notin Static
           /\ status[d] = "ready"
           /\ runtime[d] \in {"running", "suspended", "wake_requested"}
           /\ ~(runtime[d] = "running" /\ d \in woken)
           /\ runtime' = [runtime EXCEPT ![d] = "wake_requested"]
           /\ Yields(p)
    /\ UNCHANGED <<status, leaseVars, routeVars, runtimeStatus, everHealthy, repairs,
                   callVars, environmentVars, stageVars>>

(* accept_workspace_deployment: HTTP checks against the candidate. *)
Accept(p) ==
    /\ driver[p].step = "accept"
    /\ LET d == candidateOf[driver[p].release] IN
        /\ status[d] = "ready"
        /\ \/ /\ d \in Static \/ runtime[d] = "running"
              /\ accepted' = accepted \union {d}
              /\ driver' = [driver EXCEPT ![p].step = "commit", ![p].next = "accepted"]
           \/ /\ UNCHANGED accepted
              /\ driver' = [driver EXCEPT ![p].step = "commit", ![p].next = "failed"]
    /\ UNCHANGED <<activationVars, releaseVars, requestedFor, jobStatus, keyActive,
                   stageVars>>

(* _observe_job; with every job recorded, jobs[len(completed)] raises. *)
ObserveJob(p, r) ==
    /\ Picks(p, r, "jobs_running")
    /\ Claims(p, r)
    /\ LET next == Verdict(jobStatus[r][currentJob[r]], "candidate_ready") IN
        IF next = "absent" \/ (next = "candidate_ready" /\ ~JobsLeft(r))
        THEN Yields(p)
        ELSE Intends(p, "commit", r, currentJob[r], next)
    /\ UNCHANGED <<activationVars, environmentVars, stageVars>>

(* An accepted release asks for its activation; one that is being activated *)
(* is left to the call that activates it.                                   *)
AskActivation(p, r) ==
    /\ Picks(p, r, "accepted")
    /\ Claims(p, r)
    /\ Intends(p, "commit", r, NoJob, "awaiting_activation")
    /\ UNCHANGED <<activationVars, environmentVars, stageVars>>

LeaveAlone(p, r) ==
    /\ \E seen \in {"activating", "public_verifying"} : Picks(p, r, seen)
    /\ Claims(p, r)
    /\ UNCHANGED <<activationVars, environmentVars, driver, stageVars>>

(* cancel_workspace_release by an API process: queued or building deployments *)
(* of the release are cancelled first.                                        *)
CancelRelease(p, r) ==
    /\ p # Reconciler
    /\ \E seen \in (Advancing \union Passive) \ Terminal : Picks(p, r, seen)
    /\ UNCHANGED line
    /\ jobStatus' = [jobStatus EXCEPT ![r] = [j \in JobNumbers |->
           IF j = currentJob[r] /\ @[j] = "queued" THEN "cancelled" ELSE @[j]]]
    /\ status' = [d \in Deployments |->
           IF d = candidateOf[r] /\ status[d] = "queued" THEN "cancelled" ELSE status[d]]
    /\ Intends(p, "commit", r, NoJob, "cancelled")
    /\ UNCHANGED <<leaseVars, runtime, routeVars, runtimeStatus, everHealthy, repairs,
                   callVars, requestedFor, accepted, keyActive, stageVars>>

(* Mutant: the UPDATE names the row alone. *)
StateStillSeenNever(p) == releaseState[driver[p].release] # "absent"

StateStillSeen(p) == releaseState[driver[p].release] = driver[p].seen

(* The compare-and-set of what the driver read. *)
Commit(p) ==
    /\ driver[p].step = "commit"
    /\ LET it == driver[p]
           r == driver[p].release
           jobEnds == it.seen = "jobs_running" /\ it.next = "candidate_ready" IN
        IF StateStillSeen(p)
        THEN /\ releaseState' = [releaseState EXCEPT ![r] = it.next]
             /\ Touch(r)
             /\ candidateOf' = IF it.next # "candidate_requested" THEN candidateOf
                  ELSE [candidateOf EXCEPT ![r] =
                            CHOOSE d \in Deployments : requestedFor[d] = r]
             /\ completed' = IF jobEnds
                  THEN [completed EXCEPT ![r] = Append(it.done, it.job)] ELSE completed
             /\ currentJob' = CASE it.next = "jobs_running" -> [currentJob EXCEPT ![r] = it.job]
                                [] jobEnds -> [currentJob EXCEPT ![r] = NoJob]
                                [] OTHER -> currentJob
        ELSE UNCHANGED <<releaseState, line, candidateOf, completed, currentJob>>
    /\ Yields(p)
    /\ UNCHANGED <<activationVars, previousOf, environmentVars, stageVars>>

(* The driver dies, or a call it makes raises, with its transactions done. *)
DriverDies(p) ==
    /\ driver[p].step # "idle"
    /\ Yields(p)
    /\ UNCHANGED <<activationVars, releaseVars, environmentVars, stageVars>>

(* reconcile_pending_releases of a release whose credential is gone: it is    *)
(* claimed while it is pending, and blocked in the state it is in by then.    *)
ClaimOrphaned(r) ==
    /\ ~keyActive
    /\ driver[Reconciler].step = "idle"
    /\ releaseState[r] \in Advancing
    /\ FirstInLine(r)
    /\ Touch(r)
    /\ Intends(Reconciler, "block", r, NoJob, "blocked")
    /\ UNCHANGED <<activationVars, releaseState, candidateOf, previousOf, currentJob,
                   completed, environmentVars, stageVars>>

Block ==
    /\ driver[Reconciler].step = "block"
    /\ LET r == driver[Reconciler].release IN Transition(r, releaseState[r], "blocked")
    /\ Yields(Reconciler)
    /\ UNCHANGED <<activationVars, candidateOf, previousOf, currentJob, completed,
                   environmentVars, stageVars>>

DriverStep(p) ==
    \/ \E r \in Releases :
        \/ RequestCandidate(p, r)
        \/ ObserveCandidate(p, r)
        \/ RequestJob(p, r)
        \/ PrepareAcceptance(p, r)
        \/ ObserveJob(p, r)
        \/ AskActivation(p, r)
        \/ LeaveAlone(p, r)
        \/ p = Reconciler /\ ClaimOrphaned(r)
    \/ p = Reconciler /\ Block
    \/ Accept(p)
    \/ Commit(p)

-----------------------------------------------------------------------------
(* API calls that move the route for a release. *)

Serve(a, r, next) ==
    /\ serving' = [serving EXCEPT ![a] = r]
    /\ stage' = [stage EXCEPT ![a] = next]

Leave(a) == Serve(a, NoRelease, "none")

(* activate_workspace_release up to the wake of its candidate. *)
StartActivation(a, r) ==
    /\ stage[a] = "none"
    /\ releaseState[r] = "awaiting_activation"
    /\ Prepare(a, candidateOf[r])
    /\ Serve(a, r, "preparing")
    /\ UNCHANGED <<releaseVars, environmentVars, driver>>

(* rollback_workspace_release, to the route recorded when r was created. *)
StartRollback(a, r) ==
    /\ stage[a] = "none"
    /\ releaseState[r] \in {"verified", "failed", "rolled_back"}
    /\ previousOf[r] # NoDeployment
    /\ Prepare(a, previousOf[r])
    /\ Serve(a, r, "rolling")
    /\ UNCHANGED <<releaseVars, environmentVars, driver>>

(* Mutant: the call goes on whatever became of the release meanwhile. *)
ClaimsStateAlways(a, expected) == expected \in Advancing \union Passive

ClaimsState(a, expected) == releaseState[serving[a]] = expected

(* The two transitions before the route moves; losing either ends the call. *)
Mark(a, at, expected, next, then) ==
    /\ stage[a] = at
    /\ call[a] = "prepared"
    /\ IF ClaimsState(a, expected)
       THEN /\ releaseState' = [releaseState EXCEPT ![serving[a]] = next]
            /\ Touch(serving[a])
            /\ Serve(a, serving[a], then)
            /\ UNCHANGED activationVars
       ELSE /\ UNCHANGED <<releaseState, line, rowVars, candidate, former>>
            /\ Return(a, "none")
            /\ Leave(a)
    /\ UNCHANGED <<candidateOf, previousOf, currentJob, completed, environmentVars, driver>>

MarkActivating(a) == Mark(a, "preparing", "awaiting_activation", "activating", "marking")
MarkVerifying(a) == Mark(a, "marking", "activating", "public_verifying", "routing")

(* The steps of RouteActivation. *)
RouteStep(a) ==
    /\ \/ SeesRunning(a) \/ WakeFails(a)
       \/ /\ stage[a] \in {"routing", "rolling"}
          /\ \/ SwitchRoute(a) \/ SwitchRefused(a)
             \/ ProbeAnswers(a) \/ ConfirmRoute(a) \/ RestoreFormer(a)
    /\ UNCHANGED <<releaseVars, environmentVars, driver, stageVars>>

(* Mutant: a superseded activation counts as verified. *)
SupersededIsVerified(result) ==
    CASE result = "unchanged" -> "awaiting_activation"
      [] result = "restored" -> "rolled_back"
      [] result \in {"verified", "superseded"} -> "verified"
      [] OTHER -> "failed"

OutcomeState(result) ==
    CASE result = "unchanged" -> "awaiting_activation"
      [] result = "restored" -> "rolled_back"
      [] result = "verified" -> "verified"
      [] OTHER -> "failed"

(* The call reports: a preparation that failed and an activation by          *)
(* compare-and-set, a rollback that raised not at all, and a rollback that   *)
(* was verified unconditionally.                                             *)
Report(a) ==
    /\ stage[a] # "none"
    /\ call[a] = "idle"
    /\ CASE stage[a] = "preparing" ->
              Transition(serving[a], "awaiting_activation", "awaiting_activation")
         [] stage[a] = "routing" ->
              Transition(serving[a], "public_verifying", OutcomeState(outcome[a]))
         [] stage[a] = "rolling" /\ outcome[a] = "verified" ->
              Transition(serving[a], releaseState[serving[a]], "rolled_back")
         [] OTHER -> UNCHANGED <<releaseState, line>>
    /\ Leave(a)
    /\ UNCHANGED <<activationVars, candidateOf, previousOf, currentJob, completed,
                   environmentVars, driver>>

(* The API process dies and its call with it. *)
ServerDies(a) ==
    /\ stage[a] # "none"
    /\ IF call[a] = "idle" THEN UNCHANGED activationVars ELSE CallDies(a)
    /\ Leave(a)
    /\ UNCHANGED <<releaseVars, environmentVars, driver>>

ServerStep(a) ==
    \/ MarkActivating(a)
    \/ MarkVerifying(a)
    \/ RouteStep(a)
    \/ Report(a)

-----------------------------------------------------------------------------
(* The surroundings of the releases. *)

(* A lifecycle job runs once; how its build goes is the queue's affair. *)
JobEnds(r, j) ==
    /\ jobStatus[r][j] = "queued"
    /\ \E end \in {"ready", "failed"} :
        /\ jobStatus' = [jobStatus EXCEPT ![r][j] = end]
        /\ runtimeStatus' = StatusOfRoute(active, IF end = "ready" THEN "provisioned" ELSE "failed")
    /\ UNCHANGED <<status, leaseVars, runtime, routeVars, everHealthy, repairs, callVars,
                   releaseVars, requestedFor, accepted, keyActive, driver, stageVars>>

RevokeKey ==
    /\ keyActive
    /\ keyActive' = FALSE
    /\ UNCHANGED <<activationVars, releaseVars, requestedFor, jobStatus, accepted, driver,
                   stageVars>>

DeploymentsMove ==
    /\ \E d \in Deployments :
        CancelDeployment(d) \/ RepairDeployment(d) \/ LifecycleStep(d) \/ BuildEnds(d)
    /\ UNCHANGED <<callVars, releaseVars, environmentVars, driver, stageVars>>

(* runtime_wake_requested_at: set with every wake, cleared by a build. *)
WakesAreRecorded ==
    woken' = {d \in Deployments :
        \/ runtime'[d] = "wake_requested"
        \/ d \in woken /\ ~(status[d] = "queued" /\ status'[d] = "ready")}

ReleaseNext ==
    /\ \/ \E p \in Drivers : DriverStep(p) \/ DriverDies(p)
       \/ \E r \in Releases : Create(r) \/ \E p \in Drivers : CancelRelease(p, r)
       \/ \E a \in Callers :
            \/ \E r \in Releases : StartActivation(a, r) \/ StartRollback(a, r)
            \/ ServerStep(a) \/ ServerDies(a)
       \/ \E r \in Releases, j \in JobNumbers : JobEnds(r, j)
       \/ RevokeKey
       \/ DeploymentsMove
    /\ WakesAreRecorded

(* run_forever calls the reconciler for ever, not every one of its calls dies *)
(* before it commits, and every wait of an API call has a timeout.            *)
ReleaseFairness ==
    /\ WF_orchestrationVars(DriverStep(Reconciler) /\ WakesAreRecorded)
    /\ SF_orchestrationVars((Commit(Reconciler) \/ Block) /\ WakesAreRecorded)
    /\ \A a \in Callers : WF_orchestrationVars(ServerStep(a) /\ WakesAreRecorded)

ReleaseSafety == ReleaseInit /\ [][ReleaseNext]_orchestrationVars

ReleaseSpec == ReleaseSafety /\ ReleaseFairness

-----------------------------------------------------------------------------
(* Properties. *)

(* A release that ended stays as it ended, whatever drivers, cancellations   *)
(* and activations that read it earlier do; only an explicit rollback may    *)
(* still follow, and only on a release that was verified or had failed.  An  *)
(* exception is a release whose credential is gone: the reconciler, which    *)
(* claimed it while it was pending, blocks it even if it has just ended, and *)
(* a rollback already on its way then still ends as rolled back.             *)
EndedReleasesStay ==
    [][\A r \in Releases :
           releaseState[r] \in Terminal /\ releaseState'[r] # releaseState[r]
               => \/ /\ releaseState'[r] = "rolled_back"
                     /\ releaseState[r] \in {"verified", "failed"} \/ ~keyActive
                  \/ releaseState'[r] = "blocked" /\ ~keyActive]_orchestrationVars

(* A release reaches its activation only with a candidate that passed its    *)
(* acceptance and with every required job run successfully, each once.       *)
ActivationIsEarned ==
    \A r \in Releases :
        releaseState[r] \in {"awaiting_activation", "activating", "public_verifying",
                             "verified"}
            => /\ candidateOf[r] \in accepted
               /\ \A j \in JobNumbers : jobStatus[r][j] = "ready"

(* However often the request is repeated after a crash or by concurrent      *)
(* drivers, a release has one candidate deployment.                          *)
OneCandidatePerRelease ==
    \A r \in Releases : Cardinality({d \in Deployments : requestedFor[d] = r}) <= 1

(* The route is moved for a release by one call at a time, and a release is  *)
(* verified only by a call that confirmed the route of its candidate.        *)
OneActivationAtATime ==
    \A a, b \in Callers :
        stage[a] = "routing" /\ stage[b] = "routing" /\ serving[a] = serving[b] => a = b

(* A release becomes verified only through a call whose last look at the     *)
(* workspace row, under its lock, found the route on the release's candidate. *)
VerifiedWasConfirmed ==
    [][\A r \in Releases :
           releaseState[r] # "verified" /\ releaseState'[r] = "verified"
               => \E a \in Callers :
                      /\ serving[a] = r /\ candidate[a] = candidateOf[r]
                      /\ outcome[a] = "verified"]_orchestrationVars

(* The reconciler takes one release per pass, yet none waits for ever behind *)
(* others that it cannot advance: an accepted release gets to its activation. *)
(* The releases are interchangeable, so it is stated of one of them.          *)
AcceptedReleasesAdvance ==
    LET r == CHOOSE anyRelease \in Releases : TRUE
    IN releaseState[r] = "accepted" ~> releaseState[r] \in Passive

(* A release whose activation was interrupted is taken up again. *)
InterruptedActivationsResume ==
    \A r \in Releases :
        releaseState[r] \in {"activating", "public_verifying"} ~> releaseState[r] \in Passive

=============================================================================
