----------------------------- MODULE ReleaseProofs -----------------------------
(***************************************************************************)
(* Theorems about durable releases, for every number of releases, drivers, *)
(* callers, deployments and lifecycle jobs: what the compare-and-set on a  *)
(* release's state is enough for, although everybody acts on what it read  *)
(* earlier.                                                                *)
(***************************************************************************)
EXTENDS ReleaseOrchestration, RouteActivationProofs, FiniteSetTheorems

(* What resuming a release may make of the state it read. *)
ResumedMoves ==
    {<<"planned", "candidate_requested">>,
     <<"candidate_requested", "candidate_ready">>, <<"candidate_requested", "failed">>,
     <<"candidate_ready", "jobs_running">>, <<"candidate_ready", "accepted">>,
     <<"candidate_ready", "failed">>,
     <<"jobs_running", "candidate_ready">>, <<"jobs_running", "failed">>,
     <<"accepted", "awaiting_activation">>}

EndsJob(it) == it.seen = "jobs_running" /\ it.next = "candidate_ready"

Intentions ==
    [step : {"idle", "accept", "commit", "block"}, release : Releases \union {NoRelease},
     seen : ReleaseStates, done : Seq(JobNumbers), job : JobNumbers \union {NoJob},
     next : ReleaseStates]

(* What a driver carries from its read to its compare-and-set. *)
SoundIntention(it) ==
    /\ it \in Intentions
    /\ it.step # "idle" => it.release \in Releases
    /\ it.step = "accept" => it.seen = "candidate_ready" /\ it.next = "absent"
    /\ it.step = "commit" =>
           \/ <<it.seen, it.next>> \in ResumedMoves
           \/ it.next = "cancelled" /\ it.seen \notin Terminal \union {"absent"}
    /\ it.step = "commit" /\ it.next = "jobs_running" => it.job \in JobNumbers
    /\ it.step = "commit" /\ EndsJob(it) =>
           it.job \in JobNumbers /\ Len(it.done) < JobCount

DriversAreSound ==
    /\ driver \in [Drivers -> Intentions]
    /\ \A p \in Drivers : SoundIntention(driver[p])

RowTypes ==
    /\ releaseState \in [Releases -> ReleaseStates]
    /\ candidateOf \in [Releases -> Routes]
    /\ previousOf \in [Releases -> Routes]
    /\ currentJob \in [Releases -> JobNumbers \union {NoJob}]
    /\ completed \in [Releases -> Seq(JobNumbers)]
    /\ \A r \in Releases : Len(completed[r]) <= JobCount
    /\ line \in Seq(Releases)

EnvironmentTypes ==
    /\ requestedFor \in [Deployments -> Releases \union {NoRelease}]
    /\ jobStatus \in [Releases -> [JobNumbers -> Statuses]]
    /\ woken \subseteq Deployments
    /\ accepted \subseteq Deployments
    /\ keyActive \in BOOLEAN

StageTypes ==
    /\ serving \in [Callers -> Releases \union {NoRelease}]
    /\ stage \in [Callers -> {"none", "preparing", "marking", "routing", "rolling"}]
    /\ \A a \in Callers : stage[a] # "none" => serving[a] \in Releases

(* A release whose job runs names the job. *)
JobIsNamed == \A r \in Releases : releaseState[r] = "jobs_running" => currentJob[r] \in JobNumbers

(* The idempotency key of a candidate: it is used once, by a deployment that  *)
(* was requested, and before the release says so.                             *)
KeysAreUnique ==
    /\ \A d, e \in Deployments :
           requestedFor[d] \in Releases /\ requestedFor[e] = requestedFor[d] => d = e
    /\ \A d \in Deployments : status[d] = "absent" => requestedFor[d] = NoRelease

WithCandidate ==
    {"candidate_requested", "candidate_ready", "jobs_running", "accepted",
     "awaiting_activation", "activating", "public_verifying", "verified"}

CandidatesAreOwn ==
    /\ \A r \in Releases :
           candidateOf[r] # NoDeployment => requestedFor[candidateOf[r]] = r
    /\ \A r \in Releases : releaseState[r] \in WithCandidate => candidateOf[r] \in Deployments
    /\ \A p \in Drivers :
           /\ driver[p].step = "commit" /\ driver[p].next = "candidate_requested"
                  => CandidateKeyUsed(driver[p].release)
           /\ driver[p].step = "accept" => candidateOf[driver[p].release] \in Deployments

ReleaseBase ==
    /\ CallsInv /\ RowTypes /\ EnvironmentTypes /\ StageTypes
    /\ DriversAreSound /\ JobIsNamed /\ KeysAreUnique /\ CandidatesAreOwn

-----------------------------------------------------------------------------
(* The steps of the drivers. *)

(* A transaction that reads release r, and maybe acts on a deployment. *)
Reads(p, r) ==
    \/ RequestCandidate(p, r) \/ ObserveCandidate(p, r) \/ RequestJob(p, r)
    \/ PrepareAcceptance(p, r) \/ ObserveJob(p, r) \/ AskActivation(p, r)
    \/ LeaveAlone(p, r) \/ CancelRelease(p, r)
    \/ p = Reconciler /\ ClaimOrphaned(r)

(* Driver p leaves its read of r with intention it. *)
TakesUp(p, r, it) ==
    /\ driver' = [driver EXCEPT ![p] = it]
    /\ SoundIntention(it)
    /\ it.step # "idle"
    /\ it.release = r /\ it.seen = releaseState[r] /\ it.done = completed[r]

LEMMA TouchKeepsType ==
    ASSUME line \in Seq(Releases), NEW r \in Releases, Touch(r)
    PROVE  line' \in Seq(Releases)
<1>1. ASSUME NEW i \in 1 .. Len(line)
      PROVE  Append(RemoveAt(line, i), r) \in Seq(Releases)
  BY DEF RemoveAt
<1>2. Append(line, r) \in Seq(Releases)
  OBVIOUS
<1> QED
  BY <1>1, <1>2, Zenon DEF Touch

(* Nothing happens to the release when it is read; what the driver intends    *)
(* then is sound and names what it read.                                      *)
LEMMA ReadingIsSound ==
    ASSUME ReleaseBase, NEW p \in Drivers, NEW r \in Releases, Reads(p, r)
    PROVE  /\ UNCHANGED <<releaseState, candidateOf, previousOf, currentJob, completed>>
           /\ UNCHANGED <<callVars, stageVars, accepted, keyActive>>
           /\ line' \in Seq(Releases)
           /\ \/ driver' = driver
              \/ driver' = [driver EXCEPT ![p] = Resting]
              \/ \E it : TakesUp(p, r, it)
<1> USE DEF ReleaseBase, RowTypes, EnvironmentTypes, Intentions
<1> DEFINE It(step, job, next) ==
        [step |-> step, release |-> r, seen |-> releaseState[r], done |-> completed[r],
         job |-> job, next |-> next]
<1>1. ASSUME NEW step, NEW job, NEW next, Intends(p, step, r, job, next),
             SoundIntention(It(step, job, next)), step # "idle"
      PROVE  \E it : TakesUp(p, r, it)
  <2>1. TakesUp(p, r, It(step, job, next))
    BY <1>1 DEF Intends, TakesUp
  <2> QED
    BY <2>1, Zenon
<1>2. CASE RequestCandidate(p, r)
  <2>1. SoundIntention(It("commit", NoJob, "candidate_requested"))
    BY <1>2 DEF RequestCandidate, Picks, SoundIntention, ResumedMoves, ReleaseStates,
                Advancing, Passive, Terminal, EndsJob
  <2>2. \E it : TakesUp(p, r, it)
    BY <1>1, <1>2, <2>1 DEF RequestCandidate
  <2>3. line' \in Seq(Releases)
    BY <1>2, TouchKeepsType DEF RequestCandidate, Claims
  <2> QED
    BY <1>2, <2>2, <2>3 DEF RequestCandidate, Picks
<1>3. CASE ObserveCandidate(p, r)
  <2> DEFINE next == Verdict(status[candidateOf[r]], "candidate_ready")
  <2>1. next \in {"candidate_ready", "failed", "absent"}
    BY DEF Verdict
  <2>2. next # "absent" => SoundIntention(It("commit", NoJob, next))
    BY <1>3, <2>1
    DEF ObserveCandidate, Picks, SoundIntention, ResumedMoves, ReleaseStates,
        Advancing, Passive, Terminal, EndsJob
  <2>3. line' \in Seq(Releases)
    BY <1>3, TouchKeepsType DEF ObserveCandidate, Claims
  <2>4. \/ driver' = [driver EXCEPT ![p] = Resting]
        \/ next # "absent" /\ Intends(p, "commit", r, NoJob, next)
    BY <1>3 DEF ObserveCandidate, Yields
  <2> HIDE DEF next
  <2>5. driver' = [driver EXCEPT ![p] = Resting] \/ \E it : TakesUp(p, r, it)
    BY <1>1, <2>2, <2>4
  <2> QED
    BY <1>3, <2>3, <2>5 DEF ObserveCandidate, Picks, activationVars, environmentVars
<1>4. CASE RequestJob(p, r)
  <2> DEFINE job == Len(completed[r]) + 1
  <2>1. job \in JobNumbers
    BY <1>4, ReleaseAssumption DEF RequestJob, JobsLeft, JobNumbers
  <2> HIDE DEF job
  <2>2. SoundIntention(It("commit", job, "jobs_running"))
    BY <1>4, <2>1
    DEF RequestJob, Picks, SoundIntention, ResumedMoves, ReleaseStates,
        Advancing, Passive, Terminal, EndsJob
  <2>3. Intends(p, "commit", r, job, "jobs_running")
    BY <1>4 DEF RequestJob, job
  <2>4. \E it : TakesUp(p, r, it)
    BY <1>1, <2>2, <2>3
  <2>5. line' \in Seq(Releases)
    BY <1>4, TouchKeepsType DEF RequestJob, Claims
  <2> QED
    BY <1>4, <2>4, <2>5 DEF RequestJob, Picks
<1>5. CASE PrepareAcceptance(p, r)
  <2>1. /\ SoundIntention(It("accept", NoJob, "absent"))
        /\ SoundIntention(It("commit", NoJob, "failed"))
    BY <1>5
    DEF PrepareAcceptance, Picks, SoundIntention, ResumedMoves, ReleaseStates,
        Advancing, Passive, Terminal, EndsJob
  <2>2. \/ Intends(p, "accept", r, NoJob, "absent")
        \/ Intends(p, "commit", r, NoJob, "failed")
        \/ driver' = [driver EXCEPT ![p] = Resting]
    BY <1>5 DEF PrepareAcceptance, Yields
  <2>3. driver' = [driver EXCEPT ![p] = Resting] \/ \E it : TakesUp(p, r, it)
    BY <1>1, <2>1, <2>2
  <2>4. line' \in Seq(Releases)
    BY <1>5, TouchKeepsType DEF PrepareAcceptance, Claims
  <2> QED
    BY <1>5, <2>3, <2>4 DEF PrepareAcceptance, Picks, environmentVars
<1>6. CASE ObserveJob(p, r)
  <2> DEFINE next == Verdict(jobStatus[r][currentJob[r]], "candidate_ready")
  <2>1. next \in {"candidate_ready", "failed", "absent"}
    BY DEF Verdict
  <2>2. \/ driver' = [driver EXCEPT ![p] = Resting]
        \/ /\ next # "absent" /\ (next = "candidate_ready" => JobsLeft(r))
           /\ Intends(p, "commit", r, currentJob[r], next)
    BY <1>6 DEF ObserveJob, Yields
  <2>3. currentJob[r] \in JobNumbers
    BY <1>6 DEF ObserveJob, Picks, JobIsNamed
  <2> HIDE DEF next
  <2>4. next # "absent" /\ (next = "candidate_ready" => JobsLeft(r))
            => SoundIntention(It("commit", currentJob[r], next))
    BY <1>6, <2>1, <2>3
    DEF ObserveJob, Picks, JobsLeft, SoundIntention, ResumedMoves, ReleaseStates,
        Advancing, Passive, Terminal, EndsJob
  <2>5. driver' = [driver EXCEPT ![p] = Resting] \/ \E it : TakesUp(p, r, it)
    BY <1>1, <2>2, <2>4
  <2>6. line' \in Seq(Releases)
    BY <1>6, TouchKeepsType DEF ObserveJob, Claims
  <2> QED
    BY <1>6, <2>5, <2>6 DEF ObserveJob, Picks, activationVars, environmentVars
<1>7. CASE AskActivation(p, r)
  <2>1. SoundIntention(It("commit", NoJob, "awaiting_activation"))
    BY <1>7
    DEF AskActivation, Picks, SoundIntention, ResumedMoves, ReleaseStates,
        Advancing, Passive, Terminal, EndsJob
  <2>2. \E it : TakesUp(p, r, it)
    BY <1>1, <1>7, <2>1 DEF AskActivation
  <2>3. line' \in Seq(Releases)
    BY <1>7, TouchKeepsType DEF AskActivation, Claims
  <2> QED
    BY <1>7, <2>2, <2>3 DEF AskActivation, Picks, activationVars, environmentVars
<1>8. CASE LeaveAlone(p, r)
  <2>1. line' \in Seq(Releases)
    BY <1>8, TouchKeepsType DEF LeaveAlone, Claims
  <2> QED
    BY <1>8, <2>1 DEF LeaveAlone, Picks, activationVars, environmentVars
<1>9. CASE CancelRelease(p, r)
  <2>1. releaseState[r] \notin Terminal \union {"absent"}
    BY <1>9 DEF CancelRelease, Picks, Advancing, Passive, Terminal
  <2>2. SoundIntention(It("commit", NoJob, "cancelled"))
    BY <2>1 DEF SoundIntention, ResumedMoves, ReleaseStates, Advancing, Passive, Terminal, EndsJob
  <2>3. \E it : TakesUp(p, r, it)
    BY <1>1, <1>9, <2>2 DEF CancelRelease
  <2> QED
    BY <1>9, <2>3 DEF CancelRelease, Picks
<1>10. CASE p = Reconciler /\ ClaimOrphaned(r)
  <2>1. SoundIntention(It("block", NoJob, "blocked"))
    BY DEF SoundIntention, ReleaseStates, Advancing, Passive, Terminal
  <2>2. \E it : TakesUp(p, r, it)
    BY <1>1, <1>10, <2>1 DEF ClaimOrphaned
  <2>3. line' \in Seq(Releases)
    BY <1>10, TouchKeepsType DEF ClaimOrphaned
  <2> QED
    BY <1>10, <2>2, <2>3 DEF ClaimOrphaned, activationVars, environmentVars
<1> QED
  BY <1>2, <1>3, <1>4, <1>5, <1>6, <1>7, <1>8, <1>9, <1>10 DEF Reads

-----------------------------------------------------------------------------
(* Who takes a step. *)

(* The compare-and-set of a driver finds the state that the driver read. *)
CommitTakes(p) ==
    /\ Commit(p)
    /\ StateStillSeen(p)

(* One of the two transitions that a call makes before the route moves. *)
Marks(a) ==
    /\ MarkActivating(a) \/ MarkVerifying(a)
    /\ call[a] = "prepared"
    /\ \/ /\ stage[a] = "preparing" /\ releaseState[serving[a]] = "awaiting_activation"
          /\ releaseState' = [releaseState EXCEPT ![serving[a]] = "activating"]
          /\ stage' = [stage EXCEPT ![a] = "marking"]
       \/ /\ stage[a] = "marking" /\ releaseState[serving[a]] = "activating"
          /\ releaseState' = [releaseState EXCEPT ![serving[a]] = "public_verifying"]
          /\ stage' = [stage EXCEPT ![a] = "routing"]
    /\ serving' = serving
    /\ Touch(serving[a])
    /\ UNCHANGED <<activationVars, candidateOf, previousOf, currentJob, completed,
                   environmentVars, driver>>

(* A call that loses one of them ends. *)
GivesUp(a) ==
    /\ stage[a] \in {"preparing", "marking"}
    /\ call[a] # "idle"
    /\ Return(a, "none")
    /\ Leave(a)
    /\ UNCHANGED <<rowVars, candidate, former, releaseVars, environmentVars, driver>>

LEMMA StepCases ==
    ASSUME ReleaseBase, [ReleaseNext]_orchestrationVars
    PROVE  \/ UNCHANGED orchestrationVars
           \/ /\ WakesAreRecorded
              /\ \/ \E p \in Drivers, r \in Releases : Reads(p, r)
                 \/ \E p \in Drivers : Accept(p) \/ Commit(p) \/ DriverDies(p)
                 \/ Block
                 \/ \E r \in Releases : Create(r)
                 \/ \E a \in Callers, r \in Releases :
                        StartActivation(a, r) \/ StartRollback(a, r)
                 \/ \E a \in Callers :
                        Marks(a) \/ GivesUp(a) \/ RouteStep(a) \/ Report(a) \/ ServerDies(a)
                 \/ \E r \in Releases, j \in JobNumbers : JobEnds(r, j)
                 \/ RevokeKey
                 \/ DeploymentsMove
<1>1. ASSUME NEW a \in Callers, MarkActivating(a) \/ MarkVerifying(a)
      PROVE  Marks(a) \/ GivesUp(a)
  <2> serving \in [Callers -> Releases \union {NoRelease}]
    BY DEF ReleaseBase, StageTypes
  <2>1. CASE MarkActivating(a)
    BY <1>1, <2>1 DEF MarkActivating, Mark, Serve, ClaimsState, Marks, GivesUp, releaseVars
  <2>2. CASE MarkVerifying(a)
    BY <1>1, <2>2 DEF MarkVerifying, Mark, Serve, ClaimsState, Marks, GivesUp, releaseVars
  <2> QED
    BY <1>1, <2>1, <2>2
<1> QED
  BY <1>1 DEF ReleaseNext, DriverStep, ServerStep, Reads

(* No request disappears again. *)
NoRowVanishes == \A d \in Deployments : status'[d] = "absent" => status[d] = "absent"

LEMMA StepKeepsCalls ==
    ASSUME ReleaseBase, [ReleaseNext]_orchestrationVars
    PROVE  CallsInv' /\ NoRowVanishes
<1> DEFINE Kept == CallsInv' /\ NoRowVanishes
<1> SUFFICES Kept
  OBVIOUS
<1> CallsInv
  BY DEF ReleaseBase
<1>1. ASSUME UNCHANGED callVars, RowsTypeOK', NoRowVanishes
      PROVE  Kept
  BY <1>1 DEF CallsInv, CallsTypeOK, CallsAreForSomething, callVars
<1>2. CASE UNCHANGED activationVars
  <2>1. RowsTypeOK'
    BY <1>2 DEF CallsInv, RowsTypeOK, activationVars, rowVars
  <2> QED
    BY <1>1, <1>2, <2>1 DEF NoRowVanishes, activationVars, rowVars
<1>3. ASSUME NEW p \in Drivers, NEW r \in Releases, Reads(p, r)
      PROVE  Kept
  <2>1. UNCHANGED callVars
    BY <1>3, ReadingIsSound
  <2>2. CASE RequestCandidate(p, r)
    <3>1. CASE UNCHANGED rowVars
      BY <1>2, <2>1, <3>1 DEF activationVars
    <3>2. CASE \E d \in Deployments : RequestDeployment(d)
      BY <1>1, <2>1, <3>2, ApiKeepsTypes DEF CallsInv, RequestDeployment, NoRowVanishes,
         RowsTypeOK
    <3> QED
      BY <2>2, <3>1, <3>2 DEF RequestCandidate
  <2>3. CASE RequestJob(p, r)
    BY <1>1, <2>1, <2>3 DEF RequestJob, CallsInv, RowsTypeOK, RuntimeStatuses, leaseVars,
       routeVars, NoRowVanishes
  <2>4. CASE PrepareAcceptance(p, r)
    BY <1>1, <2>1, <2>4 DEF PrepareAcceptance, CallsInv, RowsTypeOK, RuntimeStates, leaseVars,
       routeVars, NoRowVanishes
  <2>5. CASE CancelRelease(p, r)
    BY <1>1, <2>1, <2>5 DEF CancelRelease, CallsInv, RowsTypeOK, Statuses, leaseVars,
       routeVars, NoRowVanishes
  <2>6. CASE ObserveCandidate(p, r) \/ ObserveJob(p, r) \/ AskActivation(p, r)
                \/ LeaveAlone(p, r) \/ ClaimOrphaned(r)
    BY <1>2, <2>6 DEF ObserveCandidate, ObserveJob, AskActivation, LeaveAlone, ClaimOrphaned
  <2> QED
    BY <1>3, <2>2, <2>3, <2>4, <2>5, <2>6 DEF Reads
<1>4. ASSUME NEW p \in Drivers, Accept(p) \/ Commit(p) \/ DriverDies(p)
      PROVE  Kept
  BY <1>2, <1>4 DEF Accept, Commit, DriverDies
<1>5. ASSUME NEW r \in Releases, NEW j \in JobNumbers, JobEnds(r, j)
      PROVE  Kept
  BY <1>1, <1>5 DEF JobEnds, StatusOfRoute, CallsInv, RowsTypeOK, RuntimeStatuses, leaseVars,
     routeVars, NoRowVanishes
<1>6. ASSUME NEW a \in Callers, NEW d \in Deployments, Prepare(a, d)
      PROVE  Kept
  <2>1. CallsInv'
    BY <1>6, PrepareKeepsTypes
  <2> QED
    BY <1>6, <2>1 DEF Prepare, NoRowVanishes
<1>7. ASSUME NEW a \in Callers, NEW r \in Releases, StartActivation(a, r) \/ StartRollback(a, r)
      PROVE  Kept
  <2>1. StartActivation(a, r) => candidateOf[r] \in Deployments
    BY DEF StartActivation, ReleaseBase, CandidatesAreOwn, WithCandidate
  <2>2. StartRollback(a, r) => previousOf[r] \in Deployments
    BY DEF StartRollback, ReleaseBase, RowTypes, Routes
  <2> QED
    BY <1>6, <1>7, <2>1, <2>2 DEF StartActivation, StartRollback
<1>8. ASSUME NEW a \in Callers, Marks(a) \/ Report(a)
      PROVE  Kept
  BY <1>2, <1>8 DEF Marks, Report
<1>9. ASSUME NEW a \in Callers, GivesUp(a)
      PROVE  Kept
  BY <1>9 DEF GivesUp, Return, Advance, rowVars, CallsInv, RowsTypeOK, CallsTypeOK,
     CallsAreForSomething, Calls, Outcomes, NoRowVanishes
<1>10. ASSUME NEW a \in Callers, RouteStep(a) \/ ServerDies(a)
       PROVE  Kept
  <2>1. CallStep(a) \/ UNCHANGED activationVars
    BY <1>10 DEF RouteStep, ServerDies, CallStep
  <2>2. CASE CallStep(a)
    <3>1. CallsInv'
      BY <2>2, CallKeepsTypes
    <3>2. NoRowVanishes
      BY <2>2 DEF CallStep, Prepare, SeesRunning, WakeFails, SwitchRoute, SwitchRefused,
         ProbeAnswers, ConfirmRoute, RestoreFormer, CallDies, rowVars, NoRowVanishes,
         CallsInv, RowsTypeOK
    <3> QED
      BY <3>1, <3>2
  <2> QED
    BY <1>2, <2>1, <2>2
<1>11. CASE DeploymentsMove
  <2>1. PICK d \in Deployments : \/ CancelDeployment(d) \/ RepairDeployment(d)
                                 \/ LifecycleStep(d) \/ BuildEnds(d)
    BY <1>11 DEF DeploymentsMove
  <2>2. RowsTypeOK'
    BY <2>1, ApiKeepsTypes, SurroundingsKeepTypes DEF CallsInv
  <2>3. NoRowVanishes
    BY <2>1 DEF CancelDeployment, RepairDeployment, LifecycleStep, BuildEnds, NoRowVanishes,
       CallsInv, RowsTypeOK
  <2> QED
    BY <1>1, <1>11, <2>2, <2>3 DEF DeploymentsMove
<1>12. CASE Block \/ RevokeKey \/ (\E r \in Releases : Create(r)) \/ UNCHANGED orchestrationVars
  BY <1>2, <1>12 DEF Block, RevokeKey, Create, orchestrationVars
<1> HIDE DEF Kept
<1> QED
  BY <1>3, <1>4, <1>5, <1>7, <1>8, <1>9, <1>10, <1>11, <1>12, StepCases

-----------------------------------------------------------------------------
(* What a step makes of the rows of the releases. *)

(* The call reports: what the release becomes follows from how far it got. *)
Reports(a, next) ==
    /\ Report(a)
    /\ call[a] = "idle"
    /\ Touch(serving[a])
    /\ releaseState' = [releaseState EXCEPT ![serving[a]] = next]
    /\ \/ /\ stage[a] = "preparing" /\ next = "awaiting_activation"
          /\ releaseState[serving[a]] = "awaiting_activation"
       \/ /\ stage[a] = "routing" /\ releaseState[serving[a]] = "public_verifying"
          /\ next \in {"awaiting_activation", "rolled_back", "verified", "failed"}
          /\ next = "verified" => outcome[a] = "verified"
       \/ /\ stage[a] = "rolling" /\ outcome[a] = "verified" /\ next = "rolled_back"

LEMMA ReportCases ==
    ASSUME ReleaseBase, NEW a \in Callers, Report(a)
    PROVE  \/ UNCHANGED <<releaseState, line>>
           \/ \E next \in ReleaseStates : Reports(a, next)
<1>1. CASE stage[a] = "preparing"
  <2>1. Transition(serving[a], "awaiting_activation", "awaiting_activation")
    BY <1>1, Zenon DEF Report
  <2> QED
    BY <1>1, <2>1 DEF Report, Transition, Reports, ReleaseStates, Passive
<1>2. CASE stage[a] = "routing"
  <2>1. Transition(serving[a], "public_verifying", OutcomeState(outcome[a]))
    BY <1>2, Zenon DEF Report
  <2>2. /\ OutcomeState(outcome[a]) \in
               {"awaiting_activation", "rolled_back", "verified", "failed"}
        /\ OutcomeState(outcome[a]) = "verified" => outcome[a] = "verified"
    BY DEF OutcomeState
  <2> QED
    BY <1>2, <2>1, <2>2 DEF Report, Transition, Reports, ReleaseStates, Passive, Terminal
<1>3. CASE stage[a] = "rolling" /\ outcome[a] = "verified"
  <2>1. Transition(serving[a], releaseState[serving[a]], "rolled_back")
    BY <1>3, Zenon DEF Report
  <2> QED
    BY <1>3, <2>1 DEF Report, Transition, Reports, ReleaseStates, Passive, Terminal
<1>4. CASE /\ stage[a] # "preparing" /\ stage[a] # "routing"
           /\ ~(stage[a] = "rolling" /\ outcome[a] = "verified")
  BY <1>4, Zenon DEF Report
<1> QED
  BY <1>1, <1>2, <1>3, <1>4

Blocks(r) ==
    /\ Block
    /\ driver[Reconciler].release = r
    /\ releaseState' = [releaseState EXCEPT ![r] = "blocked"]
    /\ Touch(r)

rowColumns == <<candidateOf, previousOf, currentJob, completed>>

(* The rows change when a release is created, when a driver finds what it     *)
(* read, when a credential is gone, and with the steps of an activation.      *)
LEMMA RowMoves ==
    ASSUME ReleaseBase, [ReleaseNext]_orchestrationVars
    PROVE  \/ UNCHANGED <<releaseState, rowColumns>> /\ line' \in Seq(Releases)
           \/ \E r \in Releases : Create(r)
           \/ \E p \in Drivers : CommitTakes(p)
           \/ \E r \in Releases : Blocks(r) /\ UNCHANGED rowColumns
           \/ \E a \in Callers :
                  \/ Marks(a) /\ UNCHANGED rowColumns
                  \/ \E next \in ReleaseStates : Reports(a, next) /\ UNCHANGED rowColumns
<1> DEFINE Still == UNCHANGED <<releaseState, rowColumns>> /\ line' \in Seq(Releases)
<1> line \in Seq(Releases)
  BY DEF ReleaseBase, RowTypes
<1> USE DEF rowColumns
<1>1. CASE UNCHANGED releaseVars
  BY <1>1 DEF releaseVars
<1>2. ASSUME NEW p \in Drivers, NEW r \in Releases, Reads(p, r)
      PROVE  Still
  BY <1>2, ReadingIsSound
<1>3. ASSUME NEW p \in Drivers, Commit(p)
      PROVE  Still \/ CommitTakes(p)
  BY <1>3, Zenon DEF Commit, CommitTakes
<1>4. CASE Block
  <2>1. driver[Reconciler].release \in Releases
    BY <1>4, ReleaseAssumption DEF Block, ReleaseBase, DriversAreSound, SoundIntention
  <2> QED
    BY <1>4, <2>1 DEF Block, Transition, Blocks
<1>5. ASSUME NEW a \in Callers, Report(a)
      PROVE  Still \/ \E next \in ReleaseStates : Reports(a, next) /\ UNCHANGED rowColumns
  <2>1. UNCHANGED rowColumns
    BY <1>5, Zenon DEF Report
  <2> QED
    BY <1>5, <2>1, ReportCases
<1>6. ASSUME NEW a \in Callers, Marks(a)
      PROVE  UNCHANGED rowColumns
  BY <1>6 DEF Marks
<1>7. CASE \/ \E p \in Drivers : Accept(p) \/ DriverDies(p)
           \/ \E a \in Callers, r \in Releases : StartActivation(a, r) \/ StartRollback(a, r)
           \/ \E a \in Callers : GivesUp(a) \/ RouteStep(a) \/ ServerDies(a)
           \/ \E r \in Releases, j \in JobNumbers : JobEnds(r, j)
           \/ RevokeKey \/ DeploymentsMove \/ UNCHANGED orchestrationVars
  BY <1>1, <1>7 DEF Accept, DriverDies, StartActivation, StartRollback, GivesUp, RouteStep,
     ServerDies, JobEnds, RevokeKey, DeploymentsMove, orchestrationVars
<1> HIDE DEF Still
<1> QED
  BY <1>2, <1>3, <1>4, <1>5, <1>6, <1>7, StepCases DEF Still

(* What the compare-and-set writes of what the driver carries. *)
CommitWrites(it, r, next) ==
    /\ r \in Releases
    /\ it.step = "commit"
    /\ releaseState[r] = it.seen
    /\ releaseState' = [releaseState EXCEPT ![r] = next]
    /\ Touch(r)
    /\ next # "candidate_requested" => candidateOf' = candidateOf
    /\ next = "candidate_requested" =>
           \E d \in Deployments :
               requestedFor[d] = r /\ candidateOf' = [candidateOf EXCEPT ![r] = d]
    /\ EndsJob(it) => completed' = [completed EXCEPT ![r] = Append(it.done, it.job)]
    /\ ~EndsJob(it) => completed' = completed
    /\ next = "jobs_running" => currentJob' = [currentJob EXCEPT ![r] = it.job]
    /\ EndsJob(it) => currentJob' = [currentJob EXCEPT ![r] = NoJob]
    /\ next # "jobs_running" /\ ~EndsJob(it) => currentJob' = currentJob
    /\ UNCHANGED <<activationVars, previousOf, environmentVars, stageVars>>

LEMMA CommitEffect ==
    ASSUME ReleaseBase, NEW p \in Drivers, CommitTakes(p)
    PROVE  CommitWrites(driver[p], driver[p].release, driver[p].next)
<1> DEFINE r == driver[p].release
           next == driver[p].next
<1>1. driver[p].step = "commit"
  BY Zenon DEF CommitTakes, Commit
<1>2. r \in Releases /\ releaseState[r] = driver[p].seen
  BY <1>1 DEF CommitTakes, StateStillSeen, ReleaseBase, DriversAreSound, SoundIntention
<1>3. /\ releaseState' = [releaseState EXCEPT ![r] = next]
      /\ Touch(r)
      /\ candidateOf' = IF next # "candidate_requested" THEN candidateOf
           ELSE [candidateOf EXCEPT ![r] = CHOOSE d \in Deployments : requestedFor[d] = r]
      /\ completed' = IF EndsJob(driver[p])
           THEN [completed EXCEPT ![r] = Append(driver[p].done, driver[p].job)] ELSE completed
      /\ currentJob' = CASE next = "jobs_running" -> [currentJob EXCEPT ![r] = driver[p].job]
                         [] EndsJob(driver[p]) -> [currentJob EXCEPT ![r] = NoJob]
                         [] OTHER -> currentJob
      /\ UNCHANGED <<activationVars, previousOf, environmentVars, stageVars>>
  BY Zenon DEF CommitTakes, Commit, EndsJob
<1>4. /\ next = "jobs_running" => currentJob' = [currentJob EXCEPT ![r] = driver[p].job]
      /\ EndsJob(driver[p]) => currentJob' = [currentJob EXCEPT ![r] = NoJob]
      /\ next # "jobs_running" /\ ~EndsJob(driver[p]) => currentJob' = currentJob
  <2>1. ~(next = "jobs_running" /\ EndsJob(driver[p]))
    BY DEF EndsJob
  <2> QED
    BY <1>3, <2>1, Zenon
<1>5. ASSUME next = "candidate_requested"
      PROVE  \E d \in Deployments :
                 requestedFor[d] = r /\ candidateOf' = [candidateOf EXCEPT ![r] = d]
  <2>1. \E d \in Deployments : requestedFor[d] = r
    BY <1>1, <1>5, Zenon DEF ReleaseBase, CandidatesAreOwn, CandidateKeyUsed
  <2> DEFINE chosen == CHOOSE d \in Deployments : requestedFor[d] = r
  <2>2. chosen \in Deployments /\ requestedFor[chosen] = r
    BY <2>1, Zenon
  <2>3. candidateOf' = [candidateOf EXCEPT ![r] = chosen]
    BY <1>3, <1>5, Zenon
  <2> QED
    BY <2>2, <2>3, Zenon
<1> QED
  BY <1>1, <1>2, <1>3, <1>4, <1>5, Zenon DEF CommitWrites

LEMMA StepKeepsRows ==
    ASSUME ReleaseBase, [ReleaseNext]_orchestrationVars
    PROVE  RowTypes'
<1> USE DEF RowTypes, rowColumns, ReleaseStates, Advancing, Passive, Terminal
<1> RowTypes
  BY DEF ReleaseBase
<1>1. CASE UNCHANGED <<releaseState, rowColumns>> /\ line' \in Seq(Releases)
  BY <1>1
<1>2. ASSUME NEW r \in Releases, Create(r)
      PROVE  RowTypes'
  <2>1. line' \in Seq(Releases)
    BY <1>2, TouchKeepsType DEF Create
  <2> QED
    BY <1>2, <2>1 DEF Create, ReleaseBase, CallsInv, RowsTypeOK
<1>3. ASSUME NEW p \in Drivers, CommitTakes(p)
      PROVE  RowTypes'
  <2> DEFINE r == driver[p].release
             next == driver[p].next
  <2>0. CommitWrites(driver[p], r, next)
    BY <1>3, CommitEffect
  <2>1. driver[p] \in Intentions /\ SoundIntention(driver[p])
    BY DEF ReleaseBase, DriversAreSound
  <2>2. next \in ReleaseStates
    BY <2>1 DEF Intentions
  <2> HIDE DEF r, next
  <2>3. releaseState' \in [Releases -> ReleaseStates] /\ previousOf' = previousOf
    BY <2>0, <2>2 DEF CommitWrites
  <2>4. candidateOf' \in [Releases -> Routes]
    BY <2>0 DEF CommitWrites, Routes
  <2>5. /\ completed' \in [Releases -> Seq(JobNumbers)]
        /\ \A s \in Releases : Len(completed'[s]) <= JobCount
    <3>1. CASE EndsJob(driver[p])
      <4> DEFINE ended == Append(driver[p].done, driver[p].job)
      <4>1. ended \in Seq(JobNumbers) /\ Len(ended) <= JobCount
        BY <2>0, <2>1, <3>1, ReleaseAssumption DEF CommitWrites, SoundIntention, Intentions
      <4>2. completed' = [completed EXCEPT ![r] = ended]
        BY <2>0, <3>1 DEF CommitWrites
      <4> HIDE DEF ended
      <4> QED
        BY <4>1, <4>2
    <3>2. CASE ~EndsJob(driver[p])
      BY <2>0, <3>2 DEF CommitWrites
    <3> QED
      BY <3>1, <3>2
  <2>6. currentJob' \in [Releases -> JobNumbers \union {NoJob}]
    BY <2>0, <2>1 DEF CommitWrites, Intentions
  <2>7. line' \in Seq(Releases)
    BY <2>0, TouchKeepsType DEF CommitWrites
  <2> QED
    BY <2>3, <2>4, <2>5, <2>6, <2>7
<1>4. ASSUME NEW r \in Releases, Blocks(r), UNCHANGED rowColumns
      PROVE  RowTypes'
  BY <1>4, TouchKeepsType DEF Blocks
<1>5. ASSUME NEW a \in Callers, Marks(a), UNCHANGED rowColumns
      PROVE  RowTypes'
  <2>1. serving[a] \in Releases
    BY <1>5 DEF Marks, ReleaseBase, StageTypes
  <2> QED
    BY <1>5, <2>1, TouchKeepsType DEF Marks
<1>6. ASSUME NEW a \in Callers, NEW next \in ReleaseStates, Reports(a, next),
             UNCHANGED rowColumns
      PROVE  RowTypes'
  <2>1. serving[a] \in Releases
    BY <1>6 DEF Reports, ReleaseBase, StageTypes
  <2> QED
    BY <1>6, <2>1, TouchKeepsType DEF Reports
<1> QED
  BY <1>1, <1>2, <1>3, <1>4, <1>5, <1>6, RowMoves

-----------------------------------------------------------------------------
(* What a step makes of everything else. *)

(* The request of the one candidate of r. *)
Requests(r, d) ==
    /\ ~CandidateKeyUsed(r)
    /\ status[d] = "absent"
    /\ status'[d] = "queued"
    /\ requestedFor' = [requestedFor EXCEPT ![d] = r]

LEMMA RequestedForMoves ==
    ASSUME ReleaseBase, [ReleaseNext]_orchestrationVars
    PROVE  \/ requestedFor' = requestedFor
           \/ \E p \in Drivers, r \in Releases, d \in Deployments :
                  RequestCandidate(p, r) /\ Requests(r, d)
<1>1. ASSUME NEW p \in Drivers, NEW r \in Releases, Reads(p, r)
      PROVE  \/ requestedFor' = requestedFor
             \/ \E d \in Deployments : RequestCandidate(p, r) /\ Requests(r, d)
  BY <1>1 DEF Reads, RequestCandidate, CandidateRow, RequestDeployment, ObserveCandidate,
     RequestJob, PrepareAcceptance, ObserveJob, AskActivation, LeaveAlone, CancelRelease,
     ClaimOrphaned, Requests, environmentVars, ReleaseBase, CallsInv, RowsTypeOK
<1>2. CASE \/ \E p \in Drivers : Accept(p) \/ Commit(p) \/ DriverDies(p)
           \/ Block
           \/ \E r \in Releases : Create(r)
           \/ \E a \in Callers, r \in Releases : StartActivation(a, r) \/ StartRollback(a, r)
           \/ \E a \in Callers :
                  Marks(a) \/ GivesUp(a) \/ RouteStep(a) \/ Report(a) \/ ServerDies(a)
           \/ \E r \in Releases, j \in JobNumbers : JobEnds(r, j)
           \/ RevokeKey \/ DeploymentsMove \/ UNCHANGED orchestrationVars
  BY <1>2 DEF Accept, Commit, DriverDies, Block, Create, StartActivation, StartRollback,
     Marks, GivesUp, RouteStep, Report, ServerDies, JobEnds, RevokeKey, DeploymentsMove,
     orchestrationVars, environmentVars
<1> QED
  BY <1>1, <1>2, StepCases

(* An accepted candidate stays accepted, a job that succeeded stays so, and a  *)
(* revoked credential is not restored.                                         *)
LEMMA EnvironmentMoves ==
    ASSUME ReleaseBase, [ReleaseNext]_orchestrationVars
    PROVE  /\ EnvironmentTypes'
           /\ accepted \subseteq accepted'
           /\ \A r \in Releases, j \in JobNumbers :
                  jobStatus[r][j] = "ready" => jobStatus'[r][j] = "ready"
           /\ keyActive' => keyActive
<1> DEFINE JobsKept == /\ jobStatus' \in [Releases -> [JobNumbers -> Statuses]]
                       /\ \A r \in Releases, j \in JobNumbers :
                              jobStatus[r][j] = "ready" => jobStatus'[r][j] = "ready"
           Rest == /\ accepted' \subseteq Deployments /\ accepted \subseteq accepted'
                   /\ keyActive' = keyActive \/ keyActive' = FALSE
<1> EnvironmentTypes
  BY DEF ReleaseBase
<1> USE DEF EnvironmentTypes, Statuses
<1>1. ASSUME UNCHANGED <<jobStatus, accepted, keyActive>>
      PROVE  JobsKept /\ Rest
  BY <1>1
<1>2. ASSUME NEW p \in Drivers, NEW r \in Releases, Reads(p, r)
      PROVE  JobsKept /\ Rest
  <2>1. Rest
    BY <1>2, ReadingIsSound
  <2>2. CASE RequestJob(p, r)
    BY <2>1, <2>2 DEF RequestJob
  <2>3. CASE CancelRelease(p, r)
    BY <2>1, <2>3 DEF CancelRelease
  <2>4. CASE \/ RequestCandidate(p, r) \/ ObserveCandidate(p, r) \/ PrepareAcceptance(p, r)
             \/ ObserveJob(p, r) \/ AskActivation(p, r) \/ LeaveAlone(p, r) \/ ClaimOrphaned(r)
    BY <2>1, <2>4 DEF RequestCandidate, ObserveCandidate, PrepareAcceptance, ObserveJob,
       AskActivation, LeaveAlone, ClaimOrphaned, environmentVars
  <2> QED
    BY <1>2, <2>1, <2>2, <2>3, <2>4 DEF Reads
<1>3. ASSUME NEW p \in Drivers, Accept(p)
      PROVE  JobsKept /\ Rest
  <2>1. candidateOf[driver[p].release] \in Deployments
    BY <1>3 DEF Accept, ReleaseBase, CandidatesAreOwn
  <2> QED
    BY <1>3, <2>1 DEF Accept
<1>4. ASSUME NEW r \in Releases, NEW j \in JobNumbers, JobEnds(r, j)
      PROVE  JobsKept /\ Rest
  BY <1>4 DEF JobEnds
<1>5. ASSUME RevokeKey
      PROVE  JobsKept /\ Rest
  BY <1>5 DEF RevokeKey
<1>6. ASSUME \/ \E p \in Drivers : Commit(p) \/ DriverDies(p)
             \/ Block
             \/ \E r \in Releases : Create(r)
             \/ \E a \in Callers, r \in Releases : StartActivation(a, r) \/ StartRollback(a, r)
             \/ \E a \in Callers :
                    Marks(a) \/ GivesUp(a) \/ RouteStep(a) \/ Report(a) \/ ServerDies(a)
             \/ DeploymentsMove \/ UNCHANGED orchestrationVars
      PROVE  JobsKept /\ Rest
  <2>1. UNCHANGED <<jobStatus, accepted, keyActive>>
    BY <1>6 DEF Commit, DriverDies, Block, Create, StartActivation, StartRollback,
       Marks, GivesUp, RouteStep, Report, ServerDies, DeploymentsMove,
       orchestrationVars, environmentVars
  <2> QED
    BY <1>1, <2>1
<1> HIDE DEF JobsKept, Rest
<1>7. JobsKept /\ Rest
  BY <1>2, <1>3, <1>4, <1>5, <1>6, StepCases
<1>8. requestedFor' \in [Deployments -> Releases \union {NoRelease}]
  BY RequestedForMoves DEF Requests
<1>9. woken' \subseteq Deployments
  BY StepCases DEF WakesAreRecorded, orchestrationVars
<1>10. keyActive' \in BOOLEAN /\ (keyActive' => keyActive)
  <2>1. keyActive \in BOOLEAN /\ (keyActive' = keyActive \/ keyActive' = FALSE)
    BY <1>7, Zenon DEF Rest
  <2>2. CASE keyActive' = keyActive
    BY <2>1, <2>2
  <2>3. CASE keyActive' = FALSE
    <3>1. ~keyActive'
      BY <2>3
    <3>2. keyActive' \in BOOLEAN
      BY <2>3
    <3> QED
      BY <3>1, <3>2
  <2> QED
    BY <2>1, <2>2, <2>3
<1> QED
  BY <1>7, <1>8, <1>9, <1>10, Zenon DEF JobsKept, Rest

(* The verdict of the acceptance checks. *)
AcceptedAs(it, next) == [it EXCEPT !.step = "commit", !.next = next]

(* What a driver carries changes when it reads, when its candidate was        *)
(* checked, and when it is done or dies.                                      *)
LEMMA DriverCases ==
    ASSUME ReleaseBase, [ReleaseNext]_orchestrationVars
    PROVE  \/ driver' = driver
           \/ \E p \in Drivers : driver' = [driver EXCEPT ![p] = Resting]
           \/ \E p \in Drivers, next \in {"accepted", "failed"} :
                  /\ Accept(p)
                  /\ driver' = [driver EXCEPT ![p] = AcceptedAs(driver[p], next)]
           \/ \E p \in Drivers, r \in Releases :
                  Reads(p, r) /\ \E it : TakesUp(p, r, it)
<1> DEFINE Moved == \/ driver' = driver
                    \/ \E p \in Drivers : driver' = [driver EXCEPT ![p] = Resting]
<1>1. ASSUME NEW p \in Drivers, Commit(p) \/ DriverDies(p)
      PROVE  Moved
  BY <1>1, Zenon DEF Commit, DriverDies, Yields
<1>2. ASSUME Block
      PROVE  Moved
  BY <1>2, ReleaseAssumption, Zenon DEF Block, Yields
<1>3. ASSUME NEW p \in Drivers, Accept(p)
      PROVE  \E next \in {"accepted", "failed"} :
                 driver' = [driver EXCEPT ![p] = AcceptedAs(driver[p], next)]
  <2>1. \E next \in {"accepted", "failed"} :
            driver' = [driver EXCEPT ![p].step = "commit", ![p].next = next]
    BY <1>3, Zenon DEF Accept
  <2>2. PICK next \in {"accepted", "failed"} :
            driver' = [driver EXCEPT ![p].step = "commit", ![p].next = next]
    BY <2>1
  <2>3. [driver EXCEPT ![p].step = "commit", ![p].next = next]
            = [driver EXCEPT ![p] = AcceptedAs(driver[p], next)]
    BY DEF ReleaseBase, DriversAreSound, Intentions, AcceptedAs
  <2> QED
    BY <2>2, <2>3, Zenon
<1>4. ASSUME \/ \E r \in Releases : Create(r)
             \/ \E a \in Callers, r \in Releases : StartActivation(a, r) \/ StartRollback(a, r)
             \/ \E a \in Callers :
                    Marks(a) \/ GivesUp(a) \/ RouteStep(a) \/ Report(a) \/ ServerDies(a)
             \/ \E r \in Releases, j \in JobNumbers : JobEnds(r, j)
             \/ RevokeKey \/ DeploymentsMove \/ UNCHANGED orchestrationVars
      PROVE  Moved
  BY <1>4 DEF Create, StartActivation, StartRollback, Marks, GivesUp, RouteStep, Report,
     ServerDies, JobEnds, RevokeKey, DeploymentsMove, orchestrationVars
<1>5. ASSUME NEW p \in Drivers, NEW r \in Releases, Reads(p, r)
      PROVE  \/ Moved
             \/ \E it : TakesUp(p, r, it)
  BY <1>5, ReadingIsSound, Zenon
<1> HIDE DEF Moved
<1> QED
  BY <1>1, <1>2, <1>3, <1>4, <1>5, StepCases DEF Moved

LEMMA StepKeepsDrivers ==
    ASSUME ReleaseBase, [ReleaseNext]_orchestrationVars
    PROVE  DriversAreSound'
<1> DriversAreSound
  BY DEF ReleaseBase
<1>1. SoundIntention(Resting) /\ Resting \in Intentions
  <2>1. <<>> \in Seq(JobNumbers)
    OBVIOUS
  <2> QED
    BY <2>1, ReleaseAssumption
    DEF Resting, SoundIntention, Intentions, ReleaseStates, NoJob
<1>2. ASSUME NEW p \in Drivers, NEW next \in {"accepted", "failed"}, Accept(p)
      PROVE  SoundIntention(AcceptedAs(driver[p], next))
  <2>1. driver[p] \in Intentions /\ driver[p].seen = "candidate_ready"
        /\ driver[p].release \in Releases
    BY <1>2 DEF Accept, DriversAreSound, SoundIntention
  <2> QED
    BY <2>1 DEF AcceptedAs, SoundIntention, Intentions, ResumedMoves, EndsJob, ReleaseStates,
       Advancing, Passive, Terminal
<1>3. ASSUME NEW p \in Drivers, NEW it, SoundIntention(it),
             driver' = [driver EXCEPT ![p] = it]
      PROVE  DriversAreSound'
  BY <1>3 DEF DriversAreSound, SoundIntention
<1>4. CASE driver' = driver
  BY <1>4 DEF DriversAreSound
<1> QED
  BY <1>1, <1>2, <1>3, <1>4, DriverCases DEF TakesUp

(* A caller turns to a release, goes on with it, or leaves it. *)
LEMMA StageMoves ==
    ASSUME ReleaseBase, [ReleaseNext]_orchestrationVars
    PROVE  \/ UNCHANGED <<serving, stage>>
           \/ \E a \in Callers : Marks(a)
           \/ \E a \in Callers, r \in Releases :
                  \/ StartActivation(a, r) /\ Serve(a, r, "preparing")
                  \/ StartRollback(a, r) /\ Serve(a, r, "rolling")
           \/ \E a \in Callers : Leave(a)
<1>1. ASSUME NEW a \in Callers, NEW r \in Releases
      PROVE  /\ StartActivation(a, r) => Serve(a, r, "preparing")
             /\ StartRollback(a, r) => Serve(a, r, "rolling")
  BY DEF StartActivation, StartRollback
<1>2. ASSUME NEW a \in Callers, GivesUp(a) \/ Report(a) \/ ServerDies(a)
      PROVE  Leave(a)
  BY <1>2, Zenon DEF GivesUp, Report, ServerDies
<1>3. ASSUME \/ \E p \in Drivers : Accept(p) \/ Commit(p) \/ DriverDies(p)
             \/ Block
             \/ \E r \in Releases : Create(r)
             \/ \E a \in Callers : RouteStep(a)
             \/ \E r \in Releases, j \in JobNumbers : JobEnds(r, j)
             \/ RevokeKey \/ DeploymentsMove \/ UNCHANGED orchestrationVars
      PROVE  UNCHANGED <<serving, stage>>
  BY <1>3 DEF Accept, Commit, DriverDies, Block, Create, RouteStep, JobEnds, RevokeKey,
     DeploymentsMove, orchestrationVars, stageVars
<1>4. ASSUME NEW p \in Drivers, NEW r \in Releases, Reads(p, r)
      PROVE  UNCHANGED <<serving, stage>>
  BY <1>4, ReadingIsSound DEF stageVars
<1> QED
  BY <1>1, <1>2, <1>3, <1>4, StepCases

LEMMA StepKeepsStages ==
    ASSUME ReleaseBase, [ReleaseNext]_orchestrationVars
    PROVE  StageTypes'
<1> StageTypes
  BY DEF ReleaseBase
<1> QED
  BY StageMoves DEF StageTypes, Serve, Leave, Marks

LEMMA StepKeepsNames ==
    ASSUME ReleaseBase, [ReleaseNext]_orchestrationVars
    PROVE  JobIsNamed'
<1> RowTypes /\ JobIsNamed
  BY DEF ReleaseBase
<1> USE DEF JobIsNamed, RowTypes, rowColumns
<1>1. ASSUME NEW r \in Releases, Create(r)
      PROVE  JobIsNamed'
  BY <1>1 DEF Create
<1>2. ASSUME NEW p \in Drivers, CommitTakes(p)
      PROVE  JobIsNamed'
  <2>1. CommitWrites(driver[p], driver[p].release, driver[p].next)
    BY <1>2, CommitEffect
  <2>2. driver[p].step = "commit" /\ driver[p].next = "jobs_running" => driver[p].job \in JobNumbers
    BY DEF ReleaseBase, DriversAreSound, SoundIntention
  <2> QED
    BY <2>1, <2>2 DEF CommitWrites, EndsJob
<1>3. ASSUME NEW a \in Callers, Marks(a), UNCHANGED rowColumns
      PROVE  JobIsNamed'
  BY <1>3 DEF Marks
<1>4. ASSUME NEW a \in Callers, NEW next \in ReleaseStates, Reports(a, next),
             UNCHANGED rowColumns
      PROVE  JobIsNamed'
  BY <1>4 DEF Reports
<1>5. ASSUME NEW r \in Releases, Blocks(r), UNCHANGED rowColumns
      PROVE  JobIsNamed'
  BY <1>5 DEF Blocks
<1> QED
  BY <1>1, <1>2, <1>3, <1>4, <1>5, RowMoves

LEMMA StepKeepsKeys ==
    ASSUME ReleaseBase, [ReleaseNext]_orchestrationVars
    PROVE  KeysAreUnique'
<1> KeysAreUnique /\ EnvironmentTypes
  BY DEF ReleaseBase
<1>1. NoRowVanishes
  BY StepKeepsCalls
<1>2. CASE requestedFor' = requestedFor
  BY <1>1, <1>2 DEF KeysAreUnique, NoRowVanishes
<1>3. ASSUME NEW r \in Releases, NEW d \in Deployments, Requests(r, d)
      PROVE  KeysAreUnique'
  BY <1>1, <1>3, ReleaseAssumption
  DEF KeysAreUnique, NoRowVanishes, Requests, CandidateKeyUsed, EnvironmentTypes
<1> QED
  BY <1>2, <1>3, RequestedForMoves

(* A key in use stays in use. *)
LEMMA KeysStay ==
    ASSUME ReleaseBase, [ReleaseNext]_orchestrationVars, NEW d \in Deployments,
           requestedFor[d] \in Releases
    PROVE  requestedFor'[d] = requestedFor[d]
  BY RequestedForMoves, ReleaseAssumption
  DEF Requests, ReleaseBase, EnvironmentTypes, KeysAreUnique

LEMMA StepKeepsCandidates ==
    ASSUME ReleaseBase, [ReleaseNext]_orchestrationVars
    PROVE  CandidatesAreOwn'
<1> DEFINE Own == \A r \in Releases :
                /\ candidateOf[r] # NoDeployment => requestedFor[candidateOf[r]] = r
                /\ releaseState[r] \in WithCandidate => candidateOf[r] \in Deployments
           Kept == \A r \in Releases :
                candidateOf[r] \in Deployments => candidateOf'[r] \in Deployments
<1> CandidatesAreOwn /\ RowTypes /\ DriversAreSound /\ EnvironmentTypes
  BY DEF ReleaseBase
<1>own. Own
  BY DEF CandidatesAreOwn
<1> USE DEF RowTypes, rowColumns, WithCandidate, Routes
<1>1. ASSUME UNCHANGED candidateOf,
             \A r \in Releases : releaseState'[r] \in WithCandidate => releaseState[r] \in WithCandidate
      PROVE  Own' /\ Kept
  <2>1. ASSUME NEW r \in Releases, candidateOf[r] # NoDeployment
        PROVE  requestedFor'[candidateOf[r]] = r
    BY <1>own, <2>1, KeysStay
  <2> QED
    BY <1>1, <1>own, <2>1
<1>2. ASSUME NEW r \in Releases, Create(r)
      PROVE  Own' /\ Kept
  BY <1>1, <1>2 DEF Create
<1>3. ASSUME NEW p \in Drivers, CommitTakes(p)
      PROVE  Own' /\ Kept
  <2> DEFINE r == driver[p].release
             next == driver[p].next
  <2>1. CommitWrites(driver[p], r, next)
    BY <1>3, CommitEffect
  <2>2. \/ <<releaseState[r], next>> \in ResumedMoves
        \/ next = "cancelled"
    BY <2>1 DEF CommitWrites, DriversAreSound, SoundIntention
  <2> HIDE DEF r, next
  <2>3. CASE next # "candidate_requested"
    <3>1. UNCHANGED candidateOf /\ releaseState' = [releaseState EXCEPT ![r] = next]
      BY <2>1, <2>3 DEF CommitWrites
    <3>2. next \in WithCandidate => releaseState[r] \in WithCandidate
      BY <2>2, <2>3 DEF ResumedMoves
    <3> QED
      BY <1>1, <3>1, <3>2
  <2>4. CASE next = "candidate_requested"
    <3>1. PICK d \in Deployments :
              requestedFor[d] = r /\ candidateOf' = [candidateOf EXCEPT ![r] = d]
      BY <2>1, <2>4 DEF CommitWrites
    <3>2. /\ r \in Releases
          /\ releaseState' = [releaseState EXCEPT ![r] = next]
          /\ UNCHANGED requestedFor
      BY <2>1 DEF CommitWrites, environmentVars
    <3> QED
      BY <1>own, <2>4, <3>1, <3>2
  <2> QED
    BY <2>3, <2>4
<1>4. ASSUME NEW a \in Callers, Marks(a), UNCHANGED rowColumns
      PROVE  Own' /\ Kept
  BY <1>1, <1>4 DEF Marks
<1>5. ASSUME NEW a \in Callers, NEW next \in ReleaseStates, Reports(a, next),
             UNCHANGED rowColumns
      PROVE  Own' /\ Kept
  BY <1>1, <1>5 DEF Reports
<1>6. ASSUME NEW r \in Releases, Blocks(r), UNCHANGED rowColumns
      PROVE  Own' /\ Kept
  BY <1>1, <1>6 DEF Blocks
<1>7. ASSUME UNCHANGED <<releaseState, rowColumns>>
      PROVE  Own' /\ Kept
  BY <1>1, <1>7
<1>8. Own' /\ Kept
  BY <1>1, <1>2, <1>3, <1>4, <1>5, <1>6, RowMoves
<1> HIDE DEF Own
<1>9. ASSUME NEW r \in Releases, CandidateKeyUsed(r)
      PROVE  CandidateKeyUsed(r)'
  BY <1>9, KeysStay DEF CandidateKeyUsed
<1>10. ASSUME NEW p \in Drivers, NEW r \in Releases, NEW it, Reads(p, r), TakesUp(p, r, it)
       PROVE  /\ it.step = "commit" /\ it.next = "candidate_requested" => CandidateKeyUsed(r)'
              /\ it.step = "accept" => candidateOf'[r] \in Deployments
  <2>1. ASSUME it.step = "commit", it.next = "candidate_requested"
        PROVE  CandidateKeyUsed(r)'
    <3>1. releaseState[r] = "planned"
      BY <1>10, <2>1 DEF TakesUp, SoundIntention, ResumedMoves
    <3>2. driver'[p].next # "cancelled" /\ driver'[p].step # "block"
      BY <1>10, <2>1 DEF TakesUp, DriversAreSound
    <3>3. RequestCandidate(p, r)
      BY <1>10, <3>1, <3>2
      DEF Reads, ObserveCandidate, RequestJob, PrepareAcceptance, ObserveJob, AskActivation,
          LeaveAlone, CancelRelease, ClaimOrphaned, Picks, Intends, DriversAreSound, Passive
    <3>4. CASE CandidateKeyUsed(r)
      BY <1>9, <3>4
    <3>5. CASE ~CandidateKeyUsed(r)
      BY <3>3, <3>5 DEF RequestCandidate, CandidateRow, CandidateKeyUsed, EnvironmentTypes
    <3> QED
      BY <3>4, <3>5
  <2>2. ASSUME it.step = "accept"
        PROVE  candidateOf'[r] \in Deployments
    BY <1>10, <1>8, <1>own, <2>2 DEF TakesUp, SoundIntention, Own
  <2> QED
    BY <2>1, <2>2
<1>11. ASSUME NEW p \in Drivers
       PROVE  /\ driver'[p].step = "commit" /\ driver'[p].next = "candidate_requested"
                    => CandidateKeyUsed(driver[p].release)'
              /\ driver'[p].step = "accept" => candidateOf'[driver'[p].release] \in Deployments
  <2>1. CASE driver'[p] = driver[p]
    BY <1>8, <1>9, <2>1 DEF CandidatesAreOwn, DriversAreSound, SoundIntention
  <2>2. CASE driver'[p] = Resting
    BY <2>2 DEF Resting
  <2>3. CASE \E next \in {"accepted", "failed"} : driver'[p] = AcceptedAs(driver[p], next)
    BY <2>3 DEF AcceptedAs, DriversAreSound, Intentions
  <2>4. ASSUME NEW r \in Releases, NEW it, Reads(p, r), TakesUp(p, r, it)
        PROVE  /\ driver'[p].step = "commit" /\ driver'[p].next = "candidate_requested"
                     => CandidateKeyUsed(driver[p].release)'
               /\ driver'[p].step = "accept" => candidateOf'[driver'[p].release] \in Deployments
    <3>1. driver'[p] = it /\ it.release = r
      BY <2>4 DEF TakesUp, DriversAreSound
    <3> QED
      BY <1>10, <2>4, <3>1
  <2> QED
    BY <2>1, <2>2, <2>3, <2>4, DriverCases DEF DriversAreSound, TakesUp
<1> QED
  BY <1>8, <1>11 DEF CandidatesAreOwn, Own

-----------------------------------------------------------------------------

LEMMA InitReleases == ReleaseInit => ReleaseBase
<1> SUFFICES ASSUME ReleaseInit
             PROVE  ReleaseBase
  OBVIOUS
<1> USE ReleaseAssumption DEF ReleaseInit
<1>1. CallsInv
  BY InitCalls
<1>2. <<>> \in Seq(JobNumbers) /\ <<>> \in Seq(Releases)
  OBVIOUS
<1>3. RowTypes
  BY <1>2 DEF RowTypes, ReleaseStates, Routes, NoJob
<1>4. EnvironmentTypes
  BY DEF EnvironmentTypes, Statuses
<1>5. StageTypes
  BY DEF StageTypes
<1>6. Resting \in Intentions
  BY <1>2 DEF Resting, Intentions, ReleaseStates, NoJob
<1>7. DriversAreSound
  BY <1>6 DEF DriversAreSound, SoundIntention, Resting
<1>8. JobIsNamed /\ KeysAreUnique /\ CandidatesAreOwn
  BY DEF JobIsNamed, KeysAreUnique, CandidatesAreOwn, Resting, WithCandidate
<1> QED
  BY <1>1, <1>3, <1>4, <1>5, <1>7, <1>8 DEF ReleaseBase

LEMMA StepReleases ==
    ReleaseBase /\ [ReleaseNext]_orchestrationVars => ReleaseBase'
  BY StepKeepsCalls, StepKeepsRows, EnvironmentMoves, StepKeepsStages, StepKeepsDrivers,
     StepKeepsNames, StepKeepsKeys, StepKeepsCandidates DEF ReleaseBase

(* The rows of the releases and of their deployments, what the drivers carry  *)
(* and the calls keep their types: no release runs past its required jobs.    *)
THEOREM ReleaseTypeCorrect == ReleaseSafety => []ReleaseTypeOK
<1>1. ReleaseBase => ReleaseTypeOK
  BY DEF ReleaseBase, CallsInv, RowTypes, EnvironmentTypes, StageTypes, DriversAreSound,
     Intentions, ReleaseTypeOK, ActivationTypeOK
<1> QED
  BY InitReleases, StepReleases, <1>1, PTL DEF ReleaseSafety

(* However many drivers request the candidate of a release, and however often *)
(* they die between the request and the compare-and-set that records it, the  *)
(* key of the release finds the one deployment.                               *)
THEOREM CandidatesAreUnique == ReleaseSafety => []OneCandidatePerRelease
<1>1. ReleaseBase => OneCandidatePerRelease
  <2> SUFFICES ASSUME ReleaseBase, NEW r \in Releases
               PROVE  Cardinality({d \in Deployments : requestedFor[d] = r}) <= 1
    BY DEF OneCandidatePerRelease
  <2> DEFINE candidates == {d \in Deployments : requestedFor[d] = r}
  <2>1. CASE candidates = {}
    BY <2>1, FS_EmptySet
  <2>2. CASE candidates # {}
    <3>1. PICK d \in candidates : TRUE
      BY <2>2
    <3>2. candidates = {d}
      BY <3>1 DEF ReleaseBase, KeysAreUnique
    <3> QED
      BY <3>2, FS_Singleton
  <2> QED
    BY <2>1, <2>2
<1> QED
  BY InitReleases, StepReleases, <1>1, PTL DEF ReleaseSafety

-----------------------------------------------------------------------------
(* Who moves a release from which state to which. *)

DriverMoves(r, next) ==
    \/ <<releaseState[r], next>> \in ResumedMoves
    \/ next = "cancelled" /\ releaseState[r] \notin Terminal \union {"absent"}

StateMoves(r, next) ==
    /\ releaseState' = [releaseState EXCEPT ![r] = next]
    /\ \/ releaseState[r] = "absent" /\ next = "planned" /\ UNCHANGED stageVars
       \/ DriverMoves(r, next) /\ UNCHANGED stageVars
       \/ next = "blocked" /\ driver[Reconciler].step = "block" /\ UNCHANGED stageVars
       \/ \E a \in Callers :
              /\ serving[a] = r
              /\ \/ Marks(a)
                 \/ Reports(a, next) /\ Leave(a)

LEMMA StateCases ==
    ASSUME ReleaseBase, [ReleaseNext]_orchestrationVars
    PROVE  \/ UNCHANGED releaseState
           \/ \E r \in Releases, next \in ReleaseStates : StateMoves(r, next)
<1> USE DEF ReleaseStates, Advancing, Passive, Terminal
<1>1. ASSUME NEW r \in Releases, Create(r)
      PROVE  StateMoves(r, "planned")
  BY <1>1 DEF Create, StateMoves
<1>2. ASSUME NEW p \in Drivers, CommitTakes(p)
      PROVE  \E r \in Releases, next \in ReleaseStates : StateMoves(r, next)
  <2>1. CommitWrites(driver[p], driver[p].release, driver[p].next)
    BY <1>2, CommitEffect
  <2>2. SoundIntention(driver[p])
    BY DEF ReleaseBase, DriversAreSound
  <2>3. driver[p].release \in Releases /\ driver[p].next \in ReleaseStates
    BY <2>1, <2>2 DEF CommitWrites, SoundIntention, Intentions
  <2>4. StateMoves(driver[p].release, driver[p].next)
    BY <2>1, <2>2 DEF CommitWrites, SoundIntention, StateMoves, DriverMoves
  <2> QED
    BY <2>3, <2>4, Zenon
<1>3. ASSUME NEW r \in Releases, Blocks(r)
      PROVE  StateMoves(r, "blocked")
  BY <1>3 DEF Blocks, Block, StateMoves
<1>4. ASSUME NEW a \in Callers, Marks(a)
      PROVE  \E r \in Releases, next \in ReleaseStates : StateMoves(r, next)
  <2>1. serving[a] \in Releases
    BY <1>4 DEF Marks, ReleaseBase, StageTypes
  <2>2. \E next \in ReleaseStates : releaseState' = [releaseState EXCEPT ![serving[a]] = next]
    BY <1>4 DEF Marks
  <2>3. PICK next \in ReleaseStates : releaseState' = [releaseState EXCEPT ![serving[a]] = next]
    BY <2>2
  <2>4. StateMoves(serving[a], next)
    BY <1>4, <2>3, Zenon DEF StateMoves
  <2> QED
    BY <2>1, <2>3, <2>4, Zenon
<1>5. ASSUME NEW a \in Callers, NEW next \in ReleaseStates, Reports(a, next)
      PROVE  \E r \in Releases : StateMoves(r, next)
  <2>1. serving[a] \in Releases
    BY <1>5 DEF Reports, ReleaseBase, StageTypes
  <2>2. Leave(a)
    BY <1>5, Zenon DEF Reports, Report
  <2>3. StateMoves(serving[a], next)
    BY <1>5, <2>2 DEF Reports, StateMoves
  <2> QED
    BY <2>1, <2>3
<1>6. "planned" \in ReleaseStates /\ "blocked" \in ReleaseStates
  OBVIOUS
<1> QED
  BY <1>1, <1>2, <1>3, <1>4, <1>5, <1>6, RowMoves

-----------------------------------------------------------------------------
(* The ends of releases. *)

(* Only a release that ended is rolled back.  One that lost its credential may *)
(* be blocked under the rollback.                                              *)
RolledBackOnceEnded ==
    \A a \in Callers : stage[a] = "rolling" =>
        releaseState[serving[a]] \in {"verified", "failed", "rolled_back", "blocked"}

BlockedIsRevoked ==
    /\ \A p \in Drivers : driver[p].step = "block" => ~keyActive
    /\ \A r \in Releases : releaseState[r] = "blocked" => ~keyActive

EndsInv == RolledBackOnceEnded /\ BlockedIsRevoked

LEMMA StepRollbacks ==
    ASSUME ReleaseBase, [ReleaseNext]_orchestrationVars, RolledBackOnceEnded
    PROVE  RolledBackOnceEnded'
<1> StageTypes /\ RowTypes
  BY DEF ReleaseBase
<1> USE DEF RolledBackOnceEnded, StageTypes, RowTypes
<1>1. CASE UNCHANGED releaseState
  BY <1>1, StageMoves DEF StartRollback, Serve, Leave, Marks
<1>2. ASSUME NEW r \in Releases, NEW next \in ReleaseStates, StateMoves(r, next)
      PROVE  RolledBackOnceEnded'
  <2>1. CASE UNCHANGED stageVars
    BY <1>2, <2>1 DEF StateMoves, DriverMoves, ResumedMoves, Terminal, Marks, Reports, Leave,
       Serve, stageVars
  <2>2. ASSUME NEW a \in Callers, serving[a] = r, Marks(a)
        PROVE  RolledBackOnceEnded'
    BY <2>2 DEF Marks
  <2>3. ASSUME NEW a \in Callers, serving[a] = r, Reports(a, next), Leave(a)
        PROVE  RolledBackOnceEnded'
    BY <2>3 DEF Reports, Leave, Serve
  <2> QED
    BY <1>2, <2>1, <2>2, <2>3 DEF StateMoves
<1> QED
  BY <1>1, <1>2, StateCases

LEMMA StepBlocked ==
    ASSUME ReleaseBase, [ReleaseNext]_orchestrationVars, BlockedIsRevoked
    PROVE  BlockedIsRevoked'
<1>1. ~keyActive => ~keyActive'
  BY EnvironmentMoves, Zenon
<1>2. ASSUME NEW p \in Drivers, driver'[p].step = "block"
      PROVE  ~keyActive
  <2>1. CASE driver'[p] = driver[p]
    BY <1>2, <2>1, Zenon DEF BlockedIsRevoked
  <2>2. ASSUME NEW q \in Drivers, NEW r \in Releases, NEW it, Reads(q, r), TakesUp(q, r, it),
               driver'[p] # driver[p]
        PROVE  ~keyActive
    <3>1. p = q /\ driver'[p] = it
      BY <2>2 DEF TakesUp, ReleaseBase, DriversAreSound
    <3>2. ClaimOrphaned(r)
      BY <1>2, <2>2, <3>1
      DEF Reads, RequestCandidate, ObserveCandidate, RequestJob, PrepareAcceptance, ObserveJob,
          AskActivation, LeaveAlone, CancelRelease, Intends, Yields, Resting, ReleaseBase,
          DriversAreSound
    <3> QED
      BY <3>2, Zenon DEF ClaimOrphaned
  <2>3. driver'[p] = Resting => FALSE
    BY <1>2 DEF Resting
  <2>4. \A next : driver'[p] # AcceptedAs(driver[p], next)
    BY <1>2 DEF AcceptedAs, ReleaseBase, DriversAreSound, Intentions
  <2> QED
    BY <2>1, <2>2, <2>3, <2>4, DriverCases DEF ReleaseBase, DriversAreSound
<1>3. ASSUME NEW r \in Releases, releaseState'[r] = "blocked"
      PROVE  ~keyActive
  <2>1. releaseState[r] = "blocked" \/ driver[Reconciler].step = "block"
    BY <1>3, StateCases
    DEF StateMoves, DriverMoves, ResumedMoves, Marks, Reports, ReleaseBase, RowTypes
  <2> QED
    BY <2>1, ReleaseAssumption, Zenon DEF BlockedIsRevoked
<1> QED
  BY <1>1, <1>2, <1>3, Zenon DEF BlockedIsRevoked

(* Whatever drivers, cancellations and activations read of a release before   *)
(* it ended, none of them moves it from its end: the compare-and-set fails.   *)
(* Only a rollback does, and the reconciler that lost the release's           *)
(* credential.                                                                *)
THEOREM EndsAreFinal == ReleaseSafety => EndedReleasesStay
<1>1. ReleaseInit => EndsInv
  BY DEF ReleaseInit, EndsInv, RolledBackOnceEnded, BlockedIsRevoked, Resting
<1>2. ReleaseBase /\ EndsInv /\ [ReleaseNext]_orchestrationVars => EndsInv'
  BY StepRollbacks, StepBlocked DEF EndsInv
<1>3. ReleaseBase /\ EndsInv /\ [ReleaseNext]_orchestrationVars =>
          [\A r \in Releases :
               releaseState[r] \in Terminal /\ releaseState'[r] # releaseState[r]
                   => \/ /\ releaseState'[r] = "rolled_back"
                         /\ releaseState[r] \in {"verified", "failed"} \/ ~keyActive
                      \/ releaseState'[r] = "blocked" /\ ~keyActive]_orchestrationVars
  <2> SUFFICES ASSUME ReleaseBase, EndsInv, ReleaseNext, NEW r \in Releases,
                      releaseState[r] \in Terminal, releaseState'[r] # releaseState[r]
               PROVE  \/ /\ releaseState'[r] = "rolled_back"
                         /\ releaseState[r] \in {"verified", "failed"} \/ ~keyActive
                      \/ releaseState'[r] = "blocked" /\ ~keyActive
    BY Zenon
  <2>1. PICK next \in ReleaseStates : StateMoves(r, next)
    BY StateCases DEF StateMoves, ReleaseBase, RowTypes
  <2>2. releaseState'[r] = next
    BY <2>1 DEF StateMoves, ReleaseBase, RowTypes
  <2>3. \/ next = "blocked" /\ driver[Reconciler].step = "block"
        \/ next = "rolled_back" /\ releaseState[r] \in {"verified", "failed", "rolled_back", "blocked"}
    BY <2>1
    DEF StateMoves, DriverMoves, ResumedMoves, Terminal, Marks, Reports, EndsInv,
        RolledBackOnceEnded
  <2>4. driver[Reconciler].step = "block" \/ releaseState[r] = "blocked" => ~keyActive
    BY ReleaseAssumption, Zenon DEF EndsInv, BlockedIsRevoked
  <2>5. CASE next = "blocked" /\ driver[Reconciler].step = "block"
    BY <2>2, <2>4, <2>5, Zenon
  <2>6. CASE next = "rolled_back" /\ releaseState[r] \in {"verified", "failed"}
    BY <2>2, <2>6, Zenon
  <2>7. CASE next = "rolled_back" /\ releaseState[r] = "blocked"
    BY <2>2, <2>4, <2>7, Zenon
  <2> QED
    BY <2>2, <2>3, <2>5, <2>6, <2>7
<1> QED
  BY InitReleases, StepReleases, <1>1, <1>2, <1>3, PTL DEF ReleaseSafety, EndedReleasesStay

-----------------------------------------------------------------------------
(* Activations. *)

(* The states before a release first waits for its activation. *)
Early == {"absent", "planned", "candidate_requested", "candidate_ready", "jobs_running",
          "accepted"}

(* A call that was started is past them, and so is its release.  The first    *)
(* transition of a call takes the release out of the one state in which       *)
(* another call could take it: that makes the call the only one.              *)
PreparedIsLate ==
    \A a \in Callers :
        stage[a] = "preparing" => releaseState[serving[a]] \notin Early

MarkedIsTaken ==
    /\ \A a \in Callers : stage[a] \in {"marking", "routing"} =>
           releaseState[serving[a]] \notin Early \union {"awaiting_activation"}
    /\ \A a, b \in Callers :
           /\ stage[a] \in {"marking", "routing"}
           /\ stage[b] \in {"marking", "routing"}
           /\ serving[a] = serving[b]
           => a = b

ActivationsInv == PreparedIsLate /\ MarkedIsTaken

(* No driver and no call takes a release back there. *)
LEMMA NeverEarlyAgain ==
    ASSUME ReleaseBase, [ReleaseNext]_orchestrationVars, NEW r \in Releases,
           releaseState[r] \notin Early
    PROVE  releaseState'[r] \notin Early
<1> RowTypes
  BY DEF ReleaseBase
<1> QED
  BY StateCases
  DEF StateMoves, DriverMoves, ResumedMoves, Early, Marks, Reports, RowTypes

LEMMA StepActivations ==
    ASSUME ReleaseBase, [ReleaseNext]_orchestrationVars, ActivationsInv
    PROVE  ActivationsInv'
<1> StageTypes /\ RowTypes
  BY DEF ReleaseBase
<1> USE DEF ActivationsInv, PreparedIsLate, MarkedIsTaken, StageTypes, RowTypes
<1>1. ASSUME NEW a \in Callers, Marks(a)
      PROVE  ActivationsInv'
  <2>1. CASE /\ stage[a] = "preparing" /\ releaseState[serving[a]] = "awaiting_activation"
             /\ releaseState' = [releaseState EXCEPT ![serving[a]] = "activating"]
             /\ stage' = [stage EXCEPT ![a] = "marking"]
    <3>1. \A b \in Callers : stage[b] \in {"marking", "routing"} => serving[b] # serving[a]
      BY <2>1
    <3>2. serving' = serving
      BY <1>1 DEF Marks
    <3> QED
      BY <2>1, <3>1, <3>2 DEF Early
  <2>2. CASE /\ stage[a] = "marking" /\ releaseState[serving[a]] = "activating"
             /\ releaseState' = [releaseState EXCEPT ![serving[a]] = "public_verifying"]
             /\ stage' = [stage EXCEPT ![a] = "routing"]
    <3>1. serving' = serving
      BY <1>1 DEF Marks
    <3> QED
      BY <2>2, <3>1 DEF Early
  <2> QED
    BY <1>1, <2>1, <2>2 DEF Marks
<1>2. ASSUME NEW a \in Callers, NEW r \in Releases, NEW next \in ReleaseStates, serving[a] = r,
             Reports(a, next), Leave(a)
      PROVE  ActivationsInv'
  BY <1>2 DEF Reports, Early, Leave, Serve
<1>3. ASSUME NEW r \in Releases, NEW next \in ReleaseStates,
             releaseState' = [releaseState EXCEPT ![r] = next], UNCHANGED stageVars,
             releaseState[r] \in Early \/ next \notin Early \union {"awaiting_activation"}
      PROVE  ActivationsInv'
  BY <1>3 DEF stageVars
<1>4. CASE UNCHANGED releaseState
  <2>1. ASSUME NEW a \in Callers, NEW r \in Releases, StartActivation(a, r),
               Serve(a, r, "preparing")
        PROVE  ActivationsInv'
    BY <1>4, <2>1 DEF StartActivation, Serve, Early
  <2>2. ASSUME NEW a \in Callers, NEW r \in Releases, StartRollback(a, r),
               Serve(a, r, "rolling")
        PROVE  ActivationsInv'
    BY <1>4, <2>2 DEF Serve
  <2>3. ASSUME NEW a \in Callers, Leave(a)
        PROVE  ActivationsInv'
    BY <1>4, <2>3 DEF Leave, Serve
  <2> QED
    BY <1>1, <1>4, <2>1, <2>2, <2>3, StageMoves
<1>5. ASSUME NEW r \in Releases, NEW next \in ReleaseStates, StateMoves(r, next)
      PROVE  ActivationsInv'
  <2>1. CASE UNCHANGED stageVars
    <3>1. \/ releaseState[r] \in Early \/ next \notin Early \union {"awaiting_activation"}
          \/ \E a \in Callers : Marks(a)
          \/ \E a \in Callers : serving[a] = r /\ Reports(a, next) /\ Leave(a)
      BY <1>5, <2>1 DEF StateMoves, DriverMoves, ResumedMoves, Early
    <3> QED
      BY <1>1, <1>2, <1>3, <1>5, <2>1, <3>1 DEF StateMoves
  <2> QED
    BY <1>1, <1>2, <1>5, <2>1 DEF StateMoves
<1> QED
  BY <1>4, <1>5, StateCases

LEMMA InitActivations == ReleaseInit => ActivationsInv
  BY DEF ReleaseInit, ActivationsInv, PreparedIsLate, MarkedIsTaken

(* Of all the calls that were let in to activate a release, at most one gets  *)
(* to move the route for it at a time.                                        *)
THEOREM ActivationsAreExclusive == ReleaseSafety => []OneActivationAtATime
<1>1. ReleaseBase /\ ActivationsInv /\ [ReleaseNext]_orchestrationVars => ActivationsInv'
  BY StepActivations
<1>2. ActivationsInv => OneActivationAtATime
  BY DEF ActivationsInv, MarkedIsTaken, OneActivationAtATime
<1> QED
  BY InitReleases, StepReleases, InitActivations, <1>1, <1>2, PTL DEF ReleaseSafety

(* A call activates the candidate that the release names all the while. *)
CallsKnowTheCandidate ==
    \A a \in Callers :
        stage[a] \in {"preparing", "marking", "routing"}
            => candidate[a] = candidateOf[serving[a]]

(* A call looks for another deployment only when it starts. *)
LEMMA CandidateMoves ==
    ASSUME ReleaseBase, [ReleaseNext]_orchestrationVars
    PROVE  \/ UNCHANGED candidate
           \/ \E a \in Callers, r \in Releases :
                  \/ /\ StartActivation(a, r) /\ Serve(a, r, "preparing")
                     /\ candidate' = [candidate EXCEPT ![a] = candidateOf[r]]
                  \/ /\ StartRollback(a, r) /\ Serve(a, r, "rolling")
                     /\ candidate' = [candidate EXCEPT ![a] = previousOf[r]]
<1>1. ASSUME NEW p \in Drivers, NEW r \in Releases, Reads(p, r)
      PROVE  UNCHANGED candidate
  BY <1>1, ReadingIsSound DEF callVars
<1>2. ASSUME \/ \E p \in Drivers : Accept(p) \/ Commit(p) \/ DriverDies(p)
             \/ Block
             \/ \E r \in Releases : Create(r)
             \/ \E a \in Callers : Marks(a) \/ GivesUp(a) \/ Report(a)
             \/ \E r \in Releases, j \in JobNumbers : JobEnds(r, j)
             \/ RevokeKey \/ DeploymentsMove \/ UNCHANGED orchestrationVars
      PROVE  UNCHANGED candidate
  BY <1>2 DEF Accept, Commit, DriverDies, Block, Create, Marks, GivesUp, Report, JobEnds,
     RevokeKey, DeploymentsMove, orchestrationVars, activationVars, callVars
<1>3. ASSUME NEW a \in Callers, RouteStep(a) \/ ServerDies(a)
      PROVE  UNCHANGED candidate
  BY <1>3 DEF RouteStep, ServerDies, SeesRunning, WakeFails, SwitchRoute, SwitchRefused,
     ProbeAnswers, ConfirmRoute, RestoreFormer, CallDies, activationVars, callVars
<1>4. ASSUME NEW a \in Callers, NEW r \in Releases
      PROVE  /\ StartActivation(a, r) =>
                    /\ Serve(a, r, "preparing")
                    /\ candidate' = [candidate EXCEPT ![a] = candidateOf[r]]
             /\ StartRollback(a, r) =>
                    /\ Serve(a, r, "rolling")
                    /\ candidate' = [candidate EXCEPT ![a] = previousOf[r]]
  BY DEF StartActivation, StartRollback, Prepare
<1> QED
  BY <1>1, <1>2, <1>3, <1>4, StepCases

(* The candidate of a release is named once, before it has done anything else. *)
LEMMA CandidateIsFixed ==
    ASSUME ReleaseBase, [ReleaseNext]_orchestrationVars, NEW r \in Releases,
           releaseState[r] \notin {"absent", "planned"}
    PROVE  candidateOf'[r] = candidateOf[r] /\ releaseState'[r] \notin {"absent", "planned"}
<1> RowTypes
  BY DEF ReleaseBase
<1>1. ASSUME NEW p \in Drivers, CommitTakes(p)
      PROVE  candidateOf'[r] = candidateOf[r]
  <2>1. CommitWrites(driver[p], driver[p].release, driver[p].next)
    BY <1>1, CommitEffect
  <2>2. SoundIntention(driver[p])
    BY DEF ReleaseBase, DriversAreSound
  <2> QED
    BY <2>1, <2>2 DEF CommitWrites, SoundIntention, ResumedMoves, RowTypes
<1>2. candidateOf'[r] = candidateOf[r]
  BY <1>1, RowMoves DEF rowColumns, Create
<1>3. releaseState'[r] \notin {"absent", "planned"}
  BY StateCases DEF StateMoves, DriverMoves, ResumedMoves, Marks, Reports, RowTypes
<1> QED
  BY <1>2, <1>3

LEMMA StepKnowsCandidates ==
    ASSUME ReleaseBase, ActivationsInv, [ReleaseNext]_orchestrationVars, CallsKnowTheCandidate
    PROVE  CallsKnowTheCandidate'
<1> StageTypes /\ RowTypes /\ CallsInv
  BY DEF ReleaseBase
<1>1. ASSUME NEW a \in Callers, stage'[a] \in {"preparing", "marking", "routing"}
      PROVE  candidate'[a] = candidateOf'[serving'[a]]
  <2>1. CASE /\ serving'[a] = serving[a] /\ candidate'[a] = candidate[a]
             /\ stage[a] \in {"preparing", "marking", "routing"}
    <3>1. serving[a] \in Releases /\ releaseState[serving[a]] \notin {"absent", "planned"}
      BY <2>1 DEF ActivationsInv, PreparedIsLate, MarkedIsTaken, Early, StageTypes
    <3> QED
      BY <2>1, <3>1, CandidateIsFixed DEF CallsKnowTheCandidate
  <2>2. ASSUME NEW r \in Releases, StartActivation(a, r), Serve(a, r, "preparing"),
               candidate' = [candidate EXCEPT ![a] = candidateOf[r]]
        PROVE  candidate'[a] = candidateOf'[serving'[a]]
    BY <2>2 DEF StartActivation, Serve, StageTypes, CallsInv, CallsTypeOK, releaseVars
  <2>3. CASE UNCHANGED <<serving, stage, candidate>>
    BY <1>1, <2>1, <2>3
  <2>4. ASSUME NEW b \in Callers, Marks(b)
        PROVE  candidate'[a] = candidateOf'[serving'[a]]
    BY <1>1, <2>1, <2>4 DEF Marks, activationVars, callVars, StageTypes
  <2>5. ASSUME NEW b \in Callers, Leave(b), UNCHANGED candidate
        PROVE  candidate'[a] = candidateOf'[serving'[a]]
    BY <1>1, <2>1, <2>5 DEF Leave, Serve, StageTypes
  <2>6. ASSUME NEW b \in Callers, NEW r \in Releases, b # a,
               \/ /\ Serve(b, r, "preparing")
                  /\ candidate' = [candidate EXCEPT ![b] = candidateOf[r]]
               \/ /\ Serve(b, r, "rolling")
                  /\ candidate' = [candidate EXCEPT ![b] = previousOf[r]]
        PROVE  candidate'[a] = candidateOf'[serving'[a]]
    BY <1>1, <2>1, <2>6 DEF Serve, StageTypes, CallsInv, CallsTypeOK
  <2>7. ASSUME NEW r \in Releases, Serve(a, r, "rolling")
        PROVE  FALSE
    BY <1>1, <2>7 DEF Serve, StageTypes
  <2>8. ASSUME NEW b \in Callers, NEW r \in Releases,
               StartActivation(b, r) \/ StartRollback(b, r)
        PROVE  candidate'[a] = candidateOf'[serving'[a]]
    <3>1. /\ StartActivation(b, r) =>
                    /\ Serve(b, r, "preparing")
                    /\ candidate' = [candidate EXCEPT ![b] = candidateOf[r]]
          /\ StartRollback(b, r) =>
                    /\ Serve(b, r, "rolling")
                    /\ candidate' = [candidate EXCEPT ![b] = previousOf[r]]
      BY DEF StartActivation, StartRollback, Prepare
    <3> QED
      BY <2>2, <2>6, <2>7, <2>8, <3>1
  <2>9. \/ UNCHANGED candidate
        \/ \E b \in Callers, r \in Releases : StartActivation(b, r) \/ StartRollback(b, r)
    BY CandidateMoves
  <2> QED
    BY <2>3, <2>4, <2>5, <2>8, <2>9, StageMoves
<1> QED
  BY <1>1 DEF CallsKnowTheCandidate

(* A release is verified by a call that saw the route on the release's own    *)
(* candidate when it looked for the last time, whoever else drives, cancels   *)
(* or activates it.                                                           *)
THEOREM VerifiedReleasesWereConfirmed == ReleaseSafety => VerifiedWasConfirmed
<1>1. ReleaseInit => CallsKnowTheCandidate
  BY DEF ReleaseInit, CallsKnowTheCandidate
<1>2. ReleaseBase /\ ActivationsInv /\ [ReleaseNext]_orchestrationVars => ActivationsInv'
  BY StepActivations
<1>3. /\ ReleaseBase /\ ActivationsInv /\ CallsKnowTheCandidate
      /\ [ReleaseNext]_orchestrationVars
      => CallsKnowTheCandidate'
  BY StepKnowsCandidates
<1>4. ReleaseBase /\ CallsKnowTheCandidate /\ [ReleaseNext]_orchestrationVars =>
          [\A r \in Releases :
               releaseState[r] # "verified" /\ releaseState'[r] = "verified"
                   => \E a \in Callers :
                          /\ serving[a] = r /\ candidate[a] = candidateOf[r]
                          /\ outcome[a] = "verified"]_orchestrationVars
  <2> SUFFICES ASSUME ReleaseBase, CallsKnowTheCandidate, ReleaseNext, NEW r \in Releases,
                      releaseState[r] # "verified", releaseState'[r] = "verified"
               PROVE  \E a \in Callers :
                          /\ serving[a] = r /\ candidate[a] = candidateOf[r]
                          /\ outcome[a] = "verified"
    OBVIOUS
  <2>1. StateMoves(r, "verified")
    BY StateCases DEF StateMoves, ReleaseBase, RowTypes
  <2>2. PICK a \in Callers : serving[a] = r /\ (Marks(a) \/ Reports(a, "verified"))
    BY <2>1 DEF StateMoves, DriverMoves, ResumedMoves
  <2>3. ~Marks(a)
    BY <2>2 DEF Marks, ReleaseBase, RowTypes
  <2> QED
    BY <2>2, <2>3 DEF Reports, CallsKnowTheCandidate
<1> QED
  BY InitReleases, StepReleases, InitActivations, <1>1, <1>2, <1>3, <1>4, PTL
  DEF ReleaseSafety, VerifiedWasConfirmed

-----------------------------------------------------------------------------
(* The way to an activation. *)

(* With more than one driver that resumes, a job may be skipped if there is   *)
(* more than one (run Release_skipped_job).                                   *)
OneAtATime == JobCount <= 1 \/ ~ApiResumes

Done(r, n) == \A j \in JobNumbers : j <= n => jobStatus[r][j] = "ready"

(* The recorded jobs succeeded, and the one at work is the next. *)
JobsInOrder ==
    \A r \in Releases :
        /\ Done(r, Len(completed[r]))
        /\ releaseState[r] = "jobs_running" /\ JobsLeft(r)
               => currentJob[r] = Len(completed[r]) + 1

(* So they did in what a driver read, with the job that it saw succeed. *)
DriversSawJobs ==
    \A p \in Drivers :
        LET it == driver[p]
            r == driver[p].release IN
        /\ it.step = "commit" /\ it.next = "jobs_running" => it.job = Len(it.done) + 1
        /\ it.step = "commit" /\ EndsJob(it) => Done(r, Len(it.done) + 1)
        /\ it.step = "accept" \/ (it.step = "commit" /\ it.next = "accepted") =>
               /\ Done(r, JobCount)
               /\ releaseState[r] \notin {"absent", "planned"}
        /\ it.step = "commit" /\ it.next = "accepted" => candidateOf[r] \in accepted

(* A driver that is alone finds the record as it read it. *)
AloneIsUpToDate ==
    ~ApiResumes =>
        \A p \in Drivers :
            LET it == driver[p] IN
            /\ it.step \in {"accept", "commit"} /\ it.next # "cancelled" => p = Reconciler
            /\ p = Reconciler /\ it.step \in {"accept", "commit"}
                   => it.done = completed[it.release]

Earned(r) == candidateOf[r] \in accepted /\ Done(r, JobCount)

AcceptedIsEarned ==
    \A r \in Releases :
        releaseState[r] \in {"accepted", "awaiting_activation", "activating",
                             "public_verifying", "verified"}
            => Earned(r)

EarnedInv == JobsInOrder /\ DriversSawJobs /\ AloneIsUpToDate /\ AcceptedIsEarned

LEMMA VerdictsOf ==
    ASSUME NEW observed, NEW good, good \notin {"failed", "absent"}
    PROVE  /\ Verdict(observed, good) \in {good, "failed", "absent"}
           /\ Verdict(observed, good) = good => observed = "ready"
  BY DEF Verdict

(* What a driver reads about the jobs. *)
LEMMA ReadingSeesJobs ==
    ASSUME ReleaseBase, NEW p \in Drivers, NEW r \in Releases, Reads(p, r),
           NEW it, TakesUp(p, r, it)
    PROVE  /\ it.step = "commit" /\ it.next = "jobs_running" => it.job = Len(it.done) + 1
           /\ it.step = "commit" /\ EndsJob(it) =>
                  /\ releaseState[r] = "jobs_running" /\ JobsLeft(r)
                  /\ jobStatus[r][currentJob[r]] = "ready"
                  /\ UNCHANGED jobStatus
           /\ it.step = "accept" => ~JobsLeft(r)
           /\ ~(it.step = "commit" /\ it.next = "accepted")
           /\ p # Reconciler => ApiResumes \/ it.next = "cancelled"
<1>1. driver'[p] = it /\ driver \in [Drivers -> Intentions]
  BY DEF TakesUp, ReleaseBase, DriversAreSound
<1>2. CASE RequestCandidate(p, r) \/ AskActivation(p, r)
  BY <1>1, <1>2 DEF RequestCandidate, AskActivation, Intends, Claims, EndsJob
<1>3. CASE ObserveCandidate(p, r)
  <2>1. /\ it.step = "commit" => it.next \in {"candidate_ready", "failed"}
        /\ it.step \in {"idle", "commit"}
        /\ it.step = "commit" => it.seen = "candidate_requested"
    <3> DEFINE next == Verdict(status[candidateOf[r]], "candidate_ready")
    <3>1. next \in {"candidate_ready", "failed", "absent"}
      BY VerdictsOf
    <3>2. IF next = "absent" THEN Yields(p) ELSE Intends(p, "commit", r, NoJob, next)
      BY <1>3 DEF ObserveCandidate
    <3>3. releaseState[r] = "candidate_requested"
      BY <1>3 DEF ObserveCandidate, Picks
    <3> HIDE DEF next
    <3> QED
      BY <1>1, <3>1, <3>2, <3>3 DEF Yields, Resting, Intends
  <2>2. p = Reconciler \/ ApiResumes
    BY <1>3 DEF ObserveCandidate, Claims
  <2> QED
    BY <2>1, <2>2 DEF EndsJob
<1>4. CASE RequestJob(p, r)
  <2>1. Intends(p, "commit", r, Len(completed[r]) + 1, "jobs_running")
    BY <1>4 DEF RequestJob
  <2>2. p = Reconciler \/ ApiResumes
    BY <1>4 DEF RequestJob, Claims
  <2> QED
    BY <1>1, <2>1, <2>2 DEF Intends, EndsJob
<1>5. CASE PrepareAcceptance(p, r)
  <2>1. /\ ~JobsLeft(r)
        /\ \/ Intends(p, "accept", r, NoJob, "absent")
           \/ Intends(p, "commit", r, NoJob, "failed")
           \/ Yields(p)
    BY <1>5 DEF PrepareAcceptance
  <2>2. p = Reconciler \/ ApiResumes
    BY <1>5 DEF PrepareAcceptance, Claims
  <2> QED
    BY <1>1, <2>1, <2>2 DEF Intends, Yields, Resting, EndsJob
<1>6. CASE ObserveJob(p, r)
  <2> DEFINE next == Verdict(jobStatus[r][currentJob[r]], "candidate_ready")
  <2>1. /\ next \in {"candidate_ready", "failed", "absent"}
        /\ next = "candidate_ready" => jobStatus[r][currentJob[r]] = "ready"
    BY VerdictsOf
  <2>2. IF next = "absent" \/ (next = "candidate_ready" /\ ~JobsLeft(r))
        THEN Yields(p) ELSE Intends(p, "commit", r, currentJob[r], next)
    BY <1>6 DEF ObserveJob
  <2>3. /\ p = Reconciler \/ ApiResumes
        /\ releaseState[r] = "jobs_running"
        /\ UNCHANGED jobStatus
    BY <1>6 DEF ObserveJob, Claims, Picks, environmentVars
  <2> HIDE DEF next
  <2> QED
    BY <1>1, <2>1, <2>2, <2>3 DEF Intends, Yields, Resting, EndsJob
<1>7. CASE LeaveAlone(p, r)
  <2>1. p = Reconciler \/ ApiResumes
    BY <1>7 DEF LeaveAlone, Claims
  <2>2. driver[p].step = "idle" /\ driver' = driver
    BY <1>7 DEF LeaveAlone, Picks
  <2> QED
    BY <1>1, <2>1, <2>2 DEF TakesUp
<1>8. CASE CancelRelease(p, r)
  BY <1>1, <1>8 DEF CancelRelease, Intends, EndsJob
<1>9. CASE p = Reconciler /\ ClaimOrphaned(r)
  BY <1>1, <1>9 DEF ClaimOrphaned, Intends, EndsJob
<1> QED
  BY <1>2, <1>3, <1>4, <1>5, <1>6, <1>7, <1>8, <1>9 DEF Reads

LEMMA DoneStays ==
    ASSUME ReleaseBase, [ReleaseNext]_orchestrationVars, NEW r \in Releases, NEW n, Done(r, n)
    PROVE  Done(r, n)'
  BY EnvironmentMoves DEF Done

LEMMA StepJobsInOrder ==
    ASSUME ReleaseBase, [ReleaseNext]_orchestrationVars, OneAtATime, EarnedInv
    PROVE  JobsInOrder'
<1> RowTypes /\ DriversAreSound
  BY DEF ReleaseBase
<1> USE DEF RowTypes, rowColumns
<1>1. ASSUME NEW r \in Releases,
             completed'[r] = completed[r],
             releaseState'[r] = "jobs_running" =>
                 releaseState[r] = "jobs_running" /\ currentJob'[r] = currentJob[r]
      PROVE  /\ Done(r, Len(completed[r]))'
             /\ releaseState'[r] = "jobs_running" /\ JobsLeft(r)'
                    => currentJob'[r] = Len(completed'[r]) + 1
  <2>1. Done(r, Len(completed[r])) /\ Len(completed[r]) \in Nat
    BY DEF EarnedInv, JobsInOrder
  <2>2. Len(completed'[r]) = Len(completed[r])
    BY <1>1
  <2> QED
    BY <1>1, <2>1, <2>2, DoneStays DEF EarnedInv, JobsInOrder, JobsLeft, Done
<1>2. CASE UNCHANGED <<releaseState, rowColumns>>
  BY <1>1, <1>2 DEF JobsInOrder
<1>3. ASSUME NEW s \in Releases, Create(s)
      PROVE  JobsInOrder'
  <2>1. UNCHANGED <<completed, currentJob>>
    BY <1>3 DEF Create
  <2>2. \A r \in Releases : releaseState'[r] = "jobs_running" => releaseState[r] = "jobs_running"
    BY <1>3 DEF Create
  <2> QED
    BY <1>1, <2>1, <2>2 DEF JobsInOrder
<1>4. ASSUME UNCHANGED rowColumns,
             (\E s \in Releases : Blocks(s)) \/ (\E a \in Callers : Marks(a))
                 \/ (\E a \in Callers, next \in ReleaseStates : Reports(a, next))
      PROVE  JobsInOrder'
  <2>1. \A r \in Releases : releaseState'[r] = "jobs_running" => releaseState[r] = "jobs_running"
    BY <1>4 DEF Blocks, Marks, Reports
  <2> QED
    BY <1>1, <1>4, <2>1 DEF JobsInOrder
<1>5. ASSUME NEW p \in Drivers, CommitTakes(p)
      PROVE  JobsInOrder'
  <2> DEFINE it == driver[p]
  <2>1. PICK s \in Releases : s = it.release /\ CommitWrites(it, s, it.next)
    BY <1>5, CommitEffect DEF CommitWrites
  <2>2. SoundIntention(it)
    BY DEF DriversAreSound
  <2>3. ASSUME NEW r \in Releases, r # s
        PROVE  /\ completed'[r] = completed[r] /\ currentJob'[r] = currentJob[r]
               /\ releaseState'[r] = releaseState[r]
    BY <2>1, <2>3 DEF CommitWrites
  <2>4. CASE EndsJob(it)
    <3>1. Done(s, Len(it.done) + 1)
      BY <2>1, <2>4 DEF EarnedInv, DriversSawJobs, CommitWrites
    <3>2. completed'[s] = Append(it.done, it.job) /\ it.done \in Seq(JobNumbers)
      BY <2>1, <2>2, <2>4 DEF CommitWrites, SoundIntention, Intentions
    <3>3. Len(completed'[s]) = Len(it.done) + 1
      BY <3>2
    <3>4. releaseState'[s] = "candidate_ready"
      BY <2>1, <2>4 DEF CommitWrites, EndsJob
    <3>5. \A j \in JobNumbers : j <= Len(it.done) + 1 => jobStatus'[s][j] = "ready"
      BY <2>1, <3>1, EnvironmentMoves DEF Done
    <3>6. Done(s, Len(completed[s]))'
      BY <3>3, <3>5 DEF Done
    <3> QED
      BY <1>1, <2>3, <3>4, <3>6 DEF JobsInOrder
  <2>5. CASE ~EndsJob(it) /\ it.next # "jobs_running"
    <3>1. UNCHANGED <<completed, currentJob>> /\ releaseState'[s] # "jobs_running"
      BY <2>1, <2>5 DEF CommitWrites
    <3> QED
      BY <1>1, <2>3, <3>1 DEF JobsInOrder
  <2>6. CASE it.next = "jobs_running"
    <3>1. UNCHANGED completed /\ currentJob'[s] = it.job /\ s \in Releases
      BY <2>1, <2>6 DEF CommitWrites, EndsJob
    <3>2. it.step = "commit" /\ it.job = Len(it.done) + 1 /\ it.job \in JobNumbers
      BY <2>1, <2>2, <2>6 DEF CommitWrites, SoundIntention, EarnedInv, DriversSawJobs
    <3>3. Len(completed[s]) < JobCount => it.job = Len(completed[s]) + 1
      <4>1. CASE ~ApiResumes
        BY <2>1, <2>6, <3>2, <4>1 DEF EarnedInv, AloneIsUpToDate
      <4>2. CASE JobCount <= 1
        BY <3>1, <3>2, <4>2, ReleaseAssumption DEF JobNumbers
      <4> QED
        BY <4>1, <4>2 DEF OneAtATime
    <3>4. Done(s, Len(completed[s]))' /\ Len(completed'[s]) = Len(completed[s])
      BY <3>1, DoneStays DEF EarnedInv, JobsInOrder, Done
    <3>5. JobsLeft(s)' => currentJob'[s] = Len(completed'[s]) + 1
      BY <3>1, <3>3 DEF JobsLeft
    <3> QED
      BY <1>1, <2>3, <3>1, <3>4, <3>5 DEF JobsInOrder
  <2> QED
    BY <2>4, <2>5, <2>6
<1> QED
  BY <1>2, <1>3, <1>4, <1>5, RowMoves

(* An acceptance is remembered of the candidate that was checked. *)
LEMMA AcceptanceIsRecorded ==
    ASSUME ReleaseBase, NEW p \in Drivers, Accept(p), driver'[p].next = "accepted"
    PROVE  candidateOf[driver[p].release] \in accepted'
<1>1. \/ accepted' = accepted \union {candidateOf[driver[p].release]}
      \/ driver' = [driver EXCEPT ![p].step = "commit", ![p].next = "failed"]
  BY Zenon DEF Accept
<1>2. [driver EXCEPT ![p].step = "commit", ![p].next = "failed"]
          = [driver EXCEPT ![p] = AcceptedAs(driver[p], "failed")]
  BY DEF ReleaseBase, DriversAreSound, Intentions, AcceptedAs
<1>3. AcceptedAs(driver[p], "failed").next = "failed"
  BY DEF ReleaseBase, DriversAreSound, Intentions, AcceptedAs
<1>4. driver' # [driver EXCEPT ![p] = AcceptedAs(driver[p], "failed")]
  BY <1>3 DEF ReleaseBase, DriversAreSound
<1> QED
  BY <1>1, <1>2, <1>4

LEMMA StepSawJobs ==
    ASSUME ReleaseBase, [ReleaseNext]_orchestrationVars, EarnedInv
    PROVE  DriversSawJobs'
<1> DriversAreSound /\ RowTypes
  BY DEF ReleaseBase
<1> DEFINE Saw(it) ==
        /\ it.step = "commit" /\ it.next = "jobs_running" => it.job = Len(it.done) + 1
        /\ it.step = "commit" /\ EndsJob(it) =>
               \A j \in JobNumbers : j <= Len(it.done) + 1 => jobStatus'[it.release][j] = "ready"
        /\ it.step = "accept" \/ (it.step = "commit" /\ it.next = "accepted") =>
               /\ \A j \in JobNumbers : j <= JobCount => jobStatus'[it.release][j] = "ready"
               /\ releaseState'[it.release] \notin {"absent", "planned"}
        /\ it.step = "commit" /\ it.next = "accepted" => candidateOf'[it.release] \in accepted'
<1>1. ASSUME NEW p \in Drivers
      PROVE  Saw(driver[p])
  <2> DEFINE it == driver[p]
  <2>1. CASE it.step = "idle" \/ it.step = "block"
    BY <2>1
  <2>2. CASE it.step \in {"accept", "commit"}
    <3>1. it.release \in Releases
      BY <2>2 DEF DriversAreSound, SoundIntention
    <3>2. PICK r \in Releases : r = it.release
      BY <3>1
    <3>3. \A n : Done(r, n) => \A j \in JobNumbers : j <= n => jobStatus'[r][j] = "ready"
      BY EnvironmentMoves DEF Done
    <3>4. releaseState[r] \notin {"absent", "planned"} =>
              candidateOf'[r] = candidateOf[r] /\ releaseState'[r] \notin {"absent", "planned"}
      BY CandidateIsFixed
    <3> QED
      BY <2>2, <3>2, <3>3, <3>4, EnvironmentMoves DEF EarnedInv, DriversSawJobs
  <2> QED
    BY <2>1, <2>2 DEF DriversAreSound, SoundIntention, Intentions
<1>2. Saw(Resting)
  BY DEF Resting
<1>3. ASSUME NEW p \in Drivers, NEW next \in {"accepted", "failed"}, Accept(p),
             driver' = [driver EXCEPT ![p] = AcceptedAs(driver[p], next)]
      PROVE  Saw(AcceptedAs(driver[p], next))
  <2>1. driver[p].step = "accept" /\ driver[p].seen = "candidate_ready"
    BY <1>3 DEF Accept, DriversAreSound, SoundIntention
  <2>2. /\ AcceptedAs(driver[p], next).step = "commit"
        /\ AcceptedAs(driver[p], next).next = next
        /\ AcceptedAs(driver[p], next).seen = "candidate_ready"
        /\ AcceptedAs(driver[p], next).release = driver[p].release
    BY <2>1 DEF AcceptedAs, DriversAreSound, Intentions
  <2>3. next = "accepted" => candidateOf[driver[p].release] \in accepted'
    BY <1>3, <2>2, AcceptanceIsRecorded DEF DriversAreSound
  <2>4. candidateOf' = candidateOf
    BY <1>3 DEF Accept, releaseVars
  <2>5. Saw(driver[p])
    BY <1>1
  <2> HIDE DEF Saw
  <2>6. /\ \A j \in JobNumbers : j <= JobCount => jobStatus'[driver[p].release][j] = "ready"
        /\ releaseState'[driver[p].release] \notin {"absent", "planned"}
    BY <2>1, <2>5 DEF Saw
  <2> QED
    BY <2>2, <2>3, <2>4, <2>6 DEF Saw, EndsJob
<1>4. ASSUME NEW p \in Drivers, NEW r \in Releases, NEW it, Reads(p, r), TakesUp(p, r, it)
      PROVE  Saw(it)
  <2>1. /\ it.release = r /\ it.seen = releaseState[r] /\ it.done = completed[r]
        /\ SoundIntention(it)
    BY <1>4 DEF TakesUp
  <2>2. UNCHANGED <<releaseState, candidateOf, completed>> /\ Len(completed[r]) \in Nat
    BY <1>4, ReadingIsSound DEF RowTypes
  <2>3. ASSUME it.step = "commit", EndsJob(it), NEW j \in JobNumbers, j <= Len(it.done) + 1
        PROVE  jobStatus'[r][j] = "ready"
    <3>1. /\ releaseState[r] = "jobs_running" /\ JobsLeft(r) /\ UNCHANGED jobStatus
          /\ jobStatus[r][currentJob[r]] = "ready"
      BY <1>4, <2>3, ReadingSeesJobs
    <3>2. currentJob[r] = Len(completed[r]) + 1 /\ Done(r, Len(completed[r]))
      BY <3>1 DEF EarnedInv, JobsInOrder
    <3> QED
      BY <2>1, <2>2, <2>3, <3>1, <3>2 DEF Done, JobNumbers
  <2>4. ASSUME it.step = "accept"
        PROVE  /\ \A j \in JobNumbers : j <= JobCount => jobStatus'[r][j] = "ready"
               /\ releaseState'[r] \notin {"absent", "planned"}
    <3>1. ~JobsLeft(r)
      BY <1>4, <2>4, ReadingSeesJobs
    <3>2. Done(r, Len(completed[r]))
      BY DEF EarnedInv, JobsInOrder
    <3>3. \A j \in JobNumbers : j <= JobCount => jobStatus[r][j] = "ready"
      BY <2>2, <3>1, <3>2, ReleaseAssumption DEF JobsLeft, Done, JobNumbers
    <3> QED
      BY <2>1, <2>2, <2>4, <3>3, EnvironmentMoves DEF SoundIntention
  <2>5. /\ it.step = "commit" /\ it.next = "jobs_running" => it.job = Len(it.done) + 1
        /\ ~(it.step = "commit" /\ it.next = "accepted")
    BY <1>4, ReadingSeesJobs
  <2> QED
    BY <2>1, <2>3, <2>4, <2>5
<1> HIDE DEF Saw
<1>5. \A p \in Drivers : Saw(driver'[p])
  BY <1>1, <1>2, <1>3, <1>4, DriverCases DEF DriversAreSound, TakesUp
<1> QED
  BY <1>5 DEF Saw, DriversSawJobs, Done

LEMMA StepAlone ==
    ASSUME ReleaseBase, [ReleaseNext]_orchestrationVars, EarnedInv
    PROVE  AloneIsUpToDate'
<1> SUFFICES ASSUME ~ApiResumes, NEW p \in Drivers
             PROVE  /\ driver'[p].step \in {"accept", "commit"} /\ driver'[p].next # "cancelled"
                           => p = Reconciler
                    /\ p = Reconciler /\ driver'[p].step \in {"accept", "commit"}
                           => driver'[p].done = completed'[driver'[p].release]
  BY DEF AloneIsUpToDate
<1> DriversAreSound /\ RowTypes
  BY DEF ReleaseBase
<1>1. ASSUME NEW q \in Drivers, CommitTakes(q), completed' # completed
      PROVE  q = Reconciler /\ driver'[q] = Resting
  <2>1. CommitWrites(driver[q], driver[q].release, driver[q].next)
    BY <1>1, CommitEffect
  <2>2. driver[q].step = "commit" /\ driver[q].next = "candidate_ready"
    BY <1>1, <2>1 DEF CommitWrites, EndsJob
  <2>3. driver' = [driver EXCEPT ![q] = Resting]
    BY <1>1, Zenon DEF CommitTakes, Commit, Yields
  <2> QED
    BY <2>2, <2>3 DEF EarnedInv, AloneIsUpToDate, DriversAreSound
<1>2. completed' = completed \/ driver'[Reconciler] = Resting
  BY <1>1, RowMoves DEF rowColumns, Create
<1>3. CASE driver'[p] = Resting
  BY <1>3 DEF Resting
<1>4. CASE driver'[p] = driver[p]
  BY <1>2, <1>3, <1>4 DEF EarnedInv, AloneIsUpToDate
<1>5. ASSUME NEW next \in {"accepted", "failed"}, Accept(p),
             driver' = [driver EXCEPT ![p] = AcceptedAs(driver[p], next)]
      PROVE  p = Reconciler /\ driver'[p].done = completed'[driver'[p].release]
  <2>1. driver[p].step = "accept" /\ completed' = completed
    BY <1>5 DEF Accept, releaseVars
  <2>2. driver[p].next # "cancelled"
    BY <2>1 DEF DriversAreSound, SoundIntention
  <2>3. /\ AcceptedAs(driver[p], next).done = driver[p].done
        /\ AcceptedAs(driver[p], next).release = driver[p].release
    BY DEF AcceptedAs, DriversAreSound, Intentions
  <2> QED
    BY <1>5, <2>1, <2>2, <2>3 DEF EarnedInv, AloneIsUpToDate, DriversAreSound
<1>6. ASSUME NEW r \in Releases, NEW it, Reads(p, r), TakesUp(p, r, it)
      PROVE  /\ p # Reconciler => driver'[p].next = "cancelled"
             /\ driver'[p].done = completed'[driver'[p].release]
  <2>1. driver'[p] = it /\ it.release = r /\ it.done = completed[r]
    BY <1>6 DEF TakesUp, DriversAreSound
  <2>2. completed' = completed
    BY <1>6, ReadingIsSound
  <2> QED
    BY <1>6, <2>1, <2>2, ReadingSeesJobs
<1>7. ASSUME NEW q \in Drivers, q # p, NEW it, driver' = [driver EXCEPT ![q] = it]
      PROVE  driver'[p] = driver[p]
  BY <1>7 DEF DriversAreSound
<1>8. ASSUME driver' = [driver EXCEPT ![p] = Resting]
      PROVE  driver'[p] = Resting
  BY <1>8 DEF DriversAreSound
<1> QED
  BY <1>3, <1>4, <1>5, <1>6, <1>7, <1>8, DriverCases DEF TakesUp

LEMMA StepAccepted ==
    ASSUME ReleaseBase, [ReleaseNext]_orchestrationVars, EarnedInv
    PROVE  AcceptedIsEarned'
<1> DriversAreSound /\ RowTypes
  BY DEF ReleaseBase
<1> DEFINE Late == {"accepted", "awaiting_activation", "activating", "public_verifying",
                    "verified"}
<1> SUFFICES ASSUME NEW r \in Releases, releaseState'[r] \in Late
             PROVE  candidateOf'[r] \in accepted' /\ Done(r, JobCount)'
  BY DEF AcceptedIsEarned, Earned
<1>1. CASE releaseState[r] \in Late
  <2>1. candidateOf[r] \in accepted /\ Done(r, JobCount)
    BY <1>1 DEF EarnedInv, AcceptedIsEarned, Earned
  <2>2. candidateOf'[r] = candidateOf[r]
    BY <1>1, CandidateIsFixed
  <2> QED
    BY <2>1, <2>2, DoneStays, EnvironmentMoves
<1>2. CASE releaseState[r] \notin Late
  <2>1. ASSUME NEW p \in Drivers, CommitTakes(p)
        PROVE  candidateOf'[r] \in accepted' /\ Done(r, JobCount)'
    <3> DEFINE it == driver[p]
    <3>1. CommitWrites(it, it.release, it.next)
      BY <2>1, CommitEffect
    <3>2. SoundIntention(it)
      BY DEF DriversAreSound
    <3>3. r = it.release /\ it.step = "commit" /\ it.next = "accepted"
      BY <1>2, <3>1, <3>2 DEF CommitWrites, SoundIntention, ResumedMoves
    <3>4. Done(r, JobCount) /\ candidateOf[r] \in accepted
      BY <3>3 DEF EarnedInv, DriversSawJobs
    <3>5. candidateOf' = candidateOf
      BY <3>1, <3>3 DEF CommitWrites
    <3> QED
      BY <3>4, <3>5, DoneStays, EnvironmentMoves
  <2>2. ASSUME NEW s \in Releases, Create(s) \/ Blocks(s)
        PROVE  releaseState'[r] \notin Late
    BY <1>2, <2>2 DEF Create, Blocks, RowTypes
  <2>3. ASSUME NEW a \in Callers, Marks(a)
        PROVE  releaseState'[r] \notin Late
    BY <1>2, <2>3 DEF Marks, RowTypes
  <2>4. ASSUME NEW a \in Callers, NEW next \in ReleaseStates, Reports(a, next)
        PROVE  releaseState'[r] \notin Late
    BY <1>2, <2>4 DEF Reports, RowTypes
  <2> QED
    BY <1>2, <2>1, <2>2, <2>3, <2>4, RowMoves
<1> QED
  BY <1>1, <1>2

(* A release is accepted, activated and verified only with a candidate that   *)
(* passed its checks and with every job it requires run successfully, if its  *)
(* drivers cannot overtake each other between two jobs: there is one that     *)
(* resumes releases, or there are no two jobs.  Without that a job may be     *)
(* skipped.                                                                   *)
THEOREM ActivationsAreEarned ==
    ASSUME JobCount <= 1 \/ ~ApiResumes
    PROVE  ReleaseSafety => []ActivationIsEarned
<1>1. OneAtATime
  BY DEF OneAtATime
<1>2. ReleaseInit => EarnedInv
  BY DEF ReleaseInit, EarnedInv, JobsInOrder, DriversSawJobs, AloneIsUpToDate,
     AcceptedIsEarned, Resting, Done, JobNumbers
<1>3. ReleaseBase /\ EarnedInv /\ [ReleaseNext]_orchestrationVars => EarnedInv'
  BY <1>1, StepJobsInOrder, StepSawJobs, StepAlone, StepAccepted DEF EarnedInv
<1>4. EarnedInv => ActivationIsEarned
  BY ReleaseAssumption
  DEF EarnedInv, AcceptedIsEarned, Earned, Done, ActivationIsEarned, JobNumbers
<1> QED
  BY InitReleases, StepReleases, <1>2, <1>3, <1>4, PTL DEF ReleaseSafety

=============================================================================
