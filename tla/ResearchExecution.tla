--------------------------- MODULE ResearchExecution ---------------------------
(***************************************************************************)
(* The queue of isolated research computations: the researcher's calls     *)
(* (services/research_execution.py), the claim in the database             *)
(* (app.claim_next_research_execution) and the executor processes          *)
(* (research_executor.py), which share the job's directory of outputs.     *)
(***************************************************************************)
EXTENDS Naturals, FiniteSets

CONSTANTS
    Computations,      \* rows of research.execution_jobs, all of one research run
    NoComputation,
    Workers,   \* executor processes
    MaxWorkerDeaths,   \* bound: workers that die, or fall silent at work
    MaxWorkerStops     \* bound: workers told to stop (SIGTERM)

ASSUME ResearchAssumption ==
    /\ NoComputation \notin Computations
    /\ MaxWorkerDeaths \in Nat /\ MaxWorkerStops \in Nat

VARIABLES
    computation,    \* status of each job, "none" before the INSERT
    cancelAsked,    \* jobs with cancel_requested_at
    silent,         \* jobs whose heartbeat_at is older than five minutes
    outputs,        \* the job's outputs directory
    artifactRows,   \* jobs with rows in research.execution_artifacts
    researchRun,    \* status of the research run the jobs belong to
    stage,          \* where each worker is in execute, or the outcome it has to report
    atWork,         \* the job it has in hand
    overslept,      \* history: jobs whose heartbeat grew old while a worker was at work
    workerDeaths,
    workerStops

jobRow == <<computation, cancelAsked, silent, artifactRows, researchRun>>
researchVars == <<jobRow, outputs, stage, atWork, overslept, workerDeaths, workerStops>>

Ended == {"succeeded", "failed", "cancelled", "timed_out"}

ResearchTypeOK ==
    /\ computation \in [Computations -> {"none", "queued", "preparing", "running"} \union Ended]
    /\ cancelAsked \union silent \union artifactRows \union overslept \subseteq Computations
    /\ outputs \in [Computations -> {"absent", "empty", "written"}]
    /\ researchRun \in {"open", "completed", "failed"}
    /\ stage \in [Workers ->
           {"idle", "claimed", "read", "prepared", "running", "broken"} \union Ended]
    /\ atWork \in [Workers -> Computations \union {NoComputation}]
    /\ \A w \in Workers : (stage[w] = "idle") = (atWork[w] = NoComputation)
    /\ workerDeaths \in 0 .. MaxWorkerDeaths
    /\ workerStops \in 0 .. MaxWorkerStops

ResearchInit ==
    /\ computation = [j \in Computations |-> "none"]
    /\ cancelAsked = {} /\ silent = {} /\ artifactRows = {} /\ overslept = {}
    /\ outputs = [j \in Computations |-> "absent"]
    /\ researchRun = "open"
    /\ stage = [w \in Workers |-> "idle"]
    /\ atWork = [w \in Workers |-> NoComputation]
    /\ workerDeaths = 0 /\ workerStops = 0

Enter(w, s) == stage' = [stage EXCEPT ![w] = s]

PutDown(w) ==
    /\ Enter(w, "idle")
    /\ atWork' = [atWork EXCEPT ![w] = NoComputation]

-----------------------------------------------------------------------------
(* create_execution, and retry_execution of another job: the inputs are    *)
(* copied, then the row is inserted.                                       *)
CreateExecution(j) ==
    /\ computation[j] = "none"
    /\ computation' = [computation EXCEPT ![j] = "queued"]
    /\ UNCHANGED <<cancelAsked, silent, artifactRows, researchRun, outputs, stage, atWork,
                   overslept, workerDeaths, workerStops>>

(* cancel_execution reads the job in a transaction of its own; a job that  *)
(* runs is left to its worker.                                             *)
CancelExecution(j) ==
    /\ computation[j] \notin {"none"} \union Ended
    /\ cancelAsked' = cancelAsked \union {j}
    /\ computation' = IF computation[j] \in {"queued", "preparing"}
                      THEN [computation EXCEPT ![j] = "cancelled"] ELSE computation
    /\ UNCHANGED <<silent, artifactRows, researchRun, outputs, stage, atWork, overslept,
                   workerDeaths, workerStops>>

-----------------------------------------------------------------------------
(* Mutant: a job at work is claimed however recent its heartbeat is. *)
ClaimableWhileAlive(j) == computation[j] \in {"queued", "preparing", "running"}

Claimable(j) ==
    \/ computation[j] = "queued"
    \/ computation[j] \in {"preparing", "running"} /\ j \in silent

(* app.claim_next_research_execution skips locked rows, so that any of the *)
(* claimable jobs may be taken.                                            *)
ClaimExecution(w, j) ==
    /\ stage[w] = "idle"
    /\ Claimable(j)
    /\ computation' = [computation EXCEPT ![j] = "preparing"]
    /\ silent' = silent \ {j}
    /\ Enter(w, "claimed")
    /\ atWork' = [atWork EXCEPT ![w] = j]
    /\ UNCHANGED <<cancelAsked, artifactRows, researchRun, outputs, overslept,
                   workerDeaths, workerStops>>

CancelledBeforeStart(j) == computation[j] = "cancelled" \/ j \in cancelAsked

(* _job. *)
ReadExecution(w) ==
    /\ stage[w] = "claimed"
    /\ IF CancelledBeforeStart(atWork[w])
       THEN /\ computation' = [computation EXCEPT ![atWork[w]] = "cancelled"]
            /\ PutDown(w)
       ELSE /\ Enter(w, "read")
            /\ UNCHANGED <<computation, atWork>>
    /\ UNCHANGED <<cancelAsked, silent, artifactRows, researchRun, outputs, overslept,
                   workerDeaths, workerStops>>

(* execute: the outputs of an earlier attempt are removed ... *)
PrepareOutputs(w) ==
    /\ stage[w] = "read"
    /\ \/ /\ outputs' = [outputs EXCEPT ![atWork[w]] = "empty"]
          /\ Enter(w, "prepared")
       \/ /\ Enter(w, "broken")
          /\ UNCHANGED outputs
    /\ UNCHANGED <<jobRow, atWork, overslept, workerDeaths, workerStops>>

(* ... the job is marked as running, whatever its row says by now ...      *)
StartProcess(w) ==
    /\ stage[w] = "prepared"
    /\ computation' = [computation EXCEPT ![atWork[w]] = "running"]
    /\ silent' = silent \ {atWork[w]}
    /\ Enter(w, "running")
    /\ UNCHANGED <<cancelAsked, artifactRows, researchRun, outputs, atWork, overslept,
                   workerDeaths, workerStops>>

(* ... the process ends, in time or not, maybe before the worker polled    *)
(* once, and what it wrote is collected, unless it is too much ...         *)
ProcessEnds(w) ==
    /\ stage[w] = "running"
    /\ \E outcome \in {"succeeded", "failed", "timed_out", "broken"}, wrote \in BOOLEAN :
        /\ outcome = "succeeded" => wrote
        /\ Enter(w, outcome)
        /\ outputs' = IF wrote THEN [outputs EXCEPT ![atWork[w]] = "written"] ELSE outputs
    /\ UNCHANGED <<jobRow, atWork, overslept, workerDeaths, workerStops>>

(* ... or the worker stops it, on request or because it has to stop itself; *)
(* what was written until then is collected too, unless it is too much.     *)
(* Every poll is a heartbeat.                                               *)
PollProcess(w) ==
    /\ stage[w] = "running"
    /\ silent' = silent \ {atWork[w]}
    /\ \/ /\ atWork[w] \in silent
          /\ UNCHANGED <<stage, outputs, workerStops>>
       \/ /\ \/ atWork[w] \in cancelAsked /\ workerStops' = workerStops
             \/ workerStops < MaxWorkerStops /\ workerStops' = workerStops + 1
          /\ \E outcome \in {"cancelled", "broken"} : Enter(w, outcome)
          /\ \/ UNCHANGED outputs
             \/ outputs' = [outputs EXCEPT ![atWork[w]] = "written"]
    /\ UNCHANGED <<computation, cancelAsked, artifactRows, researchRun, atWork, overslept,
                   workerDeaths>>

RunStatus(outcome) == IF outcome = "succeeded" THEN "completed" ELSE "failed"

Outcome(w) == IF stage[w] = "broken" THEN "failed" ELSE stage[w]

(* ... and _finish records what it was, whatever the row says by now.      *)
FinishExecution(w) ==
    /\ stage[w] \in Ended \union {"broken"}
    /\ computation' = [computation EXCEPT ![atWork[w]] = Outcome(w)]
    /\ artifactRows' = IF stage[w] # "broken" /\ outputs[atWork[w]] = "written"
                       THEN artifactRows \union {atWork[w]} ELSE artifactRows
    /\ researchRun' = RunStatus(Outcome(w))
    /\ silent' = silent \ {atWork[w]}
    /\ PutDown(w)
    /\ UNCHANGED <<cancelAsked, outputs, overslept, workerDeaths, workerStops>>

WorkerDies(w) ==
    /\ stage[w] # "idle"
    /\ workerDeaths < MaxWorkerDeaths
    /\ workerDeaths' = workerDeaths + 1
    /\ PutDown(w)
    /\ UNCHANGED <<jobRow, outputs, overslept, workerStops>>

(* The heartbeat of a job whose worker is gone grows old, ... *)
FallsSilent(j) ==
    /\ computation[j] \in {"preparing", "running"}
    /\ j \notin silent
    /\ \A w \in Workers : atWork[w] # j
    /\ silent' = silent \union {j}
    /\ UNCHANGED <<computation, cancelAsked, artifactRows, researchRun, outputs, stage, atWork,
                   overslept, workerDeaths, workerStops>>

(* ... and so does that of a worker that prepares, or collects, for longer   *)
(* than five minutes.                                                        *)
Oversleeps(j) ==
    /\ computation[j] \in {"preparing", "running"}
    /\ j \notin silent
    /\ \E w \in Workers : atWork[w] = j
    /\ workerDeaths < MaxWorkerDeaths
    /\ workerDeaths' = workerDeaths + 1
    /\ silent' = silent \union {j}
    /\ overslept' = overslept \union {j}
    /\ UNCHANGED <<computation, cancelAsked, artifactRows, researchRun, outputs, stage, atWork,
                   workerStops>>

-----------------------------------------------------------------------------
ResearchWorkerStep(w) ==
    \/ \E j \in Computations : ClaimExecution(w, j)
    \/ ReadExecution(w)
    \/ PrepareOutputs(w)
    \/ StartProcess(w)
    \/ ProcessEnds(w)
    \/ PollProcess(w)
    \/ FinishExecution(w)

ResearchNext ==
    \/ \E j \in Computations : CreateExecution(j) \/ CancelExecution(j) \/ FallsSilent(j)
                                     \/ Oversleeps(j)
    \/ \E w \in Workers : ResearchWorkerStep(w) \/ WorkerDies(w)

ResearchSpec ==
    /\ ResearchInit /\ [][ResearchNext]_researchVars
    /\ \A w \in Workers : WF_researchVars(ResearchWorkerStep(w))
    /\ \A j \in Computations : WF_researchVars(FallsSilent(j))

-----------------------------------------------------------------------------
(* Properties of research executions. *)

(* compose.production.yaml runs one executor. *)
OneResearcher == \A v, w \in Workers : v = w

(* A cancellation the worker has not seen: it had read the job before. *)
Overlooked(j) ==
    /\ computation[j] = "cancelled"
    /\ \E w \in Workers : atWork[w] = j /\ stage[w] # "claimed"

(* What ended stays ended, a cancellation above all.  One exception is the   *)
(* worker that had read the job before it was cancelled: it goes on to mark  *)
(* it as running, and may report that it succeeded.  The other, among        *)
(* several executors only, is a job taken over from one that was slow and    *)
(* not dead.                                                                 *)
EndedExecutionsStay ==
    [][\A j \in Computations :
           /\ computation[j] \in Ended
           /\ ~Overlooked(j)
           /\ OneResearcher \/ j \notin overslept
           => computation'[j] = computation[j]]_researchVars

(* Every computation ends, although workers die and a dead worker's job is *)
(* only noticed by its silence.                                            *)
ExecutionsEnd ==
    \A j \in Computations :
        computation[j] \in {"queued", "preparing", "running"} ~> computation[j] \in Ended

=============================================================================
