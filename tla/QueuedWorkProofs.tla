-------------------------- MODULE QueuedWorkProofs --------------------------
(***************************************************************************)
(* Theorems about the components of MCQueuedWork in which something is     *)
(* asked for, is done by somebody else and ends once: scale to zero,       *)
(* resumable uploads, research computations and remote runs (confirmed     *)
(* actions have a module of their own), for every number of services,      *)
(* uploads, verifiers, jobs, workers and connections.                      *)
(***************************************************************************)
EXTENDS MCQueuedWork, ConfirmationProofs, SequenceTheorems, FiniteSetTheorems

-----------------------------------------------------------------------------
(* Scale to zero.                                                            *)

(* The controller has a service in hand in the four passes that start or     *)
(* stop one.                                                                 *)
HasCurrent == pass \in {"starting", "probing", "stopping", "marking"} => current \in Services

(* While its containers are started the service only waits to be woken;      *)
(* while they are stopped it is being suspended, or was asked for meanwhile: *)
(* no request makes a service running, or suspended.                         *)
CurrentIsChanging ==
    /\ pass \in {"starting", "probing"} => state[current] \in {"waking", "wake_requested"}
    /\ pass \in {"stopping", "marking"} => state[current] \in {"suspending", "wake_requested"}
    /\ pass = "marking" => ~up[current]

(* The names the orphan pass has read hold every service that runs by now.   *)
RunningAreResident ==
    pass = "reaping" =>
        \A s \in Services : status[s] = "ready" /\ state[s] = "running" => s \in resident

LifecycleInv ==
    /\ LifecycleTypeOK
    /\ HasCurrent
    /\ CurrentIsChanging
    /\ RunningAreResident
    /\ RowsMatchEngine

LEMMA LifecycleStarts == LifecycleInit => LifecycleInv
  BY LifecycleAssumption
  DEF LifecycleInit, LifecycleInv, LifecycleTypeOK, States, Passes, NoService, HasCurrent,
      CurrentIsChanging, RunningAreResident, RowsMatchEngine

LEMMA RequestsKeepLifecycle ==
    ASSUME LifecycleInv, NEW s \in Services,
           GatewayRequest(s) \/ CandidateWake(s) \/ GoesIdle(s) \/ Repair(s)
               \/ ContainersVanish(s)
    PROVE  LifecycleInv'
<1> USE LifecycleAssumption
    DEF LifecycleInv, LifecycleTypeOK, HasCurrent, CurrentIsChanging, RunningAreResident,
        RowsMatchEngine, engineVars, loopVars, boundVars, rowVars
<1>1. CASE GatewayRequest(s)
  <2>1. /\ state' = [state EXCEPT ![s] = state'[s]]
        /\ state'[s] \in {state[s], "wake_requested"}
        /\ state'[s] \in States
        /\ state'[s] # state[s] => state[s] \in {"suspended", "suspending", "error"}
    BY <1>1 DEF GatewayRequest, SetState, WokenByRequest, States
  <2> HIDE DEF States
  <2>2. recent' \in [Services -> BOOLEAN] /\ state' \in [Services -> States]
    BY <1>1, <2>1 DEF GatewayRequest
  <2> QED
    BY <1>1, <2>1, <2>2 DEF GatewayRequest
<1>2. CASE CandidateWake(s)
  <2>1. state' = [state EXCEPT ![s] = "wake_requested"] /\ "wake_requested" \in States
    BY <1>2 DEF CandidateWake, SetState, States
  <2> QED
    BY <1>2, <2>1 DEF CandidateWake
<1>3. CASE GoesIdle(s)
  BY <1>3 DEF GoesIdle
<1>4. CASE Repair(s)
  BY <1>4 DEF Repair
<1>5. CASE ContainersVanish(s)
  BY <1>5 DEF ContainersVanish
<1> QED
  BY <1>1, <1>2, <1>3, <1>4, <1>5

LEMMA LoopKeepsLifecycle ==
    ASSUME LifecycleInv, ControllerLoop \/ Crash
    PROVE  LifecycleInv'
<1> USE LifecycleAssumption
    DEF LifecycleInv, LifecycleTypeOK, HasCurrent, CurrentIsChanging, RunningAreResident,
        RowsMatchEngine, engineVars, loopVars, boundVars, rowVars, Goto, SetState
<1>1. CASE Scan
  BY <1>1 DEF Scan, Passes
<1>2. CASE BeginWake
  <2>1. PICK s \in toWake :
           /\ toWake' = toWake \ {s}
           /\ IF state[s] \in {"wake_requested", "waking"}
              THEN SetState(s, "waking") /\ current' = s /\ Goto("starting")
              ELSE UNCHANGED <<state, current, pass>>
    BY <1>2 DEF BeginWake
  <2>2. pass = "lifecycle" /\ s \in Services
        /\ UNCHANGED <<status, recent, exists, up, toSuspend, resident, wakes, faults>>
    BY <1>2 DEF BeginWake
  <2>3. CASE state[s] \in {"wake_requested", "waking"}
    <3>1. /\ state' = [state EXCEPT ![s] = "waking"] /\ current' = s /\ pass' = "starting"
          /\ "waking" \in States /\ "starting" \in Passes
      BY <2>1, <2>3 DEF States, Passes
    <3> QED
      BY <2>1, <2>2, <3>1
  <2>4. CASE state[s] \notin {"wake_requested", "waking"}
    BY <2>1, <2>2, <2>4
  <2> QED
    BY <2>3, <2>4
<1>3. CASE BeginSuspend
  <2>1. PICK s \in toSuspend :
           /\ toSuspend' = toSuspend \ {s}
           /\ IF Idle(s)
              THEN SetState(s, "suspending") /\ current' = s /\ Goto("stopping")
              ELSE UNCHANGED <<state, current, pass>>
    BY <1>3 DEF BeginSuspend
  <2>2. pass = "lifecycle" /\ s \in Services
        /\ UNCHANGED <<status, recent, exists, up, toWake, resident, wakes, faults>>
    BY <1>3 DEF BeginSuspend
  <2>3. CASE Idle(s)
    <3>1. /\ state' = [state EXCEPT ![s] = "suspending"] /\ current' = s
          /\ pass' = "stopping" /\ "suspending" \in States /\ "stopping" \in Passes
      BY <2>1, <2>3 DEF States, Passes
    <3> QED
      BY <2>1, <2>2, <3>1
  <2>4. CASE ~Idle(s)
    BY <2>1, <2>2, <2>4
  <2> QED
    BY <2>3, <2>4
<1>4. CASE StartStoppedContainers
  BY <1>4 DEF StartStoppedContainers, Passes
<1>5. CASE WakeRaises \/ StopRaises
  <2>1. /\ pass \in {"starting", "probing", "stopping"}
        /\ state' = [state EXCEPT ![current] =
               IF state[current] \in {"waking", "suspending"} THEN "error" ELSE state[current]]
        /\ pass' = "lifecycle"
        /\ UNCHANGED <<status, recent, exists, up, toWake, toSuspend, current, resident,
                       wakes, faults>>
        /\ "lifecycle" \in Passes /\ "error" \in States
    BY <1>5 DEF WakeRaises, StopRaises, RecordError, AfterError, Passes, States
  <2> QED
    BY <2>1
<1>6. CASE FinishWake
  <2>1. /\ pass = "probing" /\ up[current] /\ pass' = "lifecycle"
        /\ \/ state' = [state EXCEPT ![current] = "running"]
           \/ state' = state
        /\ recent' \in {recent, [recent EXCEPT ![current] = TRUE]}
        /\ UNCHANGED <<status, exists, up, toWake, toSuspend, current, resident, wakes, faults>>
        /\ "lifecycle" \in Passes /\ "running" \in States
    BY <1>6 DEF FinishWake, Passes, States
  <2> QED
    BY <2>1
<1>7. CASE StopContainers
  BY <1>7 DEF StopContainers, Passes
<1>8. CASE FinishSuspend
  <2>1. /\ pass = "marking" /\ pass' = "lifecycle"
        /\ \/ state' = [state EXCEPT ![current] = "suspended"]
           \/ state' = [state EXCEPT ![current] = state[current]]
        /\ UNCHANGED <<status, recent, exists, up, toWake, toSuspend, current, resident,
                       wakes, faults>>
        /\ "lifecycle" \in Passes /\ "suspended" \in States
    BY <1>8 DEF FinishSuspend, Passes, States
  <2> QED
    BY <2>1
<1>9. CASE EndLifecyclePass
  BY <1>9 DEF EndLifecyclePass, Passes
<1>10. CASE RequeueDrifted
  BY <1>10 DEF RequeueDrifted, Passes
<1>11. CASE ReadResidents
  BY <1>11 DEF ReadResidents, Resident, Passes
<1>12. CASE StopOrphans
  BY <1>12 DEF StopOrphans, Passes
<1>13. CASE Build
  <2>1. /\ pass = "building" /\ pass' = "scan" /\ "scan" \in Passes /\ "running" \in States
        /\ UNCHANGED <<toWake, toSuspend, current, resident, wakes, faults>>
    BY <1>13 DEF Build, Passes, States
  <2>2. ASSUME NEW s \in Services,
               status' = [status EXCEPT ![s] = "ready"],
               state' = [state EXCEPT ![s] = "running"],
               recent' = [recent EXCEPT ![s] = TRUE],
               exists' = [exists EXCEPT ![s] = TRUE],
               up' = [up EXCEPT ![s] = TRUE]
        PROVE  LifecycleInv'
    BY <2>1, <2>2
  <2>3. ASSUME NEW s \in Services,
               status' = [status EXCEPT ![s] = "failed"],
               exists' = [exists EXCEPT ![s] = FALSE],
               up' = [up EXCEPT ![s] = FALSE],
               UNCHANGED <<state, recent>>
        PROVE  LifecycleInv'
    BY <2>1, <2>3
  <2>4. CASE UNCHANGED <<status, state, recent, exists, up>>
    BY <2>1, <2>4
  <2> QED
    BY <1>13, <2>2, <2>3, <2>4 DEF Build
<1>14. CASE Crash
  BY <1>14 DEF Crash, Passes
<1> QED
  BY <1>1, <1>2, <1>3, <1>4, <1>5, <1>6, <1>7, <1>8, <1>9, <1>10, <1>11, <1>12, <1>13, <1>14
  DEF ControllerLoop

LEMMA StepLifecycle == LifecycleInv /\ [LifecycleNext]_lifecycleVars => LifecycleInv'
<1> SUFFICES ASSUME LifecycleInv, [LifecycleNext]_lifecycleVars PROVE LifecycleInv'
  OBVIOUS
<1>1. CASE UNCHANGED lifecycleVars
  BY <1>1
  DEF lifecycleVars, rowVars, engineVars, loopVars, boundVars, LifecycleInv, LifecycleTypeOK,
      HasCurrent, CurrentIsChanging, RunningAreResident, RowsMatchEngine
<1> QED
  BY <1>1, RequestsKeepLifecycle, LoopKeepsLifecycle DEF LifecycleNext, Requests

(* A service the gateway believes to be running has its containers up, and a *)
(* suspended one holds none, for any number of services, requests, repairs,  *)
(* vanished containers and controller crashes.                               *)
THEOREM RowsAlwaysMatchEngine == LifecycleSpec => []RowsMatchEngine
<1>1. LifecycleInv => RowsMatchEngine
  BY DEF LifecycleInv
<1> QED
  BY LifecycleStarts, StepLifecycle, <1>1, PTL DEF LifecycleSpec

-----------------------------------------------------------------------------
(* Resumable uploads: what is in the store, and whose job a process has.     *)

UploadTypes ==
    /\ job \in [Uploads -> JobStates]
    /\ partRows \in [Uploads -> SUBSET Parts]
    /\ partFiles \in [Uploads -> SUBSET Parts]
    /\ cleaned \subseteq Uploads /\ due \subseteq Uploads
    /\ jobLeaseOver \subseteq Uploads
    /\ overtaken \subseteq Uploads /\ outlived \subseteq Uploads
    /\ attempts \in [Uploads -> Nat]
    /\ cancelling \in [Uploads -> {"no", "files", "rows"}]
    /\ verifier \in [Verifiers ->
           {"idle", "claimed", "stored", "registered", "verified", "rejected",
            "broken", "removing"}]
    /\ inHand \in [Verifiers -> Uploads \union {NoUpload}]
    /\ unlinking \subseteq Verifiers
    /\ object \in BOOLEAN /\ retiring \in BOOLEAN
    /\ crossed \subseteq {"controllers", "direct", "retention"}
    /\ artifact \in {"none", "verified", "quarantined", "released"}
    /\ direct \in {"idle", "stored"}
    /\ revivals \in 0 .. MaxRevivals
    /\ uploadFaults \in 0 .. MaxUploadFaults
    /\ \A w \in Verifiers : verifier[w] # "idle" => inHand[w] \in Uploads

ObjectBeingRemoved == unlinking # {} \/ retiring

(* A removal under way is not one of an object that a live source leads to,  *)
(* and an archive about to be registered is in the store, unless the two     *)
(* have crossed.                                                             *)
ObjectIsKept ==
    crossed = {} =>
        /\ artifact = "verified" => object /\ ~ObjectBeingRemoved
        /\ AboutToRegister => object

(* One controller does not register while it removes, whatever it takes up.  *)
ControllerDoesNotCross ==
    /\ \A w \in unlinking : verifier[w] = "removing"
    /\ OneVerifier => "controllers" \notin crossed

UploadBase == UploadTypes /\ ObjectIsKept /\ ControllerDoesNotCross

LEMMA UploadBaseStarts == UploadInit => UploadBase
<1> SUFFICES ASSUME UploadInit PROVE UploadBase
  OBVIOUS
<1>1. UploadTypes
  <2>1. /\ "absent" \in JobStates
        /\ "idle" \in {"idle", "claimed", "stored", "registered", "verified", "rejected",
                       "broken", "removing"}
    BY DEF JobStates
  <2>2. revivals \in 0 .. MaxRevivals /\ uploadFaults \in 0 .. MaxUploadFaults
    BY UploadsAssumption DEF UploadInit
  <2>3. attempts \in [Uploads -> Nat]
    BY DEF UploadInit
  <2> QED
    BY <2>1, <2>2, <2>3 DEF UploadInit, UploadTypes
<1>2. ObjectIsKept
  BY DEF UploadInit, ObjectIsKept, ObjectBeingRemoved, AboutToRegister, ControllerStored
<1>3. ControllerDoesNotCross
  BY DEF UploadInit, ControllerDoesNotCross
<1> QED
  BY <1>1, <1>2, <1>3 DEF UploadBase

(* The client's calls and the clock leave the processes and the object alone. *)
LEMMA CallsKeepTypes ==
    ASSUME UploadTypes, NEW u \in Uploads,
           \/ CreateUpload(u) \/ ReviveUpload(u) \/ (\E n \in Parts : PutPart(u, n))
           \/ CompleteUpload(u) \/ CancelUpload(u) \/ CancelContinues(u) \/ CancelDies(u)
           \/ ComesDue(u) \/ JobLeaseRunsOut(u) \/ LeaseOutlived(u)
    PROVE  /\ UploadTypes'
           /\ UNCHANGED <<verifierVars, objectVars>>
<1> USE UploadsAssumption DEF UploadTypes, verifierVars, objectVars, jobVars, histories, SetJob
<1>1. CASE CreateUpload(u)
  <2>1. (IF artifact = "verified" THEN "verified" ELSE "created") \in JobStates
    BY DEF JobStates
  <2> QED
    BY <1>1, <2>1 DEF CreateUpload
<1>2. CASE ReviveUpload(u)
  <2>1. "created" \in JobStates
    BY DEF JobStates
  <2>2. revivals' \in 0 .. MaxRevivals
    BY <1>2 DEF ReviveUpload
  <2>3. overtaken' \subseteq Uploads
    BY <1>2 DEF ReviveUpload
  <2> QED
    BY <1>2, <2>1, <2>2, <2>3 DEF ReviveUpload
<1>3. CASE \E n \in Parts : PutPart(u, n)
  <2>1. PICK n \in Parts : PutPart(u, n)
    BY <1>3
  <2>2. "uploading" \in JobStates
    BY DEF JobStates
  <2>3. /\ partFiles' = [partFiles EXCEPT ![u] = partFiles[u] \union {n}]
        /\ partRows' \in {partRows, [partRows EXCEPT ![u] = partRows[u] \union {n}]}
        /\ job' \in {job, [job EXCEPT ![u] = "uploading"]}
        /\ due' \subseteq due
        /\ UNCHANGED <<cleaned, attempts, jobLeaseOver, cancelling, verifierVars,
                       objectVars, histories, revivals, uploadFaults>>
    BY <2>1 DEF PutPart
  <2> QED
    BY <2>2, <2>3
<1>4. CASE CompleteUpload(u)
  <2>1. "queued" \in JobStates
    BY DEF JobStates
  <2> QED
    BY <1>4, <2>1 DEF CompleteUpload
<1>5. CASE CancelUpload(u)
  <2>1. "cancelled" \in JobStates
    BY DEF JobStates
  <2> QED
    BY <1>5, <2>1 DEF CancelUpload
<1>6. CASE CancelContinues(u)
  <2>1. CASE CancelRemovesFiles(u)
    <3>1. /\ partFiles' = [partFiles EXCEPT ![u] = {}]
          /\ cancelling' = [cancelling EXCEPT ![u] = "rows"]
          /\ UNCHANGED <<job, partRows, cleaned, due, attempts, jobLeaseOver, verifierVars,
                         objectVars, histories, revivals, uploadFaults>>
      BY <2>1 DEF CancelRemovesFiles
    <3> QED
      BY <3>1
  <2>2. CASE CancelRemovesRows(u)
    <3>1. /\ partRows' = [partRows EXCEPT ![u] = {}]
          /\ cleaned' = cleaned \union {u}
          /\ cancelling' = [cancelling EXCEPT ![u] = "no"]
          /\ UNCHANGED <<job, partFiles, due, attempts, jobLeaseOver, verifierVars,
                         objectVars, histories, revivals, uploadFaults>>
      BY <2>2 DEF CancelRemovesRows
    <3> QED
      BY <3>1
  <2> QED
    BY <1>6, <2>1, <2>2 DEF CancelContinues
<1>7. CASE CancelDies(u)
  BY <1>7 DEF CancelDies
<1>8. CASE ComesDue(u)
  BY <1>8 DEF ComesDue
<1>9. CASE JobLeaseRunsOut(u)
  BY <1>9 DEF JobLeaseRunsOut
<1>10. CASE LeaseOutlived(u)
  BY <1>10 DEF LeaseOutlived
<1> QED
  BY <1>1, <1>2, <1>3, <1>4, <1>5, <1>6, <1>7, <1>8, <1>9, <1>10

LEMMA VerifiersKeepTypes ==
    ASSUME UploadTypes, NEW w \in Verifiers, VerifierStep(w) \/ VerifierDies(w)
    PROVE  UploadTypes'
<1> USE UploadsAssumption DEF UploadTypes, verifierVars, objectVars, jobVars, histories, SetJob, GoIdle
<1>1. ASSUME NEW u \in Uploads, ClaimUpload(w, u)
      PROVE  UploadTypes'
  <2>1. "verifying" \in JobStates
    BY DEF JobStates
  <2> QED
    BY <1>1, <2>1 DEF ClaimUpload
<1>2. ASSUME NEW u \in Uploads, ExpireUpload(w, u)
      PROVE  UploadTypes'
  <2>1. "expired" \in JobStates
    BY DEF JobStates
  <2>2. unlinking' \subseteq Verifiers /\ job' \in [Uploads -> JobStates]
    BY <1>2, <2>1 DEF ExpireUpload
  <2> QED
    BY <1>2, <2>2 DEF ExpireUpload
<1>3. CASE StoreArchive(w)
  BY <1>3 DEF StoreArchive
<1>4. CASE RegisterArchive(w)
  <2>1. crossed' \subseteq {"controllers", "direct", "retention"}
    BY <1>4 DEF RegisterArchive, RegisterArtifact, When
  <2> QED
    BY <1>4, <2>1 DEF RegisterArchive, RegisterArtifact
<1>5. CASE MarkVerified(w)
  <2>1. "verified" \in JobStates
    BY DEF JobStates
  <2> QED
    BY <1>5, <2>1 DEF MarkVerified
<1>6. CASE RemoveStaging(w)
  BY <1>6 DEF RemoveStaging
<1>7. CASE FailUpload(w)
  <2>1. AfterFailure(w) \in JobStates
    BY DEF JobStates, AfterFailure
  <2> QED
    BY <1>7, <2>1 DEF FailUpload
<1>8. CASE RemoveExpired(w)
  <2>1. crossed' \subseteq {"controllers", "direct", "retention"} /\ object' \in BOOLEAN
    BY <1>8 DEF RemoveExpired, When
  <2> QED
    BY <1>8, <2>1 DEF RemoveExpired
<1>9. CASE VerifierDies(w)
  BY <1>9 DEF VerifierDies
<1> QED
  BY <1>1, <1>2, <1>3, <1>4, <1>5, <1>6, <1>7, <1>8, <1>9 DEF VerifierStep

LEMMA OthersKeepTypes ==
    ASSUME UploadTypes, DirectUpload \/ RetireSource
    PROVE  UploadTypes'
<1> USE UploadsAssumption DEF UploadTypes, verifierVars, objectVars, jobVars, histories
<1>1. CASE DirectUpload
  <2>1. crossed' \subseteq {"controllers", "direct", "retention"}
    BY <1>1 DEF DirectUpload, RegisterArtifact, When
  <2> QED
    BY <1>1, <2>1 DEF DirectUpload, RegisterArtifact
<1>2. CASE RetireSource
  <2>1. crossed' \subseteq {"controllers", "direct", "retention"}
    BY <1>2 DEF RetireSource, When
  <2> QED
    BY <1>2, <2>1 DEF RetireSource
<1> QED
  BY <1>1, <1>2

LEMMA VerifiersKeepObject ==
    ASSUME UploadBase, NEW w \in Verifiers, VerifierStep(w) \/ VerifierDies(w)
    PROVE  ObjectIsKept' /\ ControllerDoesNotCross'
<1> USE DEF UploadBase, UploadTypes, ObjectIsKept, ObjectBeingRemoved, AboutToRegister,
        ControllerStored, ControllerDoesNotCross, verifierVars, objectVars, GoIdle
<1> DEFINE Kept == ObjectIsKept' /\ ControllerDoesNotCross'
<1>1. ASSUME NEW u \in Uploads, ClaimUpload(w, u)
      PROVE  Kept
  BY <1>1 DEF ClaimUpload
<1>2. ASSUME NEW u \in Uploads, ExpireUpload(w, u)
      PROVE  Kept
  BY <1>2 DEF ExpireUpload, ReferencedObject
<1>3. CASE StoreArchive(w)
  BY <1>3 DEF StoreArchive
<1>4. CASE RegisterArchive(w)
  <2>1. ASSUME verifier[w] = "stored", RegisterArtifact("controllers"),
               verifier' = [verifier EXCEPT ![w] = "registered"],
               UNCHANGED <<unlinking, object, retiring, direct>>
        PROVE  Kept
    <3>1. OneVerifier => unlinking = {}
      BY <2>1 DEF OneVerifier
    <3> QED
      BY <2>1, <3>1 DEF RegisterArtifact, When
  <2>2. ASSUME verifier[w] = "stored", NEW outcome,
               verifier' = [verifier EXCEPT ![w] = outcome], outcome \in {"rejected", "broken"},
               UNCHANGED <<artifact, crossed, unlinking, object, retiring, direct>>
        PROVE  Kept
    BY <2>2
  <2> QED
    BY <1>4, <2>1, <2>2 DEF RegisterArchive
<1>5. CASE MarkVerified(w)
  BY <1>5 DEF MarkVerified
<1>6. CASE RemoveStaging(w)
  BY <1>6 DEF RemoveStaging
<1>7. CASE FailUpload(w)
  BY <1>7 DEF FailUpload
<1>8. CASE RemoveExpired(w)
  <2>1. OneVerifier => ~ControllerStored
    BY <1>8 DEF RemoveExpired, OneVerifier
  <2> QED
    BY <1>8, <2>1 DEF RemoveExpired, When
<1>9. CASE VerifierDies(w)
  BY <1>9 DEF VerifierDies
<1> QED
  BY <1>1, <1>2, <1>3, <1>4, <1>5, <1>6, <1>7, <1>8, <1>9 DEF VerifierStep

LEMMA StepUploadBase == UploadBase /\ [UploadNext]_uploadVars => UploadBase'
<1> SUFFICES ASSUME UploadBase, [UploadNext]_uploadVars PROVE UploadBase'
  OBVIOUS
<1> USE DEF ObjectIsKept, ObjectBeingRemoved, AboutToRegister, ControllerStored,
        ControllerDoesNotCross, verifierVars, objectVars
<1>1. CASE UNCHANGED uploadVars
  BY <1>1 DEF uploadVars, jobVars, histories, UploadBase, UploadTypes
<1>2. ASSUME NEW u \in Uploads,
             \/ CreateUpload(u) \/ ReviveUpload(u) \/ (\E n \in Parts : PutPart(u, n))
             \/ CompleteUpload(u) \/ CancelUpload(u) \/ CancelContinues(u) \/ CancelDies(u)
             \/ ComesDue(u) \/ JobLeaseRunsOut(u) \/ LeaseOutlived(u)
      PROVE  UploadBase'
  BY <1>2, CallsKeepTypes DEF UploadBase
<1>3. ASSUME NEW w \in Verifiers, VerifierStep(w) \/ VerifierDies(w)
      PROVE  UploadBase'
  BY <1>3, VerifiersKeepTypes, VerifiersKeepObject DEF UploadBase
<1>4. CASE DirectUpload \/ RetireSource
  <2>1. ObjectIsKept' /\ ControllerDoesNotCross'
    BY <1>4 DEF UploadBase, UploadTypes, DirectUpload, RetireSource, RegisterArtifact, When
  <2> QED
    BY <1>4, <2>1, OthersKeepTypes DEF UploadBase
<1> QED
  BY <1>1, <1>2, <1>3, <1>4 DEF UploadNext

(* A verified source has its object, for any number of uploads, deaths and   *)
(* lost leases, unless the removal of the object and a registration have     *)
(* crossed; if one controller runs, the expiry and the verifications of the  *)
(* resumable uploads never cross among themselves, and who lost the object   *)
(* was the one-request upload or retention.                                  *)
THEOREM SourcesKeepObjects == UploadSpec => []LiveSourceKeepsObject
<1>1. UploadBase => LiveSourceKeepsObject
  BY DEF UploadBase, ObjectIsKept, ControllerDoesNotCross, LiveSourceKeepsObject
<1> QED
  BY UploadBaseStarts, StepUploadBase, <1>1, PTL DEF UploadSpec

LEMMA UploadsAreTyped == UploadBase => UploadTypeOK
  BY DEF UploadBase, UploadTypes, UploadTypeOK

(* Types of uploads for any number of them, of controllers, of deaths and of *)
(* leases that run out.                                                      *)
THEOREM UploadTypeCorrect == UploadSpec => []UploadTypeOK
  BY UploadBaseStarts, StepUploadBase, UploadsAreTyped, PTL DEF UploadSpec

(***************************************************************************)
(* A job has one process at most, if there is only one or while no         *)
(* verification of this job has outlived its lease.                        *)
(***************************************************************************)
(* Where a process has a claimed upload in hand.                             *)
Holding == {"claimed", "stored", "registered", "rejected", "broken"}

Fenced(u) == OneVerifier \/ u \notin outlived

(* What a process has in hand is being verified, and its lease runs.         *)
HoldersAreNamed ==
    \A w \in Verifiers :
        verifier[w] \in Holding =>
            /\ Fenced(inHand[w]) => job[inHand[w]] = "verifying"
            /\ inHand[w] \notin outlived => inHand[w] \notin jobLeaseOver

HoldersAreAlone ==
    \A w1, w2 \in Verifiers :
        /\ verifier[w1] \in Holding /\ verifier[w2] \in Holding
        /\ inHand[w1] = inHand[w2] /\ Fenced(inHand[w1])
        => w1 = w2

UploadInv == UploadTypes /\ HoldersAreNamed /\ HoldersAreAlone

LEMMA UploadStarts == UploadInit => UploadInv
<1> SUFFICES ASSUME UploadInit PROVE UploadInv
  OBVIOUS
<1>1. UploadTypes
  BY UploadBaseStarts DEF UploadBase
<1> QED
  BY <1>1 DEF UploadInv, UploadInit, HoldersAreNamed, HoldersAreAlone, Holding

LEMMA CallsKeepHolders ==
    ASSUME UploadInv, NEW u \in Uploads,
           \/ CreateUpload(u) \/ ReviveUpload(u) \/ (\E n \in Parts : PutPart(u, n))
           \/ CompleteUpload(u) \/ CancelUpload(u) \/ CancelContinues(u) \/ CancelDies(u)
           \/ ComesDue(u) \/ JobLeaseRunsOut(u) \/ LeaseOutlived(u)
    PROVE  UploadInv'
<1> USE DEF UploadTypes, HoldersAreNamed, HoldersAreAlone, Holding, Fenced, SetJob,
        verifierVars, jobVars, histories
<1>1. UploadTypes' /\ verifier' = verifier /\ inHand' = inHand
  BY CallsKeepTypes DEF UploadInv
<1>2. CASE LeaseOutlived(u)
  BY <1>1, <1>2 DEF LeaseOutlived, UploadInv
<1>3. CASE JobLeaseRunsOut(u)
  BY <1>1, <1>3 DEF JobLeaseRunsOut, WorkingOn, UploadInv
<1>4. CASE ComesDue(u) \/ CancelDies(u) \/ CancelContinues(u)
  BY <1>1, <1>4
  DEF ComesDue, CancelDies, CancelContinues, CancelRemovesFiles, CancelRemovesRows, UploadInv
<1>5. CASE \/ CreateUpload(u) \/ ReviveUpload(u) \/ (\E n \in Parts : PutPart(u, n))
           \/ CompleteUpload(u) \/ CancelUpload(u)
  <2>1. /\ \A v \in Uploads : v # u => job'[v] = job[v]
        /\ job' = job \/ job[u] # "verifying"
        /\ jobLeaseOver' \subseteq jobLeaseOver
        /\ UNCHANGED outlived
    BY <1>5
    DEF CreateUpload, ReviveUpload, PutPart, CompleteUpload, CancelUpload, Cancellable,
        Receiving, UploadInv
  <2>2. HoldersAreNamed'
    BY <1>1, <2>1 DEF UploadInv
  <2>3. HoldersAreAlone'
    BY <1>1, <2>1 DEF UploadInv
  <2> QED
    BY <1>1, <2>2, <2>3 DEF UploadInv
<1> QED
  BY <1>2, <1>3, <1>4, <1>5

(* A process that starts, moves on or ends leaves the others' jobs alone.    *)
LEMMA VerifiersKeepHolders ==
    ASSUME UploadInv, NEW w \in Verifiers, VerifierStep(w) \/ VerifierDies(w)
    PROVE  UploadInv'
<1> USE DEF UploadTypes, HoldersAreNamed, HoldersAreAlone, Holding, Fenced, SetJob, GoIdle,
        verifierVars, objectVars, jobVars, histories
<1>0. UploadTypes'
  BY VerifiersKeepTypes DEF UploadInv
<1>1. ASSUME NEW u \in Uploads, ClaimUpload(w, u)
      PROVE  UploadInv'
  <2>1. /\ verifier[w] = "idle"
        /\ job' = [job EXCEPT ![u] = "verifying"]
        /\ jobLeaseOver' = jobLeaseOver \ {u}
        /\ verifier' = [verifier EXCEPT ![w] = "claimed"]
        /\ inHand' = [inHand EXCEPT ![w] = u]
        /\ UNCHANGED outlived
    BY <1>1 DEF ClaimUpload
  <2>2. ASSUME NEW x \in Verifiers, verifier[x] \in Holding, inHand[x] = u
        PROVE  ~Fenced(u)
    <3>1. CASE OneVerifier
      BY <2>1, <2>2, <3>1 DEF OneVerifier
    <3>2. CASE u \notin outlived
      BY <1>1, <2>2, <3>2 DEF ClaimUpload, ClaimableJob, UploadInv
    <3> QED
      BY <3>1, <3>2
  <2>3. HoldersAreNamed'
    BY <2>1, <2>2 DEF UploadInv
  <2>4. HoldersAreAlone'
    BY <2>1, <2>2 DEF UploadInv
  <2> QED
    BY <1>0, <2>3, <2>4 DEF UploadInv
<1>2. ASSUME NEW u \in Uploads, ExpireUpload(w, u)
      PROVE  UploadInv'
  <2>1. /\ verifier[w] = "idle"
        /\ job' \in {job, [job EXCEPT ![u] = "expired"]}
        /\ job[u] # "verifying"
        /\ verifier' = [verifier EXCEPT ![w] = "removing"]
        /\ inHand' = [inHand EXCEPT ![w] = u]
        /\ UNCHANGED <<jobLeaseOver, outlived>>
    BY <1>2 DEF ExpireUpload, Receiving
  <2> QED
    BY <1>0, <2>1 DEF UploadInv
<1>3. ASSUME verifier[w] \in Holding,
             NEW next, verifier' = [verifier EXCEPT ![w] = next],
             UNCHANGED <<job, jobLeaseOver, outlived>>,
             \/ inHand' = inHand
             \/ next = "idle" /\ inHand' = [inHand EXCEPT ![w] = NoUpload]
      PROVE  UploadInv'
  BY <1>0, <1>3 DEF UploadInv
<1>4. CASE StoreArchive(w)
  BY <1>4, <1>3 DEF StoreArchive
<1>5. CASE RegisterArchive(w)
  BY <1>5, <1>3 DEF RegisterArchive
<1>6. ASSUME verifier[w] \in Holding,
             NEW next \in {"verified", "idle"}, verifier' = [verifier EXCEPT ![w] = next],
             inHand' \in {inHand, [inHand EXCEPT ![w] = NoUpload]},
             NEW end, job' = [job EXCEPT ![inHand[w]] = end],
             jobLeaseOver' = jobLeaseOver \ {inHand[w]},
             UNCHANGED outlived
      PROVE  UploadInv'
  <2>1. \A x \in Verifiers \ {w} :
           verifier[x] \in Holding /\ Fenced(inHand[x]) => inHand[x] # inHand[w]
    BY <1>6 DEF UploadInv
  <2>2. HoldersAreNamed'
    BY <1>6, <2>1 DEF UploadInv
  <2>3. HoldersAreAlone'
    BY <1>6, <2>1 DEF UploadInv
  <2> QED
    BY <1>0, <2>2, <2>3 DEF UploadInv
<1>7. CASE MarkVerified(w)
  BY <1>7, <1>6 DEF MarkVerified
<1>8. CASE FailUpload(w)
  BY <1>8, <1>6 DEF FailUpload
<1>9. ASSUME verifier' = [verifier EXCEPT ![w] = "idle"],
             inHand' = [inHand EXCEPT ![w] = NoUpload],
             UNCHANGED <<job, jobLeaseOver, outlived>>
      PROVE  UploadInv'
  BY <1>0, <1>9 DEF UploadInv
<1>10. CASE RemoveStaging(w) \/ RemoveExpired(w) \/ VerifierDies(w)
  BY <1>10, <1>9 DEF RemoveStaging, RemoveExpired, VerifierDies
<1> QED
  BY <1>1, <1>2, <1>4, <1>5, <1>7, <1>8, <1>10 DEF VerifierStep

LEMMA StepUploads == UploadInv /\ [UploadNext]_uploadVars => UploadInv'
<1> SUFFICES ASSUME UploadInv, [UploadNext]_uploadVars PROVE UploadInv'
  OBVIOUS
<1>1. CASE UNCHANGED <<job, jobLeaseOver, verifier, inHand, outlived>> /\ UploadTypes'
  BY <1>1 DEF UploadInv, HoldersAreNamed, HoldersAreAlone, Fenced
<1>2. CASE UNCHANGED uploadVars
  <2>1. UploadTypes'
    BY <1>2 DEF uploadVars, jobVars, verifierVars, objectVars, histories, UploadInv, UploadTypes
  <2> QED
    BY <1>1, <1>2, <2>1 DEF uploadVars, jobVars, verifierVars, histories
<1>3. CASE DirectUpload \/ RetireSource
  BY <1>1, <1>3, OthersKeepTypes
  DEF UploadInv, DirectUpload, RetireSource, jobVars, verifierVars, histories
<1> QED
  BY <1>2, <1>3, CallsKeepHolders, VerifiersKeepHolders DEF UploadNext

LEMMA UploadsEndOnce == UploadInit /\ [][UploadNext]_uploadVars => EndedUploadsStay
<1>1. UploadInv /\ [UploadNext]_uploadVars
          => [\A u \in Uploads :
                 OneVerifier \/ u \notin outlived =>
                     /\ job[u] = "verified" => job'[u] = "verified"
                     /\ job[u] \in {"cancelled", "expired"} =>
                            job'[u] \in {job[u], "created", "cancelled"}]_uploadVars
  <2> SUFFICES ASSUME UploadInv, UploadNext, NEW u \in Uploads, Fenced(u)
               PROVE  /\ job[u] = "verified" => job'[u] = "verified"
                      /\ job[u] \in {"cancelled", "expired"} =>
                             job'[u] \in {job[u], "created", "cancelled"}
    BY DEF Fenced
  <2> USE DEF UploadInv, UploadTypes, SetJob, jobVars
  <2>1. ASSUME NEW v \in Uploads,
               \/ CreateUpload(v) \/ ReviveUpload(v) \/ (\E n \in Parts : PutPart(v, n))
               \/ CompleteUpload(v) \/ CancelUpload(v) \/ CancelContinues(v) \/ CancelDies(v)
               \/ ComesDue(v) \/ JobLeaseRunsOut(v) \/ LeaseOutlived(v)
        PROVE  /\ job[u] = "verified" => job'[u] = "verified"
               /\ job[u] \in {"cancelled", "expired"} =>
                      job'[u] \in {job[u], "created", "cancelled"}
    BY <2>1
    DEF CreateUpload, ReviveUpload, PutPart, CompleteUpload, CancelUpload, Cancellable,
        Receiving, CancelContinues, CancelRemovesFiles, CancelRemovesRows, CancelDies, ComesDue,
        JobLeaseRunsOut, LeaseOutlived
  <2>2. ASSUME NEW w \in Verifiers, VerifierStep(w) \/ VerifierDies(w)
        PROVE  /\ job[u] = "verified" => job'[u] = "verified"
               /\ job[u] \in {"cancelled", "expired"} =>
                      job'[u] \in {job[u], "created", "cancelled"}
    <3>1. CASE MarkVerified(w) \/ FailUpload(w)
      <4>1. inHand[w] = u => job[u] = "verifying"
        BY <3>1 DEF MarkVerified, FailUpload, HoldersAreNamed, Holding
      <4> QED
        BY <3>1, <4>1 DEF MarkVerified, FailUpload
    <3>2. CASE \E v \in Uploads : ClaimUpload(w, v) \/ ExpireUpload(w, v)
      BY <3>2 DEF ClaimUpload, ClaimableJob, ExpireUpload, Receiving
    <3>3. CASE StoreArchive(w) \/ RegisterArchive(w) \/ RemoveStaging(w) \/ RemoveExpired(w)
               \/ VerifierDies(w)
      BY <3>3 DEF StoreArchive, RegisterArchive, RemoveStaging, RemoveExpired, VerifierDies
    <3> QED
      BY <2>2, <3>1, <3>2, <3>3 DEF VerifierStep
  <2>3. CASE DirectUpload \/ RetireSource
    BY <2>3 DEF DirectUpload, RetireSource
  <2> QED
    BY <2>1, <2>2, <2>3 DEF UploadNext
<1> QED
  BY UploadStarts, StepUploads, <1>1, PTL DEF EndedUploadsStay

(* An upload that was verified, cancelled or expired is not ended otherwise  *)
(* by a process that comes late: if one controller runs, however long it     *)
(* takes over a verification and however often it dies, and among several    *)
(* for every upload whose verification has never outlived its lease.         *)
THEOREM EndedUploadsAreFinal == UploadSpec => EndedUploadsStay
  BY UploadsEndOnce, PTL DEF UploadSpec

-----------------------------------------------------------------------------
(* Research computations.                                                    *)

(* Only the silence of a job lets another worker take it, so that nobody is  *)
(* at work on a silent one that was not overslept, or on one that is still   *)
(* to be claimed.                                                            *)
NobodyAt(j) == \A w \in Workers : atWork[w] # j

Watched(j) == OneResearcher \/ j \notin overslept

IdleJobsAreFree ==
    \A j \in Computations :
        /\ j \in silent \ overslept => NobodyAt(j)
        /\ computation[j] \in {"none", "queued"} => NobodyAt(j)

WorkersAreAlone ==
    \A w1, w2 \in Workers :
        /\ atWork[w1] = atWork[w2] /\ atWork[w1] \in Computations
        /\ Watched(atWork[w1])
        => w1 = w2

(* What a worker has in hand has not ended, but for a cancellation.          *)
WorkIsUnended ==
    \A w \in Workers :
        atWork[w] \in Computations /\ Watched(atWork[w])
            => computation[atWork[w]] \in {"preparing", "running", "cancelled"}

ResearchInv ==
    /\ ResearchTypeOK
    /\ IdleJobsAreFree /\ WorkersAreAlone /\ WorkIsUnended

LEMMA ResearchTypesStart == ResearchInit => ResearchTypeOK
  BY ResearchAssumption DEF ResearchInit, ResearchTypeOK, Ended

LEMMA ResearchStarts == ResearchInit => ResearchInv
  BY ResearchTypesStart, ResearchAssumption
  DEF ResearchInit, ResearchInv, IdleJobsAreFree, WorkersAreAlone, WorkIsUnended, NobodyAt

(* The types do not need the heartbeat. *)
LEMMA StepResearchTypes == ResearchTypeOK /\ [ResearchNext]_researchVars => ResearchTypeOK'
<1> SUFFICES ASSUME ResearchTypeOK, [ResearchNext]_researchVars PROVE ResearchTypeOK'
  OBVIOUS
<1> USE ResearchAssumption DEF ResearchTypeOK, jobRow, Enter, PutDown
<1>1. CASE UNCHANGED researchVars
  BY <1>1 DEF researchVars
<1>2. ASSUME NEW j \in Computations, \/ CreateExecution(j) \/ CancelExecution(j)
                                   \/ FallsSilent(j) \/ Oversleeps(j)
      PROVE  ResearchTypeOK'
  BY <1>2 DEF CreateExecution, CancelExecution, FallsSilent, Oversleeps, Ended
<1>3. ASSUME NEW w \in Workers, ResearchWorkerStep(w)
      PROVE  ResearchTypeOK'
  <2>1. ASSUME NEW j \in Computations, ClaimExecution(w, j)
        PROVE  ResearchTypeOK'
    BY <2>1 DEF ClaimExecution
  <2>2. CASE ReadExecution(w)
    <3>1. CASE CancelledBeforeStart(atWork[w])
      BY <2>2, <3>1 DEF ReadExecution, Ended
    <3>2. CASE ~CancelledBeforeStart(atWork[w])
      BY <2>2, <3>2 DEF ReadExecution
    <3> QED
      BY <3>1, <3>2
  <2>3. CASE PrepareOutputs(w)
    BY <2>3 DEF PrepareOutputs
  <2>4. CASE StartProcess(w)
    BY <2>4 DEF StartProcess
  <2>5. CASE ProcessEnds(w)
    BY <2>5 DEF ProcessEnds, Ended
  <2>6. CASE PollProcess(w)
    BY <2>6 DEF PollProcess, Ended
  <2>7. CASE FinishExecution(w)
    <3>1. Outcome(w) \in Ended /\ atWork[w] \in Computations
      BY <2>7 DEF FinishExecution, Outcome, Ended
    <3>2. researchRun' \in {"completed", "failed"}
      BY <2>7 DEF FinishExecution, RunStatus
    <3> QED
      BY <2>7, <3>1, <3>2 DEF FinishExecution
  <2> QED
    BY <1>3, <2>1, <2>2, <2>3, <2>4, <2>5, <2>6, <2>7 DEF ResearchWorkerStep
<1>4. ASSUME NEW w \in Workers, WorkerDies(w)
      PROVE  ResearchTypeOK'
  BY <1>4 DEF WorkerDies
<1> QED
  BY <1>1, <1>2, <1>3, <1>4 DEF ResearchNext

LEMMA StepResearch == ResearchInv /\ [ResearchNext]_researchVars => ResearchInv'
<1> SUFFICES ASSUME ResearchInv, [ResearchNext]_researchVars PROVE ResearchInv'
  OBVIOUS
<1> USE ResearchAssumption
    DEF ResearchTypeOK, IdleJobsAreFree, WorkersAreAlone, WorkIsUnended, NobodyAt, Watched,
        jobRow, Enter, PutDown
<1>0. ResearchTypeOK'
  BY StepResearchTypes DEF ResearchInv
<1>1. CASE UNCHANGED researchVars
  BY <1>0, <1>1 DEF researchVars, ResearchInv
<1>2. ASSUME NEW j \in Computations, \/ CreateExecution(j) \/ CancelExecution(j)
                                     \/ FallsSilent(j) \/ Oversleeps(j)
      PROVE  ResearchInv'
  <2>1. CASE CreateExecution(j) \/ FallsSilent(j) \/ Oversleeps(j)
    BY <1>0, <2>1 DEF CreateExecution, FallsSilent, Oversleeps, ResearchInv
  <2>2. CASE CancelExecution(j)
    BY <1>0, <2>2 DEF CancelExecution, Ended, ResearchInv
  <2> QED
    BY <1>2, <2>1, <2>2
<1>3. ASSUME NEW w \in Workers, NEW j \in Computations, ClaimExecution(w, j)
      PROVE  ResearchInv'
  <2>1. /\ stage[w] = "idle" /\ atWork[w] = NoComputation
        /\ computation' = [computation EXCEPT ![j] = "preparing"]
        /\ silent' = silent \ {j}
        /\ stage' = [stage EXCEPT ![w] = "claimed"]
        /\ atWork' = [atWork EXCEPT ![w] = j]
        /\ UNCHANGED overslept
    BY <1>3 DEF ClaimExecution, ResearchInv
  <2>2. Watched(j) => NobodyAt(j)
    <3>1. CASE OneResearcher
      BY <2>1, <3>1 DEF OneResearcher
    <3>2. CASE j \notin overslept
      BY <1>3, <3>2 DEF ClaimExecution, Claimable, ResearchInv
    <3> QED
      BY <3>1, <3>2
  <2>3. IdleJobsAreFree'
    BY <2>1 DEF ResearchInv
  <2>4. WorkersAreAlone' /\ WorkIsUnended'
    BY <2>1, <2>2 DEF ResearchInv
  <2> QED
    BY <1>0, <2>3, <2>4 DEF ResearchInv
<1>4. ASSUME NEW w \in Workers, atWork[w] \in Computations,
             NEW new \in {"preparing", "running", "succeeded", "failed", "cancelled", "timed_out"},
             computation' \in {computation, [computation EXCEPT ![atWork[w]] = new]},
             silent' \subseteq silent, UNCHANGED overslept,
             atWork' \in {atWork, [atWork EXCEPT ![w] = NoComputation]},
             new \in {"preparing", "running", "cancelled"} \/ atWork' # atWork
      PROVE  ResearchInv'
  <2>1. IdleJobsAreFree'
    BY <1>4 DEF ResearchInv
  <2>2. WorkersAreAlone'
    BY <1>4 DEF ResearchInv
  <2>3. WorkIsUnended'
    BY <1>4 DEF ResearchInv
  <2> QED
    BY <1>0, <2>1, <2>2, <2>3 DEF ResearchInv
<1>5. ASSUME NEW w \in Workers,
             ReadExecution(w) \/ PrepareOutputs(w) \/ StartProcess(w) \/ ProcessEnds(w)
                 \/ PollProcess(w) \/ FinishExecution(w) \/ WorkerDies(w)
      PROVE  ResearchInv'
  <2>1. atWork[w] \in Computations /\ atWork[w] # NoComputation
    BY <1>5
    DEF ResearchInv, ReadExecution, PrepareOutputs, StartProcess, ProcessEnds, PollProcess,
        FinishExecution, WorkerDies, Ended
  <2>2. CASE ReadExecution(w)
    BY <1>4, <2>1, <2>2 DEF ReadExecution
  <2>3. CASE PrepareOutputs(w)
    BY <1>4, <2>1, <2>3 DEF PrepareOutputs
  <2>4. CASE StartProcess(w)
    BY <1>4, <2>1, <2>4 DEF StartProcess
  <2>5. CASE ProcessEnds(w)
    BY <1>4, <2>1, <2>5 DEF ProcessEnds
  <2>6. CASE PollProcess(w)
    BY <1>4, <2>1, <2>6 DEF PollProcess
  <2>7. CASE FinishExecution(w)
    <3>1. Outcome(w) \in {"succeeded", "failed", "cancelled", "timed_out"}
      BY <2>7 DEF FinishExecution, Outcome, Ended
    <3>2. atWork' = [atWork EXCEPT ![w] = NoComputation] /\ atWork' # atWork
      BY <2>1, <2>7 DEF FinishExecution, ResearchInv
    <3> QED
      BY <1>4, <2>1, <2>7, <3>1, <3>2 DEF FinishExecution
  <2>8. CASE WorkerDies(w)
    BY <1>4, <2>1, <2>8 DEF WorkerDies
  <2> QED
    BY <1>5, <2>2, <2>3, <2>4, <2>5, <2>6, <2>7, <2>8
<1> QED
  BY <1>1, <1>2, <1>3, <1>5 DEF ResearchNext, ResearchWorkerStep

(* Types of research executions for any number of jobs, workers, deaths and  *)
(* stops, whether or not a worker's silence means that it is gone.           *)
THEOREM ResearchTypeCorrect == ResearchSpec => []ResearchTypeOK
  BY ResearchTypesStart, StepResearchTypes, PTL DEF ResearchSpec

LEMMA ExecutionsEndOnce == ResearchInit /\ [][ResearchNext]_researchVars => EndedExecutionsStay
<1>1. ResearchInv /\ [ResearchNext]_researchVars
          => [\A j \in Computations :
                 /\ computation[j] \in Ended
                 /\ ~Overlooked(j)
                 /\ OneResearcher \/ j \notin overslept
                 => computation'[j] = computation[j]]_researchVars
  <2> SUFFICES ASSUME ResearchInv, ResearchNext, NEW j \in Computations,
                      computation[j] \in Ended, ~Overlooked(j), Watched(j)
               PROVE  computation'[j] = computation[j]
    BY DEF Watched
  <2> USE DEF ResearchInv, ResearchTypeOK, jobRow
  <2>1. ASSUME NEW i \in Computations, \/ CreateExecution(i) \/ CancelExecution(i)
                                       \/ FallsSilent(i) \/ Oversleeps(i)
        PROVE  computation'[j] = computation[j]
    BY <2>1 DEF CreateExecution, CancelExecution, FallsSilent, Oversleeps, Ended
  <2>2. ASSUME NEW w \in Workers, NEW i \in Computations, ClaimExecution(w, i)
        PROVE  computation'[j] = computation[j]
    BY <2>2 DEF ClaimExecution, Claimable, Ended
  <2>3. ASSUME NEW w \in Workers, atWork[w] = j
        PROVE  computation[j] = "cancelled" /\ stage[w] = "claimed"
    BY <2>3 DEF WorkIsUnended, Overlooked, Ended
  <2>4. ASSUME NEW w \in Workers, ReadExecution(w)
        PROVE  computation'[j] = computation[j]
    BY <2>3, <2>4 DEF ReadExecution
  <2>5. ASSUME NEW w \in Workers, StartProcess(w) \/ FinishExecution(w)
        PROVE  computation'[j] = computation[j]
    BY <2>3, <2>5 DEF StartProcess, FinishExecution, Ended
  <2>6. ASSUME NEW w \in Workers, PrepareOutputs(w) \/ ProcessEnds(w) \/ PollProcess(w)
                   \/ WorkerDies(w)
        PROVE  computation'[j] = computation[j]
    BY <2>6 DEF PrepareOutputs, ProcessEnds, PollProcess, WorkerDies
  <2> QED
    BY <2>1, <2>2, <2>4, <2>5, <2>6 DEF ResearchNext, ResearchWorkerStep
<1> QED
  BY ResearchStarts, StepResearch, <1>1, PTL DEF EndedExecutionsStay

(* No job that has ended changes again, but for a worker that had read it    *)
(* before it was cancelled and, among several workers, for a job taken over  *)
(* from one that is slow and not dead.                                       *)
THEOREM EndedExecutionsAreFinal == ResearchSpec => EndedExecutionsStay
  BY ExecutionsEndOnce, PTL DEF ResearchSpec

-----------------------------------------------------------------------------
(* Remote runs of the Lighthouse federation.                                 *)

(* What a socket carries speaks of a row or of a report.                     *)
Messages ==
    {m \in [row : Rows \union {"none"}, event : Nat] : m.row = "none" <=> m.event # 0}

(* The reports the warehouse has logged.                                     *)
Logged == {eventLog[i] : i \in 1 .. Len(eventLog)}

FederationTypes ==
    /\ runStatus \in RunStatuses
    /\ outbox \in Seq(Rows)
    /\ unsent \subseteq Rows /\ delivered \subseteq handled /\ handled \subseteq Rows
    /\ emitted \in Seq(Reports)
    /\ eventLog \in Seq(Nat)
    /\ revoked \in BOOLEAN /\ dialled \in 0 .. MaxConnections
    /\ registered \in 0 .. dialled /\ online \in 0 .. dialled
    /\ serverLoop \in [Connections -> {"closed", "opening", "replaying", "receiving"}]
    /\ replaying \in [Connections -> Seq(Rows)]
    /\ toDevice \in [Connections -> Seq(Messages)]
    /\ fromDevice \in [Connections -> Seq(Messages)]

(* A run is offered once and cancelled once.                                 *)
OutboxShape ==
    /\ runStatus = "none" <=> Len(outbox) = 0
    /\ Len(outbox) <= 2
    /\ \A i \in 1 .. Len(outbox) : outbox[i] = "cancel" <=> i = 2

(* Nothing is said before the run is offered.                                *)
SilentBefore ==
    runStatus = "none" =>
        /\ unsent = {} /\ handled = {} /\ emitted = <<>>
        /\ \A n \in Connections :
              /\ replaying[n] = <<>>
              /\ \A p \in 1 .. Len(toDevice[n]) : toDevice[n][p].row = "none"

(* What the device says of a run: it takes the offer or not, may ask for an  *)
(* approval if it has, and ends it last.                                     *)
ReportsInOrder ==
    /\ "offer" \notin handled => emitted = <<>>
    /\ \A i \in 1 .. Len(emitted) :
          /\ emitted[i] \in {"accepted", "rejected"} <=> i = 1
          /\ emitted[i] \in {"rejected", "completed"} => i = Len(emitted)

(* Acknowledgements on their way tell the truth.                             *)
AcksAreTrue ==
    \A n \in Connections :
        /\ \A p \in 1 .. Len(fromDevice[n]) :
              IF fromDevice[n][p].event = 0 THEN fromDevice[n][p].row \in handled
                                            ELSE fromDevice[n][p].event \in 1 .. Len(emitted)
        /\ \A p \in 1 .. Len(toDevice[n]) :
              toDevice[n][p].row = "none" => toDevice[n][p].event \in Logged

(* Whatever connection a report is read from, those before it were logged or *)
(* are read from it first; and the connection in use carries all the rest.   *)
ReadInOrder ==
    \A n \in Connections : \A p \in 1 .. Len(fromDevice[n]) :
        \A i \in 1 .. fromDevice[n][p].event - 1 :
            i \in Logged \/ \E q \in 1 .. p - 1 : fromDevice[n][q].event = i

NothingIsMissing ==
    online # 0 =>
        \A i \in 1 .. Len(emitted) :
            i \in Logged \/ \E p \in 1 .. Len(fromDevice[online]) : fromDevice[online][p].event = i

LogInOrder ==
    /\ Logged \subseteq 1 .. Len(emitted)
    /\ \A i \in Logged : \A k \in 1 .. i : k \in Logged

(* The status is what the log makes of it.                                   *)
EndIsLogged ==
    /\ confirmed \subseteq Logged
    /\ runStatus \in EndedRun => \E i \in Logged : emitted[i] = runStatus

FederationInv ==
    /\ FederationTypes /\ OutboxShape /\ SilentBefore /\ ReportsInOrder /\ AcksAreTrue
    /\ ReadInOrder /\ NothingIsMissing /\ LogInOrder /\ EndIsLogged

(* At first nothing was said, on no connection.                              *)
LEMMA FederationStarts == FederationInit => FederationInv
<1> SUFFICES ASSUME FederationInit PROVE FederationInv
  OBVIOUS
<1> USE MaxConnectionsAssumption DEF FederationInit, Connections
<1>1. FederationTypes
  <2>1. <<>> \in Seq(Rows) /\ <<>> \in Seq(Messages) /\ <<>> \in Seq(Nat) /\ <<>> \in Seq(Reports)
    BY EmptySeq
  <2>2. runStatus \in RunStatuses
    BY DEF RunStatuses
  <2>3. dialled \in 0 .. MaxConnections /\ registered \in 0 .. dialled /\ online \in 0 .. dialled
    OBVIOUS
  <2> QED
    BY <2>1, <2>2, <2>3 DEF FederationTypes
<1>2. Logged = {} /\ Len(emitted) = 0
  BY EmptySeq DEF Logged
<1>3. OutboxShape /\ SilentBefore /\ ReportsInOrder /\ AcksAreTrue
  BY <1>2, EmptySeq DEF OutboxShape, SilentBefore, ReportsInOrder, AcksAreTrue
<1>4. ReadInOrder /\ NothingIsMissing
  BY <1>2 DEF ReadInOrder, NothingIsMissing
<1>5. LogInOrder /\ EndIsLogged
  BY <1>2 DEF LogInOrder, EndIsLogged, EndedRun
<1> QED
  BY <1>1, <1>3, <1>4, <1>5 DEF FederationInv

LEMMA FederationIsTyped == FederationInv => FederationTypeOK
<1> SUFFICES ASSUME FederationInv PROVE FederationTypeOK
  OBVIOUS
<1>1. \A i \in 1 .. Len(eventLog) : eventLog[i] \in 1 .. Len(emitted)
  BY DEF FederationInv, FederationTypes, LogInOrder, Logged
<1>2. Len(outbox) <= 2 /\ \A i \in 1 .. Len(outbox) : outbox[i] \in Rows
  BY DEF FederationInv, FederationTypes, OutboxShape
<1> QED
  BY <1>1, <1>2 DEF FederationInv, FederationTypes, FederationTypeOK

(* What is sent goes to the registered connection, if there is one.          *)
LEMMA SentIsSound ==
    ASSUME FederationInv, NEW m \in Messages,
           m.row = "none" => m.event \in Logged',
           m.row # "none" => runStatus' # "none",
           Logged \subseteq Logged',
           runStatus' = "none" => runStatus = "none",
           toDevice' = IF registered = 0 THEN toDevice ELSE SentTo(m)
    PROVE  /\ toDevice' \in [Connections -> Seq(Messages)]
           /\ \A n \in Connections : \A p \in 1 .. Len(toDevice'[n]) :
                 /\ toDevice'[n][p].row = "none" => toDevice'[n][p].event \in Logged'
                 /\ runStatus' = "none" => toDevice'[n][p].row = "none"
<1>0. toDevice \in [Connections -> Seq(Messages)] /\ registered \in 0 .. dialled
      /\ dialled \in 0 .. MaxConnections
  BY DEF FederationInv, FederationTypes
<1>1. CASE registered = 0
  BY <1>0, <1>1 DEF FederationInv, SilentBefore, AcksAreTrue
<1>2. CASE registered # 0
  <2>1. registered \in Connections
    BY <1>0, <1>2, MaxConnectionsAssumption DEF Connections
  <2>2. toDevice' = [toDevice EXCEPT ![registered] = Append(toDevice[registered], m)]
    BY <1>2 DEF SentTo
  <2>3. /\ Append(toDevice[registered], m) \in Seq(Messages)
        /\ Len(Append(toDevice[registered], m)) = Len(toDevice[registered]) + 1
        /\ \A i \in 1 .. Len(toDevice[registered]) :
              Append(toDevice[registered], m)[i] = toDevice[registered][i]
        /\ Append(toDevice[registered], m)[Len(toDevice[registered]) + 1] = m
        /\ Len(toDevice[registered]) \in Nat
    BY <1>0, <2>1, AppendProperties
  <2>4. toDevice' \in [Connections -> Seq(Messages)]
    BY <1>0, <2>1, <2>2, <2>3
  <2>5. ASSUME NEW n \in Connections, NEW p \in 1 .. Len(toDevice'[n])
        PROVE  toDevice'[n][p] = m \/ (p \in 1 .. Len(toDevice[n]) /\ toDevice'[n][p] = toDevice[n][p])
    <3>1. CASE n = registered
      BY <1>0, <2>1, <2>2, <2>3, <2>5, <3>1
    <3>2. CASE n # registered
      BY <1>0, <2>1, <2>2, <2>5, <3>2
    <3> QED
      BY <3>1, <3>2
  <2> QED
    BY <2>4, <2>5 DEF FederationInv, SilentBefore, AcksAreTrue
<1> QED
  BY <1>1, <1>2

LEMMA RowMessage ==
    ASSUME NEW r \in Rows
    PROVE  AboutRow(r) \in Messages /\ AboutRow(r).row = r /\ r # "none" /\ AboutRow(r).event = 0
  BY DEF AboutRow, Messages, Rows

LEMMA EventMessage ==
    ASSUME NEW i \in Nat, i # 0
    PROVE  AboutEvent(i) \in Messages /\ AboutEvent(i).row = "none" /\ AboutEvent(i).event = i
  BY DEF AboutEvent, Messages

LEMMA FunctionIsSequence ==
    ASSUME NEW S, NEW m \in Nat, NEW f \in [1 .. m -> S]
    PROVE  f \in Seq(S) /\ Len(f) = m /\ (m = 0 => f = <<>>)
<1>1. f \in Seq(S)
  BY SeqDef
<1>2. Len(f) \in Nat /\ DOMAIN f = 1 .. Len(f)
  BY <1>1, LenProperties
<1>3. DOMAIN f = 1 .. m
  OBVIOUS
<1>4. Len(f) = m
  BY <1>2, <1>3
<1> QED
  BY <1>1, <1>4, EmptySeq

(* A sequence of length m that runs through the positions in their order.    *)
Runs(order, m, positions) ==
    /\ DOMAIN order = 1 .. m
    /\ \A p \in 1 .. m : order[p] \in positions
    /\ \A i \in positions : \E p \in 1 .. m : order[p] = i
    /\ \A p, q \in 1 .. m : p < q => order[p] < order[q]

(* Some of the first n positions in their order are a sequence.              *)
LEMMA PositionsInOrder ==
    ASSUME NEW n \in Nat, NEW positions \in SUBSET (1 .. n), NEW order \in InOrder(positions)
    PROVE  \E m \in Nat : Runs(order, m, positions) /\ (n = 0 => m = 0)
<1>1. IsFiniteSet(positions)
  <2>1. 1 \in Int /\ n \in Int
    OBVIOUS
  <2>2. IsFiniteSet(1 .. n)
    BY <2>1, FS_Interval
  <2> QED
    BY <2>2, FS_Subset
<1>2. Cardinality(positions) \in Nat
  BY <1>1, FS_CardinalityType
<1>3. positions = {} => Cardinality(positions) = 0
  BY FS_EmptySet
<1>4. n = 0 => positions = {}
  OBVIOUS
<1> QED
  BY <1>2, <1>3, <1>4 DEF InOrder, Range, Runs

(* The console and the server before it reads from the device.               *)
LEMMA SendersKeepFederation ==
    ASSUME FederationInv,
           OfferRun \/ CancelRun \/ Deliver \/ Revoke
               \/ \E n \in Connections : ReadOutbox(n) \/ Replay(n) \/ Disconnected(n)
    PROVE  FederationInv'
<1> USE MaxConnectionsAssumption DEF table, device, sockets
<1>1. CASE OfferRun
  <2>1. /\ runStatus = "none" /\ runStatus' = "offered"
        /\ outbox' = Append(outbox, "offer") /\ unsent' = unsent \union {"offer"}
        /\ UNCHANGED <<delivered, eventLog, revoked, sockets, handled, emitted, confirmed>>
        /\ Len(outbox) = 0 /\ outbox \in Seq(Rows) /\ "offer" \in Rows
    BY <1>1 DEF OfferRun, FederationInv, FederationTypes, OutboxShape, Rows
  <2>2. outbox' \in Seq(Rows) /\ Len(outbox') = 1 /\ outbox'[1] = "offer"
    BY <2>1, AppendProperties
  <2>3. Logged' = Logged
    BY <2>1 DEF Logged
  <2>4. FederationTypes'
    BY <2>1, <2>2 DEF FederationInv, FederationTypes, RunStatuses
  <2>5. OutboxShape' /\ SilentBefore'
    BY <2>1, <2>2 DEF OutboxShape, SilentBefore
  <2>6. ReportsInOrder' /\ AcksAreTrue'
    BY <2>1, <2>3 DEF FederationInv, ReportsInOrder, AcksAreTrue
  <2>7. ReadInOrder' /\ NothingIsMissing' /\ LogInOrder'
    BY <2>1, <2>3 DEF FederationInv, ReadInOrder, NothingIsMissing, LogInOrder
  <2>8. EndIsLogged'
    BY <2>1, <2>3 DEF FederationInv, EndIsLogged, EndedRun
  <2> QED
    BY <2>4, <2>5, <2>6, <2>7, <2>8 DEF FederationInv
<1>2. CASE CancelRun
  <2>1. /\ runStatus # "none" /\ runStatus' = "cancelling"
        /\ outbox' = Append(outbox, "cancel") /\ unsent' = unsent \union {"cancel"}
        /\ UNCHANGED <<delivered, eventLog, revoked, sockets, handled, emitted, confirmed>>
        /\ outbox \in Seq(Rows) /\ "cancel" \in Rows
    BY <1>2 DEF CancelRun, FederationInv, FederationTypes, Rows
  <2>2. Len(outbox) = 1 /\ outbox[1] # "cancel"
    <3>1. \A i \in 1 .. Len(outbox) : outbox[i] # "cancel"
      BY <1>2 DEF CancelRun, Contains
    <3>2. Len(outbox) \in Nat
      BY <2>1
    <3>3. /\ Len(outbox) # 0 /\ Len(outbox) <= 2
          /\ \A i \in 1 .. Len(outbox) : outbox[i] = "cancel" <=> i = 2
      BY <2>1 DEF FederationInv, OutboxShape
    <3>4. Len(outbox) # 2
      BY <3>1, <3>3
    <3>5. Len(outbox) = 1
      <4>1. \A k \in Nat : k # 0 /\ k <= 2 /\ k # 2 => k = 1
        OBVIOUS
      <4> QED
        BY <3>2, <3>3, <3>4, <4>1
    <3> QED
      BY <3>1, <3>5
  <2>3. outbox' \in Seq(Rows) /\ Len(outbox') = 2 /\ outbox'[1] = outbox[1] /\ outbox'[2] = "cancel"
    <3>1. /\ Append(outbox, "cancel") \in Seq(Rows)
          /\ Len(Append(outbox, "cancel")) = Len(outbox) + 1
          /\ \A i \in 1 .. Len(outbox) : Append(outbox, "cancel")[i] = outbox[i]
          /\ Append(outbox, "cancel")[Len(outbox) + 1] = "cancel"
      BY <2>1, AppendProperties
    <3> QED
      BY <2>1, <2>2, <3>1
  <2>4. Logged' = Logged
    BY <2>1 DEF Logged
  <2>5. FederationTypes'
    BY <2>1, <2>3 DEF FederationInv, FederationTypes, RunStatuses
  <2>6. OutboxShape' /\ SilentBefore'
    BY <2>1, <2>2, <2>3 DEF OutboxShape, SilentBefore
  <2>7. ReportsInOrder' /\ AcksAreTrue'
    BY <2>1, <2>4 DEF FederationInv, ReportsInOrder, AcksAreTrue
  <2>8. ReadInOrder' /\ NothingIsMissing' /\ LogInOrder'
    BY <2>1, <2>4 DEF FederationInv, ReadInOrder, NothingIsMissing, LogInOrder
  <2>9. EndIsLogged'
    BY <2>1, <2>4 DEF FederationInv, EndIsLogged, EndedRun
  <2> QED
    BY <2>5, <2>6, <2>7, <2>8, <2>9 DEF FederationInv
<1>3. ASSUME UNCHANGED <<runStatus, outbox, delivered, eventLog, fromDevice, handled, emitted,
                         confirmed, dialled>>,
             revoked' \in BOOLEAN, registered' \in {0, registered}, online' \in {0, online},
             unsent' \subseteq unsent,
             serverLoop' \in [Connections -> {"closed", "opening", "replaying", "receiving"}],
             replaying' \in [Connections -> Seq(Rows)],
             runStatus = "none" => \A n \in Connections : replaying'[n] = <<>>,
             \/ toDevice' = toDevice
             \/ \E r \in Rows : /\ runStatus # "none"
                                /\ toDevice' = IF registered = 0 THEN toDevice
                                                                ELSE SentTo(AboutRow(r))
      PROVE  FederationInv'
  <2>1. Logged' = Logged
    BY <1>3 DEF Logged
  <2>2. /\ toDevice' \in [Connections -> Seq(Messages)]
        /\ \A n \in Connections : \A p \in 1 .. Len(toDevice'[n]) :
              /\ toDevice'[n][p].row = "none" => toDevice'[n][p].event \in Logged'
              /\ runStatus' = "none" => toDevice'[n][p].row = "none"
    <3>1. CASE toDevice' = toDevice
      BY <1>3, <2>1, <3>1 DEF FederationInv, FederationTypes, SilentBefore, AcksAreTrue
    <3>2. ASSUME NEW r \in Rows, runStatus # "none",
                 toDevice' = IF registered = 0 THEN toDevice ELSE SentTo(AboutRow(r))
          PROVE  <2>2!1 /\ <2>2!2
      BY <1>3, <2>1, <3>2, SentIsSound, RowMessage
    <3> QED
      BY <1>3, <3>1, <3>2
  <2>3. FederationTypes'
    BY <1>3, <2>2 DEF FederationInv, FederationTypes
  <2>4. OutboxShape' /\ ReportsInOrder'
    BY <1>3 DEF FederationInv, OutboxShape, ReportsInOrder
  <2>5. SilentBefore' /\ AcksAreTrue'
    BY <1>3, <2>1, <2>2 DEF FederationInv, SilentBefore, AcksAreTrue
  <2>6. ReadInOrder' /\ NothingIsMissing'
    BY <1>3, <2>1 DEF FederationInv, ReadInOrder, NothingIsMissing
  <2>7. LogInOrder' /\ EndIsLogged'
    BY <1>3, <2>1 DEF FederationInv, LogInOrder, EndIsLogged
  <2> QED
    BY <2>3, <2>4, <2>5, <2>6, <2>7 DEF FederationInv
<1>4. CASE Deliver
  BY <1>3, <1>4 DEF Deliver, FederationInv, FederationTypes, SilentBefore
<1>5. CASE Revoke
  BY <1>3, <1>5 DEF Revoke, FederationInv, FederationTypes, SilentBefore
<1>6. ASSUME NEW n \in Connections, Disconnected(n)
      PROVE  FederationInv'
  BY <1>3, <1>6 DEF Disconnected, FederationInv, FederationTypes, SilentBefore
<1>7. ASSUME NEW n \in Connections, ReadOutbox(n)
      PROVE  FederationInv'
  <2>0. outbox \in Seq(Rows) /\ Len(outbox) \in Nat /\ (runStatus = "none" => Len(outbox) = 0)
        /\ replaying \in [Connections -> Seq(Rows)]
    BY DEF FederationInv, FederationTypes, OutboxShape
  <2> DEFINE pending == {i \in 1 .. Len(outbox) : outbox[i] \notin delivered}
  <2>1. PICK order \in InOrder(pending) :
           replaying' = [replaying EXCEPT ![n] = [p \in DOMAIN order |-> outbox[order[p]]]]
    BY <1>7 DEF ReadOutbox
  <2>2. PICK m \in Nat : Runs(order, m, pending) /\ (Len(outbox) = 0 => m = 0)
    <3>1. pending \in SUBSET (1 .. Len(outbox))
      OBVIOUS
    <3> HIDE DEF pending
    <3> QED
      BY <2>0, <3>1, PositionsInOrder
  <2>5. DOMAIN order = 1 .. m /\ \A p \in 1 .. m : order[p] \in 1 .. Len(outbox)
    BY <2>2 DEF Runs
  <2> HIDE DEF pending
  <2>3. [p \in DOMAIN order |-> outbox[order[p]]] \in [1 .. m -> Rows]
    <3>1. \A i \in 1 .. Len(outbox) : outbox[i] \in Rows
      BY <2>0, ElementOfSeq
    <3> QED
      BY <2>5, <3>1
  <2>4. /\ [p \in DOMAIN order |-> outbox[order[p]]] \in Seq(Rows)
        /\ Len(outbox) = 0 => [p \in DOMAIN order |-> outbox[order[p]]] = <<>>
    BY <2>2, <2>3, FunctionIsSequence
  <2> QED
    BY <1>3, <1>7, <2>0, <2>1, <2>4
    DEF ReadOutbox, FederationInv, FederationTypes, SilentBefore
<1>8. ASSUME NEW n \in Connections, Replay(n)
      PROVE  FederationInv'
  <2>0. replaying \in [Connections -> Seq(Rows)]
        /\ serverLoop \in [Connections -> {"closed", "opening", "replaying", "receiving"}]
        /\ unsent' \subseteq unsent
        /\ UNCHANGED <<runStatus, outbox, delivered, eventLog, fromDevice, handled, emitted,
                         confirmed, dialled, revoked, registered, online, unsent>>
        /\ revoked \in BOOLEAN
    BY <1>8 DEF Replay, FederationInv, FederationTypes
  <2>1. CASE replaying[n] = <<>>
    BY <1>3, <1>8, <2>0, <2>1 DEF Replay, FederationInv, SilentBefore
  <2>2. CASE replaying[n] # <<>>
    <3>1. /\ replaying' = [replaying EXCEPT ![n] = Tail(replaying[n])]
          /\ serverLoop' = LoopAfterSend(n)
          /\ toDevice' = IF registered = 0 THEN toDevice
                         ELSE SentTo(AboutRow(Head(replaying[n])))
      BY <1>8, <2>2 DEF Replay
    <3>2. Head(replaying[n]) \in Rows /\ Tail(replaying[n]) \in Seq(Rows)
      BY <2>0, <2>2, HeadTailProperties
    <3>3. runStatus # "none"
      BY <2>2 DEF FederationInv, SilentBefore
    <3>4. serverLoop' \in [Connections -> {"closed", "opening", "replaying", "receiving"}]
      BY <2>0, <3>1 DEF LoopAfterSend
    <3>5. replaying' \in [Connections -> Seq(Rows)]
      BY <2>0, <3>1, <3>2
    <3> QED
      BY <1>3, <2>0, <3>1, <3>2, <3>3, <3>4, <3>5
  <2> QED
    BY <2>1, <2>2
<1> HIDE DEF table, device, sockets
<1> QED
  BY <1>1, <1>2, <1>4, <1>5, <1>6, <1>7, <1>8

(* What a loop has still to read once it has read a message.                 *)
LEMMA RestIsRead ==
    ASSUME FederationInv, NEW n \in Connections, fromDevice[n] # <<>>,
           fromDevice' = [fromDevice EXCEPT ![n] = Tail(fromDevice[n])]
    PROVE  /\ fromDevice' \in [Connections -> Seq(Messages)]
           /\ Head(fromDevice[n]) = fromDevice[n][1] /\ Head(fromDevice[n]) \in Messages
           /\ 1 \in 1 .. Len(fromDevice[n])
           /\ \A m \in Connections : m # n => fromDevice'[m] = fromDevice[m]
           /\ \A p \in 1 .. Len(fromDevice'[n]) :
                 p + 1 \in 1 .. Len(fromDevice[n]) /\ fromDevice'[n][p] = fromDevice[n][p + 1]
           /\ \A q \in 1 .. Len(fromDevice[n]) : q # 1 =>
                 q - 1 \in 1 .. Len(fromDevice'[n]) /\ fromDevice'[n][q - 1] = fromDevice[n][q]
<1>1. fromDevice \in [Connections -> Seq(Messages)]
  BY DEF FederationInv, FederationTypes
<1>2. fromDevice[n] \in Seq(Messages) /\ fromDevice'[n] = Tail(fromDevice[n])
  BY <1>1
<1>3. /\ Tail(fromDevice[n]) \in Seq(Messages)
      /\ Head(fromDevice[n]) \in Messages
      /\ Len(Tail(fromDevice[n])) = Len(fromDevice[n]) - 1
      /\ \A i \in 1 .. Len(Tail(fromDevice[n])) : Tail(fromDevice[n])[i] = fromDevice[n][i + 1]
      /\ Len(fromDevice[n]) \in Nat \ {0}
  BY <1>2, HeadTailProperties, EmptySeq
<1>4. Head(fromDevice[n]) = fromDevice[n][1]
  BY <1>2
<1> QED
  BY <1>1, <1>2, <1>3, <1>4

LEMMA RestIsTrue ==
    ASSUME FederationInv, NEW n \in Connections, fromDevice[n] # <<>>,
           fromDevice' = [fromDevice EXCEPT ![n] = Tail(fromDevice[n])],
           NEW m \in Connections, NEW p \in 1 .. Len(fromDevice'[m])
    PROVE  IF fromDevice'[m][p].event = 0
           THEN fromDevice'[m][p].row \in handled
           ELSE fromDevice'[m][p].event \in 1 .. Len(emitted)
<1>1. PICK q \in 1 .. Len(fromDevice[m]) : fromDevice'[m][p] = fromDevice[m][q]
  <2>1. CASE m = n
    BY <2>1, RestIsRead
  <2>2. CASE m # n
    BY <2>2, RestIsRead
  <2> QED
    BY <2>1, <2>2
<1>2. IF fromDevice[m][q].event = 0
      THEN fromDevice[m][q].row \in handled
      ELSE fromDevice[m][q].event \in 1 .. Len(emitted)
  BY DEF FederationInv, AcksAreTrue
<1> QED
  BY <1>1, <1>2

(* A message read leaves the order of the others.                            *)
LEMMA OrderAfterReading ==
    ASSUME FederationInv, NEW n \in Connections, fromDevice[n] # <<>>,
           fromDevice' = [fromDevice EXCEPT ![n] = Tail(fromDevice[n])],
           Logged \subseteq Logged',
           Head(fromDevice[n]).event # 0 => Head(fromDevice[n]).event \in Logged',
           UNCHANGED <<online, emitted>>
    PROVE  ReadInOrder' /\ NothingIsMissing'
<1>1. ASSUME NEW m \in Connections, NEW p \in 1 .. Len(fromDevice'[m]),
             NEW i \in 1 .. fromDevice'[m][p].event - 1
      PROVE  i \in Logged' \/ \E q \in 1 .. p - 1 : fromDevice'[m][q].event = i
  <2> SUFFICES ASSUME i \notin Logged'
               PROVE  \E q \in 1 .. p - 1 : fromDevice'[m][q].event = i
    OBVIOUS
  <2>1. CASE m # n
    BY <1>1, <2>1, RestIsRead DEF FederationInv, ReadInOrder
  <2>2. CASE m = n
    <3>1. p + 1 \in 1 .. Len(fromDevice[n]) /\ fromDevice'[n][p] = fromDevice[n][p + 1]
      BY <1>1, <2>2, RestIsRead
    <3>2. PICK q \in 1 .. (p + 1) - 1 : fromDevice[n][q].event = i
      BY <1>1, <2>2, <3>1 DEF FederationInv, ReadInOrder
    <3>3. i # 0
      BY <1>1
    <3>4. q # 1
      BY <1>1, <3>2, <3>3, RestIsRead
    <3>5. q - 1 \in 1 .. Len(fromDevice'[n]) /\ fromDevice'[n][q - 1] = fromDevice[n][q]
      <4>1. q \in 1 .. Len(fromDevice[n])
        BY <1>1, <2>2, <3>1, <3>2
      <4> QED
        BY <3>4, <4>1, RestIsRead
    <3>6. q - 1 \in 1 .. p - 1
      BY <3>2, <3>4
    <3> QED
      BY <2>2, <3>2, <3>5, <3>6
  <2> QED
    BY <2>1, <2>2
<1>2. ASSUME online # 0, NEW i \in 1 .. Len(emitted), i \notin Logged'
      PROVE  \E p \in 1 .. Len(fromDevice'[online]) : fromDevice'[online][p].event = i
  <2>0. online \in Connections
    BY <1>2, MaxConnectionsAssumption DEF FederationInv, FederationTypes, Connections
  <2>1. PICK p \in 1 .. Len(fromDevice[online]) : fromDevice[online][p].event = i
    BY <1>2 DEF FederationInv, NothingIsMissing
  <2>2. CASE online # n
    BY <2>0, <2>1, <2>2, RestIsRead
  <2>3. CASE online = n
    <3>1. p # 1
      BY <1>2, <2>1, <2>3, RestIsRead
    <3>2. /\ p - 1 \in 1 .. Len(fromDevice'[n])
          /\ fromDevice'[n][p - 1] = fromDevice[n][p]
      BY <2>1, <2>3, <3>1, RestIsRead
    <3> QED
      BY <2>1, <2>3, <3>2
  <2> QED
    BY <2>2, <2>3
<1>3. ReadInOrder'
  BY <1>1, Zenon DEF ReadInOrder
<1>4. NothingIsMissing'
  BY <1>2 DEF NothingIsMissing
<1> QED
  BY <1>3, <1>4

(* What the log holds once a report is in it.                                *)
LEMMA ReportIsLogged ==
    ASSUME FederationInv, NEW i \in Nat,
           IF AlreadyLogged(i) THEN UNCHANGED eventLog ELSE eventLog' = Append(eventLog, i)
    PROVE  eventLog' \in Seq(Nat) /\ Logged' = Logged \union {i}
<1>0. eventLog \in Seq(Nat)
  BY DEF FederationInv, FederationTypes
<1>1. CASE AlreadyLogged(i)
  BY <1>0, <1>1 DEF AlreadyLogged, Contains, Logged
<1>2. CASE ~AlreadyLogged(i)
  <2>1. /\ eventLog' \in Seq(Nat) /\ Len(eventLog') = Len(eventLog) + 1
        /\ \A k \in 1 .. Len(eventLog) : eventLog'[k] = eventLog[k]
        /\ eventLog'[Len(eventLog) + 1] = i /\ Len(eventLog) \in Nat
    BY <1>0, <1>2, AppendProperties
  <2>2. Logged' \subseteq Logged \union {i}
    BY <2>1 DEF Logged
  <2>3. Logged \union {i} \subseteq Logged'
    <3>1. i \in Logged'
      BY <2>1 DEF Logged
    <3>2. ASSUME NEW k \in 1 .. Len(eventLog)
          PROVE  eventLog[k] \in Logged'
      BY <2>1 DEF Logged
    <3> QED
      BY <3>1, <3>2 DEF Logged
  <2> QED
    BY <2>1, <2>2, <2>3
<1> QED
  BY <1>1, <1>2

(* A new report finds every earlier one in the log.                          *)
LEMMA ReportIsNext ==
    ASSUME FederationInv, NEW n \in Connections, fromDevice[n] # <<>>,
           Head(fromDevice[n]).event # 0
    PROVE  /\ Head(fromDevice[n]).event \in 1 .. Len(emitted)
           /\ \A k \in 1 .. Head(fromDevice[n]).event - 1 : k \in Logged
<1>1. Head(fromDevice[n]) = fromDevice[n][1] /\ 1 \in 1 .. Len(fromDevice[n])
  <2>1. fromDevice[n] \in Seq(Messages)
    BY DEF FederationInv, FederationTypes
  <2> QED
    BY <2>1, EmptySeq
<1> QED
  BY <1>1 DEF FederationInv, AcksAreTrue, ReadInOrder

(* So nothing new is said of a run that has ended.                           *)
LEMMA EndIsLast ==
    ASSUME FederationInv, NEW i \in 1 .. Len(emitted), runStatus \in EndedRun
    PROVE  i \in Logged
<1>1. PICK k \in Logged : emitted[k] = runStatus
  BY DEF FederationInv, EndIsLogged
<1>2. k \in 1 .. Len(emitted) /\ k = Len(emitted)
  BY <1>1 DEF FederationInv, LogInOrder, ReportsInOrder, EndedRun
<1> QED
  BY <1>1, <1>2 DEF FederationInv, LogInOrder

(* A report is handled: it is logged, once, next in order, and acknowledged. *)
LEMMA ReportKeepsFederation ==
    ASSUME FederationInv, NEW n \in Connections, HandleReport(n)
    PROVE  FederationInv'
<1> DEFINE i == Head(fromDevice[n]).event
<1>1. /\ serverLoop[n] = "receiving" /\ fromDevice[n] # <<>> /\ i # 0
      /\ fromDevice' = [fromDevice EXCEPT ![n] = Tail(fromDevice[n])]
      /\ IF AlreadyLogged(i)
         THEN UNCHANGED <<runStatus, eventLog>>
         ELSE /\ runStatus' = AfterReport(runStatus, emitted[i])
              /\ eventLog' = Append(eventLog, i)
      /\ toDevice' = IF registered = 0 THEN toDevice ELSE SentTo(AboutEvent(i))
      /\ serverLoop' = LoopAfterSend(n)
      /\ UNCHANGED <<outbox, unsent, delivered, revoked, registered, replaying, online,
                     dialled, device>>
  BY DEF HandleReport
<1>2. i \in 1 .. Len(emitted) /\ \A k \in 1 .. i - 1 : k \in Logged
  BY <1>1, ReportIsNext
<1>3. emitted[i] \in Reports /\ emitted # <<>> /\ runStatus # "none"
  <2>1. emitted \in Seq(Reports) /\ Len(emitted) \in Nat
    BY DEF FederationInv, FederationTypes
  <2> HIDE DEF i
  <2> QED
    BY <1>2, <2>1, ElementOfSeq, EmptySeq DEF FederationInv, SilentBefore
<1>4. i \in Nat
  <2> HIDE DEF i
  <2> QED
    BY <1>2
<1>5. eventLog' \in Seq(Nat) /\ Logged' = Logged \union {i}
  BY <1>1, <1>4, ReportIsLogged
<1>6. ReadInOrder' /\ NothingIsMissing'
  BY <1>1, <1>5, OrderAfterReading DEF device
<1>7. fromDevice' \in [Connections -> Seq(Messages)]
  BY <1>1, RestIsRead
<1> HIDE DEF i
<1>8. /\ runStatus' \in RunStatuses /\ runStatus' # "none"
      /\ runStatus' \in EndedRun => \E k \in Logged' : emitted[k] = runStatus'
  <2>1. CASE AlreadyLogged(i)
    BY <1>1, <1>3, <1>5, <2>1 DEF FederationInv, FederationTypes, EndIsLogged
  <2>2. CASE ~AlreadyLogged(i)
    <3>1. runStatus' = AfterReport(runStatus, emitted[i]) /\ runStatus \in RunStatuses
      BY <1>1, <2>2 DEF FederationInv, FederationTypes
    <3>2. CASE emitted[i] = "accepted"
      BY <1>3, <1>5, <3>1, <3>2
      DEF AfterReport, RunStatuses, EndedRun, FederationInv, EndIsLogged
    <3>3. CASE emitted[i] = "rejected"
      BY <1>3, <1>5, <3>1, <3>3
      DEF AfterReport, RunStatuses, EndedRun, FederationInv, EndIsLogged
    <3>4. CASE emitted[i] = "approval_required"
      BY <1>3, <3>1, <3>4 DEF AfterReport, RunStatuses, EndedRun
    <3>5. CASE emitted[i] = "completed"
      BY <1>3, <1>5, <3>1, <3>5 DEF AfterReport, RunStatuses, EndedRun
    <3> QED
      BY <1>3, <3>2, <3>3, <3>4, <3>5 DEF Reports
  <2> QED
    BY <2>1, <2>2
<1>9. /\ toDevice' \in [Connections -> Seq(Messages)]
      /\ \A m \in Connections : \A p \in 1 .. Len(toDevice'[m]) :
            /\ toDevice'[m][p].row = "none" => toDevice'[m][p].event \in Logged'
            /\ runStatus' = "none" => toDevice'[m][p].row = "none"
  BY <1>1, <1>4, <1>5, <1>8, EventMessage, SentIsSound
<1>10. FederationTypes'
  <2>1. serverLoop' \in [Connections -> {"closed", "opening", "replaying", "receiving"}]
    BY <1>1 DEF LoopAfterSend, FederationInv, FederationTypes
  <2> QED
    BY <1>1, <1>5, <1>7, <1>8, <1>9, <2>1 DEF FederationInv, FederationTypes, device
<1>11. OutboxShape' /\ SilentBefore' /\ ReportsInOrder'
  BY <1>1, <1>3, <1>8 DEF FederationInv, OutboxShape, SilentBefore, ReportsInOrder, device
<1>12. AcksAreTrue'
  <2>1. handled' = handled /\ emitted' = emitted
    BY <1>1 DEF device
  <2>2. ASSUME NEW m \in Connections, NEW p \in 1 .. Len(fromDevice'[m])
        PROVE  IF fromDevice'[m][p].event = 0 THEN fromDevice'[m][p].row \in handled
               ELSE fromDevice'[m][p].event \in 1 .. Len(emitted)
    BY <1>1, RestIsTrue
  <2> QED
    BY <1>9, <2>1, <2>2 DEF AcksAreTrue
<1>13. LogInOrder'
  <2>1. emitted' = emitted
    BY <1>1 DEF device
  <2>2. \A k \in 1 .. i : k = i \/ k \in 1 .. i - 1
    BY <1>4
  <2> QED
    BY <1>2, <1>5, <2>1, <2>2 DEF FederationInv, LogInOrder
<1>14. EndIsLogged'
  BY <1>1, <1>5, <1>8 DEF FederationInv, EndIsLogged, device
<1> QED
  BY <1>6, <1>10, <1>11, <1>12, <1>13, <1>14 DEF FederationInv

(* The device's acknowledgement of a row is taken.                           *)
LEMMA AckKeepsFederation ==
    ASSUME FederationInv, NEW n \in Connections, HandleAck(n)
    PROVE  FederationInv'
<1> USE DEF device
<1>1. /\ fromDevice[n] # <<>> /\ Head(fromDevice[n]).event = 0
      /\ fromDevice' = [fromDevice EXCEPT ![n] = Tail(fromDevice[n])]
      /\ delivered' = delivered \union {Head(fromDevice[n]).row}
      /\ UNCHANGED <<runStatus, outbox, unsent, eventLog, revoked, registered, serverLoop,
                     replaying, toDevice, online, dialled, handled, emitted, confirmed>>
  BY DEF HandleAck
<1>2. Logged' = Logged
  BY <1>1 DEF Logged
<1>3. Head(fromDevice[n]).row \in handled
  BY <1>1, RestIsRead DEF FederationInv, AcksAreTrue
<1>4. fromDevice' \in [Connections -> Seq(Messages)]
  BY <1>1, RestIsRead
<1>5. ReadInOrder' /\ NothingIsMissing'
  BY <1>1, <1>2, OrderAfterReading
<1>6. FederationTypes' /\ OutboxShape' /\ SilentBefore' /\ ReportsInOrder'
  BY <1>1, <1>3, <1>4
  DEF FederationInv, FederationTypes, OutboxShape, SilentBefore, ReportsInOrder
<1>7. AcksAreTrue'
  <2>1. ASSUME NEW m \in Connections, NEW p \in 1 .. Len(fromDevice'[m])
        PROVE  IF fromDevice'[m][p].event = 0 THEN fromDevice'[m][p].row \in handled
               ELSE fromDevice'[m][p].event \in 1 .. Len(emitted)
    BY <1>1, RestIsTrue
  <2> QED
    BY <1>1, <1>2, <2>1 DEF FederationInv, AcksAreTrue
<1>8. LogInOrder' /\ EndIsLogged'
  BY <1>1, <1>2 DEF FederationInv, LogInOrder, EndIsLogged
<1> QED
  BY <1>5, <1>6, <1>7, <1>8 DEF FederationInv

(* A new connection carries, in order, all that is not acknowledged.         *)
LEMMA ConnectKeepsFederation == FederationInv /\ Connect => FederationInv'
<1> SUFFICES ASSUME FederationInv, Connect PROVE FederationInv'
  OBVIOUS
<1> USE MaxConnectionsAssumption DEF table, device
<1> DEFINE c == dialled + 1
           open == {i \in 1 .. Len(emitted) : i \notin confirmed}
<1>0. /\ emitted \in Seq(Reports) /\ Len(emitted) \in Nat /\ dialled \in 0 .. MaxConnections
      /\ fromDevice \in [Connections -> Seq(Messages)]
      /\ serverLoop \in [Connections -> {"closed", "opening", "replaying", "receiving"}]
  BY DEF FederationInv, FederationTypes
<1>1. /\ dialled' = c /\ online' = c /\ registered' = c /\ c \in Connections
      /\ serverLoop' = [serverLoop EXCEPT ![c] = "opening"]
      /\ UNCHANGED <<runStatus, outbox, delivered, eventLog, revoked, unsent, replaying,
                     toDevice, handled, emitted, confirmed>>
  BY <1>0 DEF Connect, Connections
<1>2. PICK order \in InOrder(open) :
         fromDevice' = [fromDevice EXCEPT ![c] = [p \in DOMAIN order |-> AboutEvent(order[p])]]
  BY DEF Connect
<1>3. open \in SUBSET (1 .. Len(emitted)) /\ \A i \in 1 .. Len(emitted) : i \in open \/ i \in confirmed
  OBVIOUS
<1> HIDE DEF c, open
<1>14. PICK m \in Nat : Runs(order, m, open)
  BY <1>0, <1>3, PositionsInOrder
<1>4. /\ DOMAIN order = 1 .. m
      /\ \A p \in 1 .. m : order[p] \in open /\ order[p] \in 1 .. Len(emitted)
      /\ \A i \in open : \E p \in 1 .. m : order[p] = i
      /\ \A p, q \in 1 .. m : p < q => order[p] < order[q]
  BY <1>3, <1>14 DEF Runs
<1> DEFINE s == [p \in DOMAIN order |-> AboutEvent(order[p])]
<1>5. /\ s \in [1 .. m -> Messages]
      /\ \A p \in 1 .. m : s[p].event = order[p]
  <2>1. ASSUME NEW p \in 1 .. m
        PROVE  s[p] \in Messages /\ s[p].event = order[p]
    <3>1. order[p] \in Nat /\ order[p] # 0
      BY <1>0, <1>4
    <3> QED
      BY <1>4, <3>1, EventMessage
  <2> QED
    BY <1>4, <2>1
<1> HIDE DEF s
<1>6. s \in Seq(Messages) /\ Len(s) = m
  BY <1>5, FunctionIsSequence
<1>7. /\ fromDevice' \in [Connections -> Seq(Messages)]
      /\ fromDevice'[c] = s
      /\ \A n \in Connections : n # c => fromDevice'[n] = fromDevice[n]
  BY <1>0, <1>1, <1>2, <1>6 DEF s
<1>8. Logged' = Logged /\ confirmed \subseteq Logged
  BY <1>1 DEF Logged, FederationInv, EndIsLogged
<1>9. FederationTypes'
  <2>1. dialled' \in 0 .. MaxConnections /\ registered' \in 0 .. dialled' /\ online' \in 0 .. dialled'
    BY <1>0, <1>1 DEF Connections
  <2>2. serverLoop' \in [Connections -> {"closed", "opening", "replaying", "receiving"}]
    BY <1>0, <1>1
  <2> QED
    BY <1>1, <1>7, <2>1, <2>2 DEF FederationInv, FederationTypes
<1>10. OutboxShape' /\ SilentBefore' /\ ReportsInOrder' /\ LogInOrder' /\ EndIsLogged'
  BY <1>1, <1>8
  DEF FederationInv, OutboxShape, SilentBefore, ReportsInOrder, LogInOrder, EndIsLogged
<1>11. AcksAreTrue'
  <2>1. ASSUME NEW n \in Connections, NEW p \in 1 .. Len(fromDevice'[n])
        PROVE  IF fromDevice'[n][p].event = 0 THEN fromDevice'[n][p].row \in handled
               ELSE fromDevice'[n][p].event \in 1 .. Len(emitted)
    <3>1. CASE n = c
      <4>1. p \in 1 .. m
        BY <1>6, <1>7, <3>1
      <4>2. fromDevice'[n][p].event \in 1 .. Len(emitted)
        BY <1>4, <1>5, <1>7, <3>1, <4>1
      <4> QED
        BY <4>2
    <3>2. CASE n # c
      BY <1>7, <3>2 DEF FederationInv, AcksAreTrue
    <3> QED
      BY <3>1, <3>2
  <2> QED
    BY <1>1, <1>8, <2>1 DEF FederationInv, AcksAreTrue
<1>12. ReadInOrder'
  <2>1. ASSUME NEW n \in Connections, NEW p \in 1 .. Len(fromDevice'[n]),
               NEW i \in 1 .. fromDevice'[n][p].event - 1
        PROVE  i \in Logged' \/ \E q \in 1 .. p - 1 : fromDevice'[n][q].event = i
    <3>1. CASE n = c
      <4>1. p \in 1 .. m /\ i \in 1 .. order[p] - 1 /\ order[p] \in 1 .. Len(emitted)
        BY <1>4, <1>5, <1>6, <1>7, <2>1, <3>1
      <4>2. i \in open \/ i \in confirmed
        BY <1>0, <1>3, <4>1
      <4>3. CASE i \in open
        <5>1. PICK q \in 1 .. m : order[q] = i
          BY <1>4, <4>3
        <5>2. q \in 1 .. p - 1
          <6>1. p < q => order[p] < order[q]
            BY <1>4, <4>1, <5>1
          <6>2. order[q] < order[p] /\ order[p] \in Nat /\ order[q] \in Nat
            BY <1>0, <4>1, <5>1
          <6>3. ~(p < q) /\ p # q
            BY <6>1, <6>2
          <6> QED
            BY <4>1, <5>1, <6>3
        <5> QED
          BY <1>5, <1>7, <3>1, <5>1, <5>2
      <4> QED
        BY <1>8, <4>2, <4>3
    <3>2. CASE n # c
      <4>1. fromDevice'[n] = fromDevice[n]
        BY <1>7, <3>2
      <4>2. \A k \in 1 .. fromDevice[n][p].event - 1 :
               k \in Logged \/ \E q \in 1 .. p - 1 : fromDevice[n][q].event = k
        BY <2>1, <4>1 DEF FederationInv, ReadInOrder
      <4> QED
        BY <1>8, <2>1, <4>1, <4>2
    <3> QED
      BY <3>1, <3>2
  <2> QED
    BY <2>1, Zenon DEF ReadInOrder
<1>13. NothingIsMissing'
  <2>1. ASSUME NEW i \in 1 .. Len(emitted)
        PROVE  i \in Logged \/ \E p \in 1 .. Len(s) : s[p].event = i
    BY <1>3, <1>4, <1>5, <1>6, <1>8
  <2> QED
    BY <1>1, <1>7, <1>8, <2>1 DEF NothingIsMissing
<1> QED
  BY <1>9, <1>10, <1>11, <1>12, <1>13 DEF FederationInv

(* The connection breaks, with what was under way on it.                     *)
LEMMA BreakKeepsFederation == FederationInv /\ ConnectionBreaks => FederationInv'
<1> SUFFICES ASSUME FederationInv, ConnectionBreaks PROVE FederationInv'
  OBVIOUS
<1> USE DEF table, device
<1>0. /\ toDevice \in [Connections -> Seq(Messages)]
      /\ fromDevice \in [Connections -> Seq(Messages)]
  BY DEF FederationInv, FederationTypes
<1>1. /\ online \in Connections /\ online' = 0
      /\ toDevice' = [toDevice EXCEPT ![online] = <<>>]
      /\ UNCHANGED <<runStatus, outbox, delivered, eventLog, revoked, unsent, registered,
                     serverLoop, replaying, dialled, handled, emitted, confirmed>>
  BY MaxConnectionsAssumption DEF ConnectionBreaks, FederationInv, FederationTypes, Connections
<1>2. \/ fromDevice' = fromDevice
      \/ fromDevice' = [fromDevice EXCEPT ![online] = <<>>]
  <2>1. PICK k \in {0, Len(fromDevice[online])} :
           fromDevice' = [fromDevice EXCEPT ![online] = SubSeq(fromDevice[online], 1, k)]
    BY DEF ConnectionBreaks
  <2>2. SubSeq(fromDevice[online], 1, Len(fromDevice[online])) = fromDevice[online]
    BY <1>0, <1>1, SubSeqFull
  <2>3. SubSeq(fromDevice[online], 1, 0) = <<>>
    BY SubSeqEmpty
  <2> QED
    BY <1>0, <1>1, <2>1, <2>2, <2>3
<1>3. <<>> \in Seq(Messages) /\ Len(<<>>) = 0
  BY EmptySeq
<1>4. /\ toDevice' \in [Connections -> Seq(Messages)]
      /\ fromDevice' \in [Connections -> Seq(Messages)]
      /\ \A n \in Connections :
            /\ toDevice'[n] = toDevice[n] \/ Len(toDevice'[n]) = 0
            /\ fromDevice'[n] = fromDevice[n] \/ Len(fromDevice'[n]) = 0
  BY <1>0, <1>1, <1>2, <1>3
<1>5. Logged' = Logged
  BY <1>1 DEF Logged
<1>6. FederationTypes'
  BY <1>1, <1>4 DEF FederationInv, FederationTypes
<1>7. OutboxShape' /\ ReportsInOrder' /\ LogInOrder' /\ EndIsLogged'
  BY <1>1, <1>5 DEF FederationInv, OutboxShape, ReportsInOrder, LogInOrder, EndIsLogged
<1>8. SilentBefore' /\ AcksAreTrue' /\ NothingIsMissing'
  <2>1. SilentBefore'
    BY <1>1, <1>4 DEF FederationInv, SilentBefore
  <2>2. AcksAreTrue'
    BY <1>1, <1>4, <1>5 DEF FederationInv, AcksAreTrue
  <2>3. NothingIsMissing'
    BY <1>1 DEF NothingIsMissing
  <2> QED
    BY <2>1, <2>2, <2>3
<1>9. ReadInOrder'
  <2>1. ASSUME NEW n \in Connections, NEW p \in 1 .. Len(fromDevice'[n]),
               NEW i \in 1 .. fromDevice'[n][p].event - 1
        PROVE  i \in Logged' \/ \E q \in 1 .. p - 1 : fromDevice'[n][q].event = i
    <3>1. fromDevice'[n] = fromDevice[n]
      BY <1>4, <2>1
    <3>2. \A k \in 1 .. fromDevice[n][p].event - 1 :
             k \in Logged \/ \E q \in 1 .. p - 1 : fromDevice[n][q].event = k
      BY <2>1, <3>1 DEF FederationInv, ReadInOrder
    <3> QED
      BY <1>5, <2>1, <3>1, <3>2
  <2> QED
    BY <2>1, Zenon DEF ReadInOrder
<1> QED
  BY <1>6, <1>7, <1>8, <1>9 DEF FederationInv

LEMMA OneOrNone ==
    ASSUME NEW m \in {0, 1}, NEW n \in Nat, NEW i \in 1 .. n + m
    PROVE  i \in 1 .. n \/ (i = n + 1 /\ m = 1)
  OBVIOUS

(* Three sequences, one after the other.                                     *)
LEMMA ThreeParts ==
    ASSUME NEW S, NEW a \in Seq(S), NEW b \in Seq(S), NEW c \in Seq(S),
           NEW d, d = a \o b \o c
    PROVE  /\ d \in Seq(S) /\ Len(d) = Len(a) + Len(b) + Len(c)
           /\ \A p \in 1 .. Len(a) : d[p] = a[p]
           /\ \A p \in 1 .. Len(b) : d[Len(a) + p] = b[p]
           /\ \A p \in 1 .. Len(c) : d[Len(a) + Len(b) + p] = c[p]
<1>0. Len(a) \in Nat /\ Len(b) \in Nat /\ Len(c) \in Nat
  BY LenProperties
<1>1. /\ a \o b \in Seq(S) /\ Len(a \o b) = Len(a) + Len(b)
      /\ \A p \in 1 .. Len(a) + Len(b) :
            (a \o b)[p] = IF p <= Len(a) THEN a[p] ELSE b[p - Len(a)]
  BY ConcatProperties
<1>2. /\ d \in Seq(S) /\ Len(d) = Len(a \o b) + Len(c)
      /\ \A p \in 1 .. Len(a \o b) + Len(c) :
            d[p] = IF p <= Len(a \o b) THEN (a \o b)[p] ELSE c[p - Len(a \o b)]
  BY <1>1, ConcatProperties
<1>3. ASSUME NEW p \in 1 .. Len(a)
      PROVE  d[p] = a[p]
  BY <1>0, <1>1, <1>2
<1>4. ASSUME NEW p \in 1 .. Len(b)
      PROVE  d[Len(a) + p] = b[p]
  <2>1. Len(a) + p \in 1 .. Len(a) + Len(b) /\ ~(Len(a) + p <= Len(a)) /\ Len(a) + p - Len(a) = p
    BY <1>0
  <2>2. Len(a) + p \in 1 .. Len(a \o b) + Len(c) /\ Len(a) + p <= Len(a \o b)
    BY <1>0, <1>1
  <2> QED
    BY <1>1, <1>2, <2>1, <2>2
<1>5. ASSUME NEW p \in 1 .. Len(c)
      PROVE  d[Len(a) + Len(b) + p] = c[p]
  <2>1. /\ Len(a) + Len(b) + p \in 1 .. Len(a \o b) + Len(c)
        /\ ~(Len(a) + Len(b) + p <= Len(a \o b))
        /\ Len(a) + Len(b) + p - Len(a \o b) = p
    BY <1>0, <1>1
  <2> QED
    BY <1>2, <2>1
<1> QED
  BY <1>1, <1>2, <1>3, <1>4, <1>5

(* What the device says is appended to its outbox and to the connection.     *)
LEMMA SaysIsSound ==
    ASSUME FederationInv, online # 0,
           handled \subseteq handled', handled' \subseteq Rows,
           NEW reports \in Seq(Reports), Len(reports) \in {0, 1},
           NEW ack \in Seq(Messages),
           \A p \in 1 .. Len(ack) : ack[p].event = 0 /\ ack[p].row \in handled',
           Says(reports, ack),
           UNCHANGED <<eventLog, online>>
    PROVE  /\ emitted' \in Seq(Reports)
           /\ Len(emitted') = Len(emitted) + Len(reports)
           /\ \A i \in 1 .. Len(emitted) : emitted'[i] = emitted[i]
           /\ Len(reports) = 1 => emitted'[Len(emitted) + 1] = reports[1]
           /\ fromDevice' \in [Connections -> Seq(Messages)]
           /\ \A n \in Connections : \A p \in 1 .. Len(fromDevice'[n]) :
                 IF fromDevice'[n][p].event = 0
                 THEN fromDevice'[n][p].row \in handled'
                 ELSE fromDevice'[n][p].event \in 1 .. Len(emitted')
           /\ ReadInOrder' /\ NothingIsMissing'
<1> DEFINE next == Len(emitted) + 1
           new == [i \in 1 .. Len(reports) |-> AboutEvent(next + i - 1)]
           old == fromDevice[online]
           all == old \o new \o ack
<1>0. /\ emitted \in Seq(Reports) /\ Len(emitted) \in Nat /\ online \in Connections
      /\ fromDevice \in [Connections -> Seq(Messages)]
      /\ old \in Seq(Messages) /\ Len(old) \in Nat
      /\ Len(reports) \in Nat /\ Len(ack) \in Nat
  <2>1. /\ emitted \in Seq(Reports) /\ fromDevice \in [Connections -> Seq(Messages)]
        /\ online \in 0 .. dialled /\ dialled \in 0 .. MaxConnections
    BY DEF FederationInv, FederationTypes
  <2>2. online \in Connections
    BY <2>1, MaxConnectionsAssumption DEF Connections
  <2> QED
    BY <2>1, <2>2, LenProperties
<1>1. /\ emitted' = emitted \o reports
      /\ fromDevice' = [fromDevice EXCEPT ![online] = all]
  BY DEF Says
<1>2. /\ emitted' \in Seq(Reports)
      /\ Len(emitted') = Len(emitted) + Len(reports)
      /\ \A i \in 1 .. Len(emitted) : emitted'[i] = emitted[i]
      /\ Len(reports) = 1 => emitted'[Len(emitted) + 1] = reports[1]
  BY <1>0, <1>1, ConcatProperties
<1>3. new \in [1 .. Len(reports) -> Messages] /\ \A i \in 1 .. Len(reports) : new[i].event = next
  <2>1. ASSUME NEW i \in 1 .. Len(reports)
        PROVE  AboutEvent(next + i - 1) \in Messages /\ AboutEvent(next + i - 1).event = next
    <3>1. i = 1
      <4>1. i \in 1 .. 0 + Len(reports)
        BY <1>0
      <4> QED
        BY <4>1, OneOrNone
    <3>2. next + i - 1 = next /\ next \in Nat /\ next # 0
      BY <1>0, <3>1
    <3> QED
      BY <3>2, EventMessage
  <2> QED
    BY <2>1
<1>4. new \in Seq(Messages) /\ Len(new) = Len(reports)
  <2>1. Len(reports) \in Nat
    OBVIOUS
  <2> HIDE DEF new
  <2> QED
    BY <1>3, <2>1, FunctionIsSequence
<1> HIDE DEF new, old
<1>5. /\ all \in Seq(Messages) /\ Len(all) = Len(old) + Len(reports) + Len(ack)
      /\ \A p \in 1 .. Len(old) : all[p] = old[p]
      /\ Len(reports) = 1 => all[Len(old) + 1] = new[1]
      /\ \A p \in 1 .. Len(ack) : all[Len(old) + Len(reports) + p] = ack[p]
  <2>0. all = old \o new \o ack
    OBVIOUS
  <2> HIDE DEF all
  <2>1. /\ all \in Seq(Messages) /\ Len(all) = Len(old) + Len(new) + Len(ack)
        /\ \A p \in 1 .. Len(old) : all[p] = old[p]
        /\ \A p \in 1 .. Len(new) : all[Len(old) + p] = new[p]
        /\ \A p \in 1 .. Len(ack) : all[Len(old) + Len(new) + p] = ack[p]
    <3>1. old \in Seq(Messages) /\ new \in Seq(Messages) /\ ack \in Seq(Messages)
      BY <1>0, <1>4
    <3> QED
      BY <2>0, <3>1, ThreeParts
  <2>2. Len(reports) = 1 => 1 \in 1 .. Len(new)
    BY <1>4
  <2> QED
    BY <1>4, <2>1, <2>2
<1> HIDE DEF all
<1>6. ASSUME NEW p \in 1 .. Len(all)
      PROVE  \/ p \in 1 .. Len(old) /\ all[p] = old[p]
             \/ p = Len(old) + 1 /\ all[p].event = next /\ Len(reports) = 1
             \/ all[p].event = 0 /\ all[p].row \in handled'
  <2>0. Len(ack) \in Nat /\ Len(old) \in Nat /\ Len(reports) \in Nat
    BY <1>0
  <2>1. CASE p \in 1 .. Len(old)
    BY <1>5, <2>1
  <2>2. CASE p \in 1 .. Len(old) + Len(reports) /\ p \notin 1 .. Len(old)
    <3>1. Len(reports) = 1 /\ p = Len(old) + 1
      BY <2>0, <2>2, OneOrNone
    <3>2. 1 \in 1 .. Len(reports)
      BY <3>1
    <3> QED
      BY <1>3, <1>5, <3>1, <3>2
  <2>3. CASE p > Len(old) + Len(reports)
    <3> DEFINE k == p - Len(old) - Len(reports)
    <3>1. k \in 1 .. Len(ack) /\ p = Len(old) + Len(reports) + k
      BY <1>5, <2>0, <2>3
    <3> HIDE DEF k
    <3>2. all[p] = ack[k]
      BY <1>5, <3>1
    <3> QED
      BY <3>1, <3>2
  <2> QED
    BY <1>5, <2>0, <2>1, <2>2, <2>3
<1>7. /\ fromDevice' \in [Connections -> Seq(Messages)]
      /\ fromDevice'[online] = all
      /\ \A n \in Connections : n # online => fromDevice'[n] = fromDevice[n]
  BY <1>0, <1>1, <1>5
<1>8. Logged' = Logged
  BY DEF Logged
<1>9. ASSUME NEW n \in Connections, NEW p \in 1 .. Len(fromDevice'[n])
      PROVE  IF fromDevice'[n][p].event = 0
             THEN fromDevice'[n][p].row \in handled'
             ELSE fromDevice'[n][p].event \in 1 .. Len(emitted')
  <2>0. ASSUME NEW m \in Messages,
               IF m.event = 0 THEN m.row \in handled ELSE m.event \in 1 .. Len(emitted)
        PROVE  IF m.event = 0 THEN m.row \in handled' ELSE m.event \in 1 .. Len(emitted')
    BY <1>0, <1>2, <2>0
  <2>1. ASSUME NEW q \in 1 .. Len(fromDevice[n])
        PROVE  /\ fromDevice[n][q] \in Messages
               /\ IF fromDevice[n][q].event = 0 THEN fromDevice[n][q].row \in handled
                  ELSE fromDevice[n][q].event \in 1 .. Len(emitted)
    BY <1>0, ElementOfSeq DEF FederationInv, AcksAreTrue
  <2>2. CASE n # online
    BY <1>7, <2>0, <2>1, <2>2
  <2>3. CASE n = online
    <3>1. CASE p \in 1 .. Len(old) /\ all[p] = old[p]
      BY <1>7, <2>0, <2>1, <2>3, <3>1 DEF old
    <3>2. CASE p = Len(old) + 1 /\ all[p].event = next /\ Len(reports) = 1
      <4>1. next \in 1 .. Len(emitted') /\ next # 0
        BY <1>0, <1>2, <3>2
      <4> QED
        BY <1>7, <2>3, <3>2, <4>1
    <3>3. CASE all[p].event = 0 /\ all[p].row \in handled'
      BY <1>7, <2>3, <3>3
    <3> QED
      BY <1>6, <1>7, <2>3, <3>1, <3>2, <3>3
  <2> QED
    BY <2>2, <2>3
<1>10. ReadInOrder'
  <2>1. ASSUME NEW n \in Connections, NEW p \in 1 .. Len(fromDevice'[n]),
               NEW i \in 1 .. fromDevice'[n][p].event - 1
        PROVE  i \in Logged' \/ \E q \in 1 .. p - 1 : fromDevice'[n][q].event = i
    <3>1. ASSUME NEW k \in 1 .. Len(fromDevice[n]), NEW j \in 1 .. fromDevice[n][k].event - 1
          PROVE  j \in Logged \/ \E q \in 1 .. k - 1 : fromDevice[n][q].event = j
      BY DEF FederationInv, ReadInOrder
    <3>2. CASE n # online
      <4>1. fromDevice'[n] = fromDevice[n]
        BY <1>7, <3>2
      <4>2. \A k \in 1 .. fromDevice[n][p].event - 1 :
               k \in Logged \/ \E q \in 1 .. p - 1 : fromDevice[n][q].event = k
        BY <2>1, <3>1, <4>1
      <4> QED
        BY <1>8, <2>1, <4>1, <4>2
    <3>3. CASE n = online /\ p \in 1 .. Len(old) /\ all[p] = old[p]
      <4>1. i \in Logged \/ \E q \in 1 .. p - 1 : old[q].event = i
        BY <1>7, <2>1, <3>1, <3>3 DEF old
      <4>2. \A q \in 1 .. p - 1 : all[q] = old[q]
        BY <1>0, <1>5, <3>3
      <4> QED
        BY <1>7, <1>8, <3>3, <4>1, <4>2
    <3>4. CASE n = online /\ p = Len(old) + 1 /\ all[p].event = next
      <4>1. i \in 1 .. Len(emitted)
        BY <1>0, <1>7, <2>1, <3>4
      <4>2. i \in Logged \/ \E q \in 1 .. Len(old) : old[q].event = i
        BY <4>1 DEF old, FederationInv, NothingIsMissing
      <4>3. \A q \in 1 .. p - 1 : q \in 1 .. Len(old) /\ all[q] = old[q]
        BY <1>0, <1>5, <3>4
      <4>4. \A q \in 1 .. Len(old) : q \in 1 .. p - 1
        BY <1>0, <3>4
      <4> QED
        BY <1>7, <1>8, <3>4, <4>2, <4>3, <4>4
    <3>5. CASE n = online /\ all[p].event = 0
      BY <1>7, <2>1, <3>5
    <3> QED
      BY <1>6, <1>7, <3>2, <3>3, <3>4, <3>5
  <2> QED
    BY <2>1, Zenon DEF ReadInOrder
<1>11. NothingIsMissing'
  <2>1. ASSUME NEW i \in 1 .. Len(emitted')
        PROVE  i \in Logged \/ \E p \in 1 .. Len(all) : all[p].event = i
    <3>0. Len(ack) \in Nat /\ Len(old) \in Nat
      BY <1>0
    <3>1. CASE i \in 1 .. Len(emitted)
      <4>1. i \in Logged \/ \E q \in 1 .. Len(old) : old[q].event = i
        BY <3>1 DEF old, FederationInv, NothingIsMissing
      <4>2. \A q \in 1 .. Len(old) : q \in 1 .. Len(all) /\ all[q] = old[q]
        BY <1>5, <3>0
      <4> QED
        BY <4>1, <4>2
    <3>2. CASE i \notin 1 .. Len(emitted)
      <4>1. Len(reports) = 1 /\ i = next
        BY <1>0, <1>2, <2>1, <3>2, OneOrNone
      <4>2. Len(old) + 1 \in 1 .. Len(all) /\ all[Len(old) + 1].event = next
        <5>1. 1 \in 1 .. Len(reports)
          BY <4>1
        <5>2. Len(all) = Len(old) + 1 + Len(ack)
          BY <1>5, <4>1
        <5> QED
          BY <1>3, <1>5, <3>0, <4>1, <5>1, <5>2
      <4> QED
        BY <4>1, <4>2
    <3> QED
      BY <3>1, <3>2
  <2> QED
    BY <1>7, <1>8, <2>1 DEF NothingIsMissing
<1> QED
  BY <1>2, <1>7, <1>9, <1>10, <1>11

(* What is under way to the device, after the first of it was taken.         *)
LEMMA RestIsUnderWay ==
    ASSUME FederationInv, online # 0, toDevice[online] # <<>>,
           toDevice' = [toDevice EXCEPT ![online] = Tail(toDevice[online])]
    PROVE  /\ toDevice' \in [Connections -> Seq(Messages)]
           /\ Head(toDevice[online]) \in Messages
           /\ online \in Connections /\ 1 \in 1 .. Len(toDevice[online])
           /\ Head(toDevice[online]) = toDevice[online][1]
           /\ \A n \in Connections : \A p \in 1 .. Len(toDevice'[n]) :
                 \E q \in 1 .. Len(toDevice[n]) : toDevice'[n][p] = toDevice[n][q]
<1>1. toDevice \in [Connections -> Seq(Messages)] /\ online \in Connections
  BY MaxConnectionsAssumption DEF FederationInv, FederationTypes, Connections
<1>2. toDevice[online] \in Seq(Messages) /\ toDevice'[online] = Tail(toDevice[online])
  BY <1>1
<1>3. /\ Tail(toDevice[online]) \in Seq(Messages)
      /\ Head(toDevice[online]) \in Messages
      /\ Len(Tail(toDevice[online])) = Len(toDevice[online]) - 1
      /\ \A i \in 1 .. Len(Tail(toDevice[online])) :
            Tail(toDevice[online])[i] = toDevice[online][i + 1]
      /\ Len(toDevice[online]) \in Nat \ {0}
  BY <1>2, HeadTailProperties, EmptySeq
<1>4. Head(toDevice[online]) = toDevice[online][1]
  BY <1>2
<1>5. ASSUME NEW n \in Connections, NEW p \in 1 .. Len(toDevice'[n])
      PROVE  \E q \in 1 .. Len(toDevice[n]) : toDevice'[n][p] = toDevice[n][q]
  <2>1. CASE n = online
    <3>1. \A k \in 1 .. Len(Tail(toDevice[online])) : k + 1 \in 1 .. Len(toDevice[online])
      BY <1>3
    <3>2. p \in 1 .. Len(Tail(toDevice[online])) /\ toDevice'[n] = Tail(toDevice[online])
      BY <1>2, <1>5, <2>1
    <3> QED
      BY <1>3, <2>1, <3>1, <3>2
  <2>2. CASE n # online
    <3>1. toDevice'[n] = toDevice[n]
      BY <1>1, <2>2
    <3> QED
      BY <1>5, <3>1
  <2> QED
    BY <2>1, <2>2
<1> QED
  BY <1>1, <1>2, <1>3, <1>4, <1>5

(* A run that was taken and not ended may be reported on.                    *)
LEMMA MayGoOn ==
    ASSUME FederationInv, Contains(emitted, "accepted"), ~Contains(emitted, "completed")
    PROVE  /\ Len(emitted) # 0 /\ "offer" \in handled /\ runStatus # "none"
           /\ \A i \in 1 .. Len(emitted) : emitted[i] \notin {"rejected", "completed"}
<1>1. PICK k \in 1 .. Len(emitted) : emitted[k] = "accepted"
  BY DEF Contains
<1>2. Len(emitted) # 0 /\ emitted # <<>>
  <2>1. emitted # <<>>
    BY <1>1, EmptySeq
  <2>2. emitted \in Seq(Reports)
    BY DEF FederationInv, FederationTypes
  <2> QED
    BY <1>1, <2>1, <2>2, EmptySeq
<1>3. emitted[1] = "accepted"
  BY <1>1 DEF FederationInv, ReportsInOrder
<1>4. \A i \in 1 .. Len(emitted) : emitted[i] # "completed"
  BY DEF Contains
<1>5. \A i \in 1 .. Len(emitted) : emitted[i] = "rejected" => i = 1
  BY DEF FederationInv, ReportsInOrder
<1> QED
  BY <1>2, <1>3, <1>4, <1>5 DEF FederationInv, ReportsInOrder, SilentBefore

(* The device says nothing out of order.                                     *)
LEMMA SpeakingKeepsFederation ==
    ASSUME FederationInv, online # 0, runStatus # "none",
           handled \subseteq handled', handled' \subseteq Rows,
           NEW reports \in Seq(Reports), Len(reports) \in {0, 1},
           NEW ack \in Seq(Messages),
           \A p \in 1 .. Len(ack) : ack[p].event = 0 /\ ack[p].row \in handled',
           Says(reports, ack),
           Len(reports) = 1 =>
               /\ "offer" \in handled'
               /\ reports[1] \in {"accepted", "rejected"} <=> Len(emitted) = 0
               /\ \A i \in 1 .. Len(emitted) : emitted[i] \notin {"rejected", "completed"},
           toDevice' \in [Connections -> Seq(Messages)],
           \A n \in Connections : \A p \in 1 .. Len(toDevice'[n]) :
               \E q \in 1 .. Len(toDevice[n]) : toDevice'[n][p] = toDevice[n][q],
           UNCHANGED <<table, unsent, registered, serverLoop, replaying, online, dialled,
                       confirmed>>
    PROVE  FederationInv'
<1> USE DEF table
<1>1. /\ emitted' \in Seq(Reports)
      /\ Len(emitted') = Len(emitted) + Len(reports)
      /\ \A i \in 1 .. Len(emitted) : emitted'[i] = emitted[i]
      /\ Len(reports) = 1 => emitted'[Len(emitted) + 1] = reports[1]
      /\ fromDevice' \in [Connections -> Seq(Messages)]
      /\ \A n \in Connections : \A p \in 1 .. Len(fromDevice'[n]) :
            IF fromDevice'[n][p].event = 0
            THEN fromDevice'[n][p].row \in handled'
            ELSE fromDevice'[n][p].event \in 1 .. Len(emitted')
      /\ ReadInOrder' /\ NothingIsMissing'
  BY SaysIsSound
<1>2. Logged' = Logged
  BY DEF Logged
<1>3. /\ emitted \in Seq(Reports) /\ Len(emitted) \in Nat /\ Len(reports) \in Nat
      /\ Logged \subseteq 1 .. Len(emitted)
  BY DEF FederationInv, FederationTypes, LogInOrder
<1>4. FederationTypes'
  BY <1>1 DEF FederationInv, FederationTypes
<1>5. OutboxShape' /\ SilentBefore'
  BY DEF FederationInv, OutboxShape, SilentBefore
<1>6. ReportsInOrder'
  <2>1. ASSUME "offer" \notin handled' PROVE emitted' = <<>>
    <3>1. emitted = <<>> /\ Len(emitted) = 0 /\ Len(reports) = 0
      BY <2>1, EmptySeq DEF FederationInv, ReportsInOrder
    <3> QED
      BY <1>1, <3>1, EmptySeq
  <2>2. ASSUME NEW i \in 1 .. Len(emitted')
        PROVE  /\ emitted'[i] \in {"accepted", "rejected"} <=> i = 1
               /\ emitted'[i] \in {"rejected", "completed"} => i = Len(emitted')
    <3>1. CASE i \in 1 .. Len(emitted)
      <4>1. /\ emitted[i] \in {"accepted", "rejected"} <=> i = 1
            /\ emitted[i] \in {"rejected", "completed"} => i = Len(emitted)
        BY <3>1 DEF FederationInv, ReportsInOrder
      <4>2. emitted[i] \in {"rejected", "completed"} => Len(reports) = 0
        BY <3>1
      <4> QED
        BY <1>1, <1>3, <3>1, <4>1, <4>2
    <3>2. CASE i = Len(emitted) + 1 /\ Len(reports) = 1
      BY <1>1, <1>3, <3>2
    <3> QED
      BY <1>1, <1>3, <2>2, <3>1, <3>2, OneOrNone
  <2> QED
    BY <2>1, <2>2 DEF ReportsInOrder
<1>7. AcksAreTrue'
  <2>1. ASSUME NEW n \in Connections, NEW p \in 1 .. Len(toDevice'[n]),
               toDevice'[n][p].row = "none"
        PROVE  toDevice'[n][p].event \in Logged
    BY <2>1 DEF FederationInv, AcksAreTrue
  <2> QED
    BY <1>1, <1>2, <2>1 DEF AcksAreTrue
<1>8. LogInOrder' /\ EndIsLogged'
  <2>1. Logged \subseteq 1 .. Len(emitted')
    BY <1>1, <1>3
  <2>2. runStatus \in EndedRun => \E i \in Logged : emitted'[i] = runStatus
    BY <1>1, <1>3 DEF FederationInv, EndIsLogged
  <2> QED
    BY <1>2, <2>1, <2>2 DEF FederationInv, LogInOrder, EndIsLogged
<1> QED
  BY <1>1, <1>4, <1>5, <1>6, <1>7, <1>8 DEF FederationInv

(* The three things the device does with what reached it.                    *)
LEMMA DeviceKeepsFederation ==
    ASSUME FederationInv, DeviceHandles \/ DeviceWorks \/ DeviceIsConfirmed
    PROVE  FederationInv'
<1>0. /\ emitted \in Seq(Reports) /\ handled \subseteq Rows
      /\ toDevice \in [Connections -> Seq(Messages)] /\ Len(emitted) \in Nat
      /\ Reports = {"accepted", "rejected", "approval_required", "completed"}
  BY DEF FederationInv, FederationTypes, Reports
<1>1. \A r \in Reports : /\ <<r>> \in Seq(Reports) /\ Len(<<r>>) = 1 /\ <<r>>[1] = r
  BY SeqDef
<1>2. /\ <<>> \in Seq(Reports) /\ Len(<<>>) = 0 /\ <<>> \in Seq(Messages)
  BY EmptySeq
<1>3. ASSUME DeviceHandles PROVE FederationInv'
  <2> DEFINE r == Head(toDevice[online]).row
             ack == <<AboutRow(r)>>
  <2>1. /\ online # 0 /\ toDevice[online] # <<>> /\ r # "none"
        /\ toDevice' = [toDevice EXCEPT ![online] = Tail(toDevice[online])]
        /\ handled' = handled \union {r}
        /\ UNCHANGED <<table, unsent, registered, serverLoop, replaying, online, dialled,
                       confirmed>>
    BY <1>3 DEF DeviceHandles
  <2>2. /\ toDevice' \in [Connections -> Seq(Messages)]
        /\ r \in Rows /\ runStatus # "none"
        /\ \A n \in Connections : \A p \in 1 .. Len(toDevice'[n]) :
              \E q \in 1 .. Len(toDevice[n]) : toDevice'[n][p] = toDevice[n][q]
    <3>1. /\ toDevice' \in [Connections -> Seq(Messages)]
          /\ Head(toDevice[online]) \in Messages
          /\ online \in Connections /\ 1 \in 1 .. Len(toDevice[online])
          /\ Head(toDevice[online]) = toDevice[online][1]
          /\ \A n \in Connections : \A p \in 1 .. Len(toDevice'[n]) :
                \E q \in 1 .. Len(toDevice[n]) : toDevice'[n][p] = toDevice[n][q]
      BY <2>1, RestIsUnderWay
    <3>2. r \in Rows
      BY <2>1, <3>1 DEF Messages
    <3>3. runStatus # "none"
      BY <2>1, <3>1 DEF FederationInv, SilentBefore
    <3> QED
      BY <3>1, <3>2, <3>3
  <2>3. \/ Says(<<>>, ack)
        \/ /\ r = "offer" /\ r \notin handled
           /\ Says(<<"accepted">>, ack) \/ Says(<<"rejected">>, ack)
        \/ /\ Contains(emitted, "accepted") /\ ~Contains(emitted, "completed")
           /\ Says(<<"completed">>, ack)
    <3>1. r = "offer" \/ r = "cancel"
      BY <2>2 DEF Rows
    <3>2. CASE r \in handled
      BY <1>3, <3>2 DEF DeviceHandles
    <3>3. CASE r = "offer" /\ r \notin handled
      BY <1>3, <3>3 DEF DeviceHandles
    <3>4. CASE r = "cancel" /\ r \notin handled
      BY <1>3, <3>4 DEF DeviceHandles
    <3> QED
      BY <3>1, <3>2, <3>3, <3>4
  <2>4. /\ ack \in Seq(Messages)
        /\ \A p \in 1 .. Len(ack) : ack[p].event = 0 /\ ack[p].row \in handled'
    <3>1. AboutRow(r) \in Messages /\ AboutRow(r).row = r /\ AboutRow(r).event = 0
      BY <2>2, RowMessage
    <3>2. ack \in Seq(Messages) /\ Len(ack) = 1 /\ ack[1] = AboutRow(r)
      BY <3>1, SeqDef
    <3> QED
      BY <2>1, <3>1, <3>2
  <2>5. handled \subseteq handled' /\ handled' \subseteq Rows
    BY <1>0, <2>1, <2>2
  <2> HIDE DEF ack
  <2>6. CASE Says(<<>>, ack)
    <3>1. Len(<<>>) \in {0, 1} /\ Len(<<>>) # 1
      BY <1>2
    <3> QED
      BY <1>2, <2>1, <2>2, <2>4, <2>5, <2>6, <3>1, SpeakingKeepsFederation
  <2>7. ASSUME r = "offer", r \notin handled,
               NEW s \in {"accepted", "rejected"}, Says(<<s>>, ack)
        PROVE  FederationInv'
    <3>1. Len(emitted) = 0
      BY <1>2, <2>7 DEF FederationInv, ReportsInOrder
    <3>2. "offer" \in handled' /\ s \in Reports
      BY <1>0, <2>1, <2>7
    <3>3. <<s>> \in Seq(Reports) /\ Len(<<s>>) = 1 /\ <<s>>[1] = s
      BY <1>1, <3>2
    <3>4. \A i \in 1 .. Len(emitted) : emitted[i] \notin {"rejected", "completed"}
      BY <3>1
    <3> QED
      BY <2>1, <2>2, <2>4, <2>5, <2>7, <3>1, <3>2, <3>3, <3>4, SpeakingKeepsFederation
  <2>8. ASSUME Contains(emitted, "accepted"), ~Contains(emitted, "completed"),
               Says(<<"completed">>, ack)
        PROVE  FederationInv'
    <3>1. "offer" \in handled' /\ "completed" \in Reports
      BY <1>0, <2>5, <2>8, MayGoOn
    <3>2. /\ <<"completed">> \in Seq(Reports) /\ Len(<<"completed">>) = 1
          /\ <<"completed">>[1] = "completed"
      BY <1>1, <3>1
    <3> QED
      BY <2>1, <2>2, <2>4, <2>5, <2>8, <3>1, <3>2, MayGoOn, SpeakingKeepsFederation
  <2> QED
    BY <2>3, <2>6, <2>7, <2>8
<1>4. ASSUME DeviceWorks PROVE FederationInv'
  <2>1. /\ online # 0 /\ Contains(emitted, "accepted") /\ ~Contains(emitted, "completed")
        /\ UNCHANGED <<table, unsent, registered, serverLoop, replaying, toDevice, online,
                       dialled, handled, confirmed>>
        /\ Says(<<"approval_required">>, <<>>) \/ Says(<<"completed">>, <<>>)
    BY <1>4 DEF DeviceWorks
  <2>2. PICK s \in {"approval_required", "completed"} : Says(<<s>>, <<>>)
    BY <2>1
  <2>3. /\ <<s>> \in Seq(Reports) /\ Len(<<s>>) = 1 /\ <<s>>[1] = s
        /\ s \notin {"accepted", "rejected"}
    BY <1>0, <1>1
  <2>4. \A n \in Connections : \A p \in 1 .. Len(toDevice'[n]) :
           \E q \in 1 .. Len(toDevice[n]) : toDevice'[n][p] = toDevice[n][q]
    BY <2>1
  <2>5. /\ toDevice' \in [Connections -> Seq(Messages)]
        /\ handled \subseteq handled' /\ handled' \subseteq Rows
    BY <1>0, <2>1
  <2>6. \A p \in 1 .. Len(<<>>) : <<>>[p].event = 0 /\ <<>>[p].row \in handled'
    BY <1>2
  <2> QED
    BY <1>2, <2>1, <2>2, <2>3, <2>4, <2>5, <2>6, MayGoOn, SpeakingKeepsFederation
<1>5. ASSUME DeviceIsConfirmed PROVE FederationInv'
  <2> USE DEF table
  <2>1. /\ online # 0 /\ toDevice[online] # <<>> /\ Head(toDevice[online]).row = "none"
        /\ confirmed' = confirmed \union {Head(toDevice[online]).event}
        /\ toDevice' = [toDevice EXCEPT ![online] = Tail(toDevice[online])]
        /\ UNCHANGED <<table, unsent, registered, serverLoop, replaying, fromDevice, online,
                       dialled, handled, emitted>>
    BY <1>5 DEF DeviceIsConfirmed
  <2>2. /\ toDevice' \in [Connections -> Seq(Messages)]
        /\ Head(toDevice[online]).event \in Logged
        /\ \A n \in Connections : \A p \in 1 .. Len(toDevice'[n]) :
              \E q \in 1 .. Len(toDevice[n]) : toDevice'[n][p] = toDevice[n][q]
    BY <2>1, RestIsUnderWay DEF FederationInv, AcksAreTrue
  <2>3. Logged' = Logged
    BY <2>1 DEF Logged
  <2>4. FederationTypes' /\ OutboxShape' /\ ReportsInOrder'
    BY <2>1, <2>2 DEF FederationInv, FederationTypes, OutboxShape, ReportsInOrder
  <2>5. SilentBefore'
    BY <2>1, <2>2 DEF FederationInv, SilentBefore
  <2>6. AcksAreTrue'
    <3>1. ASSUME NEW n \in Connections, NEW p \in 1 .. Len(toDevice'[n]),
                 toDevice'[n][p].row = "none"
          PROVE  toDevice'[n][p].event \in Logged
      BY <2>2, <3>1 DEF FederationInv, AcksAreTrue
    <3> QED
      BY <2>1, <2>3, <3>1 DEF FederationInv, AcksAreTrue
  <2>7. ReadInOrder' /\ NothingIsMissing'
    BY <2>1, <2>3 DEF FederationInv, ReadInOrder, NothingIsMissing
  <2>8. LogInOrder' /\ EndIsLogged'
    BY <2>1, <2>2, <2>3 DEF FederationInv, LogInOrder, EndIsLogged
  <2> QED
    BY <2>4, <2>5, <2>6, <2>7, <2>8 DEF FederationInv
<1> QED
  BY <1>3, <1>4, <1>5

LEMMA StepFederation == FederationInv /\ [FederationNext]_federationVars => FederationInv'
<1> SUFFICES ASSUME FederationInv, [FederationNext]_federationVars PROVE FederationInv'
  OBVIOUS
<1>1. CASE UNCHANGED federationVars
  <2> USE <1>1 DEF federationVars
  <2>1. Logged' = Logged
    BY DEF Logged
  <2>2. FederationTypes' /\ OutboxShape' /\ SilentBefore' /\ ReportsInOrder'
    BY DEF FederationInv, FederationTypes, OutboxShape, SilentBefore, ReportsInOrder
  <2>3. AcksAreTrue' /\ ReadInOrder' /\ NothingIsMissing'
    BY <2>1 DEF FederationInv, AcksAreTrue, ReadInOrder, NothingIsMissing
  <2>4. LogInOrder' /\ EndIsLogged'
    BY <2>1 DEF FederationInv, LogInOrder, EndIsLogged
  <2> QED
    BY <2>2, <2>3, <2>4 DEF FederationInv
<1>2. CASE FederationNext
  BY <1>2, SendersKeepFederation, ReportKeepsFederation, AckKeepsFederation,
     ConnectKeepsFederation, BreakKeepsFederation, DeviceKeepsFederation DEF FederationNext
<1> QED
  BY <1>1, <1>2

(* The types of a remote run, its outbox, its log and the sockets, for any   *)
(* number of connections.                                                    *)
THEOREM FederationTypeCorrect == FederationSpec => []FederationTypeOK
<1>1. FederationSpec => []FederationInv
  BY FederationStarts, StepFederation, PTL DEF FederationSpec
<1> QED
  BY <1>1, FederationIsTyped, PTL

LEMMA EndedRunStaysInStep ==
    ASSUME FederationInv, FederationNext, runStatus \in EndedRun
    PROVE  runStatus' = runStatus
<1> USE DEF table, device, EndedRun
<1>1. CASE OfferRun \/ CancelRun \/ Revoke \/ Deliver \/ Connect \/ ConnectionBreaks
           \/ DeviceHandles \/ DeviceWorks \/ DeviceIsConfirmed
  BY <1>1 DEF OfferRun, CancelRun, Revoke, Deliver, Connect, ConnectionBreaks, DeviceWorks,
              DeviceIsConfirmed, DeviceHandles
<1>2. ASSUME NEW n \in Connections,
             ReadOutbox(n) \/ Replay(n) \/ HandleAck(n) \/ Disconnected(n)
      PROVE  runStatus' = runStatus
  BY <1>2 DEF ReadOutbox, Replay, HandleAck, Disconnected
<1>3. ASSUME NEW n \in Connections, HandleReport(n)
      PROVE  runStatus' = runStatus
  <2>1. /\ fromDevice[n] # <<>> /\ Head(fromDevice[n]).event # 0
        /\ AlreadyLogged(Head(fromDevice[n]).event) => runStatus' = runStatus
    BY <1>3 DEF HandleReport
  <2>2. Head(fromDevice[n]).event \in Logged
    BY <2>1, ReportIsNext, EndIsLast
  <2>3. AlreadyLogged(Head(fromDevice[n]).event)
    BY <2>2 DEF AlreadyLogged, Contains, Logged
  <2> QED
    BY <2>1, <2>3
<1> QED
  BY <1>1, <1>2, <1>3 DEF FederationNext

LEMMA RunsEndOnce == FederationInit /\ [][FederationNext]_federationVars => EndedRunsStay
<1>1. FederationInit /\ [][FederationNext]_federationVars => []FederationInv
  BY FederationStarts, StepFederation, PTL
<1>2. ASSUME FederationInv, [FederationNext]_federationVars
      PROVE  [(runStatus \in EndedRun) => runStatus' = runStatus]_federationVars
  <2>1. CASE UNCHANGED federationVars
    BY <2>1
  <2>2. CASE FederationNext
    BY <1>2, <2>2, EndedRunStaysInStep
  <2> QED
    BY <1>2, <2>1, <2>2
<1> QED
  BY <1>1, <1>2, PTL DEF EndedRunsStay

(* A run that completed or was rejected stays so, however often the device   *)
(* connects again, repeats itself or is read from an old connection after a  *)
(* new one.                                                                  *)
THEOREM EndedRunsAreFinal == FederationSpec => EndedRunsStay
  BY RunsEndOnce, PTL DEF FederationSpec

-----------------------------------------------------------------------------
(* All of them together.                                                     *)

(* A behaviour of the run in which one of them moves is one of each of them. *)
LEMMA EachAsIfAlone ==
    QueuedSpec => /\ LifecycleInit /\ [][LifecycleNext]_lifecycleVars
                  /\ UploadInit /\ [][UploadNext]_uploadVars
                  /\ ConfirmationSpec
                  /\ ResearchInit /\ [][ResearchNext]_researchVars
                  /\ FederationInit /\ [][FederationNext]_federationVars
<1>1. QueuedInit => /\ LifecycleInit /\ UploadInit /\ ConfirmationInit /\ ResearchInit
                    /\ FederationInit
  BY DEF QueuedInit
<1>2. [QueuedNext]_queuedVars
          => /\ [LifecycleNext]_lifecycleVars
             /\ [UploadNext]_uploadVars
             /\ [ConfirmationNext]_confirmationVars
             /\ [ResearchNext]_researchVars
             /\ [FederationNext]_federationVars
  BY DEF QueuedNext, queuedVars
<1> QED
  BY <1>1, <1>2, PTL DEF QueuedSpec, ConfirmationSpec

(* The five components of the run stay in their types.                       *)
THEOREM QueuedTypeCorrect == QueuedSpec => []QueuedTypeOK
<1>1. LifecycleInv => LifecycleTypeOK
  BY DEF LifecycleInv
<1>2. LifecycleInit /\ [][LifecycleNext]_lifecycleVars => []LifecycleTypeOK
  BY LifecycleStarts, StepLifecycle, <1>1, PTL
<1>3. UploadInit /\ [][UploadNext]_uploadVars => []UploadTypeOK
  BY UploadBaseStarts, StepUploadBase, UploadsAreTyped, PTL
<1>4. ResearchInit /\ [][ResearchNext]_researchVars => []ResearchTypeOK
  BY ResearchTypesStart, StepResearchTypes, PTL
<1>5. FederationInit /\ [][FederationNext]_federationVars => []FederationTypeOK
  BY FederationStarts, StepFederation, FederationIsTyped, PTL
<1> QED
  BY EachAsIfAlone, ConfirmationTypeCorrect, <1>2, <1>3, <1>4, <1>5, PTL DEF QueuedTypeOK

(* What a user was told has ended stays ended in all of them: with one       *)
(* verifier and one research worker for every upload and every job, with     *)
(* several for those nobody was slow at, and but for the cancellation that   *)
(* the research worker overlooks.                                            *)
THEOREM EndedWorkIsFinal == QueuedSpec => EndedWorkStays
  BY EachAsIfAlone, UploadsEndOnce, ExecutionsEndOnce, RunsEndOnce, PTL DEF EndedWorkStays

=============================================================================
