----------------------------- MODULE SourceUploads -----------------------------
(***************************************************************************)
(* Resumable source uploads (services/source_uploads.py) of one archive    *)
(* under several idempotency keys, with the two other writers of the       *)
(* content-addressed object they all lead to: the one-request upload       *)
(* (api/workspace_autonomy.py) and the retirement of sources               *)
(* (services/workspace_retention.py).                                      *)
(*                                                                         *)
(* Staging files and the object are on disk, outside every transaction;    *)
(* whoever removes them decided to in a transaction before.  Every upload  *)
(* here has the same SHA-256 and no version_no, and the quota suffices.    *)
(***************************************************************************)
EXTENDS Naturals, FiniteSets

CONSTANTS
    Uploads,             \* idempotency keys, one job each
    NoUpload,            \* no job in hand
    Parts,               \* part numbers of the archive
    Verifiers,           \* Runtime Controller processes
    MaxAttempts,         \* SOURCE_UPLOAD_MAX_ATTEMPTS
    MaxRevivals,         \* bound: expired or cancelled jobs created again
    MaxUploadFaults      \* bound: processes that die, verifications that outlive
                         \* their lease

ASSUME UploadsAssumption ==
    /\ NoUpload \notin Uploads
    /\ IsFiniteSet(Parts)
    /\ MaxAttempts \in Nat \ {0}
    /\ MaxRevivals \in Nat
    /\ MaxUploadFaults \in Nat

VARIABLES
    job,           \* source_upload_jobs.status, "absent" before the INSERT
    partRows,      \* source_upload_parts of each job
    partFiles,     \* staging files of each job
    cleaned,       \* jobs whose result has staging_cleaned_at
    due,           \* jobs whose expires_at has passed
    attempts,      \* attempt_count
    jobLeaseOver,  \* jobs whose lease_expires_at has passed
    cancelling,    \* where the cancellation of a job is, after its first transaction
    verifier,      \* where each process is in run_once
    inHand,        \* the job it works on
    unlinking,     \* whether it is about to remove the object
    object,        \* whether the object is in the store
    artifact,      \* artifacts.state of the newest row with this SHA-256
    retiring,      \* whether retention is about to remove the object
    direct,        \* where the one-request upload is
    overtaken,     \* history: jobs revived while their staging was being removed
    outlived,      \* history: jobs whose lease ran out while they were being verified
    crossed,       \* history: who removed the object between another's store and its
                   \* registration, or after a registration the removal did not see
    revivals,      \* revivals so far
    uploadFaults   \* faults so far

jobVars == <<job, partRows, partFiles, cleaned, due, attempts, jobLeaseOver>>
verifierVars == <<verifier, inHand, unlinking>>
objectVars == <<object, artifact, retiring, direct, crossed>>
histories == <<overtaken, outlived>>
uploadVars == <<jobVars, cancelling, verifierVars, objectVars, histories, revivals,
                uploadFaults>>

JobStates == {"absent", "created", "uploading", "queued", "verifying", "verified",
              "failed", "expired", "cancelled"}
Receiving == {"created", "uploading"}
LiveJobs == Receiving \union {"queued", "verifying"}

UploadTypeOK ==
    /\ job \in [Uploads -> JobStates]
    /\ partRows \in [Uploads -> SUBSET Parts]
    /\ partFiles \in [Uploads -> SUBSET Parts]
    /\ cleaned \union due \union jobLeaseOver \union overtaken \union outlived \subseteq Uploads
    /\ attempts \in [Uploads -> Nat]
    /\ cancelling \in [Uploads -> {"no", "files", "rows"}]
    /\ verifier \in [Verifiers ->
           {"idle", "claimed", "stored", "registered", "verified", "rejected",
            "broken", "removing"}]
    /\ inHand \in [Verifiers -> Uploads \union {NoUpload}]
    /\ unlinking \subseteq Verifiers
    /\ {object, retiring} \subseteq BOOLEAN
    /\ crossed \subseteq {"controllers", "direct", "retention"}
    /\ artifact \in {"none", "verified", "quarantined", "released"}
    /\ direct \in {"idle", "stored"}
    /\ revivals \in 0 .. MaxRevivals
    /\ uploadFaults \in 0 .. MaxUploadFaults

UploadInit ==
    /\ job = [u \in Uploads |-> "absent"]
    /\ partRows = [u \in Uploads |-> {}]
    /\ partFiles = [u \in Uploads |-> {}]
    /\ cleaned = {} /\ due = {} /\ jobLeaseOver = {} /\ overtaken = {} /\ outlived = {}
    /\ attempts = [u \in Uploads |-> 0]
    /\ cancelling = [u \in Uploads |-> "no"]
    /\ verifier = [w \in Verifiers |-> "idle"]
    /\ inHand = [w \in Verifiers |-> NoUpload]
    /\ unlinking = {}
    /\ object = FALSE /\ artifact = "none"
    /\ retiring = FALSE /\ direct = "idle" /\ crossed = {}
    /\ revivals = 0
    /\ uploadFaults = 0

GoIdle(w) ==
    /\ verifier' = [verifier EXCEPT ![w] = "idle"]
    /\ inHand' = [inHand EXCEPT ![w] = NoUpload]

SetJob(u, state) == job' = [job EXCEPT ![u] = state]

-----------------------------------------------------------------------------
(* The client's calls.  Each is one transaction that locks the job. *)

(* create_source_upload: the archive may be in custody already. *)
CreateUpload(u) ==
    /\ job[u] = "absent"
    /\ SetJob(u, IF artifact = "verified" THEN "verified" ELSE "created")
    /\ UNCHANGED <<partRows, partFiles, cleaned, due, attempts, jobLeaseOver,
                   cancelling, verifierVars, objectVars, histories, revivals, uploadFaults>>

StagingBeingRemoved(u) ==
    \/ cancelling[u] # "no"
    \/ \E w \in Verifiers : verifier[w] = "removing" /\ inHand[w] = u

(* The same key again: an expired or cancelled job starts over, whatever is   *)
(* still under way for its former life, and keeps the part rows it has.       *)
ReviveUpload(u) ==
    /\ revivals < MaxRevivals
    /\ revivals' = revivals + 1
    /\ job[u] \in {"expired", "cancelled"}
    /\ SetJob(u, "created")
    /\ cleaned' = cleaned \ {u}
    /\ due' = due \ {u}
    /\ attempts' = [attempts EXCEPT ![u] = 0]
    /\ overtaken' = IF StagingBeingRemoved(u) THEN overtaken \union {u} ELSE overtaken
    /\ UNCHANGED <<partRows, partFiles, jobLeaseOver, cancelling, verifierVars,
                   objectVars, outlived, uploadFaults>>

(* put_source_upload_part: a part already recorded is only written again if *)
(* its file is missing, and then does not count again.                      *)
PutPart(u, n) ==
    /\ job[u] \in Receiving
    /\ n \notin partRows[u] \intersect partFiles[u]
    /\ partFiles' = [partFiles EXCEPT ![u] = @ \union {n}]
    /\ IF n \in partRows[u]
       THEN UNCHANGED <<job, partRows, due>>
       ELSE /\ partRows' = [partRows EXCEPT ![u] = @ \union {n}]
            /\ SetJob(u, "uploading")
            /\ due' = due \ {u}
    /\ UNCHANGED <<cleaned, attempts, jobLeaseOver, cancelling, verifierVars,
                   objectVars, histories, revivals, uploadFaults>>

Complete(u) == partRows[u] = Parts /\ partFiles[u] = Parts

CompleteUpload(u) ==
    /\ job[u] \in Receiving
    /\ Complete(u)
    /\ SetJob(u, "queued")
    /\ due' = due \ {u}
    /\ jobLeaseOver' = jobLeaseOver \ {u}
    /\ UNCHANGED <<partRows, partFiles, cleaned, attempts, cancelling, verifierVars,
                   objectVars, histories, revivals, uploadFaults>>

Cancellable(u) == job[u] \in Receiving \union {"failed", "cancelled"}

(* cancel_source_upload: the row, then the files, then the part rows. *)
CancelUpload(u) ==
    /\ cancelling[u] = "no"
    /\ Cancellable(u)
    /\ ~(job[u] = "cancelled" /\ u \in cleaned)
    /\ SetJob(u, "cancelled")
    /\ cancelling' = [cancelling EXCEPT ![u] = "files"]
    /\ UNCHANGED <<partRows, partFiles, cleaned, due, attempts, jobLeaseOver,
                   verifierVars, objectVars, histories, revivals, uploadFaults>>

CancelRemovesFiles(u) ==
    /\ cancelling[u] = "files"
    /\ partFiles' = [partFiles EXCEPT ![u] = {}]
    /\ cancelling' = [cancelling EXCEPT ![u] = "rows"]
    /\ UNCHANGED <<job, partRows, cleaned, due, attempts, jobLeaseOver, verifierVars,
                   objectVars, histories, revivals, uploadFaults>>

CancelRemovesRows(u) ==
    /\ cancelling[u] = "rows"
    /\ partRows' = [partRows EXCEPT ![u] = {}]
    /\ cleaned' = cleaned \union {u}
    /\ cancelling' = [cancelling EXCEPT ![u] = "no"]
    /\ UNCHANGED <<job, partFiles, due, attempts, jobLeaseOver, verifierVars,
                   objectVars, histories, revivals, uploadFaults>>

CancelDies(u) ==
    /\ cancelling[u] # "no"
    /\ uploadFaults < MaxUploadFaults
    /\ uploadFaults' = uploadFaults + 1
    /\ cancelling' = [cancelling EXCEPT ![u] = "no"]
    /\ UNCHANGED <<jobVars, verifierVars, objectVars, histories, revivals>>

-----------------------------------------------------------------------------
(* The verification of a queued upload by a controller. *)

(* Mutant: a verification whose controller died is never taken over. *)
QueuedOnlyJob(u) == job[u] = "queued"

ClaimableJob(u) ==
    \/ job[u] = "queued"
    \/ job[u] = "verifying" /\ u \in jobLeaseOver

(* claim_source_upload. *)
ClaimUpload(w, u) ==
    /\ verifier[w] = "idle"
    /\ ClaimableJob(u)
    /\ SetJob(u, "verifying")
    /\ jobLeaseOver' = jobLeaseOver \ {u}
    /\ attempts' = [attempts EXCEPT ![u] = @ + 1]
    /\ verifier' = [verifier EXCEPT ![w] = "claimed"]
    /\ inHand' = [inHand EXCEPT ![w] = u]
    /\ UNCHANGED <<partRows, partFiles, cleaned, due, cancelling, unlinking, objectVars,
                   histories, revivals, uploadFaults>>

(* process_claimed_source_upload up to put_stream: an error of the client's   *)
(* (a part is missing, the archive is not what was announced) is not retried, *)
(* any other is.                                                              *)
StoreArchive(w) ==
    /\ verifier[w] = "claimed"
    /\ \/ /\ job[inHand[w]] = "verifying"
          /\ partFiles[inHand[w]] = Parts
          /\ object' = TRUE
          /\ verifier' = [verifier EXCEPT ![w] = "stored"]
       \/ /\ verifier' = [verifier EXCEPT ![w] = "rejected"]
          /\ UNCHANGED object
       \/ /\ verifier' = [verifier EXCEPT ![w] = "broken"]
          /\ UNCHANGED object
    /\ UNCHANGED <<jobVars, cancelling, inHand, unlinking, artifact, retiring, direct,
                   crossed, histories, revivals, uploadFaults>>

ControllerStored == \E w \in Verifiers : verifier[w] = "stored"

(* A stored archive waits for its registration. *)
AboutToRegister == direct = "stored" \/ ControllerStored

When(condition, who) == IF condition THEN {who} ELSE {}

(* register_workspace_source: a verified artifact of this archive is reused, *)
(* whatever removal of the object has been decided.                          *)
RegisterArtifact(who) ==
    /\ artifact' = "verified"
    /\ crossed' = crossed \union When(unlinking # {}, who) \union When(retiring, "retention")

(* An error of the client's ends the job here too, any other is tried again. *)
RegisterArchive(w) ==
    /\ verifier[w] = "stored"
    /\ \/ /\ RegisterArtifact("controllers")
          /\ verifier' = [verifier EXCEPT ![w] = "registered"]
       \/ /\ \E outcome \in {"rejected", "broken"} :
                 verifier' = [verifier EXCEPT ![w] = outcome]
          /\ UNCHANGED <<artifact, crossed>>
    /\ UNCHANGED <<jobVars, cancelling, inHand, unlinking, object, retiring, direct,
                   histories, revivals, uploadFaults>>

(* The job is marked, whatever its row says by now. *)
MarkVerified(w) ==
    /\ verifier[w] = "registered"
    /\ SetJob(inHand[w], "verified")
    /\ jobLeaseOver' = jobLeaseOver \ {inHand[w]}
    /\ verifier' = [verifier EXCEPT ![w] = "verified"]
    /\ UNCHANGED <<partRows, partFiles, cleaned, due, attempts, cancelling, inHand,
                   unlinking, objectVars, histories, revivals, uploadFaults>>

RemoveStaging(w) ==
    /\ verifier[w] = "verified"
    /\ partFiles' = [partFiles EXCEPT ![inHand[w]] = {}]
    /\ GoIdle(w)
    /\ UNCHANGED <<job, partRows, cleaned, due, attempts, jobLeaseOver, cancelling,
                   unlinking, objectVars, histories, revivals, uploadFaults>>

AfterFailure(w) ==
    IF verifier[w] = "broken" /\ attempts[inHand[w]] < MaxAttempts
    THEN "queued" ELSE "failed"

(* fail_claimed_source_upload, whatever the row says by now. *)
FailUpload(w) ==
    /\ verifier[w] \in {"rejected", "broken"}
    /\ SetJob(inHand[w], AfterFailure(w))
    /\ jobLeaseOver' = jobLeaseOver \ {inHand[w]}
    /\ GoIdle(w)
    /\ UNCHANGED <<partRows, partFiles, cleaned, due, attempts, cancelling, unlinking,
                   objectVars, histories, revivals, uploadFaults>>

-----------------------------------------------------------------------------
(* Expiry, by a controller between two passes. *)

(* Mutant: only the other jobs keep the object. *)
JobsOnly(u) == \E v \in Uploads \ {u} : job[v] \in LiveJobs \union {"verified"}

(* Whether anything else leads to the object. *)
ReferencedObject(u) ==
    \/ artifact # "none"
    \/ \E v \in Uploads \ {u} : job[v] \in LiveJobs \union {"verified"}

(* expire_source_uploads, first the rows of one job (rows locked by others   *)
(* are skipped) ...                                                          *)
ExpireUpload(w, u) ==
    /\ verifier[w] = "idle"
    /\ u \in due \ cleaned
    /\ job[u] \in Receiving \union {"failed", "expired", "cancelled"}
    /\ job' = IF job[u] \in Receiving THEN [job EXCEPT ![u] = "expired"] ELSE job
    /\ partRows' = [partRows EXCEPT ![u] = {}]
    /\ cleaned' = cleaned \union {u}
    /\ unlinking' = IF ReferencedObject(u) THEN unlinking ELSE unlinking \union {w}
    /\ verifier' = [verifier EXCEPT ![w] = "removing"]
    /\ inHand' = [inHand EXCEPT ![w] = u]
    /\ UNCHANGED <<partFiles, due, attempts, jobLeaseOver, cancelling, objectVars,
                   histories, revivals, uploadFaults>>

(* ... then the files, and the object if nothing led to it. *)
RemoveExpired(w) ==
    /\ verifier[w] = "removing"
    /\ partFiles' = [partFiles EXCEPT ![inHand[w]] = {}]
    /\ object' = (object /\ w \notin unlinking)
    /\ crossed' = IF w \in unlinking
                  THEN crossed \union When(ControllerStored, "controllers")
                               \union When(direct = "stored", "direct")
                  ELSE crossed
    /\ unlinking' = unlinking \ {w}
    /\ GoIdle(w)
    /\ UNCHANGED <<job, partRows, cleaned, due, attempts, jobLeaseOver, cancelling, artifact,
                   retiring, direct, histories, revivals, uploadFaults>>

VerifierDies(w) ==
    /\ verifier[w] # "idle"
    /\ uploadFaults < MaxUploadFaults
    /\ uploadFaults' = uploadFaults + 1
    /\ GoIdle(w)
    /\ unlinking' = unlinking \ {w}
    /\ UNCHANGED <<jobVars, cancelling, objectVars, histories, revivals>>

-----------------------------------------------------------------------------
(* The other writers of the object, and the clock. *)

(* The one-request upload: the archive is stored, then registered, unless    *)
(* the request fails or its process dies in between.                         *)
DirectUpload ==
    /\ \/ /\ direct = "idle" /\ artifact # "verified"
          /\ direct' = "stored"
          /\ object' = TRUE
          /\ UNCHANGED <<artifact, crossed>>
       \/ /\ direct = "stored"
          /\ direct' = "idle"
          /\ RegisterArtifact("direct") \/ UNCHANGED <<artifact, crossed>>
          /\ UNCHANGED object
    /\ UNCHANGED <<jobVars, cancelling, verifierVars, retiring, histories, revivals,
                   uploadFaults>>

(* apply_workspace_retention for a source: the artifact is quarantined under *)
(* the workspace lock, the object removed without any lock.                  *)
RetireSource ==
    /\ \/ /\ artifact = "verified" /\ ~retiring
          /\ artifact' = "quarantined"
          /\ retiring' = TRUE
          /\ UNCHANGED <<object, crossed>>
       \/ /\ retiring
          /\ retiring' = FALSE
          /\ object' = FALSE
          /\ crossed' = crossed \union When(AboutToRegister, "retention")
          /\ artifact' = IF artifact = "quarantined" THEN "released" ELSE artifact
    /\ UNCHANGED <<jobVars, cancelling, verifierVars, direct, histories, revivals,
                   uploadFaults>>

ComesDue(u) ==
    /\ job[u] \notin {"absent", "verified"}
    /\ u \notin due
    /\ due' = due \union {u}
    /\ UNCHANGED <<job, partRows, partFiles, cleaned, attempts, jobLeaseOver, cancelling,
                   verifierVars, objectVars, histories, revivals, uploadFaults>>

WorkingOn(w, u) == inHand[w] = u /\ verifier[w] \notin {"idle", "removing"}

(* The lease of a verification whose controller is gone runs out, ... *)
JobLeaseRunsOut(u) ==
    /\ job[u] = "verifying"
    /\ u \notin jobLeaseOver
    /\ \A w \in Verifiers : ~WorkingOn(w, u)
    /\ jobLeaseOver' = jobLeaseOver \union {u}
    /\ UNCHANGED <<job, partRows, partFiles, cleaned, due, attempts, cancelling,
                   verifierVars, objectVars, histories, revivals, uploadFaults>>

(* ... and that of one that takes longer, for nobody renews a lease. *)
LeaseOutlived(u) ==
    /\ job[u] = "verifying"
    /\ u \notin jobLeaseOver
    /\ \E w \in Verifiers : WorkingOn(w, u)
    /\ uploadFaults < MaxUploadFaults
    /\ uploadFaults' = uploadFaults + 1
    /\ jobLeaseOver' = jobLeaseOver \union {u}
    /\ outlived' = outlived \union {u}
    /\ UNCHANGED <<job, partRows, partFiles, cleaned, due, attempts, cancelling,
                   verifierVars, objectVars, overtaken, revivals>>

-----------------------------------------------------------------------------
CancelContinues(u) == CancelRemovesFiles(u) \/ CancelRemovesRows(u)

VerifierStep(w) ==
    \/ \E u \in Uploads : ClaimUpload(w, u) \/ ExpireUpload(w, u)
    \/ StoreArchive(w)
    \/ RegisterArchive(w)
    \/ MarkVerified(w)
    \/ RemoveStaging(w)
    \/ FailUpload(w)
    \/ RemoveExpired(w)

UploadNext ==
    \/ \E u \in Uploads :
        \/ CreateUpload(u)
        \/ ReviveUpload(u)
        \/ \E n \in Parts : PutPart(u, n)
        \/ CompleteUpload(u)
        \/ CancelUpload(u)
        \/ CancelContinues(u)
        \/ CancelDies(u)
        \/ ComesDue(u)
        \/ JobLeaseRunsOut(u)
        \/ LeaseOutlived(u)
    \/ \E w \in Verifiers : VerifierStep(w) \/ VerifierDies(w)
    \/ DirectUpload
    \/ RetireSource

UploadSpec ==
    /\ UploadInit /\ [][UploadNext]_uploadVars
    /\ \A w \in Verifiers : WF_uploadVars(VerifierStep(w))
    /\ \A u \in Uploads : WF_uploadVars(ComesDue(u)) /\ WF_uploadVars(JobLeaseRunsOut(u))

-----------------------------------------------------------------------------
(* Properties of source uploads. *)

(* compose.production.yaml runs one Runtime Controller. *)
OneVerifier == \A v, w \in Verifiers : v = w

(* A verified source has its object in the store, although staging and the   *)
(* object are removed after the transaction that decided on it.  A loss      *)
(* always takes another's registration between that decision and the         *)
(* removal, or the removal between another's store and its registration:     *)
(* crossed names the other.  While one controller runs it is never a         *)
(* resumable upload against the expiry of another, whoever dies and however  *)
(* long a verification takes; it is the one-request upload or retention, and *)
(* SourcesAreKept shows that this happens.                                   *)
LiveSourceKeepsObject ==
    artifact = "verified" /\ ~object
        => \E who \in crossed : who = "controllers" => ~OneVerifier

(* What was verified stays verified, and what was cancelled or expired only  *)
(* starts over when the same key is sent again: the reports of verifications *)
(* are unconditional, but with one controller each is done before the job    *)
(* can end otherwise.  With several it holds for the uploads whose           *)
(* verification never outlived its lease; VerifiedUploadsStay shows the      *)
(* others.                                                                   *)
EndedUploadsStay ==
    [][\A u \in Uploads :
           OneVerifier \/ u \notin outlived =>
               /\ job[u] = "verified" => job'[u] = "verified"
               /\ job[u] \in {"cancelled", "expired"} =>
                      job'[u] \in {job[u], "created", "cancelled"}]_uploadVars

(* Every upload ends: what a client abandons expires and releases the space  *)
(* and version number it reserves, what it completes is verified or failed,  *)
(* although controllers die.  The exception is a job revived while the       *)
(* staging of its former life was still being removed: cleaned again by the  *)
(* removal, it is not found by the next expiry.                              *)
UploadsEnd ==
    \A u \in Uploads :
        job[u] \in LiveJobs ~> job[u] \notin LiveJobs \/ u \in overtaken

(* docs/digital-asset-hosting.md: "once status is `verified`, attach         *)
(* `source_version_id`".  A verified upload would have to stay so.  A lease  *)
(* is not renewed: a second controller takes the job over and verifies it,   *)
(* and the first one, late, reports that it failed.                          *)
VerifiedUploadsStay ==
    [][\A u \in Uploads : job[u] = "verified" => job'[u] = "verified"]_uploadVars

(* The docstring of expire_source_uploads: "Expire abandoned reservations    *)
(* and remove only their private staging parts."  Then a source verified by  *)
(* another upload would keep its object.  The expiry removes the object too, *)
(* when nothing leads to it in the transaction that decides, and does so     *)
(* after it: the archive may be stored and registered meanwhile.             *)
SourcesAreKept == artifact = "verified" => object

=============================================================================
