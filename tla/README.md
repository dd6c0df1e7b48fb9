# Warehouse OS: a TLA+ verification

Warehouse OS is a Python/FastAPI application with a PostgreSQL database, a few
long-running processes and two production nodes. Much of it is record keeping in
single transactions. What is modelled here are the parts where that is not enough,
because work goes on outside transactions, in several processes that crash, lose
leases, come late and overlap:

- the **hosting plane**: deployments are built and started, the public route of a
  workspace moves from revision to revision, idle runtimes are stopped and woken,
  *releases* drive a revision to its activation, and what is old is retired;
- the **queues and protocols around it**: uploads, confirmed actions, research
  computations, remote runs on a user's device;
- **records shared without one lock over all**: stock, and the members of a task's
  collaboration space;
- the **rollout** of Warehouse OS itself to its two nodes, with the databases'
  migrations.

TLC checks each on small instances; TLAPS proves the safety properties for all, under
assumptions that section 5 names. Liveness is checked by TLC alone.

Paths in this file are relative to `src/`. Abbreviations: `rcb` =
`backend/app/runtime_controller_base.py`; in `backend/app/services/`: `wd`
`workspace_deployments.py`, `wr` `workspace_releases.py`, `da`
`deployment_acceptance.py`, `ret` `workspace_retention.py`, `up`
`source_uploads.py`, `ca` `confirmation_actions.py`, `wo` `warehouse_operations.py`,
`tc` `task_collaboration.py`, `lf` `lighthouse_federation.py`.

## 1. Inventory

### 1.1 The hosting plane

**Hosting rows and deployment API** (`wd`). State: the workspace row
(`active_deployment_id`, `runtime_status`), the deployment rows (`status`,
`health`, `lease_owner`, `lease_expires_at`, `runtime_state`), the pointer of the
Pages site (`pages_routes.active_deployment_id`). Operations: request (under the
workspace lock, idempotent by key), cancel, repair (only of a failed deployment
or of the active one). Each is one transaction. Correct when the two route
columns and the workspace status never contradict each other.

**Runtime Controller, deployment queue** (`rcb` `claim`, `execute`, `fail`).
State: the rows above, the containers of the engine, and what the worker keeps
between its transactions. A worker claims the oldest queued deployment, or one
whose lease ran out (`FOR UPDATE SKIP LOCKED`), builds and starts it, publishes
it in one transaction (ready, route, Pages pointer), probes the public route for
up to 20 seconds and rolls back if the probe fails. Hard: crashes and lost
leases between any two transactions, several workers, cancellations and repairs
during a build. Correct when the route only names revisions that passed the
health gate, when a ready service has its containers, when every accepted
request is settled, and when observers see only the transitions they count on.

**Route activation** (`wd` `activate_workspace_deployment` with
`da` `ensure_candidate_runtime_running`). An API call wakes a healthy candidate,
waits for it without any lock, switches the route under the workspace lock,
probes it without lock, and confirms or restores under the lock. Hard: two calls
overlap; the candidate is suspended, fails or is queued for repair while awaited;
the process dies. Correct when what a call reports is true at that moment, when
a failed call undoes nothing but its own switch, and when the route is given
only to something that runs.

**Runtime Controller, scale to zero, drift and orphans** (`rcb`
`reconcile_runtime_lifecycle`, `reconcile_runtime_drift`,
`reconcile_orphan_runtime_containers`). State: `runtime_state`, the time of the
last request, the containers. The loop scans without locks, wakes and suspends
each service in two transactions with engine calls between them, requeues active
services whose containers vanished and stops containers no row accounts for. The
gateway and the release layer request wakes at any time. Correct when row and
engine never disagree and no requested wake is forgotten.

**Release orchestration** (`wr`). State: `release_sessions` (`state`,
`candidate_deployment_id`, `previous_deployment_id`, `current_job_deployment_id`,
`completed_jobs`, `updated_at`). Every change of state is a compare-and-set on
`state` (`_transition`). Drivers: the controller's reconciler, one release per
pass in the order of `updated_at`, and API calls (resume, cancel) from clients
that repeat them. An explicit call activates or rolls back. Hard: any number of
drivers on the same release, each acting on what it read earlier; states that
recur with each job; processes that die between an effect and its record;
revoked credentials. Correct when a release is activated once, only after its
jobs and acceptance, gets one candidate, stays ended once ended, and when no
release starves another.

**Workspace retention** (`ret`, and `rcb`
`reconcile_retention_runtime_containers`). State: the marks a confirmed plan puts
into the rows of deployments and sources (`retention.status`, operation), the
release directories, the containers and the controller's acknowledgement that
they are gone. Applying a plan marks what retires in one transaction, deletes
directories one by one, and writes the outcome; only the controller removes
containers. Hard: two requests apply the same plan, one dies; builds, repairs and
cancellations go on. Correct when nothing routed is retired, when no container runs
on a deleted directory, and when what is retired stays so.

**Interactions.** All of these share the rows of `HostingRows`. The queue and the
activation calls both move the route; the lifecycle writes `runtime_state`, which
the activation reads; releases insert deployments that the queue builds, wake
candidates the lifecycle starts, and call the activation; retention takes away
what none of them refers to.

### 1.2 Queues and protocols

**Resumable source uploads** (`up`). State: `source_upload_jobs` (status, attempts,
lease), the part rows, the staging files, the content-addressed object and the source rows
that refer to it. Create, revive, put parts, complete; a controller claims under a lease
that nobody renews, joins the parts, checks, stores the object, registers the source;
cancellation and expiry clean up. Hard: a verifier dies or outlives its lease and reports
over what another recorded; a cancellation is three steps; files are removed after the
transaction that decided it, while another upload of the same archive may need the object.
Correct when a live source keeps its object, an ended upload stays ended, and every upload
ends.

**Confirmation actions and passkey grants** (`ca`, `passkey_grants.py`). State: the
action's row (status, revision, arguments), single-use grants, the keychain, the
one-time delivery of credentials. A run proposes, the user reviews, edits or cancels
on several tabs, a ceremony yields a grant for one revision, confirming exchanges it
for a keychain, an executor runs the command outside every transaction. Hard: edits
between review and confirmation, executors that race, die or come late. Correct when
what runs is what was reviewed, at most once, and what the user reads is true.

**Research executions** (`research_execution.py`, `research_executor.py`). State:
`execution_jobs`, the heartbeat, the outputs directory, artifact rows. Workers claim
queued jobs and those silent for five minutes. Hard: workers die, are stopped, and a
silent one may still be alive; cancellations arrive between any two steps. Correct
when what ended stays ended and every computation ends.

**Lighthouse federation** (`lf`, `api/lighthouse_federation.py`). State: `runs`, the
`outbox`, the log of events, the registry of web sockets. Both sides repeat on the
next connection what was not acknowledged. Hard: sockets lose, break, are replaced
while still being read; reports come twice. Correct when an offer is handled in the
end and a run that ended is not revived.

### 1.3 Shared records

**Warehouse stock** (`wo`). State: lots by warehouse and expiry, the ledger, inbound,
outbound and transfer orders. Receipts repeat with their `client_request_id`; issues
and transfers lock lots; receiving and archiving lock nothing. Correct when stock is
conserved and an archived item has none.

**Task collaboration** (`tc`). State: members and their roles, requests, invitations,
the owner, `max_members`. Every call is one READ COMMITTED transaction that reads
the members without a lock. Correct when the limit holds and ownership is not lost.

### 1.4 The rollout

**Database migration controller** (`backend/app/database_migration_controller.py`,
`ops/server/warehouse-standby-reseed`). A detached container per release and node,
an advisory lock per database, one revision per transaction, `status.json`. The
standby's schema goes first; its cursor is replicated from the primary. Correct when
code never runs ahead of its schema and the primary never ahead of the standby.

**Rolling deployment** (`ops/cluster/rolling-deploy`, `ops/server/warehouse-deploy`,
`ops/macos/warehouse-deploy-macos`). State per node: the current release, prepared
releases; on the standby two slots and an upstream, on the primary one Compose
override and a copy of the former. Operations: prepare, migrate, gates, activate,
rollback, recovery of the primary. Hard: the orchestrator dies, containers outlive
it, one node fails, operators interfere. Correct when both nodes end on the same
commit, records name what is served, and the serving container is left alone.

### 1.5 Not modelled

| component | what it does | why it is left out |
|---|---|---|
| Autoscaling (`rcb`) | replica count from load and cooldown; writes `container_names` from an old read | the decision is a pure function; its stale write is a hazard in the list |
| Heartbeat watchdog | a thread ends a stuck loop | the queue model already lets the controller crash at any time |
| Device runtime (Pages migration) | moves a site to a device, writes the Pages pointer from an earlier read | several external parties; the stale write is a hazard in the list |
| Database release gate, hosted database | checks a hosted schema before activation, provisions databases | seen as a gate that may refuse (`SwitchRefused`, `PublishRaises`); the rest is SQL administration |
| Sessions and API keys; membership, organization, identity | rows that rotate, expire, are granted | single transactions under database constraints; nothing interleaves |
| Digital assets and custody, source packages, hosting fabric, intelligent hosting | asset records, analysis of sources, placement | record keeping and pure functions of their input; one handler also sets `runtime_status`, in its own transaction (section 3, observations) |
| Task centre, messages, documents; research vault, review, committee | documents and comments | record keeping |
| Memory fabric, conversation history, prompts; civilization, generic data, shield, templates, integrations, automatic runtime | retrieval, prompt assembly, policy evaluation, catalogues | data processing without a protocol |
| Workspace autonomy, browser runtime | jobs for an external browser | its protocol lives in the browser |
| Terminal and capability gateway, API routers, command line client | argument validation and dispatch | transport; the repeated calls of the client are in the release model |
| Deployment plan, source sync, storage, backup scripts, infrastructure, frontend, helper scripts, schema migrations | operations and presentation | run by hand or once, or user interface |

Most of the repository's lines are of these kinds: command catalogues, templates,
routers, read models and forms. They have no state of their own, or change it in one
transaction whose correctness is a database constraint; there is nothing in them for
interleavings to break, and a model would only repeat the SQL.

## 2. Modules

```
HostingRows                         rows and single-transaction handlers
 |- RuntimeController               the deployment queue       DeploymentLedger
 |   |- RuntimeControllerProofs     theorems about it            (abstract spec)
 |   '- WorkspaceRetention          retirement, next to the queue
 |- RouteActivation                 explicit activations
 |   |- RouteActivationProofs       theorems about them
 |   '- ReleaseOrchestration        releases, on top of activations
 |       '- ReleaseProofs           theorems about them
 '- HostingPlane                    = RuntimeController + RouteActivation
     '- HostingPlaneProofs          theorems about both together
RuntimeLifecycle                    scale to zero, drift, orphans
SourceUploads      ConfirmationActions (- ConfirmationProofs)
ResearchExecution  LighthouseFederation     WarehouseStock   TaskCollaboration
DatabaseMigration                   the migration controllers of both nodes
 '- ClusterRollout                  the orchestrator, the nodes, operators
MCQueuedWork    = RuntimeLifecycle | SourceUploads | ConfirmationActions |
                  ResearchExecution | LighthouseFederation   (- QueuedWorkProofs)
MCSharedRecords = WorkspaceRetention | TaskCollaboration | WarehouseStock
                                                             (- SharedRecordsProofs)
MCReleases      = ReleaseOrchestration | ClusterRollout      (- RolloutProofs)
MCHosting       = HostingPlane | RuntimeController
```

Most `.cfg` files instantiate a module directly: constants are numbers and sets of
model values. The four MC modules each check several components in one run. Those
share no table and no lock, so interleaving them would show nothing that each alone
does not; `focus`, chosen in the initial state, picks the component that moves, and
every behaviour of each is explored. Fairness is conjoined with `focus`. For three of them
a proof module shows that a behaviour of the run is one of every component
(`EachAsIfAlone`, `EachOnItsOwn`, `BothKindsRun`), which carries the theorems over.
MCHosting instead extends HostingPlane, with two workers, and puts an instance of
RuntimeController with the one that is deployed beside it, on rows of its own.
`DeployedServicesAreBacked` and `DeployedQueueSettles` are that instance's `ReadyIsBacked`
and `EveryDeploymentSettles`.

**HostingRows.** A deployment is a number, its place in the order of
`created_at`; `health` is folded into `status`, which it always accompanies. The
operators `StatusOfRoute` and `PointRouteAt` are the two things every handler
that moves the route computes. `ColumnsAgree` says that the workspace status and the
Pages pointer both tell what the route says.

**RuntimeController.** `phase[w]` is where a worker stands between two
transactions: `idle` -`Claim`-> `building` -`StartContainers`-> `built`
-`Publish`-> `verifying` -> `idle`, or through `cleanup`/`failing` when something
raises. `Publish` is faithful to the code in one respect that matters: the UPDATE
of the deployment is conditional on the lease, the UPDATE of the workspace is
not. `previous` is the route read in that transaction, put back by `RouteFails`
unconditionally. `container` is the engine. The build (source, image, container
specification) is one step that succeeds or raises, and a raise may or may not
have removed what was started. `Crash` forgets the worker's place; its lease
stays until the clock passes it (`LeaseRunsOut`).

**DeploymentLedger.** What observers of a status may count on with workers,
leases and crashes hidden. `ImplementsLedger` maps `ledger` to `status`,
`proven` to `everHealthy`, `route` to `active`.

**RouteActivation.** `call[a]` runs through `waking`, `prepared`, `probing`,
`answered`; `outcome[a]` is what the call reports. The lifecycle controller and
the queue are seen from outside, as `LifecycleStep` and `BuildEnds`.

**HostingPlane.** Queue and activations interleaved on the same rows.

**RuntimeLifecycle.** `pass` is the pass of `run_forever` the loop is in; one
database transaction or engine call is a step. `Build` stands for the whole of
`run_once`, whose steps are RuntimeController's. Not all of a service's life is
here: it starts with its first successful build.

**ReleaseOrchestration.** A driver's read of the row together with the
transaction that follows it is one step, whose intended transition is kept in
`driver[p]`; the compare-and-set is another (`Commit`). A driver can die between
the two. `line` is the order of `updated_at`, which a trigger maintains; it
decides whose turn it is (`FirstInLine`, `Claims`). API calls go through
`StartActivation`, two marks and RouteActivation's own steps (`RouteStep`), then
`Report`. The reconciler's lease on a release is left out: no transition checks it,
so it cannot keep anyone from acting. Jobs are numbered and their builds are
outside (`JobEnds`).

**WorkspaceRetention.** Extends the queue. A request that applies a plan goes through
`MarkRetiring`, `HandleCandidate` and `WriteOutcome`; the controller's pass
(`RetireContainers`) checks `RouteNeeds` and acknowledges. Time is one bit per
deployment, old or young (`Ages`). Left out: python environments, the staging of
expired uploads, the digest over container names; pins and open releases protect
like any reference.

**SourceUploads.** All uploads carry the same archive, so they compete for one object.
`CancelUpload`, `CancelRemovesFiles` and `CancelRemovesRows` are the three steps of a
cancellation; a verification has five, each of which may end it for good or to be tried
again. Its lease may run out while it is at work (`LeaseOutlived`), and its report is
written all the same. The one-request upload, which stores and registers in two steps and
may fail or die between them, and the retirement of sources are the other writers of the
object; `crossed` records who removed it between another's store and registration.
One row per expiry pass; no `version_no`; the quota suffices.

**ConfirmationActions.** One action per request, each of which locks the row and first
lets it expire (`StatusNow`, `RevisionNow`, `KeychainNow`). `card[t]` is what a tab
shows, a grant is the card of its ceremony, `executor[e]` is where an executor stands
around the command. `runs` and `runsWith` count and record executions for the
properties.

**ResearchExecution.** `stage[w]` is where a worker is in `execute`; `silent` is the
five minutes without a heartbeat, of a dead worker or of one that prepares or collects for
so long (`Oversleeps`). A stopped worker cancels its job, after collecting what was
written; a dead one leaves it.

**LighthouseFederation.** One run; outbox rows and reports are positions in sequences,
sockets are sequences of what is under way. What `ORDER BY id` and the device's replay
read is a set of positions and the one order of it (`InOrder`). The device is modelled from
the protocol document and marked external in PROJECT.json.

**WarehouseStock.** One item; `lots` and `ledger` are kept apart so that they can
disagree. `clerk` is a receipt that has looked its item up and not yet inserted its lot.

**TaskCollaboration.** A call is what it read (`Begin...`) and what it writes
(`Write...`), with other calls between; only requests and invitations are locked.

**DatabaseMigration.** A revision is its position in the chain, of a database only the
revision it has reached is kept. `worker` is the container, `migrationJob` the
`status.json` it leaves. The rebuild of the standby is one step that goes through
(`ReseedStandby`) or breaks off at any of its points (`ReseedBreaks`): before it touches
anything, with the subscription dropped, with the database dropped or restored in part
(`replica` is `lost`, and nothing of it counts), or while the tables are copied. Its trap
starts the API containers again, so what answers on the standby stays as it was. The
legacy baseline and the static analysis of revisions are left out; `schema` and
`primary_data` revisions move the standby's cursor alike.

**ClusterRollout.** `phase`, `awaiting` and `succeeded` are where `rolling-deploy` is and
which commands it waits for. A manager holds its node's lock for a whole command (`flock`
on the standby, a lock directory on the primary), so a command is one step. `standby` has
the upstream, `active-slot`, what runs in each slot and what `slot-<slot>-release` says of
it, `primary` what runs, the override, its saved copy, `previous-release` and the manifest
the next plan starts from, `currentRelease` the CURRENT link. A command on the primary may
also be stopped by a failing `compose up` (`BreakOffPrimary`, `RollBackBreaksOff`): the
script exits there under `set -e`, in the activation itself or in the restoration of a
failed one, with CURRENT and the override moved or restored, the manifest as it was, and
the old container, the new one or none. `primaryPast` remembers such a stop, and a
rollback that follows a rollback. The initial state has one release on both nodes. `smart`
is the mode; the identity gate and the duration limit only report; an operator's own
prepare, migration or activation on the standby is left out. `SchemasInOrder` is both
orders together: `SchemaBeforeCode`, each database has what the code on its node needs,
and `StandbySchemaFirst`, the primary is not ahead of the standby.

PROJECT.json maps each definition to the lines it stands for.

## 3. Runs

Every bound is a constant: `MaxDeployments`, `MaxRepairs`, `MaxCrashes`, `MaxWakes`,
`MaxFaults`, `MaxOperations`, `MaxRevivals`, `MaxUploadFaults`, `MaxEdits`, `MaxGrants`,
`MaxExecutorDeaths`, `MaxWorkerDeaths`, `MaxWorkerStops`, `MaxCalls`, `MaxConnections`,
`Courses`, `MaxRollouts`, `LastCommit`, `MaxMigrationFaults`, `MaxDrifts`,
`MaxNodeFaults`, `MaxSlips`, `MaxEngineFaults`, `MaxDeaths`, `MaxRecoveries`,
`MaxRollbacks`, `MaxTogether`, `PlaneLength`. `CHECK_DEADLOCK FALSE` is set because the
bounded inputs can be used up, after which the system rightly rests.

| run | bounds | shows |
|---|---|---|
| hosting | plane: 2 workers, 1 activating call, 2 static deployments of which one activates itself, 1 repair, 1 crash, no build outlives its lease; queue: 1 worker, 3 deployments (static, service, job), leases may run out at any time, 1 repair, 1 crash | the route was healthy, columns agree, the composition implements the ledger; a ready service has containers, every request settles |
| releases_of_both_kinds | 1 release of a workspace with 1 job, reconciler and an API process that resumes and cancels, 2 activating calls, 2 deployments, 1 repair; rollout: 2 rollouts over 4 commits of which 2 migrate, 1 migration fault, 1 ownership drift with a rebuild that may break off; 1 each of failing candidate, late failure, stop by the container engine, death of the orchestrator and recovery, 2 operators' rollbacks on either node at any time, of all these 2 together | one candidate, one activation at a time, activation is earned, the route is given to what runs, what ended stays ended; standby's schema before the primary's before the code, records name what is served, nodes agree, no migration under an activation, the serving slot is kept, every rollout ends |
| release_pair | 2 releases, 2 activating calls, reconciler | a failed call spares other routes, "verified" is true when said, only a confirmed activation makes a release verified; neither release keeps the other from its activation |
| shared_records | retention: 1 worker, 2 applying requests, 2 operations, the 1 most recent kept, 2 deployments, 1 repair; collaboration: 3 people, 2 browsers, 4 calls, limits 2 and 3; stock: 2 warehouses, 2 expiries, 2 receipts, 2 issues, 2 clerks, 1 shipment | the route is not retired, containers have their release directory, what is retired stays so; the limit and the ownership hold; stock is conserved, an archived item is empty |
| queued_work | lifecycle: a routed service and a staged candidate, 1 wake, 2 faults; uploads: 1 upload and the other writers of its object, 1 controller, 2 attempts, 1 revival, 1 fault (a death, or a lease that runs out under the verification); confirmations: 1 action with a credential, 2 argument lists, 2 tabs, 2 executors, 1 edit, 2 grants, 1 death; research: 1 computation, 2 workers, 1 death or overlong silence, 1 stop; federation: 2 connections, approval, cancellation and revocation | row and engine agree, wakes are honoured; a live source keeps its object, what runs was reviewed and runs once, the status tells what ran; ended uploads, computations and runs stay so, uploads and computations end (`EndedWorkStays`, `BegunWorkEnds`); an offer is handled |

Why these are enough to be telling: the interesting cases need two actors on one row (two
workers on one deployment, two calls on one route, two drivers on one release, two
executors on one action) and a former state to go back to, hence two deployments or three
where two candidates compete for the route of a third, two releases or two rollouts. One
repair, revival or edit gives a second round, which is what stale readers confuse with the
first. More of the same adds length, not a new kind of step. The plane leaves out sleeping
runtimes, which its properties do not speak of; releases_of_both_kinds has them, under
RouteActivation's own steps. Three deployments with retention, two actions or two
computations were left out: each pair meets only through the actors, of which there are
two.

The rollout's bound `MaxTogether = 2` keeps releases_of_both_kinds within a few minutes: of
all that may go wrong (and of operators' interventions) two things happen in one history. The
rollout alone was also explored with three together (857,320 distinct states) and without
a joint bound (4.5 million), without an error; the theorems know no bound. queued_work
has 386,502 distinct states, releases_of_both_kinds 951,231. With one upload in
queued_work the part of `ReferencedObject` about *other* jobs is not exercised there; it is in
**SourcesKeepObjects**, for any number of uploads.

Operators roll back at any time and again and again, with one exception,
`RollbackCandidates = FALSE`: not to a standby slot whose container is a candidate;
rollout_candidate shows what that does. What a property excepts is what the code does part:
`RecordIsServed` a primary whose last command that counts was stopped half way, and one that
was rolled back twice in a row (see the observations); `SchemasInOrder` a standby whose
rebuild broke off after it dropped the database. `NodesAgree` excuses commands that fail after
they have taken effect or are stopped half way, a script that died, and people who move one
node alone, which leaves the nodes apart by intent.

Each passing run's properties are also shown to depend on the code: for every one
there is a definition, marked "Mutant", of a plausible mistake (a dropped guard, an
unread row, a missed reset) with which the property fails.

### Disagreements found

These runs end in a violation, which is what the code does.

- **lost_lease** (`RouteWasHealthy`). `rcb:1677` sets the deployment ready only
  if the worker still has its lease, ignores the row count, and moves the route
  anyway. A worker whose build outlived its lease moves the route to a row
  another worker is building or has marked failed. With one worker, or under
  `LeaseCoversBuild`, the property holds for every instance (section 5).
- **release_skipped_job** (`ActivationIsEarned`). The compare-and-set looks at
  `state` alone and states recur. A driver that read the row before the first job
  sets `jobs_running` after that job was recorded; it is then counted as the
  second, which never runs.
- **release_interrupted** (`InterruptedActivationsResume`). Nothing takes a
  release out of `activating` or `public_verifying` when the API process dies.
- **retention_rollback** (`RouteIsNotRetired`). Build 1 has the route, build 2 is
  published and still being verified; a plan whose rollback window has passed clears
  the recorded rollback target (`ret:736`) and marks 1 as retiring; the verification
  of 2 fails, and the route goes back to 1 (`rcb:1816`). Bounds: 1 worker, 1 request,
  2 deployments, the 2 most recent kept, a policy with a window.
- **rollout_candidate** (`SchemaBeforeCode`). `prepare` replaces the container of the
  inactive slot and leaves `slot-<slot>-release` alone. A rollback at that time
  (`ops/server/warehouse-deploy:1442`) finds the slot named and healthy, and sends
  traffic to a candidate that was never activated and whose migration has not run,
  recorded as the former release.
- **late_verifier** (`VerifiedUploadsStay`). Reports of a verification update the job
  `WHERE id` alone (`up:895`, `up:957`), under a lease of 300 seconds or a little more that
  is never renewed (`up:753`). A second controller takes over a job whose verification is
  slow and verifies it; the first one fails, late, and sends it back to `queued` or
  `failed`. `docs/digital-asset-hosting.md:190` has clients attach the source "once status is
  `verified`". Bounds: 1 upload, 2 controllers. With the one controller that is deployed it
  cannot happen: **EndedUploadsAreFinal**.
- **source_crossing** (`SourcesAreKept`). The expiry decides in a transaction that nothing
  leads to the object and unlinks it afterwards (`up:1056-1066`); a one-request upload of
  the same archive has stored the object before and registers it after that decision. Its
  source is verified and has no object. The docstring (`up:973`) promises to remove "only
  their private staging parts". Bounds: 1 upload, 1 controller. `LiveSourceKeepsObject` is
  what is left: with one controller it takes the one-request upload or retention.

### Observations without a run

Hosting plane. A cancellation leaves `runtime_status` at `building` with nothing to
build (`wd:2107`). `ready` is recorded before the public route is probed, where
`docs/workspace-deployment-data-plane-design.zh-TW.md:169` asks for the probe first.
With two overlapping activations that both fail, the route goes back to a revision
marked failed meanwhile (`wd:2485`). The controller's rollback (`rcb:1812`) puts the former
route back whoever holds it by then: an activation verified during the 20 seconds of the
probe is undone, although `docs/digital-asset-custody-guide-2.1.zh-TW.md:522` has a failed
probe leave the active revision unchanged and the API's own rollback does check
(`wd:2479`). A release whose credential was revoked is blocked
in whatever state it is in by then, even one it has just ended in (`wr:1127`), for
which `EndedReleasesStay` makes an exception. `fail()` overwrites a repair that queued
the row again (`rcb:1893`), which the ledger allows on purpose. Configuring an asset's
component sets `runtime_status` to `planned` although a revision may hold the route
(`backend/app/services/digital_asset_hosting.py:3936`).

Retention and uploads. A deployment marked `retired` that is queued for repair does not
protect its source. The object of a retired source is deleted after the commit
without looking again, and two artifacts that share an object take each other for
alive. A repair leaves the acknowledgement of an earlier retirement in place, so that
the directory of a rebuild cancelled later may be deleted under its containers;
`ContainersHaveTheirRelease` leaves repaired deployments out. Reviving an upload does
not check the quota again.

Confirmations and research. A keychain stays `claimed` after an execution is given up;
a report later than 30 minutes is refused and loses the one-time credentials; an edit
changes the request digest without the proposal's id, so that a repeated proposal
makes a second action. A job cancelled between its read and its mark as running can
still succeed (`EndedExecutionsStay` excepts that worker); stopping an executor cancels
its job for good; a job that kills its worker is tried for ever.

Records. Archiving an item looks at its lots, not at stock in transit, whatever its
docstring says; issues of several items can deadlock on lot locks. A space can lose its
owner when ownership and departure cross, which `OwnershipIsNotLost` excuses only
where no lock relates the two calls; `max_members` is compared with an unlocked count.

Federation. Approval requests and completions overwrite the status whatever it is; an
approval reported during a cancellation overwrites `cancelling`; the pending outbox is
read once per connection, 100 rows at most; a revoked device's open loop still handles
what it has buffered.

Rollout. `docs/production-deployment.md:108` says a failed smoke test removes the
candidate, the code only restores the upstream (`ops/server/warehouse-deploy:1400`). A
migration's wait after a retry may read the former attempt's `failed`, and a controller
that finds the lock taken reports `failed` over the status of its release. A failed
activation on the primary overwrites `previous-release`, so that a rollback later
"returns" to the release that is there. Restoring the primary does not restart its browser
and research containers. The primary's lock directory stays after a kill. A second
rollback in a row on the primary exchanges CURRENT with `previous-release` again but
copies the same saved override back (`ops/macos/warehouse-deploy-macos:506`, `:786`): it
records the newer release and runs the older, until the next activation. The comment at
`:514` has the host bridge and its Compose contract restored together with the images.
`compose up` (`:519`, `:726`, `:738`) exits under `set -e` when it fails: CURRENT and the
override may name a release that does not run and that the manifest of the next plan does
not know, or no container may run at all. A rebuild of the standby that fails after `DROP
DATABASE` (`ops/server/warehouse-standby-reseed:257`) starts the API containers on what is
left (`:223`), where `docs/database-migration-controller.md:61` lists their recovery as
the last of six steps; the release stops there, and a later one asks for a rebuild again.
A primary migration that outlives its rollout goes on after the next one has rebuilt a
drifted standby from the primary as it is, the exception in `StandbySchemaFirst`;
`docs/database-migration-controller.md:11` and `:14` have the standby's schema always
first. A node's `activate` may fail after it has switched and recorded, when it installs
the release's own scripts (`ops/server/warehouse-deploy:1420`); the orchestrator rolls
back only nodes that reported success (`ops/cluster/rolling-deploy:352`), and the nodes
are left apart, where `docs/cluster-deployment.md:22` has the end that succeeded rolled
back. An `activate` that dies between switching the upstream and writing `active-slot`
(`ops/server/warehouse-deploy:1393`) has the next prepare replace the container that
serves; here a command is one step.

## 4. Fairness

- Queue: each worker's next step (weak): `run_forever` never stops looping and
  every call in it has a timeout; the clock reaches each lease's expiry (weak).
  Crashes, lost leases during a build, cancellations and repairs are not fair.
  `DeployedQueueSettles` counts on `MaxRepairs`: the queue takes the oldest
  first, so endless repairs of an old deployment would keep a newer one waiting.
- Lifecycle: the loop (weak). Each pass works off finite candidate lists.
- Releases: the reconciler's step (weak) and its commits (strong: it may die
  before a commit any number of times, not for ever); each step of an API call
  (weak: every wait has a timeout). No fairness for clients, cancellations, jobs or the
  lifecycle, so `AcceptedReleasesAdvance` speaks of accepted releases only.
- Uploads: each controller's next step (weak; a dead one is restarted and looks for work
  again), the clock (`ComesDue`, `JobLeaseRunsOut`, weak). Nobody has to send the parts or
  finish a cancellation: that an abandoned upload ends is the work of its expiry.
- Research: each worker's next step (weak), and the five minutes without a heartbeat
  pass (`FallsSilent`, weak). Deaths and stops are bounded.
- Federation: the server's tasks, and the device, which reconnects and works through what
  it received (weak). Connections need not break; that they stop breaking is the bound
  `MaxConnections`.
- Rollout: the script runs on (`Orchestrator`, weak). Migrations need neither finish nor
  report, and containers may die: `EveryRolloutEnds` rests on the time limits of the waits.

RouteActivation, HostingPlane, confirmations, retention, stock and collaboration are
checked for safety alone; nothing in them goes on by itself.

## 5. Proofs

Every invariant and every action property that a passing run checks is stated by a theorem,
for any number of the things the run has one, two or three of. What the theorems assume,
besides the named assumptions on the constants (sets are finite where they are summed over,
bounds are numbers):

| assumption | theorems | why the code justifies it, or what happens without it |
|---|---|---|
| `BuildsAreFenced`: one worker, or `LeaseCoversBuild` | RouteStaysHealthy, QueueImplementsLedger and their plane versions | `compose.production.yaml` starts one runtime controller, and nobody else claims a build whose lease ran out. With several, the lease (`runtime_controller_lease_seconds`, 120 s by default, never renewed) would have to outlast every build; nothing enforces that, and the run lost_lease is the counterexample |
| `OneWorker` | ReadyServicesAreBacked, RouteIsNeverRetired, ReleasesOutliveContainers | as above. With two, one may stop what a repair has let the other start again |
| no policy with a rollback window (`NoWindow`) | RouteIsNeverRetired | `rollback_max_age_hours` is `None` by default; the run retention_rollback is the counterexample with one |
| `JobCount <= 1 \/ ~ApiResumes` | ActivationsAreEarned | one migration job, or the reconciler as the only driver; the run release_skipped_job is the counterexample |
| `RollbackCandidates = FALSE` | RecordsNameTheServed, LiveSlotsAreSpared, CodeFindsItsSchema, NodesEndOnOneCommit | nobody enters `ops/deploy rollback` for the standby while a candidate waits in its other slot; nothing enforces it, and the run rollout_candidate is the counterexample. Rollbacks at any other time, and in a row, are covered |

Of leases and heartbeats of uploads and research nothing is assumed. A property whose
exception the code makes necessary names it: a process that reports late, among several
(`EndedUploadsStay`, `EndedExecutionsStay`), crossings over the object of an archive
(`LiveSourceKeepsObject`), an overlooked cancellation (`EndedExecutionsStay`), commands
stopped half way and doubled rollbacks (`RecordIsServed`). All other theorems hold whatever
leases, heartbeats, crashes and repeated calls do.

**RuntimeControllerProofs**, the queue with any number of workers, deployments, repairs and
crashes.

- **ControllerTypeCorrect** (`ControllerTypeOK`), inductive with `WorksOnSomething`: a
  worker at work has a deployment at hand. **RouteColumnsAgree** (`ColumnsAgree`) is
  inductive together with it, lost leases and crashes included.
- **RouteStaysHealthy** (`RouteWasHealthy`) is not inductive: `Publish` moves the route
  without looking at the lease. `RouteInv` adds that a worker holds the lease of what it
  works on *or* works on something proven (`WorkersAreFenced`), that what is verified is
  proven and that so is what it goes back to. A worker that is alone may lose the race with
  the clock and still be the only one that decides the fate of its deployment.
- **ReadyServicesAreBacked** (`ReadyIsBacked`, which the run checks as
  `DeployedServicesAreBacked`). `WorkIsNotReady` adds that a worker that may still remove
  containers, or has yet to start them, works on a row that is not ready.
- **QueueImplementsLedger** (`ImplementsLedger`). `LedgerInv` adds that what is worked on was
  requested and that a lease is only held over a build or one overtaken by a cancellation or
  a rollback (`LeaseMeansBuild`); `StepMapsToLedger` then maps each action to a ledger step
  or a stutter.

**RouteActivationProofs** and **HostingPlaneProofs**, with any number of calls.

- **FailuresSpareOtherRoutes**, **VerifiedCallsHoldRoute**, **SwitchesGoToRunning** follow
  from `CallsInv`, what a call knows at each of its places: each of the three is about the
  last look a call takes under the workspace lock.
- The queue's theorems hold for the plane too (**PlaneTypeCorrect**, **PlaneColumnsAgree**,
  **PlaneRouteStaysHealthy**, **PlaneImplementsLedger**). A caller touches rows that the queue
  works on, so its steps must keep `RouteInv` and `LedgerInv` and the queue's steps what calls
  rely on, `CallersAreSafe`: a ready row was proven healthy, and so were the candidate and the
  former route a call remembers, however long ago it read them.

**ReleaseProofs**, with any number of releases, drivers, callers and jobs. All rest on
`ReleaseBase`: what each driver is about to write is a transition that some read of the row
justified (`SoundIntention`), and the idempotency key of a candidate is used once
(`KeysAreUnique`), however many drivers died before they recorded it (**CandidatesAreUnique**).

- **EndsAreFinal** (`EndedReleasesStay`) needs `RolledBackOnceEnded` and that a block is only
  intended once the credential is gone.
- **ActivationsAreExclusive** (`OneActivationAtATime`): states recur, but none of those before
  the activation does once a call has passed them (`NeverEarlyAgain`), so the mark
  `activating` is set once.
- **VerifiedReleasesWereConfirmed** (`VerifiedWasConfirmed`): calls know the release's own
  candidate, through `CallsKnowTheCandidate`.
- **ActivationsAreEarned** (`ActivationIsEarned`). `JobsInOrder` ties the jobs that count as
  completed to those that succeeded. What one driver read stays true while nobody else
  writes (`AloneIsUpToDate`), or while there is one job that nobody can skip
  (`DriversSawJobs`).

**RolloutProofs**, with any number of rollouts, revisions, failures, deaths, recoveries and
rollbacks, together and in a row.

- **RolloutTypeCorrect** (`RolloutTypeOK`) needs no more.
- **RecordsNameTheServed** (`RecordIsServed`) and **LiveSlotsAreSpared** (`LiveSlotIsKept`)
  rest on `RecordedInv`. Standby: upstream, `active-slot` and the slots' own files agree and
  the candidate is in the other slot (`StandbyAgrees`). Primary: CURRENT, manifest,
  override and container are about one release while nothing is half way or doubled,
  and so are what a first rollback would bring back (`PrimaryAgrees`). A rollout reaches a
  node once.
- **CodeFindsItsSchema** (`SchemasInOrder`) and **ActivationsAreQuiet**
  (`QuietActivation`, under no assumption) rest on `SchemasInv`: one controller migrates
  per node (`OneMigrates`), whatever may come to answer on a node, from any record or
  copy, finds its revisions however far an orphaned migration goes on (`Safe`,
  `CodeIsSafe`), and the standby leads until it is reseeded.
- **NodesEndOnOneCommit** (`NodesAgree`) adds where each node would return to from each phase
  (`RolloutAgrees`, `NodesFollowPlan`).

**SharedRecordsProofs**.

- **RouteIsNeverRetired** (`RouteIsNotRetired`): the route a verification may give back is
  named as the rollback target by the row that has the route, and so is protected
  (`VerifiedHasItsWayBack`), and a build's lease is held until it is published.
  **ReleasesOutliveContainers** (`ContainersHaveTheirRelease`): until a repair, an
  acknowledgement stays true (`AcknowledgedIsGone`). **RetirementIsFinal**
  (`RetiredStaysRetired`).
- **MembersStayWithinLimit** (`LimitHolds`) and **OwnersAreOnlyLostSo**
  (`OwnershipIsNotLost`): one admission has the room it counted, until two overlap
  (`RoomIsLeft`). The theorems say that the overlaps the properties except are the only
  ways.
- **StockConserved** (`StockIsConserved`) and **ArchivedItemsAreEmpty** (`ArchivedItemIsEmpty`).
  Stock is a sum over warehouses and expiries, the ledger one over receipts, issues and
  shipments, each of any finite size. The library's induction takes the claim as an operator,
  which the provers cannot instantiate; `SubsetInduction` takes the *set* of the subsets it
  holds for instead, and gives that a sum over a finite set changes by what one index changes.

**QueuedWorkProofs** and **ConfirmationProofs**.

- **RowsAlwaysMatchEngine** (`RowsMatchEngine`): in each pass that starts or stops containers
  the row of the service in hand already says that it is changing (`CurrentIsChanging`),
  since what could overtake the pass, a request, only asks.
- **SourcesKeepObjects** (`LiveSourceKeepsObject`). An object is only missing under a verified
  source if somebody is recorded to have crossed another (`ObjectIsKept`), and a controller
  that has stored an archive is the only process that could be about to remove it when it
  is alone (`ControllerDoesNotCross`).
- **EndedWorkIsFinal** (`EndedWorkStays`) has three parts. **EndedUploadsAreFinal**: what
  a process has in hand is still being verified, and by nobody else, if it is the only one
  or while the lease of that job was not outlived. **EndedExecutionsAreFinal**: the same
  of workers and of jobs that were not overslept. **EndedRunsAreFinal**: here the code
  checks nothing, a completion overwrites any status, and all hangs on the order of
  messages. Whatever connection a report is read from, also an old one that has been
  replaced, the reports before it are logged or are read from it first (`ReadInOrder`);
  the connection in use carries all that is not logged (`NothingIsMissing`); the device
  says nothing after the end (`ReportsInOrder`). So the log is a prefix of what the device
  said (`LogInOrder`), the end of a run is its last report, and what comes after it has
  been logged before.
- **ReviewedIsRun**, **OneConfirmationOneRun**, **StatusIsTrue** (`RunsWhatWasReviewed`,
  `RunsAtMostOnce`, `StatusTellsWhatRan`) follow from `ConfirmationInv`. What an edit on another
  tab could break is a grant given before it: a screen or a grant shows the row as it was at
  the revision it names (`ScreensTellTheRows`), revisions only grow, and a grant is exchanged at
  the row's own revision, so that the row's consent is to its present arguments
  (`ConsentIsKept`). What racing and late executors could break is the count of runs: an
  executor with an action in hand has it marked as executing or given up (`ClaimsAreMarked`),
  no two hold the same (`ExecutorsAreAlone`), and an action that was never claimed has not run
  (`UnstartedIsUntouched`, `RunsAreCounted`).

The larger of these invariants were checked by TLC on small instances before they were
proved. The proofs
changed the models in four places. Two branches of the standby's reseeding overlapped, and
now exclude each other as the script's `if` does. Sums need a finite set of shipments, which
is now an assumption. What federation reads from its outboxes in order of position is stated
by what it is (`InOrder`) and no longer computed. And the conditions in the table above
are what a proof was missing where one failed; those with a counterexample have a run.

Only model-checked: liveness (`DeployedQueueSettles`, `WakeIsHonoured`,
`AcceptedReleasesAdvance`, `BegunWorkEnds`, `OfferIsHandled`, `EveryRolloutEnds`), since
reasoning under fairness and about ENABLED is beyond the prover.

## 6. Plan

Done: the hosting plane with its releases and retention; uploads, confirmations, research
executions, federation; stock and collaboration; the rollout of the system; the proofs of all
safety properties the passing runs check.

Next:

1. Weaker assumptions: `OneWorker` for ReleasesOutliveContainers, which removals two
   controllers may do to each other.
2. Abstract specifications beside `DeploymentLedger`: what a client may count on of a release
   (its states in the order of the documentation), implemented by ReleaseOrchestration.
3. Where more modelling would tell something: the autoscaling pass and the device migration,
   whose stale writes are in the list of hazards, and the reconciler across several
   workspaces.

Not planned: the content of builds (source extraction, images, container specifications),
HTTP probes, engines and storage. They are I/O whose outcome is a nondeterministic choice
in the models. The number of requests, repairs, crashes and wakes is bounded in the runs
and arbitrary in the theorems.
