---------------------------- MODULE ClusterRollout ----------------------------
(***************************************************************************)
(* A release goes to two nodes: ops/cluster/rolling-deploy prepares both,  *)
(* takes the databases through the standby's schema, the primary's data    *)
(* and the replication, checks both candidates, activates both and, when   *)
(* one of them fails, rolls the other back.  Each node's manager keeps its *)
(* own records: on the standby (ops/server/warehouse-deploy) two slots and *)
(* an upstream, on the primary (ops/macos/warehouse-deploy-macos) one      *)
(* Compose override and a copy of the one before.                          *)
(*                                                                         *)
(* A manager holds its node's lock for the whole command, so a command is  *)
(* one step.  The orchestrator may die between any two; a command that has *)
(* begun goes on to its end, and so do the migration containers, which     *)
(* nobody waits for any more.  Workflows run one at a time (concurrency    *)
(* group warehouse-production); operators do not wait for them.            *)
(***************************************************************************)
EXTENDS DatabaseMigration

CONSTANTS
    NoBuild,
    Slots,             \* {"blue", "green"}
    MaxNodeFaults,     \* bound: candidates that fail on a node
    MaxSlips,          \* bound: commands that fail after they have taken effect
    MaxEngineFaults,   \* bound: commands that the primary's container engine stops
    MaxDeaths,         \* bound: deaths of the orchestrator
    MaxRecoveries,     \* bound: primary-recovery workflows
    MaxRollbacks,      \* bound: rollbacks by operators
    MaxTogether,       \* bound: all of these in one history
    RollbackNodes,     \* where operators roll back
    RollbackCandidates \* FALSE: not to a slot whose container is a candidate

ASSUME RolloutAssumption ==
    /\ {MaxNodeFaults, MaxSlips, MaxEngineFaults, MaxDeaths, MaxRecoveries, MaxRollbacks,
        MaxTogether} \subseteq Nat
    /\ NoBuild \notin Builds
    /\ IsFiniteSet(Slots) /\ Cardinality(Slots) = 2
    /\ RollbackNodes \subseteq Nodes
    /\ RollbackCandidates \in BOOLEAN

VARIABLES
    rollout,      \* the release being rolled out, or the last one
    phase,        \* where rolling-deploy is
    awaiting,     \* the nodes whose command has not come back
    succeeded,    \* those whose command succeeded
    plan,         \* what each node's prepare said it needs
    currentRelease,  \* CURRENT
    prepared,     \* prepared-<release>.env of each node
    standby,      \* upstream, active-slot, the slots and their releases
    primary,      \* what runs, the override, its copy, previous-release, the manifest
    primaryPast,  \* history: what befell the commands of the primary
    reseeded,     \* releases with a standby-reseed-attempted marker
    reconciled,   \* releases whose replication.json says succeeded
    spent         \* what the bounds count

orchestratorVars == <<rollout, phase, awaiting, succeeded, plan>>
nodeVars == <<currentRelease, prepared, standby, primary, primaryPast>>
gateVars == <<reseeded, reconciled>>
rolloutVars == <<commitOf, migrationVars, orchestratorVars, nodeVars, gateVars, spent>>

Phases == {"idle", "preparing", "standby_schema", "primary_data", "reconciling",
           "gating", "activating", "rolling_back", "identity"}
Plans == {"unknown", "none", "code", "schema"}
MaybeBuild == Builds \union {NoBuild}
Ready == [slot : Slots, before : Slots, migrate : BOOLEAN]
Unprepared == [slot |-> NoBuild, before |-> NoBuild, migrate |-> FALSE]
Spendings == {"nodeFaults", "slips", "engineFaults", "deaths", "recoveries", "rollbacks"}
Allowed == [nodeFaults |-> MaxNodeFaults, slips |-> MaxSlips,
            engineFaults |-> MaxEngineFaults, deaths |-> MaxDeaths,
            recoveries |-> MaxRecoveries, rollbacks |-> MaxRollbacks]

(* Something stopped the last command that counts, the last of them was a     *)
(* rollback, or one has followed another.                                     *)
Pasts == {"halfway", "rolled_back", "doubled"}

RolloutTypeOK ==
    /\ MigrationTypeOK
    /\ rollout \in Builds
    /\ phase \in Phases
    /\ awaiting \subseteq Nodes
    /\ succeeded \subseteq Nodes
    /\ plan \in [Nodes -> Plans]
    /\ currentRelease \in [Nodes -> Builds]
    /\ prepared \in [Nodes -> [Builds -> Ready \union {Unprepared}]]
    /\ standby \in [upstream : Slots, active : Slots,
                    runs : [Slots -> MaybeBuild], named : [Slots -> MaybeBuild]]
    /\ primary \in [runs : MaybeBuild, override : Builds, saved : MaybeBuild,
                    previous : MaybeBuild, manifest : Builds]
    /\ primaryPast \subseteq Pasts
    /\ reseeded \subseteq Builds
    /\ reconciled \subseteq Builds
    /\ \A s \in Spendings : spent[s] \in 0 .. Allowed[s]

FirstSlot == CHOOSE s \in Slots : TRUE
OtherSlot(s) == CHOOSE o \in Slots : o # s
Unplanned == [n \in Nodes |-> "unknown"]

RolloutInit ==
    /\ MigrationInit
    /\ rollout = 0
    /\ phase = "idle"
    /\ awaiting = {} /\ succeeded = {}
    /\ plan = Unplanned
    /\ currentRelease = [n \in Nodes |-> 0]
    /\ prepared = [n \in Nodes |-> [r \in Builds |-> Unprepared]]
    /\ standby = [upstream |-> FirstSlot, active |-> FirstSlot,
                  runs |-> [s \in Slots |-> IF s = FirstSlot THEN 0 ELSE NoBuild],
                  named |-> [s \in Slots |-> IF s = FirstSlot THEN 0 ELSE NoBuild]]
    /\ primary = [runs |-> 0, override |-> 0, saved |-> NoBuild, previous |-> NoBuild,
                  manifest |-> 0]
    /\ primaryPast = {}
    /\ reseeded = {} /\ reconciled = {}
    /\ spent = [s \in Spendings |-> 0]

SpentInAll == spent.nodeFaults + spent.slips + spent.engineFaults
              + spent.deaths + spent.recoveries + spent.rollbacks

Spend(what) ==
    /\ spent[what] < Allowed[what] /\ SpentInAll < MaxTogether
    /\ spent' = [spent EXCEPT ![what] = @ + 1]

(* The release whose code answers on a node. *)
ServedOn(n) == IF n = "primary" THEN primary.runs ELSE standby.runs[standby.upstream]

EnterPhase(p, commands) == phase' = p /\ awaiting' = commands /\ succeeded' = {}
EndRollout == EnterPhase("idle", {}) /\ plan' = Unplanned
Deploying == {n \in Nodes : plan[n] \in {"code", "schema"}}

(***************************************************************************)
(* A workflow starts from main as it is now.                               *)
(***************************************************************************)
StartRollout(c) ==
    /\ phase = "idle"
    /\ rollout < MaxRollouts
    /\ c >= commitOf[rollout]
    /\ rollout' = rollout + 1
    /\ commitOf' = [commitOf EXCEPT ![rollout + 1] = c]
    /\ EnterPhase("preparing", Nodes)
    /\ plan' = Unplanned
    /\ UNCHANGED <<migrationVars, nodeVars, gateVars, spent>>

(* The release whose manifest the next plan of a node compares with. *)
BaseOf(n) == IF n = "primary" THEN primary.manifest ELSE currentRelease[n]

(***************************************************************************)
(* prepare: the candidate is compared with the node's active manifest;     *)
(* the same tree needs nothing.  The standby replaces the container of the *)
(* slot that is not active, and removes it when it fails its validation;   *)
(* the primary only builds an image.                                       *)
(***************************************************************************)
PrepareNode(n) ==
    LET r == rollout
        base == commitOf[BaseOf(n)]
        slot == OtherSlot(standby.active)
        decision == CASE base = commitOf[r] -> "none"
                      [] HeadOf(base) # HeadOf(commitOf[r]) -> "schema"
                      [] OTHER -> "code"
        Place(container) == standby' = IF n = "primary" THEN standby
                                       ELSE [standby EXCEPT !.runs[slot] = container]
    IN
    /\ phase = "preparing" /\ n \in awaiting
    /\ awaiting' = awaiting \ {n}
    /\ \/ /\ decision = "none"
          /\ succeeded' = succeeded \union {n}
          /\ plan' = [plan EXCEPT ![n] = decision]
          /\ UNCHANGED <<nodeVars, spent>>
       \/ /\ decision # "none"
          /\ succeeded' = succeeded \union {n}
          /\ plan' = [plan EXCEPT ![n] = decision]
          /\ prepared' = [prepared EXCEPT ![n][r] =
                [slot |-> slot, before |-> standby.active, migrate |-> decision = "schema"]]
          /\ Place(r)
          /\ UNCHANGED <<currentRelease, primary, primaryPast, spent>>
       \/ /\ decision # "none"
          /\ Spend("nodeFaults")
          /\ Place(NoBuild) \/ UNCHANGED standby
          /\ UNCHANGED <<succeeded, plan, currentRelease, prepared, primary, primaryPast>>
    /\ UNCHANGED <<commitOf, migrationVars, rollout, phase, gateVars>>

(***************************************************************************)
(* Both prepares have come back.  A schema release must go to both nodes   *)
(* or to none.                                                             *)
(***************************************************************************)
DecidePhases ==
    LET migration == \E n \in Nodes : plan[n] = "schema" IN
    /\ phase = "preparing" /\ awaiting = {}
    /\ IF succeeded # Nodes \/ (migration /\ Deploying # Nodes)
       THEN EndRollout /\ UNCHANGED worker
       ELSE IF migration
       THEN /\ EnterPhase("standby_schema", {})
            /\ IF plan["standby"] = "schema"
               THEN StartMigration("standby", rollout) ELSE UNCHANGED worker
            /\ UNCHANGED plan
       ELSE EnterPhase("gating", Deploying) /\ UNCHANGED <<plan, worker>>
    /\ UNCHANGED <<commitOf, databaseVars, migrationJob, migrationFaults, drifts,
                   rollout, nodeVars, gateVars, spent>>

(***************************************************************************)
(* migration-wait on the standby, which alone may reseed, once per         *)
(* release, whether the reseed succeeds or not; then migration-start on    *)
(* the primary.                                                            *)
(***************************************************************************)
StandbySchemaReady ==
    /\ phase = "standby_schema"
    /\ plan["standby"] = "schema" => migrationJob["standby"][rollout] = "succeeded"
    /\ EnterPhase("primary_data", {})
    /\ IF plan["primary"] = "schema"
       THEN StartMigration("primary", rollout) ELSE UNCHANGED worker
    /\ UNCHANGED <<commitOf, databaseVars, migrationJob, migrationFaults, drifts,
                   rollout, plan, nodeVars, gateVars, spent>>

RecoverStandby ==
    /\ phase = "standby_schema"
    /\ migrationJob["standby"][rollout] = "reseed"
    /\ rollout \notin reseeded
    /\ reseeded' = reseeded \union {rollout}
    /\ ReseedStandby(rollout) \/ ReseedBreaks
    /\ UNCHANGED <<commitOf, orchestratorVars, nodeVars, reconciled, spent>>

PrimaryDataReady ==
    /\ phase = "primary_data"
    /\ plan["primary"] = "schema" => migrationJob["primary"][rollout] = "succeeded"
    /\ EnterPhase("reconciling", {})
    /\ UNCHANGED <<commitOf, migrationVars, rollout, plan, nodeVars, gateVars, spent>>

(***************************************************************************)
(* migration-reconcile, when the standby's plan has a migration: its own   *)
(* job succeeded and the primary's cursor has arrived.                     *)
(***************************************************************************)
ReconcileStandby ==
    /\ phase = "reconciling"
    /\ \/ /\ plan["standby"] # "schema"
          /\ UNCHANGED reconciled
       \/ /\ plan["standby"] = "schema"
          /\ migrationJob["standby"][rollout] = "succeeded"
          /\ replicated = Target(rollout)
          /\ reconciled' = reconciled \union {rollout}
    /\ EnterPhase("gating", Deploying)
    /\ UNCHANGED <<commitOf, migrationVars, rollout, plan, nodeVars, reseeded, spent>>

(* Mutant: only a failure that is reported ends a wait. *)
GiveUpOnFailure ==
    /\ \/ phase = "standby_schema" /\ migrationJob["standby"][rollout] = "failed"
       \/ phase = "primary_data" /\ migrationJob["primary"][rollout] = "failed"
    /\ EndRollout
    /\ UNCHANGED <<commitOf, migrationVars, rollout, nodeVars, gateVars, spent>>

(***************************************************************************)
(* A wait that is told of a failure, or that has waited long enough, ends  *)
(* the rollout.  The migration container is left to itself.                *)
(***************************************************************************)
GiveUpWaiting ==
    /\ \/ phase = "standby_schema" /\ migrationJob["standby"][rollout] # "succeeded"
       \/ phase = "primary_data" /\ migrationJob["primary"][rollout] # "succeeded"
       \/ phase = "reconciling" /\ plan["standby"] = "schema"
    /\ EndRollout
    /\ UNCHANGED <<commitOf, migrationVars, rollout, nodeVars, gateVars, spent>>

(* Mutant: the gate asks for the replication alone. *)
ReplicationGate(n, r) == prepared[n][r].migrate /\ n = "standby" => r \in reconciled

(***************************************************************************)
(* database_migration_gate and database_replication_gate of a node.        *)
(***************************************************************************)
GatesPass(n, r) ==
    prepared[n][r].migrate =>
        /\ migrationJob[n][r] = "succeeded"
        /\ n = "standby" => r \in reconciled

CandidateRuns(n, r) ==
    /\ prepared[n][r] # Unprepared
    /\ n = "standby" => standby.runs[prepared[n][r].slot] # NoBuild

(***************************************************************************)
(* prepared-status: the gates, the replicated cursor once more on the      *)
(* standby, and a candidate that is still there.                           *)
(***************************************************************************)
PreparedStatus(n) ==
    LET ready == /\ CandidateRuns(n, rollout)
                 /\ GatesPass(n, rollout)
                 /\ (n = "standby" /\ prepared[n][rollout].migrate) =>
                        replicated = Target(rollout)
    IN
    /\ phase = "gating" /\ n \in awaiting
    /\ awaiting' = awaiting \ {n}
    /\ \/ /\ ready
          /\ succeeded' = succeeded \union {n}
          /\ UNCHANGED spent
       \/ /\ IF ready THEN Spend("nodeFaults") ELSE UNCHANGED spent
          /\ UNCHANGED succeeded
    /\ UNCHANGED <<commitOf, migrationVars, rollout, phase, plan, nodeVars, gateVars>>

DecideActivation ==
    /\ phase = "gating" /\ awaiting = {}
    /\ IF succeeded = Deploying
       THEN EnterPhase("activating", Deploying) /\ UNCHANGED plan
       ELSE EndRollout
    /\ UNCHANGED <<commitOf, migrationVars, rollout, nodeVars, gateVars, spent>>

(* Mutant: the upstream is switched, active-slot is not written. *)
SwitchUpstreamOnly(r) ==
    LET slot == prepared["standby"][r].slot IN
    /\ standby' = [standby EXCEPT !.upstream = slot, !.named[slot] = r]
    /\ currentRelease' = [currentRelease EXCEPT !["standby"] = r]
    /\ UNCHANGED <<primary, primaryPast>>

(***************************************************************************)
(* activate: traffic is switched, a smoke test decides, and the records    *)
(* follow.  A failed test restores the slot that was active at prepare, or *)
(* the override the activation has just saved.  A command may still fail   *)
(* after its records are written, when it installs the release's own       *)
(* deployment scripts.                                                     *)
(***************************************************************************)
SwitchStandby(r) ==
    LET slot == prepared["standby"][r].slot IN
    /\ standby' = [standby EXCEPT !.upstream = slot, !.active = slot, !.named[slot] = r]
    /\ currentRelease' = [currentRelease EXCEPT !["standby"] = r]
    /\ UNCHANGED <<primary, primaryPast>>

RestoreUpstream(r) ==
    /\ standby' = [standby EXCEPT !.upstream = prepared["standby"][r].before]
    /\ UNCHANGED <<currentRelease, primary, primaryPast>>

(***************************************************************************)
(* On the primary every activation first saves the override and CURRENT.   *)
(***************************************************************************)
MovePrimary(current, override, runs, manifest) ==
    /\ primary' = [runs |-> runs, override |-> override, saved |-> primary.override,
                   previous |-> currentRelease["primary"], manifest |-> manifest]
    /\ currentRelease' = [currentRelease EXCEPT !["primary"] = current]
    /\ UNCHANGED standby

SwitchPrimary(r) ==
    /\ MovePrimary(r, r, r, r)
    /\ primaryPast' = primaryPast \ {"halfway", "rolled_back"}

RestorePrimary ==
    /\ MovePrimary(currentRelease["primary"], primary.override, primary.override,
                   primary.manifest)
    /\ primaryPast' = primaryPast \ {"rolled_back"}

(***************************************************************************)
(* Nobody looks at how compose up itself ends: when it fails, the script   *)
(* exits where it is, with the new override in place or with the old one   *)
(* restored, and its container is the old one, the new one or none.        *)
(***************************************************************************)
BreakOffPrimary(r) ==
    /\ \/ \E up \in {primary.runs, r, NoBuild} : MovePrimary(r, r, up, primary.manifest)
       \/ \E up \in {primary.runs, r, primary.override, NoBuild} :
             MovePrimary(currentRelease["primary"], primary.override, up, primary.manifest)
    /\ primaryPast' = (primaryPast \ {"rolled_back"}) \union {"halfway"}

TakeTraffic(n, r) == IF n = "standby" THEN SwitchStandby(r) ELSE SwitchPrimary(r)
RestoreTraffic(n, r) == IF n = "standby" THEN RestoreUpstream(r) ELSE RestorePrimary
ForgetPrepared(n, r) == prepared' = [prepared EXCEPT ![n][r] = Unprepared]

ActivateNode(n) ==
    LET ready == CandidateRuns(n, rollout) /\ GatesPass(n, rollout) IN
    /\ phase = "activating" /\ n \in awaiting
    /\ awaiting' = awaiting \ {n}
    /\ \/ /\ ready
          /\ TakeTraffic(n, rollout) /\ ForgetPrepared(n, rollout)
          /\ succeeded' = succeeded \union {n}
          /\ UNCHANGED spent
       \/ /\ ready
          /\ Spend("slips")
          /\ TakeTraffic(n, rollout)
          /\ IF n = "primary" THEN ForgetPrepared(n, rollout) ELSE UNCHANGED prepared
          /\ UNCHANGED succeeded
       \/ /\ ready
          /\ Spend("nodeFaults")
          /\ RestoreTraffic(n, rollout)
          /\ UNCHANGED <<prepared, succeeded>>
       \/ /\ ready /\ n = "primary"
          /\ Spend("engineFaults")
          /\ BreakOffPrimary(rollout)
          /\ UNCHANGED <<prepared, succeeded>>
       \/ ~ready /\ UNCHANGED <<nodeVars, spent, succeeded>>
    /\ UNCHANGED <<commitOf, migrationVars, rollout, phase, plan, gateVars>>

(* Mutant: the nodes that failed are rolled back. *)
RollBackTheFailed ==
    /\ phase = "activating" /\ awaiting = {}
    /\ IF succeeded = Deploying THEN EnterPhase("identity", {})
       ELSE EnterPhase("rolling_back", Deploying \ succeeded)
    /\ UNCHANGED <<commitOf, migrationVars, rollout, plan, nodeVars, gateVars, spent>>

(* Both activations have come back. *)
DecideRollback ==
    /\ phase = "activating" /\ awaiting = {}
    /\ IF succeeded = Deploying THEN EnterPhase("identity", {})
       ELSE EnterPhase("rolling_back", succeeded)
    /\ UNCHANGED <<commitOf, migrationVars, rollout, plan, nodeVars, gateVars, spent>>

(***************************************************************************)
(* rollback on a node.  The standby goes to its other slot, if that has a  *)
(* release and answers; the primary restores the override it saved and     *)
(* exchanges CURRENT with previous-release.                                *)
(***************************************************************************)
CanRollBack(n) ==
    IF n = "standby"
    THEN LET s == OtherSlot(standby.active) IN
         standby.named[s] # NoBuild /\ standby.runs[s] # NoBuild
    ELSE primary.previous # NoBuild

RollBackStandby ==
    LET s == OtherSlot(standby.active) IN
    /\ standby' = [standby EXCEPT !.upstream = s, !.active = s]
    /\ currentRelease' = [currentRelease EXCEPT !["standby"] = standby.named[s]]
    /\ UNCHANGED <<primary, primaryPast>>

(* A second rollback in a row goes back to where CURRENT was, with the same    *)
(* copy of the override.                                                       *)
Doubling == IF "rolled_back" \in primaryPast THEN {"doubled"} ELSE {}

(* Mutant: the manifest of the release is not written again. *)
RollBackPrimaryAlone ==
    /\ primary' = [primary EXCEPT !.runs = primary.saved, !.override = primary.saved,
                                  !.previous = currentRelease["primary"]]
    /\ currentRelease' = [currentRelease EXCEPT !["primary"] = primary.previous]
    /\ primaryPast' = (primaryPast \ {"halfway"}) \union {"rolled_back"} \union Doubling
    /\ UNCHANGED standby

RollBackPrimary ==
    /\ primary' = [primary EXCEPT !.runs = primary.saved, !.override = primary.saved,
                                  !.manifest = primary.previous,
                                  !.previous = currentRelease["primary"]]
    /\ currentRelease' = [currentRelease EXCEPT !["primary"] = primary.previous]
    /\ primaryPast' = (primaryPast \ {"halfway"}) \union {"rolled_back"} \union Doubling
    /\ UNCHANGED standby

(* compose up fails, as in an activation. *)
RollBackBreaksOff ==
    /\ CanRollBack("primary")
    /\ \E up \in {primary.runs, primary.saved, NoBuild} :
          primary' = [primary EXCEPT !.runs = up, !.override = primary.saved]
    /\ currentRelease' = [currentRelease EXCEPT !["primary"] = primary.previous]
    /\ primaryPast' = primaryPast \union {"halfway"} \union Doubling
    /\ UNCHANGED <<standby, prepared>>

RollBack(n) ==
    /\ CanRollBack(n)
    /\ IF n = "standby" THEN RollBackStandby ELSE RollBackPrimary
    /\ UNCHANGED prepared

(* The primary first; a rollback that fails is passed over (|| true). *)
CoordinatedRollback(n) ==
    /\ phase = "rolling_back" /\ n \in awaiting
    /\ n = "standby" => "primary" \notin awaiting
    /\ awaiting' = awaiting \ {n}
    /\ \/ RollBack(n) /\ UNCHANGED spent
       \/ n = "primary" /\ Spend("engineFaults") /\ RollBackBreaksOff
       \/ /\ IF CanRollBack(n) THEN Spend("slips") ELSE UNCHANGED spent
          /\ UNCHANGED nodeVars
    /\ UNCHANGED <<commitOf, migrationVars, rollout, phase, succeeded, plan, gateVars>>

(* The identity gate only reports. *)
FinishRollout ==
    /\ phase = "identity" \/ (phase = "rolling_back" /\ awaiting = {})
    /\ EndRollout
    /\ UNCHANGED <<commitOf, migrationVars, rollout, nodeVars, gateVars, spent>>

(* The runner loses the job, or the workflow's 70 minutes are over. *)
OrchestratorDies ==
    /\ phase # "idle"
    /\ Spend("deaths")
    /\ EndRollout
    /\ UNCHANGED <<commitOf, migrationVars, rollout, nodeVars, gateVars>>

(***************************************************************************)
(* The primary-recovery workflow: prepared-status and activate, on the     *)
(* primary alone, of any release that was prepared there.                  *)
(***************************************************************************)
PrimaryRecovery(r) ==
    /\ phase = "idle"
    /\ CandidateRuns("primary", r) /\ GatesPass("primary", r)
    /\ \/ Spend("recoveries") /\ SwitchPrimary(r) /\ ForgetPrepared("primary", r)
       \/ Spend("recoveries") /\ RestorePrimary /\ UNCHANGED prepared
       \/ Spend("engineFaults") /\ BreakOffPrimary(r) /\ UNCHANGED prepared
    /\ UNCHANGED <<commitOf, migrationVars, orchestratorVars, gateVars>>

(***************************************************************************)
(* ops/deploy rollback, at any moment and again and again.  On the standby *)
(* the other slot may hold the candidate of a rollout, under the name of   *)
(* the release it replaced.                                                *)
(***************************************************************************)
HoldsCandidate(s) == standby.runs[s] # standby.named[s]

OperatorRollback(n) ==
    /\ n \in RollbackNodes
    /\ (n = "standby" /\ ~RollbackCandidates) => ~HoldsCandidate(OtherSlot(standby.active))
    /\ \/ Spend("rollbacks") /\ RollBack(n)
       \/ n = "primary" /\ Spend("engineFaults") /\ RollBackBreaksOff
    /\ UNCHANGED <<commitOf, migrationVars, orchestratorVars, gateVars>>

Orchestrator ==
    \/ \E n \in Nodes :
          PrepareNode(n) \/ PreparedStatus(n) \/ ActivateNode(n) \/ CoordinatedRollback(n)
    \/ DecidePhases \/ StandbySchemaReady \/ RecoverStandby \/ PrimaryDataReady
    \/ ReconcileStandby \/ GiveUpWaiting \/ DecideActivation \/ DecideRollback \/ FinishRollout

RolloutNext ==
    \/ \E c \in Commits : StartRollout(c)
    \/ Orchestrator
    \/ OrchestratorDies
    \/ \E r \in Builds : PrimaryRecovery(r)
    \/ \E n \in Nodes : OperatorRollback(n)
    \/ /\ MigrationControllers \/ MigrationAccidents
       /\ UNCHANGED <<commitOf, orchestratorVars, nodeVars, gateVars, spent>>

RolloutSafety == RolloutInit /\ [][RolloutNext]_rolloutVars

(* The script runs on; nobody has to start it, and nothing else need move. *)
RolloutSpec == RolloutSafety /\ WF_rolloutVars(Orchestrator)
-----------------------------------------------------------------------------
Disturbances == {"slips", "engineFaults", "deaths", "recoveries", "rollbacks"}
Undisturbed == \A s \in Disturbances : spent[s] = 0

(***************************************************************************)
(* The code that answers on a node finds every revision it was built with  *)
(* in that node's database, whatever was reseeded, given up or rolled back *)
(* in between: unless a rebuild of that database was broken off half way.  *)
(***************************************************************************)
SchemaBeforeCode ==
    \A n \in Nodes :
        ServedOn(n) = NoBuild \/ Lost(n) \/ Target(ServedOn(n)) <= schema[n]

(***************************************************************************)
(* Standby schema, then primary data: the primary never writes under a     *)
(* revision the standby does not have, so replication always applies.      *)
(* Only a standby rebuilt from the primary may fall behind: a migration    *)
(* container that an earlier rollout has left on the primary goes on.      *)
(***************************************************************************)
StandbySchemaFirst == reseeded = {} => schema["primary"] <= schema["standby"]

(* Both orders: the standby's schema, the primary's, then the code. *)
SchemasInOrder == SchemaBeforeCode /\ StandbySchemaFirst

(***************************************************************************)
(* Each node's CURRENT and the manifest the next plan is computed from     *)
(* name the release whose code answers, whatever failed, was restored,     *)
(* recovered or rolled back.  Two things part them on the primary, and     *)
(* only there: a command that compose up stops half way, until the next    *)
(* one that goes through, and a rollback after a rollback.                 *)
(***************************************************************************)
PrimaryIsRecorded ==
    {"halfway", "doubled"} \cap primaryPast = {} =>
        currentRelease["primary"] = primary.runs /\ primary.manifest = primary.runs

RecordIsServed ==
    /\ currentRelease["standby"] = ServedOn("standby")
    /\ PrimaryIsRecorded

(***************************************************************************)
(* A rollout that has ended leaves both nodes on the same commit, however  *)
(* it failed: unless a command failed after it had taken effect, the       *)
(* script died half way, or somebody moved one node alone.                 *)
(***************************************************************************)
NodesAgree ==
    (phase = "idle" /\ Undisturbed) =>
        commitOf[ServedOn("primary")] = commitOf[ServedOn("standby")]

(***************************************************************************)
(* No database work while traffic is being switched: not even that of a    *)
(* controller left behind by a rollout nobody waits for any more.          *)
(***************************************************************************)
QuietActivation ==
    phase = "activating" => \A n \in Nodes, r \in Builds : worker[n][r] # "migrating"

(***************************************************************************)
(* The container that answers on the standby is never replaced under its   *)
(* traffic.                                                                *)
(***************************************************************************)
LiveSlotIsKept ==
    [][\A s \in Slots : standby.upstream = s /\ standby'.upstream = s =>
           standby'.runs[s] = standby.runs[s]]_rolloutVars

(* Every rollout comes to its end, whatever the controllers do. *)
EveryRolloutEnds == phase # "idle" ~> phase = "idle"
=============================================================================
