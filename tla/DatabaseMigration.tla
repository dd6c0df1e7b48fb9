-------------------------- MODULE DatabaseMigration --------------------------
(***************************************************************************)
(* The background migration controller (app/database_migration_            *)
(* controller.py) and what surrounds it on each node: a detached one-shot  *)
(* container per release, started by the node's deployment manager, that   *)
(* works under one advisory lock per database and reports in status.json;  *)
(* the logical replication of the primary's Alembic cursor; and the reseed *)
(* that rebuilds the standby from the primary.                             *)
(*                                                                         *)
(* A revision is its position in the chain of revisions and a commit is    *)
(* its position on main.  Of a database only the revision it has reached   *)
(* is kept: a "schema" revision and a "primary_data" one move the standby  *)
(* cursor alike (by upgrade or by stamp).                                  *)
(***************************************************************************)
EXTENDS Integers, FiniteSets

CONSTANTS
    MaxRollouts,         \* bound: releases ever built
    LastCommit,          \* commits 0 .. LastCommit of main
    Migrating,           \* the commits that add a revision
    MaxMigrationFaults,  \* bound: migrations that fail or whose container dies
    MaxDrifts            \* bound: migrations the standby's ownership drift refuses

ASSUME MigrationAssumption ==
    /\ {MaxRollouts, LastCommit, MaxMigrationFaults, MaxDrifts} \subseteq Nat
    /\ Migrating \subseteq 1 .. LastCommit

Nodes == {"primary", "standby"}
Commits == 0 .. LastCommit
Builds == 0 .. MaxRollouts

(* The Alembic head of a commit. *)
HeadOf(c) == Cardinality({m \in Migrating : m <= c})

VARIABLES
    commitOf,         \* the commit each release was built from
    schema,           \* the revision each node's database has reached
    replicated,       \* app.alembic_version as the standby has received it
    replica,          \* the standby's database: "subscribed", "cut" off, or "lost"
    migrationJob,     \* shared/database-migrations/<release>/status.json
    worker,           \* the migration container of each release
    migrationFaults, drifts

databaseVars == <<schema, replicated, replica>>
containerVars == <<migrationJob, worker>>
migrationVars == <<databaseVars, containerVars, migrationFaults, drifts>>

JobStatuses == {"none", "running", "succeeded", "failed", "reseed"}
Target(r) == HeadOf(commitOf[r])

(* Mutant: the controllers of two releases do not exclude each other. *)
NeverLocked(n) == FALSE

Locked(n) == \E q \in Builds : worker[n][q] = "migrating"

(* A rebuild was broken off after the standby's database was dropped. *)
Lost(n) == n = "standby" /\ replica = "lost"

MigrationTypeOK ==
    /\ commitOf \in [Builds -> Commits]
    /\ \A n \in Nodes : schema[n] \in Nat
    /\ replicated \in Nat
    /\ replica \in {"subscribed", "cut", "lost"}
    /\ migrationJob \in [Nodes -> [Builds -> JobStatuses]]
    /\ worker \in [Nodes -> [Builds -> {"off", "starting", "migrating"}]]
    /\ migrationFaults \in 0 .. MaxMigrationFaults
    /\ drifts \in 0 .. MaxDrifts

MigrationInit ==
    /\ commitOf = [r \in Builds |-> 0]
    /\ schema = [n \in Nodes |-> 0]
    /\ replicated = 0
    /\ replica = "subscribed"
    /\ migrationJob = [n \in Nodes |-> [r \in Builds |-> "none"]]
    /\ worker = [n \in Nodes |-> [r \in Builds |-> "off"]]
    /\ migrationFaults = 0
    /\ drifts = 0

WriteStatus(n, r, status) == migrationJob' = [migrationJob EXCEPT ![n][r] = status]
WorkerAt(n, r, stage) == worker' = [worker EXCEPT ![n][r] = stage]

(***************************************************************************)
(* start_database_migration: nothing when the job succeeded or when its    *)
(* container still runs; otherwise a new container.                        *)
(***************************************************************************)
StartMigration(n, r) ==
    IF migrationJob[n][r] = "succeeded" \/ worker[n][r] # "off"
    THEN UNCHANGED worker
    ELSE WorkerAt(n, r, "starting")

(***************************************************************************)
(* run(), down to the first revision: the advisory lock is tried once, and *)
(* a target that is not a descendant of the database is refused.  Without  *)
(* a cursor of its own or the primary's the standby asks for a reseed;     *)
(* without even the schema app it fails.                                   *)
(***************************************************************************)
TakeMigrationLock(n, r) ==
    /\ worker[n][r] = "starting"
    /\ \/ /\ Locked(n) \/ Lost(n) \/ Target(r) < schema[n]
          /\ WriteStatus(n, r, "failed") /\ WorkerAt(n, r, "off")
       \/ /\ Lost(n) /\ ~Locked(n)
          /\ WriteStatus(n, r, "reseed") /\ WorkerAt(n, r, "off")
       \/ /\ ~Lost(n) /\ ~Locked(n) /\ Target(r) = schema[n]
          /\ WriteStatus(n, r, "succeeded") /\ WorkerAt(n, r, "off")
       \/ /\ ~Lost(n) /\ ~Locked(n) /\ Target(r) > schema[n]
          /\ WriteStatus(n, r, "running") /\ WorkerAt(n, r, "migrating")
    /\ UNCHANGED <<databaseVars, migrationFaults, drifts>>

(* One revision of the plan, committed on its own. *)
UpgradeOneRevision(n, r) ==
    /\ worker[n][r] = "migrating"
    /\ schema[n] < Target(r)
    /\ schema' = [schema EXCEPT ![n] = @ + 1]
    /\ UNCHANGED <<replicated, replica, containerVars, migrationFaults, drifts>>

VerifyMigration(n, r) ==
    /\ worker[n][r] = "migrating"
    /\ schema[n] = Target(r)
    /\ WriteStatus(n, r, "succeeded")
    /\ WorkerAt(n, r, "off")
    /\ UNCHANGED <<databaseVars, migrationFaults, drifts>>

(***************************************************************************)
(* A backup or a revision that fails is reported and releases the lock; a  *)
(* container that is killed reports nothing, and its session's lock goes   *)
(* with it.                                                                *)
(***************************************************************************)
MigrationBreaks(n, r) ==
    /\ worker[n][r] # "off"
    /\ migrationFaults < MaxMigrationFaults
    /\ \/ worker[n][r] = "migrating" /\ WriteStatus(n, r, "failed")
       \/ UNCHANGED migrationJob
    /\ WorkerAt(n, r, "off")
    /\ migrationFaults' = migrationFaults + 1
    /\ UNCHANGED <<databaseVars, drifts>>

(* SQLSTATE 42501 on the standby: recovery_action = reseed. *)
OwnershipDrifted(r) ==
    /\ worker["standby"][r] = "migrating"
    /\ schema["standby"] < Target(r)
    /\ drifts < MaxDrifts
    /\ WriteStatus("standby", r, "reseed")
    /\ WorkerAt("standby", r, "off")
    /\ drifts' = drifts + 1
    /\ UNCHANGED <<databaseVars, migrationFaults>>

(***************************************************************************)
(* The subscription applies what the primary wrote at a revision once the  *)
(* standby has that revision's schema.                                     *)
(***************************************************************************)
ReplicateCursor ==
    /\ replica = "subscribed"
    /\ replicated < schema["primary"]
    /\ replicated < schema["standby"]
    /\ replicated' = replicated + 1
    /\ UNCHANGED <<schema, replica, containerVars, migrationFaults, drifts>>

(***************************************************************************)
(* warehouse-standby-reseed, in wait_database_migration: the standby is    *)
(* rebuilt from the primary as it is (a controller at work on the standby  *)
(* loses its database session), status.json is removed and the job         *)
(* started again.                                                          *)
(***************************************************************************)
EndSessions ==
    /\ migrationJob' = [migrationJob EXCEPT !["standby"] =
          [q \in Builds |-> IF worker["standby"][q] = "migrating" THEN "failed" ELSE @[q]]]
    /\ worker' = [worker EXCEPT !["standby"] =
          [q \in Builds |-> IF @[q] = "migrating" THEN "off" ELSE @[q]]]

ReseedStandby(r) ==
    /\ schema' = [schema EXCEPT !["standby"] = schema["primary"]]
    /\ replicated' = schema["primary"]
    /\ replica' = "subscribed"
    /\ migrationJob' = [migrationJob EXCEPT !["standby"] =
          [q \in Builds |-> IF q = r THEN "none"
                            ELSE IF worker["standby"][q] = "migrating" THEN "failed" ELSE @[q]]]
    /\ worker' = [worker EXCEPT !["standby"] =
          [q \in Builds |-> IF q = r THEN "starting"
                            ELSE IF @[q] = "migrating" THEN "off" ELSE @[q]]]
    /\ UNCHANGED <<migrationFaults, drifts>>

(***************************************************************************)
(* The script fails: before it drops anything; with the subscription       *)
(* dropped; with the database dropped or restored in part, of which        *)
(* nothing counts; or while the tables are still being copied, which goes  *)
(* on.  status.json stays as it is.                                        *)
(***************************************************************************)
ReseedBreaks ==
    /\ \/ UNCHANGED <<databaseVars, containerVars>>
       \/ /\ replica # "lost" /\ replica' = "cut"
          /\ EndSessions \/ UNCHANGED containerVars
          /\ UNCHANGED <<schema, replicated>>
       \/ /\ replica' = "lost"
          /\ schema' = [schema EXCEPT !["standby"] = 0] /\ replicated' = 0
          /\ EndSessions
       \/ /\ replica' = "subscribed"
          /\ schema' = [schema EXCEPT !["standby"] = schema["primary"]] /\ replicated' = 0
          /\ EndSessions
    /\ UNCHANGED <<migrationFaults, drifts>>

MigrationControllers ==
    \/ \E n \in Nodes, r \in Builds :
          TakeMigrationLock(n, r) \/ UpgradeOneRevision(n, r) \/ VerifyMigration(n, r)
    \/ ReplicateCursor

MigrationAccidents ==
    \/ \E n \in Nodes, r \in Builds : MigrationBreaks(n, r)
    \/ \E r \in Builds : OwnershipDrifted(r)
=============================================================================
