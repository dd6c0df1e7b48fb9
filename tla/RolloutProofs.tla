----------------------------- MODULE RolloutProofs -----------------------------
(***************************************************************************)
(* Theorems about rollouts of the system itself, for any number of         *)
(* releases, commits, failed commands, deaths of the orchestrator,         *)
(* recoveries and rollbacks; and about both kinds of release together.     *)
(* Where a theorem assumes RollbackCandidates = FALSE, operators do not    *)
(* roll the standby back to a slot in which a candidate waits.             *)
(***************************************************************************)
EXTENDS MCReleases, ReleaseProofs

(* Nothing is known of a release before it is built; what the records name    *)
(* was built, and later releases are of later commits.                        *)
Unbuilt ==
    /\ \A r \in Builds, n \in Nodes : r > rollout =>
           /\ prepared[n][r] = Unprepared
           /\ migrationJob[n][r] = "none"
           /\ worker[n][r] = "off"
    /\ \A r \in reconciled : r <= rollout

(* What a command of the primary may leave behind, or bring back.             *)
PrimaryNames ==
    {currentRelease["primary"], primary.runs, primary.override, primary.saved,
     primary.previous, primary.manifest}

OnlyBuilt ==
    /\ currentRelease["standby"] <= rollout
    /\ \A s \in Slots : standby.named[s] \in Builds => standby.named[s] <= rollout
    /\ \A r \in PrimaryNames \ {NoBuild} : r <= rollout

CommitsGrow == \A q \in Builds : q <= rollout => commitOf[q] <= commitOf[rollout]

-----------------------------------------------------------------------------
(* The records of the nodes. *)

BeforeTraffic == {"preparing", "standby_schema", "primary_data", "reconciling", "gating"}

(* The rollout has not reached the standby, but may still. *)
Pending == phase \in BeforeTraffic \/ (phase = "activating" /\ "standby" \in awaiting)

NotYetThere == Pending => \A s \in Slots : standby.named[s] # rollout

NotYetPrepared ==
    phase = "preparing" /\ "standby" \in awaiting => prepared["standby"][rollout] = Unprepared

(* The standby's upstream is its active slot, which runs what CURRENT names.  *)
StandbyAgrees ==
    /\ standby.upstream = standby.active
    /\ standby.runs[standby.active] = currentRelease["standby"]
    /\ standby.named[standby.active] = currentRelease["standby"]

(* A candidate that may be activated waits in the slot that is not active. *)
CandidateIsApart ==
    LET made == prepared["standby"][rollout] IN
    Pending /\ made # Unprepared =>
        /\ made.before = OtherSlot(made.slot)
        /\ standby.runs[made.slot] = rollout
        /\ standby.active = made.before

(* No candidate waits where the script itself may go back to. *)
GoingBack ==
    \/ phase = "activating" /\ "standby" \in succeeded
    \/ phase = "rolling_back" /\ "standby" \in awaiting

SlotsAgree ==
    GoingBack /\ CanRollBack("standby") => ~HoldsCandidate(OtherSlot(standby.active))

AwaitedOnce == phase = "activating" => awaiting \cap succeeded = {}

(* The override of the primary is that of CURRENT and the copy that of        *)
(* previous-release, which a rollback alone exchanges.                        *)
PrimaryAgrees ==
    "doubled" \notin primaryPast =>
        /\ primary.override = currentRelease["primary"]
        /\ "rolled_back" \notin primaryPast => primary.saved = primary.previous
        /\ "halfway" \notin primaryPast =>
               /\ primary.runs = currentRelease["primary"]
               /\ primary.manifest = currentRelease["primary"]

-----------------------------------------------------------------------------
(* Schema and code. *)

AtWork(n) == {q \in Builds : worker[n][q] = "migrating"}

OneMigrates == \A n \in Nodes : \A q, r \in AtWork(n) : q = r

LostIsIdle == replica = "lost" => AtWork("standby") = {}

(* The releases that find their revisions on node n, from where whoever       *)
(* migrates goes further; and those that would find them after a reseed.      *)
Reached(n) ==
    {r \in Builds : Target(r) <= schema[n] /\ \A q \in AtWork(n) : Target(r) < Target(q)}

Safe(n) ==
    {r \in Builds : Target(r) <= schema["primary"] /\ (Lost(n) \/ r \in Reached(n))}

CursorBehind == \A n \in Nodes : replicated <= schema[n]

(* Whatever may come to answer on a node is safe there. *)
CodeIsSafe ==
    /\ currentRelease["standby"] \in Safe("standby")
    /\ \A s \in Slots : standby.named[s] \in Builds => standby.named[s] \in Safe("standby")
    /\ PrimaryNames \ {NoBuild} \subseteq Safe("primary")
    /\ \A n \in Nodes, r \in Builds :
           prepared[n][r] # Unprepared /\ ~prepared[n][r].migrate => r \in Safe(n)
    /\ reconciled \subseteq Safe("standby")
    /\ \A r \in Builds : migrationJob["primary"][r] = "succeeded" => r \in Safe("primary")

(* The standby's own migration of the current rollout. *)
StandbyJobHolds ==
    migrationJob["standby"][rollout] = "succeeded" => rollout \in Reached("standby")

(* What rolling-deploy knows of the plan of a node. *)
PlanIsSafe ==
    /\ \A n \in Nodes :
        /\ phase = "preparing" /\ n \in succeeded => plan[n] # "unknown"
        /\ phase \in (BeforeTraffic \ {"preparing"}) \union {"activating"} => plan[n] # "unknown"
        /\ phase \in BeforeTraffic /\ plan[n] \in {"none", "code"} => rollout \in Safe(n)
        /\ phase = "gating" /\ n \in succeeded => rollout \in Safe(n)
        /\ phase = "activating" => rollout \in Safe(n)
    /\ phase \in {"standby_schema", "primary_data"} => Deploying = Nodes

(* As long as no standby was rebuilt, the primary's controllers have targets  *)
(* that the standby has reached.                                              *)
StandbyLeads ==
    reseeded = {} =>
        /\ replica # "lost"
        /\ schema["primary"] <= schema["standby"]
        /\ \A r \in Builds : worker["primary"][r] # "off" => Target(r) <= schema["standby"]

-----------------------------------------------------------------------------
(* The nodes at the end of a rollout. *)

(* The nodes that have the new release and may have to go back. *)
Ahead ==
    IF phase = "activating" THEN succeeded ELSE IF phase = "rolling_back" THEN awaiting ELSE {}

GoesBackTo(n) ==
    IF n = "standby" THEN standby.named[OtherSlot(standby.active)] ELSE primary.previous

(* Only what was prepared is activated, and never both nodes go back. *)
DeployingOnly ==
    /\ phase = "activating" =>
           /\ awaiting \subseteq Deploying /\ succeeded \subseteq Deploying
    /\ phase = "rolling_back" => awaiting # Nodes

(* No command of the primary was cut short, and the last one of a node that   *)
(* is ahead was its activation.                                               *)
PastIsPlain ==
    Undisturbed =>
        /\ primaryPast \subseteq {"rolled_back"}
        /\ "primary" \in Ahead => primaryPast = {}

(* A node that needs nothing has the commit already; one that is ahead has    *)
(* the release.                                                               *)
NodesFollowPlan ==
    Undisturbed => \A n \in Nodes :
        /\ phase \in BeforeTraffic \union {"activating"} /\ plan[n] = "none" =>
               commitOf[currentRelease[n]] = commitOf[rollout]
        /\ phase = "activating" /\ n \in succeeded => currentRelease[n] = rollout

(* The nodes that are not ahead have one commit, and the one that is ahead    *)
(* can go back to it.                                                         *)
ReturnsTo(n, m) ==
    IF n \in Ahead
    THEN CanRollBack(n) /\ commitOf[GoesBackTo(n)] = commitOf[currentRelease[m]]
    ELSE commitOf[currentRelease[n]] = commitOf[currentRelease[m]]

RolloutAgrees == Undisturbed => \A m \in Nodes \ Ahead : \A n \in Nodes : ReturnsTo(n, m)

-----------------------------------------------------------------------------
(* Facts about the operators and the constants. *)

(* Two nested functions that differ in one place. *)
LEMMA NestedExcept ==
    ASSUME NEW A, NEW B, NEW C, NEW f \in [A -> [B -> C]], NEW a \in A, NEW b \in B, NEW c \in C,
           NEW g, g = [f EXCEPT ![a][b] = c]
    PROVE  /\ g \in [A -> [B -> C]]
           /\ \A x \in A, y \in B : g[x][y] = IF x = a /\ y = b THEN c ELSE f[x][y]
<1>1. g = [f EXCEPT ![a] = [f[a] EXCEPT ![b] = c]]
  BY Zenon
<1> QED
  BY <1>1

(* A later commit has at least the revisions of an earlier one. *)
LEMMA HeadsAreOrdered ==
    /\ \A c \in Commits : HeadOf(c) \in Nat
    /\ \A c, d \in Commits : c <= d => HeadOf(c) <= HeadOf(d)
<1>1. IsFiniteSet(Migrating)
  <2>1. IsFiniteSet(1 .. LastCommit)
    BY MigrationAssumption, FS_Interval
  <2> QED
    BY <2>1, MigrationAssumption, FS_Subset
<1>2. ASSUME NEW c \in Commits
      PROVE  IsFiniteSet({m \in Migrating : m <= c})
  <2>1. {m \in Migrating : m <= c} \in SUBSET Migrating
    OBVIOUS
  <2> QED
    BY <1>1, <2>1, FS_Subset
<1>3. ASSUME NEW c \in Commits
      PROVE  HeadOf(c) \in Nat
  BY <1>2, FS_CardinalityType DEF HeadOf
<1>4. ASSUME NEW c \in Commits, NEW d \in Commits, c <= d
      PROVE  HeadOf(c) <= HeadOf(d)
  <2>1. {m \in Migrating : m <= c} \in SUBSET {m \in Migrating : m <= d}
    <3>1. ASSUME NEW m \in Migrating, m <= c
          PROVE  m <= d
      <4>1. m \in Nat /\ c \in Nat /\ d \in Nat
        BY MigrationAssumption DEF Commits
      <4> QED
        BY <1>4, <3>1, <4>1
    <3> QED
      BY <3>1
  <2> QED
    BY <1>2, <1>4, <2>1, FS_Subset DEF HeadOf
<1> QED
  BY <1>3, <1>4

LEMMA TwoSlots ==
    /\ FirstSlot \in Slots
    /\ \A s \in Slots : OtherSlot(s) \in Slots /\ OtherSlot(s) # s
    /\ \A s, t \in Slots : t # s => t = OtherSlot(s)
<1>1. IsFiniteSet(Slots) /\ Cardinality(Slots) = 2
  BY RolloutAssumption
<1>2. \A s \in Slots : \E o \in Slots : o # s
  <2> SUFFICES ASSUME NEW s \in Slots, \A o \in Slots : o = s
               PROVE  FALSE
    OBVIOUS
  <2>1. Slots = {s}
    OBVIOUS
  <2> QED
    BY <1>1, <2>1, FS_Singleton
<1>3. \E s \in Slots : TRUE
  <2>1. Slots # {}
    BY <1>1, FS_EmptySet
  <2> QED
    BY <2>1
<1>4. ASSUME NEW s \in Slots, NEW t \in Slots, NEW o \in Slots, t # s, o # s
      PROVE  t = o
  <2>1. IsFiniteSet(Slots \ {s}) /\ Cardinality(Slots \ {s}) = 1
    BY <1>1, FS_RemoveElement
  <2>2. PICK x : Slots \ {s} = {x}
    BY <2>1, FS_Singleton
  <2> QED
    BY <1>4, <2>2
<1>5. \A s \in Slots : OtherSlot(s) \in Slots /\ OtherSlot(s) # s
  BY <1>2 DEF OtherSlot
<1> QED
  BY <1>3, <1>4, <1>5 DEF FirstSlot

LEMMA BuildsAreNumbers == Builds \subseteq Nat /\ 0 \in Builds /\ 0 \in Commits
BY MigrationAssumption DEF Builds, Commits

-----------------------------------------------------------------------------
(* What the commands do to the records, place by place. *)

Counted == spent \in [Spendings -> Nat]

(* A primary that can go back has something to restore. *)
SavedWithPrevious == primary.previous # NoBuild => primary.saved # NoBuild

RolloutTypes ==
    /\ RolloutTypeOK /\ Counted /\ SavedWithPrevious
    /\ schema \in [Nodes -> Nat]

Preparations == [Nodes -> [Builds -> Ready \union {Unprepared}]]
StandbyRecords ==
    [upstream : Slots, active : Slots, runs : [Slots -> MaybeBuild], named : [Slots -> MaybeBuild]]
PrimaryRecords ==
    [runs : MaybeBuild, override : Builds, saved : MaybeBuild, previous : MaybeBuild,
     manifest : Builds]

(* Only the preparation of r on n becomes made. *)
PreparedAt(n, r, made) ==
    /\ prepared' \in Preparations
    /\ \A m \in Nodes, q \in Builds :
           prepared'[m][q] = IF m = n /\ q = r THEN made ELSE prepared[m][q]

LEMMA ForgettingIsLocal ==
    ASSUME RolloutTypes, NEW n \in Nodes, NEW r \in Builds, ForgetPrepared(n, r)
    PROVE  PreparedAt(n, r, Unprepared)
<1>1. prepared \in Preparations /\ Unprepared \in Ready \union {Unprepared}
  BY DEF RolloutTypes, RolloutTypeOK, Preparations
<1>2. prepared' = [prepared EXCEPT ![n][r] = Unprepared]
  BY DEF ForgetPrepared
<1> QED
  BY <1>1, <1>2, NestedExcept DEF Preparations, PreparedAt

(* The standby's traffic and records go to the slot of candidate r. *)
StandbyTakes(r) ==
    LET slot == prepared["standby"][r].slot IN
    /\ standby' \in StandbyRecords
    /\ slot \in Slots /\ prepared["standby"][r].before \in Slots
    /\ standby'.upstream = slot /\ standby'.active = slot
    /\ \A s \in Slots : /\ standby'.runs[s] = standby.runs[s]
                        /\ standby'.named[s] = IF s = slot THEN r ELSE standby.named[s]
    /\ currentRelease' = [currentRelease EXCEPT !["standby"] = r]
    /\ UNCHANGED <<primary, primaryPast>>

LEMMA StandbySwitches ==
    ASSUME RolloutTypes, NEW r \in Builds, CandidateRuns("standby", r), SwitchStandby(r)
    PROVE  StandbyTakes(r)
<1> DEFINE slot == prepared["standby"][r].slot
<1>1. prepared["standby"][r] \in Ready
  BY DEF RolloutTypes, RolloutTypeOK, CandidateRuns, Nodes
<1>2. slot \in Slots /\ prepared["standby"][r].before \in Slots
  BY <1>1 DEF Ready
<1>3. standby \in StandbyRecords
  BY DEF RolloutTypes, RolloutTypeOK, StandbyRecords
<1>4. standby' = [standby EXCEPT !.upstream = slot, !.active = slot, !.named[slot] = r]
  BY DEF SwitchStandby
<1> HIDE DEF slot
<1>5. standby' = [upstream |-> slot, active |-> slot, runs |-> standby.runs,
                  named |-> [standby.named EXCEPT ![slot] = r]]
  BY <1>3, <1>4, Zenon DEF StandbyRecords
<1>6. r \in MaybeBuild
  BY DEF MaybeBuild
<1>7. /\ currentRelease' = [currentRelease EXCEPT !["standby"] = r]
      /\ UNCHANGED <<primary, primaryPast>>
  BY Zenon DEF SwitchStandby
<1> QED
  BY <1>2, <1>3, <1>5, <1>6, <1>7 DEF StandbyTakes, StandbyRecords, slot

(* The candidate of the current rollout is placed in the slot that is not      *)
(* active, or that slot is emptied.                                           *)
StandbyPlaces(container) ==
    LET slot == OtherSlot(standby.active) IN
    /\ standby' \in StandbyRecords
    /\ standby'.upstream = standby.upstream /\ standby'.active = standby.active
    /\ \A s \in Slots : /\ standby'.runs[s] = IF s = slot THEN container ELSE standby.runs[s]
                        /\ standby'.named[s] = standby.named[s]

LEMMA PlacingIsLocal ==
    ASSUME RolloutTypes, NEW container \in MaybeBuild,
           standby' = [standby EXCEPT !.runs[OtherSlot(standby.active)] = container]
    PROVE  StandbyPlaces(container)
<1> DEFINE slot == OtherSlot(standby.active)
<1>1. standby \in StandbyRecords
  BY DEF RolloutTypes, RolloutTypeOK, StandbyRecords
<1>2. slot \in Slots
  BY <1>1, TwoSlots DEF StandbyRecords
<1>3. standby' = [standby EXCEPT !.runs[slot] = container]
  OBVIOUS
<1> HIDE DEF slot
<1>4. standby' = [upstream |-> standby.upstream, active |-> standby.active,
                  runs |-> [standby.runs EXCEPT ![slot] = container], named |-> standby.named]
  BY <1>1, <1>3, Zenon DEF StandbyRecords
<1> QED
  BY <1>1, <1>2, <1>4 DEF StandbyPlaces, StandbyRecords, slot

(* The plan of a node compares its release with the one to be rolled out. *)
Needs(n) ==
    IF commitOf[BaseOf(n)] = commitOf[rollout] THEN "none"
    ELSE IF Target(BaseOf(n)) # Target(rollout) THEN "schema" ELSE "code"

PreparingFrame ==
    UNCHANGED <<commitOf, migrationVars, rollout, phase, currentRelease, primary, primaryPast,
                gateVars>>

(* The three ends of a prepare command. *)
NeedsNothing(n) ==
    /\ Needs(n) = "none"
    /\ succeeded' = succeeded \union {n}
    /\ plan' = [plan EXCEPT ![n] = "none"]
    /\ UNCHANGED <<prepared, standby, spent>>

BecomesReady(n) ==
    /\ Needs(n) # "none"
    /\ succeeded' = succeeded \union {n}
    /\ plan' = [plan EXCEPT ![n] = Needs(n)]
    /\ PreparedAt(n, rollout, [slot |-> OtherSlot(standby.active), before |-> standby.active,
                               migrate |-> Needs(n) = "schema"])
    /\ IF n = "primary" THEN UNCHANGED standby ELSE StandbyPlaces(rollout)
    /\ UNCHANGED spent

FailsToPrepare(n) ==
    /\ Spend("nodeFaults")
    /\ UNCHANGED standby \/ (n = "standby" /\ StandbyPlaces(NoBuild))
    /\ UNCHANGED <<succeeded, plan, prepared>>

LEMMA PreparingHasThreeEnds ==
    ASSUME RolloutTypes, NEW n \in Nodes, PrepareNode(n)
    PROVE  /\ phase = "preparing" /\ n \in awaiting /\ awaiting' = awaiting \ {n}
           /\ PreparingFrame
           /\ NeedsNothing(n) \/ BecomesReady(n) \/ FailsToPrepare(n)
<1> DEFINE slot == OtherSlot(standby.active)
           base == commitOf[BaseOf(n)]
           decision == CASE base = commitOf[rollout] -> "none"
                         [] HeadOf(base) # HeadOf(commitOf[rollout]) -> "schema"
                         [] OTHER -> "code"
           made == [slot |-> slot, before |-> standby.active, migrate |-> decision = "schema"]
           Place(container) == standby' = IF n = "primary" THEN standby
                                          ELSE [standby EXCEPT !.runs[slot] = container]
<1>1. decision = Needs(n)
  BY Zenon DEF Needs, Target
<1>2. rollout \in Builds /\ rollout \in MaybeBuild /\ NoBuild \in MaybeBuild
  BY DEF RolloutTypes, RolloutTypeOK, MaybeBuild
<1>3. /\ standby.active \in Slots /\ slot \in Slots
  BY TwoSlots DEF RolloutTypes, RolloutTypeOK
<1>4. ASSUME NEW c \in MaybeBuild, Place(c)
      PROVE  IF n = "primary" THEN UNCHANGED standby ELSE StandbyPlaces(c)
  BY <1>4, PlacingIsLocal
<1>5. ASSUME prepared' = [prepared EXCEPT ![n][rollout] = made]
      PROVE  PreparedAt(n, rollout, made)
  <2>1. made \in Ready \union {Unprepared}
    BY <1>3 DEF Ready
  <2> HIDE DEF made
  <2>2. prepared \in Preparations
    BY DEF RolloutTypes, RolloutTypeOK, Preparations
  <2> QED
    BY <1>2, <1>5, <2>1, <2>2, NestedExcept DEF Preparations, PreparedAt
<1>6. /\ phase = "preparing" /\ n \in awaiting /\ awaiting' = awaiting \ {n}
      /\ UNCHANGED <<commitOf, migrationVars, rollout, phase, gateVars>>
  BY DEF PrepareNode
<1>7. \/ /\ decision = "none"
         /\ succeeded' = succeeded \union {n}
         /\ plan' = [plan EXCEPT ![n] = decision]
         /\ UNCHANGED <<nodeVars, spent>>
      \/ /\ decision # "none"
         /\ succeeded' = succeeded \union {n}
         /\ plan' = [plan EXCEPT ![n] = decision]
         /\ prepared' = [prepared EXCEPT ![n][rollout] = made]
         /\ Place(rollout)
         /\ UNCHANGED <<currentRelease, primary, primaryPast, spent>>
      \/ /\ decision # "none"
         /\ Spend("nodeFaults")
         /\ Place(NoBuild) \/ UNCHANGED standby
         /\ UNCHANGED <<succeeded, plan, currentRelease, prepared, primary, primaryPast>>
  BY Zenon DEF PrepareNode
<1> HIDE DEF decision, Place
<1>8. made = [slot |-> slot, before |-> standby.active, migrate |-> Needs(n) = "schema"]
  BY <1>1
<1> HIDE DEF made
<1>9. n = "primary" \/ n = "standby"
  BY DEF Nodes
<1>10. CASE decision = "none"
  BY <1>1, <1>6, <1>7, <1>10 DEF NeedsNothing, PreparingFrame, nodeVars
<1>11. ASSUME prepared' = [prepared EXCEPT ![n][rollout] = made], Place(rollout),
              decision # "none",
              succeeded' = succeeded \union {n},
              plan' = [plan EXCEPT ![n] = decision],
              UNCHANGED <<currentRelease, primary, primaryPast, spent>>
       PROVE  BecomesReady(n) /\ PreparingFrame
  <2>1. PreparedAt(n, rollout, made)
    BY <1>5, <1>11
  <2>2. IF n = "primary" THEN UNCHANGED standby ELSE StandbyPlaces(rollout)
    BY <1>2, <1>4, <1>11
  <2> QED
    BY <1>1, <1>6, <1>8, <1>11, <2>1, <2>2, Zenon DEF BecomesReady, PreparingFrame
<1>12. ASSUME Spend("nodeFaults"), Place(NoBuild) \/ UNCHANGED standby,
              UNCHANGED <<succeeded, plan, currentRelease, prepared, primary, primaryPast>>
       PROVE  FailsToPrepare(n) /\ PreparingFrame
  <2>1. UNCHANGED standby \/ (n = "standby" /\ StandbyPlaces(NoBuild))
    BY <1>2, <1>4, <1>9, <1>12
  <2> QED
    BY <1>6, <1>12, <2>1, Zenon DEF FailsToPrepare, PreparingFrame
<1> QED
  BY <1>6, <1>7, <1>10, <1>11, <1>12

(* Only the container of r on n, and only its status, may change. *)
WorkerIs(n, r, place1) ==
    /\ worker' \in [Nodes -> [Builds -> {"off", "starting", "migrating"}]]
    /\ \A m \in Nodes, q \in Builds :
           worker'[m][q] = IF m = n /\ q = r THEN place1 ELSE worker[m][q]

StatusIs(n, r, status1) ==
    /\ migrationJob' \in [Nodes -> [Builds -> JobStatuses]]
    /\ \A m \in Nodes, q \in Builds :
           migrationJob'[m][q] = IF m = n /\ q = r THEN status1 ELSE migrationJob[m][q]

LEMMA ContainersAreLocal ==
    ASSUME RolloutTypes, NEW n \in Nodes, NEW r \in Builds
    PROVE  /\ \A stage1 \in {"off", "starting", "migrating"} :
                  WorkerAt(n, r, stage1) => WorkerIs(n, r, stage1)
           /\ \A status1 \in JobStatuses : WriteStatus(n, r, status1) => StatusIs(n, r, status1)
<1>1. /\ worker \in [Nodes -> [Builds -> {"off", "starting", "migrating"}]]
      /\ migrationJob \in [Nodes -> [Builds -> JobStatuses]]
  BY DEF RolloutTypes, RolloutTypeOK, MigrationTypeOK
<1>2. ASSUME NEW stage1 \in {"off", "starting", "migrating"}, WorkerAt(n, r, stage1)
      PROVE  WorkerIs(n, r, stage1)
  <2>1. worker' = [worker EXCEPT ![n][r] = stage1]
    BY <1>2 DEF WorkerAt
  <2> QED
    BY <1>1, <2>1, NestedExcept DEF WorkerIs
<1>3. ASSUME NEW status1 \in JobStatuses, WriteStatus(n, r, status1)
      PROVE  StatusIs(n, r, status1)
  <2>1. migrationJob' = [migrationJob EXCEPT ![n][r] = status1]
    BY <1>3 DEF WriteStatus
  <2> QED
    BY <1>1, <2>1, NestedExcept DEF StatusIs
<1> QED
  BY <1>2, <1>3

LEMMA StartingIsLocal ==
    ASSUME RolloutTypes, NEW n \in Nodes, NEW r \in Builds, StartMigration(n, r)
    PROVE  UNCHANGED worker \/ (worker[n][r] = "off" /\ WorkerIs(n, r, "starting"))
BY ContainersAreLocal DEF StartMigration

(* What a migration container does in one step. *)
ContainerMoves(n, r) ==
    \/ /\ worker[n][r] = "starting" /\ WorkerIs(n, r, "off")
       /\ \/ StatusIs(n, r, "failed") \/ StatusIs(n, r, "reseed")
          \/ ~Locked(n) /\ Target(r) = schema[n] /\ StatusIs(n, r, "succeeded")
       /\ UNCHANGED schema
    \/ /\ worker[n][r] = "starting" /\ WorkerIs(n, r, "migrating")
       /\ ~Lost(n) /\ ~Locked(n) /\ Target(r) > schema[n]
       /\ StatusIs(n, r, "running")
       /\ UNCHANGED schema
    \/ /\ worker[n][r] = "migrating" /\ schema[n] < Target(r)
       /\ schema' = [schema EXCEPT ![n] = @ + 1]
       /\ UNCHANGED containerVars
    \/ /\ worker[n][r] = "migrating" /\ schema[n] = Target(r)
       /\ StatusIs(n, r, "succeeded") /\ WorkerIs(n, r, "off")
       /\ UNCHANGED schema
    \/ /\ worker[n][r] # "off" /\ WorkerIs(n, r, "off")
       /\ \/ StatusIs(n, r, "failed") \/ StatusIs(n, r, "reseed")
          \/ UNCHANGED migrationJob
       /\ UNCHANGED schema

LEMMA ContainersMove ==
    ASSUME RolloutTypes, MigrationControllers \/ MigrationAccidents
    PROVE  /\ migrationFaults' \in 0 .. MaxMigrationFaults /\ drifts' \in 0 .. MaxDrifts
           /\ \/ ReplicateCursor
              \/ \E n \in Nodes, r \in Builds : ContainerMoves(n, r) /\ UNCHANGED <<replicated, replica>>
<1> DEFINE Goal == \E n \in Nodes, r \in Builds : ContainerMoves(n, r) /\ UNCHANGED <<replicated, replica>>
<1>1. ASSUME NEW n \in Nodes, NEW r \in Builds, TakeMigrationLock(n, r)
      PROVE  ContainerMoves(n, r) /\ UNCHANGED <<replicated, replica>>
  BY <1>1, ContainersAreLocal DEF TakeMigrationLock, ContainerMoves, databaseVars, JobStatuses
<1>2. ASSUME NEW n \in Nodes, NEW r \in Builds, UpgradeOneRevision(n, r)
      PROVE  ContainerMoves(n, r) /\ UNCHANGED <<replicated, replica>>
  BY <1>2 DEF UpgradeOneRevision, ContainerMoves
<1>3. ASSUME NEW n \in Nodes, NEW r \in Builds, VerifyMigration(n, r)
      PROVE  ContainerMoves(n, r) /\ UNCHANGED <<replicated, replica>>
  BY <1>3, ContainersAreLocal DEF VerifyMigration, ContainerMoves, databaseVars, JobStatuses
<1>4. ASSUME NEW n \in Nodes, NEW r \in Builds, MigrationBreaks(n, r)
      PROVE  ContainerMoves(n, r) /\ UNCHANGED <<replicated, replica>>
  BY <1>4, ContainersAreLocal DEF MigrationBreaks, ContainerMoves, databaseVars, JobStatuses
<1>5. ASSUME NEW r \in Builds, OwnershipDrifted(r)
      PROVE  ContainerMoves("standby", r) /\ UNCHANGED <<replicated, replica>>
  BY <1>5, ContainersAreLocal DEF OwnershipDrifted, ContainerMoves, databaseVars, JobStatuses, Nodes
<1>6. "standby" \in Nodes
  BY DEF Nodes
<1> HIDE DEF Goal
<1>7. ASSUME MigrationControllers
      PROVE  ReplicateCursor \/ Goal
  <2>1. (\E n \in Nodes, r \in Builds :
            TakeMigrationLock(n, r) \/ UpgradeOneRevision(n, r) \/ VerifyMigration(n, r)) => Goal
    BY <1>1, <1>2, <1>3 DEF Goal
  <2> QED
    BY <1>7, <2>1 DEF MigrationControllers, Goal
<1>8. ASSUME MigrationAccidents
      PROVE  Goal
  <2>1. (\E n \in Nodes, r \in Builds : MigrationBreaks(n, r)) => Goal
    BY <1>4 DEF Goal
  <2>2. (\E r \in Builds : OwnershipDrifted(r)) => Goal
    BY <1>5, <1>6 DEF Goal
  <2> QED
    BY <1>8, <2>1, <2>2 DEF MigrationAccidents, Goal
<1>9. migrationFaults' \in 0 .. MaxMigrationFaults /\ drifts' \in 0 .. MaxDrifts
  <2>1. /\ migrationFaults \in 0 .. MaxMigrationFaults /\ drifts \in 0 .. MaxDrifts
        /\ MaxMigrationFaults \in Nat /\ MaxDrifts \in Nat
    BY MigrationAssumption DEF RolloutTypes, RolloutTypeOK, MigrationTypeOK
  <2>2. CASE MigrationControllers
    BY <2>1, <2>2 DEF MigrationControllers, TakeMigrationLock, UpgradeOneRevision,
                      VerifyMigration, ReplicateCursor
  <2>3. CASE MigrationAccidents
    BY <2>1, <2>3 DEF MigrationAccidents, MigrationBreaks, OwnershipDrifted
  <2> QED
    BY <2>2, <2>3
<1> QED
  BY <1>7, <1>8, <1>9 DEF Goal

(***************************************************************************)
(* A rebuild of the standby that goes through, or breaks off: the cursor   *)
(* and the schema stay, are the primary's, or are gone with the database.  *)
(***************************************************************************)
StandbyIsRebuilt ==
    /\ schema' = [schema EXCEPT !["standby"] = schema["primary"]]
    /\ replicated' \in {0, schema["primary"]}
    /\ replica' = "subscribed"

StandbyIsLost ==
    /\ schema' = [schema EXCEPT !["standby"] = 0]
    /\ replicated' = 0
    /\ replica' = "lost"

Reseeds(r) ==
    /\ \/ /\ UNCHANGED <<schema, replicated>>
          /\ replica' = replica \/ (replica # "lost" /\ replica' = "cut")
       \/ StandbyIsRebuilt /\ \A q \in Builds : worker'["standby"][q] # "migrating"
       \/ StandbyIsLost /\ \A q \in Builds : worker'["standby"][q] # "migrating"
    /\ worker' \in [Nodes -> [Builds -> {"off", "starting", "migrating"}]]
    /\ migrationJob' \in [Nodes -> [Builds -> JobStatuses]]
    /\ \A q \in Builds :
           /\ worker'["primary"][q] = worker["primary"][q]
           /\ migrationJob'["primary"][q] = migrationJob["primary"][q]
           /\ worker'["standby"][q] = "migrating" => worker["standby"][q] = "migrating"
           /\ q # r /\ worker["standby"][q] = "off" => worker'["standby"][q] = "off"
           /\ q # r /\ migrationJob["standby"][q] = "none" /\ worker["standby"][q] = "off" =>
                  migrationJob'["standby"][q] = "none"
    /\ migrationJob'["standby"][r] # "succeeded"
    /\ UNCHANGED <<migrationFaults, drifts>>

LEMMA ReseedingIsLocal ==
    ASSUME RolloutTypes, NEW r \in Builds, ReseedStandby(r)
    PROVE  Reseeds(r)
<1> DEFINE J(q) == IF q = r THEN "none"
                   ELSE IF worker["standby"][q] = "migrating" THEN "failed"
                   ELSE migrationJob["standby"][q]
           W(q) == IF q = r THEN "starting"
                   ELSE IF worker["standby"][q] = "migrating" THEN "off"
                   ELSE worker["standby"][q]
<1>1. /\ worker \in [Nodes -> [Builds -> {"off", "starting", "migrating"}]]
      /\ migrationJob \in [Nodes -> [Builds -> JobStatuses]]
  BY DEF RolloutTypes, RolloutTypeOK, MigrationTypeOK
<1>2. /\ StandbyIsRebuilt
      /\ UNCHANGED <<migrationFaults, drifts>>
  BY DEF ReseedStandby, StandbyIsRebuilt
<1>3. /\ migrationJob' = [migrationJob EXCEPT !["standby"] = [q \in Builds |-> J(q)]]
      /\ worker' = [worker EXCEPT !["standby"] = [q \in Builds |-> W(q)]]
  BY DEF ReseedStandby
<1>4. \A q \in Builds : /\ J(q) \in JobStatuses
                        /\ W(q) \in {"off", "starting"}
  BY <1>1 DEF JobStatuses, Nodes
<1> HIDE DEF J, W
<1>5. /\ worker' \in [Nodes -> [Builds -> {"off", "starting", "migrating"}]]
      /\ migrationJob' \in [Nodes -> [Builds -> JobStatuses]]
  BY <1>1, <1>3, <1>4
<1>6. \A q \in Builds : /\ worker'["standby"][q] = W(q) /\ worker'["primary"][q] = worker["primary"][q]
                        /\ migrationJob'["standby"][q] = J(q)
                        /\ migrationJob'["primary"][q] = migrationJob["primary"][q]
  BY <1>1, <1>3 DEF Nodes
<1> QED
  BY <1>1, <1>2, <1>4, <1>5, <1>6 DEF Reseeds, J, W

(* Ended sessions report a failure; nothing else of the containers moves. *)
LEMMA SessionsEndLocally ==
    ASSUME RolloutTypes, EndSessions \/ UNCHANGED containerVars
    PROVE  /\ worker' \in [Nodes -> [Builds -> {"off", "starting", "migrating"}]]
           /\ migrationJob' \in [Nodes -> [Builds -> JobStatuses]]
           /\ \A q \in Builds :
                 /\ worker'["primary"][q] = worker["primary"][q]
                 /\ migrationJob'["primary"][q] = migrationJob["primary"][q]
                 /\ worker'["standby"][q] \in {worker["standby"][q], "off"}
                 /\ EndSessions => worker'["standby"][q] # "migrating"
                 /\ migrationJob'["standby"][q] \in {migrationJob["standby"][q], "failed"}
                 /\ worker["standby"][q] = "off" =>
                        migrationJob'["standby"][q] = migrationJob["standby"][q]
<1> DEFINE J(q) == IF worker["standby"][q] = "migrating" THEN "failed"
                   ELSE migrationJob["standby"][q]
           W(q) == IF worker["standby"][q] = "migrating" THEN "off" ELSE worker["standby"][q]
<1>1. /\ worker \in [Nodes -> [Builds -> {"off", "starting", "migrating"}]]
      /\ migrationJob \in [Nodes -> [Builds -> JobStatuses]]
  BY DEF RolloutTypes, RolloutTypeOK, MigrationTypeOK
<1>2. CASE EndSessions
  <2>1. /\ migrationJob' = [migrationJob EXCEPT !["standby"] = [q \in Builds |-> J(q)]]
        /\ worker' = [worker EXCEPT !["standby"] = [q \in Builds |-> W(q)]]
    BY <1>1, <1>2 DEF EndSessions, Nodes
  <2>2. \A q \in Builds : J(q) \in JobStatuses /\ W(q) \in {"off", "starting"}
    BY <1>1 DEF JobStatuses, Nodes
  <2> HIDE DEF J, W
  <2>3. /\ worker' \in [Nodes -> [Builds -> {"off", "starting", "migrating"}]]
        /\ migrationJob' \in [Nodes -> [Builds -> JobStatuses]]
    BY <1>1, <2>1, <2>2
  <2>4. \A q \in Builds : /\ worker'["standby"][q] = W(q)
                          /\ worker'["primary"][q] = worker["primary"][q]
                          /\ migrationJob'["standby"][q] = J(q)
                          /\ migrationJob'["primary"][q] = migrationJob["primary"][q]
    BY <1>1, <2>1 DEF Nodes
  <2> QED
    BY <1>1, <2>2, <2>3, <2>4 DEF J, W
<1>3. CASE ~EndSessions
  BY <1>1, <1>3 DEF containerVars
<1> QED
  BY <1>2, <1>3

LEMMA BreakingIsLocal ==
    ASSUME RolloutTypes, NEW r \in Builds, ReseedBreaks, migrationJob["standby"][r] = "reseed"
    PROVE  Reseeds(r)
<1>1. EndSessions \/ UNCHANGED containerVars
  BY DEF ReseedBreaks
<1>2. /\ \/ /\ UNCHANGED <<schema, replicated>>
            /\ replica' = replica \/ (replica # "lost" /\ replica' = "cut")
         \/ StandbyIsRebuilt /\ EndSessions
         \/ StandbyIsLost /\ EndSessions
      /\ UNCHANGED <<migrationFaults, drifts>>
  BY DEF ReseedBreaks, StandbyIsRebuilt, StandbyIsLost, databaseVars
<1>3. migrationJob'["standby"][r] # "succeeded"
  BY <1>1, SessionsEndLocally
<1> QED
  BY <1>1, <1>2, <1>3, SessionsEndLocally DEF Reseeds

LEMMA RecoveryReseeds ==
    ASSUME RolloutTypes, RecoverStandby
    PROVE  Reseeds(rollout)
<1>1. rollout \in Builds /\ migrationJob["standby"][rollout] = "reseed"
  BY DEF RolloutTypes, RolloutTypeOK, RecoverStandby
<1> QED
  BY <1>1, ReseedingIsLocal, BreakingIsLocal DEF RecoverStandby

-----------------------------------------------------------------------------
(* The traffic of a node, place by place. *)

LEMMA SpendingCounts ==
    ASSUME RolloutTypes, NEW what \in Spendings, Spend(what)
    PROVE  /\ Counted'
           /\ \A s \in Spendings : spent'[s] \in 0 .. Allowed[s]
           /\ spent'[what] > 0
<1>1. /\ spent \in [Spendings -> Nat] /\ spent[what] < Allowed[what]
      /\ spent' = [spent EXCEPT ![what] = @ + 1]
      /\ \A s \in Spendings : spent[s] \in 0 .. Allowed[s]
  BY DEF RolloutTypes, RolloutTypeOK, Counted, Spend
<1>2. \A s \in Spendings : Allowed[s] \in Nat
  BY RolloutAssumption DEF Allowed, Spendings
<1> QED
  BY <1>1, <1>2 DEF Counted

(* Whatever a command does on the primary: it names the releases that were    *)
(* named before, and those of extra.                                          *)
PrimaryMoves(extra) ==
    /\ UNCHANGED standby
    /\ currentRelease' \in [Nodes -> Builds]
    /\ currentRelease'["standby"] = currentRelease["standby"]
    /\ primary' \in PrimaryRecords /\ SavedWithPrevious' /\ primaryPast' \subseteq Pasts
    /\ PrimaryNames' \subseteq PrimaryNames \union extra \union {NoBuild}
    /\ PrimaryAgrees => PrimaryAgrees'

LEMMA PrimaryIsTyped ==
    ASSUME RolloutTypes
    PROVE  /\ currentRelease \in [Nodes -> Builds] /\ currentRelease["primary"] \in Builds
           /\ primary \in PrimaryRecords /\ primary.override \in Builds
           /\ primary.manifest \in Builds /\ primary.runs \in MaybeBuild
           /\ primary.saved \in MaybeBuild /\ primary.previous \in MaybeBuild
           /\ NoBuild \notin Builds /\ Builds \subseteq MaybeBuild /\ NoBuild \in MaybeBuild
           /\ MaybeBuild \ {NoBuild} \subseteq Builds
           /\ primaryPast \subseteq Pasts
           /\ Nodes = {"primary", "standby"}
BY RolloutAssumption DEF RolloutTypes, RolloutTypeOK, PrimaryRecords, MaybeBuild, Nodes

(* An activation, whatever becomes of it, saves the override and CURRENT. *)
PrimaryMovedTo(current, override, runs, manifest) ==
    /\ currentRelease' \in [Nodes -> Builds]
    /\ currentRelease'["primary"] = current
    /\ currentRelease'["standby"] = currentRelease["standby"]
    /\ primary' \in PrimaryRecords /\ SavedWithPrevious'
    /\ primary'.runs = runs /\ primary'.override = override /\ primary'.manifest = manifest
    /\ primary'.saved = primary.override /\ primary'.previous = currentRelease["primary"]
    /\ UNCHANGED standby

LEMMA MovingSaves ==
    ASSUME RolloutTypes, NEW current \in Builds, NEW override \in Builds,
           NEW runs \in MaybeBuild, NEW manifest \in Builds,
           MovePrimary(current, override, runs, manifest)
    PROVE  PrimaryMovedTo(current, override, runs, manifest)
<1>1. /\ currentRelease' = [currentRelease EXCEPT !["primary"] = current]
      /\ primary' = [runs |-> runs, override |-> override, saved |-> primary.override,
                     previous |-> currentRelease["primary"], manifest |-> manifest]
      /\ standby' = standby
  BY DEF MovePrimary
<1>2. primary' \in PrimaryRecords /\ primary'.saved = primary.override
      /\ primary'.saved # NoBuild
  BY <1>1, PrimaryIsTyped DEF PrimaryRecords
<1> QED
  BY <1>1, <1>2, PrimaryIsTyped DEF PrimaryMovedTo, SavedWithPrevious

LEMMA SwitchMoves ==
    ASSUME RolloutTypes, NEW r \in Builds, SwitchPrimary(r)
    PROVE  PrimaryMovedTo(r, r, r, r) /\ PrimaryMoves({r})
<1>1. PrimaryMovedTo(r, r, r, r)
  BY MovingSaves, PrimaryIsTyped DEF SwitchPrimary
<1>2. primaryPast' = primaryPast \ {"halfway", "rolled_back"}
  BY DEF SwitchPrimary
<1>3. PrimaryAgrees => PrimaryAgrees'
  BY <1>1, <1>2 DEF PrimaryAgrees, PrimaryMovedTo
<1>4. PrimaryNames' \subseteq PrimaryNames \union {r}
  BY <1>1 DEF PrimaryNames, PrimaryMovedTo
<1> QED
  BY <1>1, <1>2, <1>3, <1>4, PrimaryIsTyped DEF PrimaryMoves, PrimaryMovedTo

LEMMA RestoreMoves ==
    ASSUME RolloutTypes, RestorePrimary
    PROVE  /\ PrimaryMovedTo(currentRelease["primary"], primary.override, primary.override,
                             primary.manifest)
           /\ PrimaryMoves({})
<1>1. PrimaryMovedTo(currentRelease["primary"], primary.override, primary.override,
                     primary.manifest)
  BY MovingSaves, PrimaryIsTyped DEF RestorePrimary
<1>2. primaryPast' = primaryPast \ {"rolled_back"}
  BY DEF RestorePrimary
<1>3. PrimaryAgrees => PrimaryAgrees'
  BY <1>1, <1>2 DEF PrimaryAgrees, PrimaryMovedTo
<1>4. PrimaryNames' \subseteq PrimaryNames
  BY <1>1 DEF PrimaryNames, PrimaryMovedTo
<1> QED
  BY <1>1, <1>2, <1>3, <1>4, PrimaryIsTyped DEF PrimaryMoves, PrimaryMovedTo

LEMMA BreakOffMoves ==
    ASSUME RolloutTypes, NEW r \in Builds, BreakOffPrimary(r)
    PROVE  PrimaryMoves({r})
<1>1. primaryPast' = (primaryPast \ {"rolled_back"}) \union {"halfway"}
  BY DEF BreakOffPrimary
<1>2. ASSUME NEW up \in {primary.runs, r, primary.override, NoBuild},
             NEW current \in {r, currentRelease["primary"]},
             NEW override \in {r, primary.override},
             (current = r /\ override = r)
                 \/ (current = currentRelease["primary"] /\ override = primary.override),
             MovePrimary(current, override, up, primary.manifest)
      PROVE  PrimaryMoves({r})
  <2>1. PrimaryMovedTo(current, override, up, primary.manifest)
    BY <1>2, MovingSaves, PrimaryIsTyped
  <2>2. PrimaryAgrees => PrimaryAgrees'
    BY <1>1, <1>2, <2>1 DEF PrimaryAgrees, PrimaryMovedTo
  <2>3. PrimaryNames' \subseteq PrimaryNames \union {r, NoBuild}
    BY <1>2, <2>1 DEF PrimaryNames, PrimaryMovedTo
  <2> QED
    BY <1>1, <2>1, <2>2, <2>3, PrimaryIsTyped DEF PrimaryMoves, PrimaryMovedTo, Pasts
<1> QED
  BY <1>2 DEF BreakOffPrimary

(* A rollback of the primary brings back the copy and previous-release. *)
LEMMA RollBackMoves ==
    ASSUME RolloutTypes, CanRollBack("primary"), RollBackPrimary
    PROVE  /\ PrimaryMoves({})
           /\ currentRelease' = [currentRelease EXCEPT !["primary"] = primary.previous]
           /\ primaryPast' = (primaryPast \ {"halfway"}) \union {"rolled_back"} \union Doubling
<1>1. /\ primary' = [primary EXCEPT !.runs = primary.saved, !.override = primary.saved,
                                    !.manifest = primary.previous,
                                    !.previous = currentRelease["primary"]]
      /\ currentRelease' = [currentRelease EXCEPT !["primary"] = primary.previous]
      /\ primaryPast' = (primaryPast \ {"halfway"}) \union {"rolled_back"} \union Doubling
      /\ standby' = standby
  BY DEF RollBackPrimary
<1>2. primary.previous \in Builds /\ primary.saved \in Builds
  BY PrimaryIsTyped DEF CanRollBack, RolloutTypes, SavedWithPrevious
<1>3. /\ primary' \in PrimaryRecords
      /\ primary'.runs = primary.saved /\ primary'.override = primary.saved
      /\ primary'.manifest = primary.previous /\ primary'.saved = primary.saved
      /\ primary'.previous = currentRelease["primary"]
  BY <1>1, <1>2, PrimaryIsTyped DEF PrimaryRecords
<1>4. currentRelease' \in [Nodes -> Builds] /\ currentRelease'["primary"] = primary.previous
      /\ currentRelease'["standby"] = currentRelease["standby"]
  BY <1>1, <1>2, PrimaryIsTyped
<1>5. PrimaryAgrees => PrimaryAgrees'
  BY <1>1, <1>3, <1>4 DEF PrimaryAgrees, Doubling
<1>6. PrimaryNames' \subseteq PrimaryNames
  BY <1>3, <1>4 DEF PrimaryNames
<1>7. primaryPast' \subseteq Pasts
  BY <1>1, PrimaryIsTyped DEF Pasts, Doubling
<1>8. SavedWithPrevious'
  BY <1>2, <1>3, PrimaryIsTyped DEF SavedWithPrevious
<1> QED
  BY <1>1, <1>3, <1>4, <1>5, <1>6, <1>7, <1>8 DEF PrimaryMoves

LEMMA BrokenRollBackMoves ==
    ASSUME RolloutTypes, RollBackBreaksOff
    PROVE  PrimaryMoves({}) /\ UNCHANGED prepared
<1>1. PICK up \in {primary.runs, primary.saved, NoBuild} :
          primary' = [primary EXCEPT !.runs = up, !.override = primary.saved]
  BY DEF RollBackBreaksOff
<1>2. /\ currentRelease' = [currentRelease EXCEPT !["primary"] = primary.previous]
      /\ primaryPast' = primaryPast \union {"halfway"} \union Doubling
      /\ standby' = standby /\ prepared' = prepared
      /\ primary.previous # NoBuild
  BY DEF RollBackBreaksOff, CanRollBack
<1>3. primary.previous \in Builds /\ primary.saved \in Builds
  BY <1>2, PrimaryIsTyped DEF RolloutTypes, SavedWithPrevious
<1>4. /\ primary' \in PrimaryRecords
      /\ primary'.runs = up /\ primary'.override = primary.saved
      /\ primary'.manifest = primary.manifest /\ primary'.saved = primary.saved
      /\ primary'.previous = primary.previous
  BY <1>1, <1>3, PrimaryIsTyped DEF PrimaryRecords
<1>5. currentRelease' \in [Nodes -> Builds] /\ currentRelease'["primary"] = primary.previous
      /\ currentRelease'["standby"] = currentRelease["standby"]
  BY <1>2, <1>3, PrimaryIsTyped
<1>6. PrimaryAgrees => PrimaryAgrees'
  BY <1>2, <1>4, <1>5 DEF PrimaryAgrees, Doubling
<1>7. PrimaryNames' \subseteq PrimaryNames \union {NoBuild}
  BY <1>4, <1>5 DEF PrimaryNames
<1>8. primaryPast' \subseteq Pasts
  BY <1>2, PrimaryIsTyped DEF Pasts, Doubling
<1>9. SavedWithPrevious'
  BY <1>3, <1>4, PrimaryIsTyped DEF SavedWithPrevious
<1> QED
  BY <1>2, <1>4, <1>5, <1>6, <1>7, <1>8, <1>9 DEF PrimaryMoves


StandbyRestores(r) ==
    /\ standby' \in StandbyRecords
    /\ standby'.upstream = prepared["standby"][r].before
    /\ standby'.active = standby.active
    /\ standby'.runs = standby.runs /\ standby'.named = standby.named
    /\ UNCHANGED <<currentRelease, prepared, primary, primaryPast>>

StandbyGoesBack ==
    /\ CanRollBack("standby") /\ GoesBackTo("standby") \in Builds
    /\ standby' \in StandbyRecords
    /\ standby'.upstream = OtherSlot(standby.active)
    /\ standby'.active = OtherSlot(standby.active)
    /\ standby'.runs = standby.runs /\ standby'.named = standby.named
    /\ currentRelease' = [currentRelease EXCEPT !["standby"] = GoesBackTo("standby")]
    /\ UNCHANGED <<prepared, primary, primaryPast>>

LEMMA StandbyReturns ==
    ASSUME RolloutTypes
    PROVE  /\ \A r \in Builds :
                  CandidateRuns("standby", r) /\ RestoreTraffic("standby", r) /\ UNCHANGED prepared =>
                      StandbyRestores(r)
           /\ RollBack("standby") => StandbyGoesBack
<1>1. /\ standby \in StandbyRecords /\ prepared \in Preparations /\ "standby" \in Nodes
      /\ NoBuild \notin Builds
  BY RolloutAssumption DEF RolloutTypes, RolloutTypeOK, StandbyRecords, Preparations, Nodes
<1>2. ASSUME NEW r \in Builds, CandidateRuns("standby", r), RestoreTraffic("standby", r),
             UNCHANGED prepared
      PROVE  StandbyRestores(r)
  <2>1. prepared["standby"][r] \in Ready
    BY <1>1, <1>2 DEF CandidateRuns, Preparations
  <2>2. prepared["standby"][r].before \in Slots
    BY <2>1 DEF Ready
  <2>3. /\ standby' = [standby EXCEPT !.upstream = prepared["standby"][r].before]
        /\ UNCHANGED <<currentRelease, primary, primaryPast>>
    BY <1>2 DEF RestoreTraffic, RestoreUpstream
  <2> QED
    BY <1>1, <1>2, <2>2, <2>3 DEF StandbyRestores, StandbyRecords
<1>3. ASSUME RollBack("standby")
      PROVE  StandbyGoesBack
  <2> DEFINE s == OtherSlot(standby.active)
  <2>1. s \in Slots
    BY <1>1, TwoSlots DEF StandbyRecords
  <2>2. /\ standby' = [standby EXCEPT !.upstream = s, !.active = s]
        /\ currentRelease' = [currentRelease EXCEPT !["standby"] = standby.named[s]]
        /\ UNCHANGED <<primary, primaryPast, prepared>>
        /\ CanRollBack("standby") /\ standby.named[s] # NoBuild
    BY <1>3, Zenon DEF RollBack, RollBackStandby, CanRollBack
  <2>3. GoesBackTo("standby") = standby.named[s]
    BY DEF GoesBackTo
  <2> HIDE DEF s
  <2>4. standby.named[s] \in Builds
    BY <1>1, <2>1, <2>2 DEF StandbyRecords, MaybeBuild
  <2>5. /\ standby' \in StandbyRecords
        /\ standby'.upstream = s /\ standby'.active = s
        /\ standby'.runs = standby.runs /\ standby'.named = standby.named
    BY <1>1, <2>1, <2>2 DEF StandbyRecords
  <2> QED
    BY <2>2, <2>3, <2>4, <2>5 DEF StandbyGoesBack, s
<1> QED
  BY <1>2, <1>3

(* A command that moves traffic on node n, to r or back. *)
MovesTraffic(n, r) ==
    /\ UNCHANGED <<commitOf, rollout, migrationVars, gateVars>>
    /\ \/ /\ n = "standby"
          /\ \/ /\ CandidateRuns(n, r) /\ GatesPass(n, r) /\ StandbyTakes(r)
                /\ PreparedAt(n, r, Unprepared) \/ UNCHANGED prepared
             \/ CandidateRuns(n, r) /\ StandbyRestores(r)
             \/ StandbyGoesBack
       \/ /\ n = "primary"
          /\ \/ /\ CandidateRuns(n, r) /\ GatesPass(n, r) /\ PrimaryMoves({r})
                /\ PreparedAt(n, r, Unprepared) \/ UNCHANGED prepared
             \/ PrimaryMoves({}) /\ UNCHANGED prepared
       \/ UNCHANGED nodeVars

LEMMA TrafficMoves ==
    ASSUME RolloutTypes, NEW n \in Nodes
    PROVE  /\ ActivateNode(n) => MovesTraffic(n, rollout)
           /\ CoordinatedRollback(n) => MovesTraffic(n, rollout)
           /\ OperatorRollback(n) => MovesTraffic(n, rollout)
           /\ \A r \in Builds : PrimaryRecovery(r) => MovesTraffic("primary", r)
<1>1. rollout \in Builds /\ (n = "primary" \/ n = "standby") /\ "primary" \in Nodes
      /\ "primary" # "standby"
  BY DEF RolloutTypes, RolloutTypeOK, Nodes
<1>2. ASSUME ActivateNode(n)
      PROVE  MovesTraffic(n, rollout)
  <2>1. UNCHANGED <<commitOf, rollout, migrationVars, gateVars>>
    BY <1>2 DEF ActivateNode
  <2>2. \/ /\ CandidateRuns(n, rollout) /\ GatesPass(n, rollout)
           /\ \/ TakeTraffic(n, rollout) /\ (ForgetPrepared(n, rollout) \/ UNCHANGED prepared)
              \/ RestoreTraffic(n, rollout) /\ UNCHANGED prepared
              \/ n = "primary" /\ BreakOffPrimary(rollout) /\ UNCHANGED prepared
        \/ UNCHANGED nodeVars
    BY <1>2, Zenon DEF ActivateNode
  <2>3. CASE n = "standby"
    BY <1>1, <2>1, <2>2, <2>3, StandbySwitches, StandbyReturns, ForgettingIsLocal
    DEF TakeTraffic, MovesTraffic
  <2>4. CASE n = "primary"
    BY <1>1, <2>1, <2>2, <2>4, SwitchMoves, RestoreMoves, BreakOffMoves, ForgettingIsLocal
    DEF TakeTraffic, RestoreTraffic, MovesTraffic
  <2> QED
    BY <1>1, <2>3, <2>4
<1>3. ASSUME RollBack(n), UNCHANGED <<commitOf, rollout, migrationVars, gateVars>>
      PROVE  MovesTraffic(n, rollout)
  <2>1. CASE n = "standby"
    BY <1>3, <2>1, StandbyReturns DEF MovesTraffic
  <2>2. CASE n = "primary"
    BY <1>1, <1>3, <2>2, RollBackMoves DEF RollBack, MovesTraffic
  <2> QED
    BY <1>1, <2>1, <2>2
<1>4. ASSUME CoordinatedRollback(n)
      PROVE  MovesTraffic(n, rollout)
  <2>1. /\ UNCHANGED <<commitOf, rollout, migrationVars, gateVars>>
        /\ RollBack(n) \/ (n = "primary" /\ RollBackBreaksOff) \/ UNCHANGED nodeVars
    BY <1>4, Zenon DEF CoordinatedRollback
  <2> QED
    BY <1>1, <1>3, <2>1, BrokenRollBackMoves DEF MovesTraffic
<1>5. ASSUME OperatorRollback(n)
      PROVE  MovesTraffic(n, rollout)
  <2>1. /\ UNCHANGED <<commitOf, migrationVars, orchestratorVars, gateVars>>
        /\ RollBack(n) \/ (n = "primary" /\ RollBackBreaksOff)
    BY <1>5, Zenon DEF OperatorRollback
  <2>2. UNCHANGED rollout
    BY <2>1 DEF orchestratorVars
  <2> QED
    BY <1>1, <1>3, <2>1, <2>2, BrokenRollBackMoves DEF MovesTraffic
<1>6. ASSUME NEW r \in Builds, PrimaryRecovery(r)
      PROVE  MovesTraffic("primary", r)
  <2>1. /\ UNCHANGED <<commitOf, migrationVars, orchestratorVars, gateVars>>
        /\ CandidateRuns("primary", r) /\ GatesPass("primary", r)
        /\ \/ SwitchPrimary(r) /\ ForgetPrepared("primary", r)
           \/ RestorePrimary /\ UNCHANGED prepared
           \/ BreakOffPrimary(r) /\ UNCHANGED prepared
    BY <1>6, Zenon DEF PrimaryRecovery
  <2>2. UNCHANGED rollout
    BY <2>1 DEF orchestratorVars
  <2> QED
    BY <1>1, <2>1, <2>2, SwitchMoves, RestoreMoves, BreakOffMoves, ForgettingIsLocal
    DEF MovesTraffic
<1> QED
  BY <1>2, <1>4, <1>5, <1>6

(* What a command that moves traffic leaves well-typed. *)
LEMMA MovedTypes ==
    ASSUME RolloutTypes, NEW n \in Nodes, NEW r \in Builds, MovesTraffic(n, r)
    PROVE  /\ standby' \in StandbyRecords /\ primary' \in PrimaryRecords /\ SavedWithPrevious'
           /\ currentRelease' \in [Nodes -> Builds] /\ prepared' \in Preparations
           /\ primaryPast' \subseteq Pasts
<1>1. /\ standby \in StandbyRecords /\ primary \in PrimaryRecords
      /\ currentRelease \in [Nodes -> Builds] /\ prepared \in Preparations
      /\ SavedWithPrevious /\ primaryPast \subseteq Pasts
  BY DEF RolloutTypes, RolloutTypeOK, StandbyRecords, PrimaryRecords, Preparations
<1>2. UNCHANGED primary => primary' \in PrimaryRecords /\ SavedWithPrevious'
  BY <1>1 DEF SavedWithPrevious
<1>3. prepared' \in Preparations
  BY <1>1 DEF MovesTraffic, PreparedAt, StandbyRestores, StandbyGoesBack, nodeVars
<1>4. CASE n = "standby"
  BY <1>1, <1>2, <1>3, <1>4 DEF MovesTraffic, StandbyTakes, StandbyRestores, StandbyGoesBack, nodeVars
<1>5. CASE n = "primary"
  BY <1>1, <1>2, <1>3, <1>5 DEF MovesTraffic, PrimaryMoves, nodeVars
<1> QED
  BY <1>4, <1>5 DEF Nodes

OrchestratorTypes ==
    /\ phase \in Phases /\ awaiting \subseteq Nodes /\ succeeded \subseteq Nodes
    /\ plan \in [Nodes -> Plans] /\ rollout \in Builds

LEMMA PlansAreTyped ==
    /\ Unplanned \in [Nodes -> Plans]
    /\ Deploying \subseteq Nodes
    /\ RolloutTypes => \A n \in Nodes : Needs(n) \in Plans \ {"unknown"}
BY DEF Unplanned, Plans, Deploying, Needs

(* Steps of the script that only move it on, and what else they touch. *)
Steers ==
    \/ DecidePhases \/ StandbySchemaReady \/ RecoverStandby \/ PrimaryDataReady
    \/ ReconcileStandby \/ GiveUpWaiting \/ DecideActivation \/ DecideRollback
    \/ FinishRollout \/ OrchestratorDies
    \/ \E n \in Nodes : PreparedStatus(n)

LEMMA SteeringSparesTheNodes ==
    ASSUME RolloutTypes, Steers
    PROVE  /\ UNCHANGED <<commitOf, rollout, nodeVars, migrationFaults, drifts>>
           /\ OrchestratorTypes'
           /\ Counted' /\ \A s \in Spendings : spent'[s] \in 0 .. Allowed[s]
           /\ \/ RecoverStandby
              \/ UNCHANGED <<databaseVars, migrationJob, reseeded>>
<1> USE DEF orchestratorVars, nodeVars, gateVars, migrationVars, databaseVars, containerVars,
            EndRollout, EnterPhase
<1>1. OrchestratorTypes /\ Counted /\ \A s \in Spendings : spent[s] \in 0 .. Allowed[s]
  BY DEF RolloutTypes, RolloutTypeOK, OrchestratorTypes
<1>2. CASE DecidePhases
  BY <1>1, <1>2, PlansAreTyped DEF DecidePhases, OrchestratorTypes, Phases, Counted
<1>3. CASE StandbySchemaReady
  BY <1>1, <1>3 DEF StandbySchemaReady, OrchestratorTypes, Phases, Counted
<1>4. CASE RecoverStandby
  BY <1>1, <1>4, RecoveryReseeds DEF RecoverStandby, Reseeds, OrchestratorTypes, Phases, Counted
<1>5. CASE PrimaryDataReady
  BY <1>1, <1>5 DEF PrimaryDataReady, OrchestratorTypes, Phases, Counted
<1>6. CASE ReconcileStandby
  BY <1>1, <1>6, PlansAreTyped DEF ReconcileStandby, OrchestratorTypes, Phases, Counted
<1>7. CASE GiveUpWaiting
  BY <1>1, <1>7, PlansAreTyped DEF GiveUpWaiting, OrchestratorTypes, Phases, Counted
<1>8. CASE DecideActivation
  BY <1>1, <1>8, PlansAreTyped DEF DecideActivation, OrchestratorTypes, Phases, Counted
<1>9. CASE DecideRollback
  BY <1>1, <1>9 DEF DecideRollback, OrchestratorTypes, Phases, Counted
<1>10. CASE FinishRollout
  BY <1>1, <1>10, PlansAreTyped DEF FinishRollout, OrchestratorTypes, Phases, Counted
<1>11. CASE OrchestratorDies
  <2>1. Counted' /\ \A s \in Spendings : spent'[s] \in 0 .. Allowed[s]
    BY <1>11, SpendingCounts DEF OrchestratorDies, Spendings
  <2> QED
    BY <1>1, <1>11, <2>1, PlansAreTyped DEF OrchestratorDies, OrchestratorTypes, Phases
<1>12. ASSUME NEW n \in Nodes, PreparedStatus(n)
       PROVE  /\ UNCHANGED <<commitOf, rollout, nodeVars, migrationFaults, drifts>>
              /\ OrchestratorTypes'
              /\ Counted' /\ \A s \in Spendings : spent'[s] \in 0 .. Allowed[s]
              /\ UNCHANGED <<databaseVars, migrationJob, reseeded>>
  <2>1. spent' = spent \/ Spend("nodeFaults")
    BY <1>12 DEF PreparedStatus
  <2>2. Counted' /\ \A s \in Spendings : spent'[s] \in 0 .. Allowed[s]
    BY <1>1, <2>1, SpendingCounts DEF Spendings, Counted
  <2> QED
    BY <1>1, <1>12, <2>2 DEF PreparedStatus, OrchestratorTypes
<1> QED
  BY <1>2, <1>3, <1>4, <1>5, <1>6, <1>7, <1>8, <1>9, <1>10, <1>11, <1>12 DEF Steers

LEMMA TypesHold ==
    ASSUME RolloutTypes, [RolloutNext]_rolloutVars
    PROVE  RolloutTypes'
<1>1. /\ commitOf \in [Builds -> Commits] /\ OrchestratorTypes
      /\ MigrationTypeOK /\ schema \in [Nodes -> Nat]
      /\ standby \in StandbyRecords /\ primary \in PrimaryRecords
      /\ currentRelease \in [Nodes -> Builds] /\ prepared \in Preparations
      /\ primaryPast \subseteq Pasts
      /\ SavedWithPrevious /\ reseeded \subseteq Builds /\ reconciled \subseteq Builds
      /\ Counted /\ \A s \in Spendings : spent[s] \in 0 .. Allowed[s]
  BY DEF RolloutTypes, RolloutTypeOK, OrchestratorTypes, StandbyRecords, PrimaryRecords,
         Preparations, MigrationTypeOK
<1>2. ASSUME /\ commitOf' \in [Builds -> Commits] /\ OrchestratorTypes'
             /\ MigrationTypeOK' /\ schema' \in [Nodes -> Nat]
             /\ standby' \in StandbyRecords /\ primary' \in PrimaryRecords
             /\ currentRelease' \in [Nodes -> Builds] /\ prepared' \in Preparations
             /\ primaryPast' \subseteq Pasts
             /\ SavedWithPrevious' /\ reseeded' \subseteq Builds /\ reconciled' \subseteq Builds
             /\ Counted' /\ \A s \in Spendings : spent'[s] \in 0 .. Allowed[s]
      PROVE  RolloutTypes'
  BY <1>2 DEF RolloutTypes, RolloutTypeOK, OrchestratorTypes, StandbyRecords, PrimaryRecords,
              Preparations
<1>3. /\ UNCHANGED <<commitOf, migrationVars>> => MigrationTypeOK' /\ commitOf' \in [Builds -> Commits]
      /\ UNCHANGED schema => schema' \in [Nodes -> Nat]
      /\ UNCHANGED <<standby, primary>> =>
             /\ standby' \in StandbyRecords /\ primary' \in PrimaryRecords /\ SavedWithPrevious'
      /\ UNCHANGED spent => Counted' /\ \A s \in Spendings : spent'[s] \in 0 .. Allowed[s]
      /\ UNCHANGED orchestratorVars => OrchestratorTypes'
  BY <1>1 DEF migrationVars, databaseVars, containerVars, MigrationTypeOK, SavedWithPrevious,
              Counted, orchestratorVars, OrchestratorTypes
<1>4. ASSUME NEW c \in Commits, StartRollout(c)
      PROVE  RolloutTypes'
  <2>1. commitOf' \in [Builds -> Commits]
    BY <1>1, <1>4 DEF StartRollout
  <2>2. OrchestratorTypes'
    BY <1>1, <1>4, PlansAreTyped, MigrationAssumption
    DEF StartRollout, EnterPhase, OrchestratorTypes, Phases, Builds
  <2>3. UNCHANGED <<migrationVars, nodeVars, gateVars, spent>>
    BY <1>4 DEF StartRollout
  <2>4. MigrationTypeOK'
    BY <1>1, <2>1, <2>3 DEF migrationVars, databaseVars, containerVars, MigrationTypeOK
  <2> QED
    BY <1>1, <1>2, <1>3, <2>1, <2>2, <2>3, <2>4
    DEF nodeVars, gateVars, migrationVars, databaseVars
<1>5. ASSUME NEW n \in Nodes, PrepareNode(n)
      PROVE  RolloutTypes'
  <2>1. /\ phase = "preparing" /\ n \in awaiting /\ awaiting' = awaiting \ {n}
        /\ PreparingFrame
        /\ NeedsNothing(n) \/ BecomesReady(n) \/ FailsToPrepare(n)
    BY <1>5, PreparingHasThreeEnds
  <2>2. OrchestratorTypes'
    BY <1>1, <2>1, PlansAreTyped
    DEF NeedsNothing, BecomesReady, FailsToPrepare, PreparingFrame, OrchestratorTypes, Plans
  <2>3. standby' \in StandbyRecords /\ prepared' \in Preparations
    BY <1>1, <2>1 DEF NeedsNothing, BecomesReady, FailsToPrepare, StandbyPlaces, PreparedAt
  <2>4. Counted' /\ \A s \in Spendings : spent'[s] \in 0 .. Allowed[s]
    <3>1. UNCHANGED spent \/ Spend("nodeFaults")
      BY <2>1 DEF NeedsNothing, BecomesReady, FailsToPrepare
    <3> QED
      BY <1>3, <3>1, SpendingCounts DEF Spendings
  <2> QED
    BY <1>1, <1>2, <1>3, <2>1, <2>2, <2>3, <2>4
    DEF PreparingFrame, gateVars, migrationVars, databaseVars, SavedWithPrevious
<1>6. CASE Steers
  <2>1. /\ UNCHANGED <<commitOf, rollout, nodeVars, migrationFaults, drifts>>
        /\ OrchestratorTypes'
        /\ Counted' /\ \A s \in Spendings : spent'[s] \in 0 .. Allowed[s]
    BY <1>6, SteeringSparesTheNodes
  <2>2. CASE RecoverStandby
    <3>1. Reseeds(rollout)
      BY <2>2, RecoveryReseeds
    <3>2. /\ schema' \in [Nodes -> Nat] /\ replicated' \in Nat
          /\ replica' \in {"subscribed", "cut", "lost"}
      BY <1>1, <3>1 DEF Reseeds, StandbyIsRebuilt, StandbyIsLost, MigrationTypeOK, Nodes
    <3>4. MigrationTypeOK'
      BY <1>1, <2>1, <3>1, <3>2 DEF Reseeds, MigrationTypeOK, Nodes
    <3>3. reseeded' \subseteq Builds /\ reconciled' \subseteq Builds
      BY <1>1, <2>2 DEF RecoverStandby, OrchestratorTypes
    <3> QED
      BY <1>1, <1>2, <1>3, <2>1, <3>2, <3>3, <3>4 DEF nodeVars
  <2>3. CASE ~RecoverStandby
    <3>1. UNCHANGED <<databaseVars, migrationJob, reseeded>>
      BY <1>6, <2>3, SteeringSparesTheNodes
    <3>2. worker' \in [Nodes -> [Builds -> {"off", "starting", "migrating"}]]
      <4>1. rollout \in Builds /\ Nodes = {"primary", "standby"}
        BY <1>1 DEF OrchestratorTypes, Nodes
      <4>2. UNCHANGED worker \/ \E n \in Nodes : StartMigration(n, rollout)
        BY <1>6, <2>3, <4>1
        DEF Steers, DecidePhases, StandbySchemaReady, PrimaryDataReady, ReconcileStandby,
            GiveUpWaiting, DecideActivation, DecideRollback, FinishRollout, OrchestratorDies,
            PreparedStatus, migrationVars, containerVars
      <4> QED
        BY <1>1, <4>1, <4>2, StartingIsLocal DEF WorkerIs, MigrationTypeOK
    <3>3. reconciled' \subseteq Builds
      BY <1>1, <1>6, <2>3
      DEF Steers, DecidePhases, StandbySchemaReady, PrimaryDataReady, ReconcileStandby,
          GiveUpWaiting, DecideActivation, DecideRollback, FinishRollout, OrchestratorDies,
          PreparedStatus, gateVars, OrchestratorTypes
    <3>4. MigrationTypeOK' /\ schema' \in [Nodes -> Nat]
      BY <1>1, <2>1, <3>1, <3>2 DEF MigrationTypeOK, databaseVars
    <3> QED
      BY <1>1, <1>2, <1>3, <2>1, <3>1, <3>3, <3>4 DEF nodeVars
  <2> QED
    BY <2>2, <2>3
<1>7. ASSUME NEW n \in Nodes, NEW r \in Builds, MovesTraffic(n, r), OrchestratorTypes',
             UNCHANGED spent \/ \E what \in Spendings : Spend(what)
      PROVE  RolloutTypes'
  <2>1. Counted' /\ \A s \in Spendings : spent'[s] \in 0 .. Allowed[s]
    BY <1>3, <1>7, SpendingCounts
  <2>2. UNCHANGED <<commitOf, migrationVars, gateVars>>
    BY <1>7 DEF MovesTraffic
  <2>3. /\ standby' \in StandbyRecords /\ primary' \in PrimaryRecords /\ SavedWithPrevious'
        /\ currentRelease' \in [Nodes -> Builds] /\ prepared' \in Preparations
        /\ primaryPast' \subseteq Pasts
    BY <1>7, MovedTypes
  <2> QED
    BY <1>1, <1>2, <1>3, <1>7, <2>1, <2>2, <2>3 DEF gateVars, migrationVars, databaseVars
<1>8. ASSUME NEW n \in Nodes, ActivateNode(n)
      PROVE  RolloutTypes'
  <2>1. OrchestratorTypes' /\ rollout \in Builds
    BY <1>1, <1>8 DEF ActivateNode, OrchestratorTypes
  <2>2. UNCHANGED spent \/ \E what \in Spendings : Spend(what)
    BY <1>8 DEF ActivateNode, Spendings
  <2> QED
    BY <1>7, <1>8, <2>1, <2>2, TrafficMoves
<1>9. ASSUME NEW n \in Nodes, CoordinatedRollback(n)
      PROVE  RolloutTypes'
  <2>1. OrchestratorTypes' /\ rollout \in Builds
    BY <1>1, <1>9 DEF CoordinatedRollback, OrchestratorTypes
  <2>2. UNCHANGED spent \/ \E what \in Spendings : Spend(what)
    BY <1>9 DEF CoordinatedRollback, Spendings
  <2> QED
    BY <1>7, <1>9, <2>1, <2>2, TrafficMoves
<1>10. ASSUME NEW r \in Builds, PrimaryRecovery(r)
       PROVE  RolloutTypes'
  <2>1. /\ OrchestratorTypes' /\ "primary" \in Nodes
        /\ \E what \in Spendings : Spend(what)
    BY <1>3, <1>10 DEF PrimaryRecovery, Spendings, Nodes
  <2> QED
    BY <1>7, <1>10, <2>1, TrafficMoves
<1>11. ASSUME NEW n \in Nodes, OperatorRollback(n)
       PROVE  RolloutTypes'
  <2>1. /\ OrchestratorTypes' /\ rollout \in Builds
        /\ \E what \in Spendings : Spend(what)
    BY <1>1, <1>3, <1>11 DEF OperatorRollback, Spendings, OrchestratorTypes
  <2> QED
    BY <1>7, <1>11, <2>1, TrafficMoves
<1>12. ASSUME MigrationControllers \/ MigrationAccidents,
              UNCHANGED <<commitOf, orchestratorVars, nodeVars, gateVars, spent>>
       PROVE  RolloutTypes'
  <2>1. /\ migrationFaults' \in 0 .. MaxMigrationFaults /\ drifts' \in 0 .. MaxDrifts
        /\ \/ ReplicateCursor
           \/ \E n \in Nodes, r \in Builds : ContainerMoves(n, r) /\ UNCHANGED <<replicated, replica>>
    BY <1>12, ContainersMove
  <2>2. /\ worker' \in [Nodes -> [Builds -> {"off", "starting", "migrating"}]]
        /\ migrationJob' \in [Nodes -> [Builds -> JobStatuses]]
    BY <1>1, <2>1 DEF ReplicateCursor, ContainerMoves, containerVars, WorkerIs, StatusIs,
                      MigrationTypeOK
  <2>3. /\ schema' \in [Nodes -> Nat] /\ replicated' \in Nat
        /\ replica' \in {"subscribed", "cut", "lost"}
    BY <1>1, <2>1 DEF ReplicateCursor, ContainerMoves, MigrationTypeOK
  <2>4. MigrationTypeOK'
    BY <1>1, <1>12, <2>1, <2>2, <2>3 DEF MigrationTypeOK
  <2> QED
    BY <1>1, <1>2, <1>3, <1>12, <2>3, <2>4 DEF nodeVars, gateVars
<1>13. CASE UNCHANGED rolloutVars
  BY <1>1, <1>2, <1>3, <1>13 DEF rolloutVars, nodeVars, gateVars, migrationVars, databaseVars
<1> QED
  BY <1>4, <1>5, <1>6, <1>8, <1>9, <1>10, <1>11, <1>12, <1>13
  DEF RolloutNext, Orchestrator, Steers

(* Every step of a rollout is of one of these kinds. *)
Migrates ==
    /\ UNCHANGED <<commitOf, orchestratorVars, nodeVars, gateVars, spent>>
    /\ ReplicateCursor
       \/ \E n \in Nodes, r \in Builds : ContainerMoves(n, r) /\ UNCHANGED <<replicated, replica>>

LEMMA KindsOfStep ==
    ASSUME RolloutTypes, [RolloutNext]_rolloutVars
    PROVE  \/ \E c \in Commits : StartRollout(c)
           \/ \E n \in Nodes : PrepareNode(n)
           \/ Steers
           \/ \E n \in Nodes : ActivateNode(n) \/ CoordinatedRollback(n) \/ OperatorRollback(n)
           \/ \E r \in Builds : PrimaryRecovery(r)
           \/ Migrates
           \/ UNCHANGED rolloutVars
<1>1. ASSUME MigrationControllers \/ MigrationAccidents,
             UNCHANGED <<commitOf, orchestratorVars, nodeVars, gateVars, spent>>
      PROVE  Migrates
  BY <1>1, ContainersMove DEF Migrates
<1> QED
  BY <1>1 DEF RolloutNext, Orchestrator, Steers

-----------------------------------------------------------------------------
(* What is built. *)

BuiltInv == Unbuilt /\ OnlyBuilt /\ CommitsGrow

LEMMA BuiltHolds ==
    ASSUME RolloutTypes, RolloutTypes', BuiltInv, [RolloutNext]_rolloutVars
    PROVE  BuiltInv'
<1>1. /\ rollout \in Builds /\ Builds \subseteq Nat /\ NoBuild \notin Builds
      /\ currentRelease \in [Nodes -> Builds]
      /\ standby \in StandbyRecords /\ PrimaryNames \subseteq MaybeBuild
      /\ MaybeBuild \ {NoBuild} \subseteq Builds
      /\ commitOf \in [Builds -> Commits] /\ Commits \subseteq Nat
      /\ Nodes = {"primary", "standby"}
  <2>1. PrimaryNames \subseteq MaybeBuild
    BY PrimaryIsTyped DEF PrimaryNames
  <2>2. Commits \subseteq Nat
    BY MigrationAssumption DEF Commits
  <2> QED
    BY <2>1, <2>2, RolloutAssumption, BuildsAreNumbers, PrimaryIsTyped
    DEF RolloutTypes, RolloutTypeOK, MigrationTypeOK, StandbyRecords
<1>2. UNCHANGED <<commitOf, rollout>> => CommitsGrow'
  BY DEF BuiltInv, CommitsGrow
<1>3. UNCHANGED <<currentRelease, standby, primary, rollout>> => OnlyBuilt'
  BY DEF BuiltInv, OnlyBuilt, PrimaryNames
<1>4. ASSUME NEW c \in Commits, StartRollout(c)
      PROVE  BuiltInv'
  <2>1. /\ rollout' = rollout + 1 /\ c >= commitOf[rollout]
        /\ commitOf' = [commitOf EXCEPT ![rollout + 1] = c]
        /\ rollout + 1 \in Builds
        /\ UNCHANGED <<migrationVars, nodeVars, gateVars>>
    BY <1>1, <1>4, MigrationAssumption DEF StartRollout, Builds
  <2>2. Unbuilt'
    <3>1. UNCHANGED <<prepared, migrationJob, worker, reconciled>>
      BY <2>1 DEF migrationVars, containerVars, nodeVars, gateVars
    <3>2. \A r \in Builds : (r > rollout + 1 => r > rollout) /\ (r <= rollout => r <= rollout + 1)
      BY <1>1
    <3>3. reconciled \subseteq Builds
      BY DEF RolloutTypes, RolloutTypeOK
    <3> QED
      BY <2>1, <3>1, <3>2, <3>3 DEF BuiltInv, Unbuilt
  <2>3. OnlyBuilt'
    <3>1. UNCHANGED <<currentRelease, standby>> /\ PrimaryNames' = PrimaryNames
      BY <2>1 DEF nodeVars, PrimaryNames
    <3>2. \A r \in Builds : r <= rollout => r <= rollout + 1
      BY <1>1
    <3> QED
      BY <1>1, <2>1, <3>1, <3>2 DEF BuiltInv, OnlyBuilt
  <2>4. CommitsGrow'
    <3>1. ASSUME NEW q \in Builds, q <= rollout + 1
          PROVE  commitOf'[q] <= c
      <4>1. CASE q = rollout + 1
        BY <1>1, <2>1, <4>1
      <4>2. CASE q # rollout + 1
        <5>1. q <= rollout /\ commitOf'[q] = commitOf[q]
          BY <1>1, <2>1, <3>1, <4>2
        <5>2. commitOf[q] <= commitOf[rollout]
          BY <5>1 DEF BuiltInv, CommitsGrow
        <5>3. commitOf[q] \in Nat /\ commitOf[rollout] \in Nat /\ c \in Nat
          BY <1>1
        <5> QED
          BY <2>1, <5>1, <5>2, <5>3
      <4> QED
        BY <4>1, <4>2
    <3>2. commitOf'[rollout + 1] = c
      BY <1>1, <2>1
    <3> QED
      BY <2>1, <3>1, <3>2 DEF CommitsGrow
  <2> QED
    BY <2>2, <2>3, <2>4 DEF BuiltInv
<1>5. ASSUME NEW n \in Nodes, PrepareNode(n)
      PROVE  BuiltInv'
  <2>1. /\ PreparingFrame
        /\ NeedsNothing(n) \/ BecomesReady(n) \/ FailsToPrepare(n)
    BY <1>5, PreparingHasThreeEnds
  <2>2. Unbuilt'
    BY <1>1, <2>1 DEF BuiltInv, Unbuilt, PreparingFrame, NeedsNothing, BecomesReady, FailsToPrepare,
                      PreparedAt, migrationVars, containerVars, gateVars
  <2>3. \A s \in Slots : standby'.named[s] = standby.named[s]
    BY <1>1, <2>1 DEF NeedsNothing, BecomesReady, FailsToPrepare, StandbyPlaces
  <2>4. OnlyBuilt'
    <3>1. PrimaryNames' = PrimaryNames
      BY <2>1 DEF PrimaryNames, PreparingFrame
    <3> QED
      BY <1>1, <2>1, <2>3, <3>1 DEF BuiltInv, OnlyBuilt, PreparingFrame
  <2> QED
    BY <1>2, <2>1, <2>2, <2>4 DEF BuiltInv, PreparingFrame
<1>6. CASE Steers
  <2>1. UNCHANGED <<commitOf, rollout, nodeVars>>
    BY <1>6, SteeringSparesTheNodes
  <2>2. Unbuilt'
    <3>1. CASE RecoverStandby
      <4>1. Reseeds(rollout) /\ reconciled' = reconciled
        BY <3>1, RecoveryReseeds DEF RecoverStandby
      <4> QED
        BY <1>1, <2>1, <4>1 DEF BuiltInv, Unbuilt, Reseeds, nodeVars
    <3>2. CASE ~RecoverStandby
      <4>1. UNCHANGED migrationJob
        BY <1>6, <3>2, SteeringSparesTheNodes
      <4>2. UNCHANGED worker \/ \E n \in Nodes : StartMigration(n, rollout)
        BY <1>1, <1>6, <3>2
        DEF Steers, DecidePhases, StandbySchemaReady, PrimaryDataReady, ReconcileStandby,
            GiveUpWaiting, DecideActivation, DecideRollback, FinishRollout, OrchestratorDies,
            PreparedStatus, migrationVars, containerVars
      <4>3. \A n \in Nodes, r \in Builds : r > rollout => worker'[n][r] = worker[n][r]
        BY <1>1, <4>2, StartingIsLocal DEF WorkerIs
      <4>4. reconciled' \subseteq reconciled \union {rollout}
        BY <1>6, <3>2
        DEF Steers, DecidePhases, StandbySchemaReady, PrimaryDataReady, ReconcileStandby,
            GiveUpWaiting, DecideActivation, DecideRollback, FinishRollout, OrchestratorDies,
            PreparedStatus, gateVars
      <4> QED
        BY <1>1, <2>1, <4>1, <4>3, <4>4 DEF BuiltInv, Unbuilt, nodeVars
    <3> QED
      BY <3>1, <3>2
  <2> QED
    BY <1>2, <1>3, <2>1, <2>2 DEF BuiltInv, nodeVars
<1>7. ASSUME NEW n \in Nodes, NEW r \in Builds, MovesTraffic(n, r)
      PROVE  BuiltInv'
  <2>1. UNCHANGED <<commitOf, rollout, migrationVars, gateVars>>
    BY <1>7 DEF MovesTraffic
  <2>2. Unbuilt'
    <3>1. /\ prepared' = prepared \/ PreparedAt(n, r, Unprepared)
          /\ UNCHANGED <<migrationJob, worker, reconciled>>
      BY <1>7 DEF MovesTraffic, StandbyRestores, StandbyGoesBack, migrationVars, containerVars,
                  gateVars, nodeVars
    <3> QED
      BY <2>1, <3>1 DEF BuiltInv, Unbuilt, PreparedAt
  <2>3. OnlyBuilt'
    <3>1. CandidateRuns(n, r) => r <= rollout
      BY <1>1 DEF BuiltInv, Unbuilt, CandidateRuns
    <3>2. UNCHANGED nodeVars => OnlyBuilt'
      BY <1>3, <2>1 DEF nodeVars
    <3>3. CASE n = "standby" /\ ~UNCHANGED nodeVars
      <4>1. /\ primary' = primary /\ currentRelease'["primary"] = currentRelease["primary"]
            /\ standby' \in StandbyRecords
        BY <1>1, <1>7, <3>3 DEF MovesTraffic, StandbyTakes, StandbyRestores, StandbyGoesBack
      <4>2. PrimaryNames' = PrimaryNames
        BY <4>1 DEF PrimaryNames
      <4>3. OtherSlot(standby.active) \in Slots
        BY <1>1, TwoSlots DEF StandbyRecords
      <4>4. StandbyGoesBack => GoesBackTo("standby") <= rollout /\ GoesBackTo("standby") \in Builds
        BY <1>1, <4>3 DEF StandbyGoesBack, GoesBackTo, BuiltInv, OnlyBuilt
      <4>5. currentRelease'["standby"] <= rollout
        BY <1>1, <1>7, <3>1, <3>3, <4>4
        DEF MovesTraffic, StandbyTakes, StandbyRestores, StandbyGoesBack, BuiltInv, OnlyBuilt
      <4>6. \A s \in Slots : standby'.named[s] \in Builds => standby'.named[s] <= rollout
        BY <1>1, <1>7, <3>1, <3>3
        DEF MovesTraffic, StandbyTakes, StandbyRestores, StandbyGoesBack, BuiltInv, OnlyBuilt
      <4> QED
        BY <2>1, <4>2, <4>5, <4>6 DEF BuiltInv, OnlyBuilt
    <3>4. CASE n = "primary" /\ ~UNCHANGED nodeVars
      <4>1. /\ UNCHANGED standby /\ currentRelease'["standby"] = currentRelease["standby"]
            /\ \/ PrimaryNames' \subseteq PrimaryNames \union {r, NoBuild} /\ r <= rollout
               \/ PrimaryNames' \subseteq PrimaryNames \union {NoBuild}
        BY <1>7, <3>1, <3>4 DEF MovesTraffic, PrimaryMoves
      <4> QED
        BY <2>1, <4>1 DEF BuiltInv, OnlyBuilt
    <3> QED
      BY <1>1, <3>2, <3>3, <3>4
  <2> QED
    BY <1>2, <2>1, <2>2, <2>3 DEF BuiltInv
<1>8. CASE Migrates
  <2>1. UNCHANGED <<commitOf, rollout, nodeVars, reconciled>>
    BY <1>8 DEF Migrates, orchestratorVars, gateVars
  <2>2. Unbuilt'
    BY <1>1, <1>8, <2>1 DEF BuiltInv, Unbuilt, Migrates, ReplicateCursor, ContainerMoves, containerVars,
                      WorkerIs, StatusIs, nodeVars
  <2> QED
    BY <1>2, <1>3, <2>1, <2>2 DEF BuiltInv, nodeVars
<1>9. CASE UNCHANGED rolloutVars
  BY <1>2, <1>3, <1>9 DEF BuiltInv, Unbuilt, rolloutVars, orchestratorVars, nodeVars, gateVars,
                          migrationVars, containerVars
<1>10. "primary" \in Nodes
  BY <1>1
<1> QED
  BY <1>1, <1>4, <1>5, <1>6, <1>7, <1>8, <1>9, <1>10, KindsOfStep, TrafficMoves

-----------------------------------------------------------------------------
(* The records of the nodes. *)

RecordsInv ==
    /\ NotYetThere /\ NotYetPrepared /\ StandbyAgrees /\ CandidateIsApart
    /\ SlotsAgree /\ AwaitedOnce /\ PrimaryAgrees

(* As long as the script does not go backwards, what the standby's records    *)
(* satisfy holds until they change.                                           *)
LEMMA StandbyUntouched ==
    ASSUME RecordsInv, UNCHANGED <<rollout, standby>>,
           currentRelease'["standby"] = currentRelease["standby"],
           prepared'["standby"][rollout] = prepared["standby"][rollout],
           Pending' => Pending, GoingBack' => GoingBack,
           phase' = "preparing" => phase = "preparing" /\ awaiting' \subseteq awaiting,
           AwaitedOnce', PrimaryAgrees'
    PROVE  RecordsInv'
<1>1. /\ CanRollBack("standby")' = CanRollBack("standby")
      /\ HoldsCandidate(OtherSlot(standby.active))' = HoldsCandidate(OtherSlot(standby.active))
  BY DEF CanRollBack, HoldsCandidate
<1>2. NotYetThere' /\ NotYetPrepared' /\ StandbyAgrees' /\ CandidateIsApart'
  <2> HIDE DEF Pending
  <2> QED
    BY DEF RecordsInv, NotYetThere, NotYetPrepared, StandbyAgrees, CandidateIsApart
<1>3. SlotsAgree'
  BY <1>1 DEF RecordsInv, SlotsAgree
<1> QED
  BY <1>2, <1>3 DEF RecordsInv

(* The script reaches a later phase with what it had, or ends. *)
LEMMA SteeringGoesOn ==
    ASSUME RolloutTypes, AwaitedOnce, Steers
    PROVE  /\ Pending' => Pending
           /\ GoingBack' => GoingBack
           /\ phase' # "preparing"
           /\ AwaitedOnce'
<1> USE DEF EnterPhase, EndRollout, BeforeTraffic, Pending, GoingBack, AwaitedOnce
<1>1. CASE DecidePhases
  BY <1>1 DEF DecidePhases
<1>2. CASE StandbySchemaReady
  BY <1>2 DEF StandbySchemaReady
<1>3. CASE RecoverStandby
  BY <1>3 DEF RecoverStandby, orchestratorVars
<1>4. CASE PrimaryDataReady
  BY <1>4 DEF PrimaryDataReady
<1>5. CASE ReconcileStandby
  BY <1>5 DEF ReconcileStandby
<1>6. CASE GiveUpWaiting
  BY <1>6 DEF GiveUpWaiting
<1>7. CASE DecideActivation
  BY <1>7 DEF DecideActivation
<1>8. CASE DecideRollback
  BY <1>8 DEF DecideRollback
<1>9. CASE FinishRollout
  BY <1>9 DEF FinishRollout
<1>10. CASE OrchestratorDies
  BY <1>10 DEF OrchestratorDies
<1>11. ASSUME NEW n \in Nodes, PreparedStatus(n)
       PROVE  /\ Pending' => Pending
              /\ GoingBack' => GoingBack
              /\ phase' # "preparing"
              /\ AwaitedOnce'
  BY <1>11 DEF PreparedStatus
<1> QED
  BY <1>1, <1>2, <1>3, <1>4, <1>5, <1>6, <1>7, <1>8, <1>9, <1>10, <1>11 DEF Steers

LEMMA PrimaryCommandsKeepRecords ==
    ASSUME RolloutTypes, RecordsInv, NEW r \in Builds, MovesTraffic("primary", r),
           Pending' => Pending, GoingBack' => GoingBack, UNCHANGED phase,
           awaiting' \subseteq awaiting, AwaitedOnce'
    PROVE  RecordsInv'
<1>1. /\ rollout \in Builds /\ Nodes = {"primary", "standby"} /\ "primary" # "standby"
      /\ rollout' = rollout
  BY DEF RolloutTypes, RolloutTypeOK, Nodes, MovesTraffic
<1>2. /\ UNCHANGED standby
      /\ currentRelease'["standby"] = currentRelease["standby"]
      /\ PrimaryAgrees'
  BY <1>1 DEF MovesTraffic, PrimaryMoves, RecordsInv, nodeVars, PrimaryAgrees
<1>3. prepared'["standby"][rollout] = prepared["standby"][rollout]
  BY <1>1 DEF MovesTraffic, PreparedAt, nodeVars
<1> QED
  BY <1>1, <1>2, <1>3, StandbyUntouched

(* What the records of the standby have in common. *)
LEMMA StandbyPlacesAndNames ==
    ASSUME RolloutTypes
    PROVE  /\ rollout \in Builds /\ currentRelease \in [Nodes -> Builds]
           /\ standby \in StandbyRecords /\ prepared \in Preparations
           /\ "standby" \in Nodes /\ NoBuild \notin Builds
           /\ standby.active \in Slots /\ OtherSlot(standby.active) \in Slots
           /\ OtherSlot(standby.active) # standby.active
           /\ OtherSlot(OtherSlot(standby.active)) = standby.active
<1>1. /\ rollout \in Builds /\ currentRelease \in [Nodes -> Builds]
      /\ standby \in StandbyRecords /\ prepared \in Preparations
      /\ "standby" \in Nodes /\ NoBuild \notin Builds
  BY RolloutAssumption
  DEF RolloutTypes, RolloutTypeOK, StandbyRecords, Preparations, Nodes
<1>2. standby.active \in Slots
  BY <1>1 DEF StandbyRecords
<1> QED
  BY <1>1, <1>2, TwoSlots

(* An activation of the standby ends what was pending there. *)
LEMMA StandbyActivationKeepsRecords ==
    ASSUME RolloutTypes, RecordsInv, ActivateNode("standby")
    PROVE  RecordsInv'
<1> DEFINE made == prepared["standby"][rollout]
<1>1. /\ phase = "activating" /\ "standby" \in awaiting /\ awaiting' = awaiting \ {"standby"}
      /\ UNCHANGED <<rollout, phase>>
      /\ "standby" \notin succeeded
  BY DEF ActivateNode, RecordsInv, AwaitedOnce
<1>2. \/ /\ CandidateRuns("standby", rollout) /\ StandbyTakes(rollout)
         /\ succeeded' \in {succeeded, succeeded \union {"standby"}}
      \/ /\ CandidateRuns("standby", rollout) /\ StandbyRestores(rollout)
         /\ UNCHANGED succeeded
      \/ UNCHANGED nodeVars /\ UNCHANGED succeeded
  <2>1. \/ /\ CandidateRuns("standby", rollout) /\ SwitchStandby(rollout)
           /\ succeeded' \in {succeeded, succeeded \union {"standby"}}
        \/ /\ CandidateRuns("standby", rollout) /\ RestoreTraffic("standby", rollout)
           /\ UNCHANGED <<prepared, succeeded>>
        \/ UNCHANGED nodeVars /\ UNCHANGED succeeded
    BY Zenon DEF ActivateNode, TakeTraffic
  <2> QED
    BY <2>1, StandbyPlacesAndNames, StandbySwitches, StandbyReturns
<1>3. ~Pending' /\ Pending
  BY <1>1 DEF Pending, BeforeTraffic
<1>4. NotYetThere' /\ NotYetPrepared' /\ CandidateIsApart'
  <2> HIDE DEF Pending
  <2> QED
    BY <1>1, <1>3 DEF NotYetThere, NotYetPrepared, CandidateIsApart
<1>5. AwaitedOnce'
  BY <1>1, <1>2 DEF RecordsInv, AwaitedOnce
<1>6. GoingBack' => "standby" \in succeeded'
  BY <1>1 DEF GoingBack
<1>7. PrimaryAgrees'
  <2>1. primary' = primary /\ currentRelease'["primary"] = currentRelease["primary"]
        /\ primaryPast' = primaryPast
    <3>1. currentRelease \in [Nodes -> Builds] /\ "primary" \in Nodes
      BY StandbyPlacesAndNames DEF Nodes
    <3>2. StandbyTakes(rollout) =>
              /\ primary' = primary /\ primaryPast' = primaryPast
              /\ currentRelease' = [currentRelease EXCEPT !["standby"] = rollout]
      BY DEF StandbyTakes
    <3>3. StandbyRestores(rollout) \/ UNCHANGED nodeVars =>
              UNCHANGED <<primary, primaryPast, currentRelease>>
      BY DEF StandbyRestores, nodeVars
    <3> QED
      BY <1>2, <3>1, <3>2, <3>3
  <2> QED
    BY <2>1 DEF RecordsInv, PrimaryAgrees
<1>8. CandidateRuns("standby", rollout) =>
          /\ made # Unprepared /\ made.before = OtherSlot(made.slot)
          /\ standby.runs[made.slot] = rollout /\ standby.active = made.before
  BY <1>3 DEF RecordsInv, CandidateIsApart, CandidateRuns
<1>9. CASE CandidateRuns("standby", rollout) /\ StandbyTakes(rollout)
  <2>1. /\ made.slot \in Slots /\ made.before = OtherSlot(made.slot)
        /\ standby.runs[made.slot] = rollout /\ standby.active = made.before
        /\ standby'.upstream = made.slot /\ standby'.active = made.slot
        /\ \A s \in Slots : /\ standby'.runs[s] = standby.runs[s]
                            /\ standby'.named[s] = IF s = made.slot THEN rollout
                                                   ELSE standby.named[s]
        /\ currentRelease'["standby"] = rollout
    BY <1>8, <1>9, StandbyPlacesAndNames DEF StandbyTakes
  <2>2. StandbyAgrees'
    BY <2>1 DEF StandbyAgrees
  <2>3. OtherSlot(made.slot) \in Slots /\ OtherSlot(made.slot) # made.slot
    BY <2>1, TwoSlots
  <2>4. ~HoldsCandidate(OtherSlot(standby.active))'
    BY <2>1, <2>3 DEF HoldsCandidate, RecordsInv, StandbyAgrees
  <2> QED
    BY <1>4, <1>5, <1>7, <2>2, <2>4 DEF RecordsInv, SlotsAgree
<1>10. CASE CandidateRuns("standby", rollout) /\ StandbyRestores(rollout) /\ UNCHANGED succeeded
  <2>1. StandbyAgrees'
    BY <1>8, <1>10 DEF StandbyRestores, StandbyAgrees, RecordsInv
  <2>2. ~GoingBack'
    BY <1>1, <1>6, <1>10
  <2> QED
    BY <1>4, <1>5, <1>7, <2>1, <2>2 DEF RecordsInv, SlotsAgree
<1>11. CASE UNCHANGED nodeVars /\ UNCHANGED succeeded
  <2>1. StandbyAgrees'
    BY <1>11 DEF nodeVars, StandbyAgrees, RecordsInv
  <2>2. ~GoingBack'
    BY <1>1, <1>6, <1>11
  <2> QED
    BY <1>4, <1>5, <1>7, <2>1, <2>2 DEF RecordsInv, SlotsAgree
<1> QED
  BY <1>2, <1>9, <1>10, <1>11

(* A rollback of the standby ends in a slot that runs what it is named after. *)
LEMMA StandbyRollbackKeepsRecords ==
    ASSUME RolloutTypes, RecordsInv, StandbyGoesBack, UNCHANGED <<rollout, phase>>,
           ~HoldsCandidate(OtherSlot(standby.active)),
           Pending' => Pending, phase' = "preparing" => UNCHANGED awaiting, AwaitedOnce'
    PROVE  RecordsInv'
<1> DEFINE other == OtherSlot(standby.active)
<1>1. /\ standby'.upstream = other /\ standby'.active = other
      /\ standby'.runs = standby.runs /\ standby'.named = standby.named
      /\ currentRelease'["standby"] = standby.named[other]
      /\ UNCHANGED <<prepared, primary, primaryPast>>
      /\ currentRelease'["primary"] = currentRelease["primary"]
  BY StandbyPlacesAndNames DEF StandbyGoesBack, GoesBackTo
<1>2. standby.runs[other] = standby.named[other]
  BY DEF HoldsCandidate
<1>3. StandbyAgrees'
  BY <1>1, <1>2 DEF StandbyAgrees
<1>4. PrimaryAgrees'
  BY <1>1 DEF RecordsInv, PrimaryAgrees
<1>5. NotYetThere' /\ NotYetPrepared'
  <2> HIDE DEF Pending
  <2> QED
    BY <1>1 DEF RecordsInv, NotYetThere, NotYetPrepared
<1>6. CandidateIsApart'
  <2> SUFFICES ASSUME Pending, prepared["standby"][rollout] # Unprepared
               PROVE  FALSE
    BY <1>1 DEF CandidateIsApart
  <2>1. LET made == prepared["standby"][rollout] IN
        /\ made.before = OtherSlot(made.slot) /\ standby.runs[made.slot] = rollout
        /\ standby.active = made.before /\ made.slot \in Slots
    <3>1. prepared["standby"][rollout] \in Ready
      BY StandbyPlacesAndNames DEF Preparations
    <3> QED
      BY <3>1 DEF RecordsInv, CandidateIsApart, Ready
  <2>2. prepared["standby"][rollout].slot = other
    BY <2>1, TwoSlots
  <2>3. standby.named[other] = rollout /\ other \in Slots
    BY <1>2, <2>1, <2>2, StandbyPlacesAndNames
  <2> QED
    BY <2>3 DEF RecordsInv, NotYetThere
<1>7. SlotsAgree'
  <2>1. ~HoldsCandidate(OtherSlot(standby.active))'
    BY <1>1, StandbyPlacesAndNames DEF HoldsCandidate, RecordsInv, StandbyAgrees
  <2> QED
    BY <2>1 DEF SlotsAgree
<1> QED
  BY <1>3, <1>4, <1>5, <1>6, <1>7 DEF RecordsInv

LEMMA RecordsHold ==
    ASSUME RolloutTypes, BuiltInv, RecordsInv, RollbackCandidates = FALSE,
           [RolloutNext]_rolloutVars
    PROVE  RecordsInv'
<1>1. /\ rollout \in Builds /\ currentRelease \in [Nodes -> Builds] /\ Builds \subseteq Nat
      /\ standby \in StandbyRecords /\ prepared \in Preparations
      /\ NoBuild \notin Builds /\ Nodes = {"primary", "standby"}
  BY BuildsAreNumbers, StandbyPlacesAndNames DEF Nodes
<1>2. ASSUME NEW c \in Commits, StartRollout(c)
      PROVE  RecordsInv'
  <2>1. /\ rollout' = rollout + 1 /\ rollout + 1 \in Builds /\ phase' = "preparing"
        /\ UNCHANGED <<currentRelease, prepared, standby, primary, primaryPast>>
    BY <1>1, <1>2, MigrationAssumption DEF StartRollout, EnterPhase, nodeVars, Builds
  <2>2. /\ \A s \in Slots : standby.named[s] # rollout + 1
        /\ prepared["standby"][rollout + 1] = Unprepared
    BY <1>1, <2>1 DEF BuiltInv, OnlyBuilt, Unbuilt
  <2>3. NotYetThere' /\ NotYetPrepared' /\ CandidateIsApart'
    BY <2>1, <2>2 DEF NotYetThere, NotYetPrepared, CandidateIsApart
  <2>4. StandbyAgrees' /\ PrimaryAgrees'
    BY <2>1 DEF RecordsInv, StandbyAgrees, PrimaryAgrees
  <2>5. SlotsAgree' /\ AwaitedOnce'
    BY <2>1 DEF SlotsAgree, GoingBack, AwaitedOnce
  <2> QED
    BY <2>3, <2>4, <2>5 DEF RecordsInv
<1>3. ASSUME NEW n \in Nodes, PrepareNode(n)
      PROVE  RecordsInv'
  <2>1. /\ phase = "preparing" /\ n \in awaiting /\ awaiting' = awaiting \ {n}
        /\ PreparingFrame
        /\ NeedsNothing(n) \/ BecomesReady(n) \/ FailsToPrepare(n)
    BY <1>3, PreparingHasThreeEnds
  <2>2. UNCHANGED <<rollout, phase, currentRelease, primary, primaryPast>>
    BY <2>1 DEF PreparingFrame
  <2>3. PrimaryAgrees' /\ SlotsAgree' /\ AwaitedOnce'
    BY <2>1, <2>2 DEF RecordsInv, PrimaryAgrees, SlotsAgree, GoingBack, AwaitedOnce
  <2>4. \A s \in Slots : standby'.named[s] = standby.named[s]
    BY <1>1, <2>1 DEF NeedsNothing, BecomesReady, FailsToPrepare, StandbyPlaces
  <2>5. NotYetThere'
    BY <2>1, <2>2, <2>4 DEF RecordsInv, NotYetThere, Pending, BeforeTraffic
  <2>6. CASE n = "primary"
    <3>1. standby' = standby /\ prepared'["standby"][rollout] = prepared["standby"][rollout]
      BY <1>1, <2>1, <2>6 DEF NeedsNothing, BecomesReady, FailsToPrepare, PreparedAt
    <3>2. Pending' => Pending
      BY <2>1 DEF Pending, BeforeTraffic
    <3>3. StandbyAgrees' /\ CandidateIsApart' /\ NotYetPrepared'
      <4> HIDE DEF Pending
      <4> QED
        BY <2>1, <2>2, <3>1, <3>2 DEF RecordsInv, StandbyAgrees, CandidateIsApart, NotYetPrepared
    <3> QED
      BY <2>3, <2>5, <3>3 DEF RecordsInv
  <2>7. CASE n = "standby"
    <3> DEFINE slot == OtherSlot(standby.active)
    <3>1. prepared["standby"][rollout] = Unprepared /\ "standby" \notin awaiting'
      BY <2>1, <2>7 DEF RecordsInv, NotYetPrepared
    <3>2. /\ slot \in Slots /\ slot # standby.active /\ OtherSlot(slot) = standby.active
          /\ standby.active \in Slots
      BY StandbyPlacesAndNames
    <3>3. NotYetPrepared'
      BY <3>1 DEF NotYetPrepared
    <3>4. /\ standby'.upstream = standby.upstream /\ standby'.active = standby.active
          /\ \A s \in Slots : s # slot => standby'.runs[s] = standby.runs[s]
      BY <2>1, <2>7 DEF NeedsNothing, BecomesReady, FailsToPrepare, StandbyPlaces
    <3>5. StandbyAgrees'
      BY <1>1, <2>2, <2>4, <3>2, <3>4 DEF RecordsInv, StandbyAgrees
    <3>6. CandidateIsApart'
      <4>1. CASE BecomesReady(n)
        <5>1. /\ prepared'["standby"][rollout].slot = slot
              /\ prepared'["standby"][rollout].before = standby.active
          BY <1>1, <2>7, <4>1 DEF BecomesReady, PreparedAt
        <5>2. standby'.runs[slot] = rollout
          BY <2>7, <3>2, <4>1 DEF BecomesReady, StandbyPlaces
        <5> QED
          BY <2>2, <3>2, <3>4, <5>1, <5>2 DEF CandidateIsApart
      <4>2. CASE ~BecomesReady(n)
        <5>1. prepared' = prepared
          BY <2>1, <4>2 DEF NeedsNothing, FailsToPrepare
        <5> QED
          BY <2>2, <3>1, <5>1 DEF CandidateIsApart
      <4> QED
        BY <4>1, <4>2
    <3> QED
      BY <2>3, <2>5, <3>3, <3>5, <3>6 DEF RecordsInv
  <2> QED
    BY <1>1, <2>6, <2>7
<1>4. CASE Steers
  <2>1. UNCHANGED <<rollout, nodeVars>>
    BY <1>4, SteeringSparesTheNodes
  <2>2. PrimaryAgrees'
    BY <2>1 DEF RecordsInv, PrimaryAgrees, nodeVars
  <2>3. AwaitedOnce
    BY DEF RecordsInv
  <2> QED
    BY <1>4, <2>1, <2>2, <2>3, SteeringGoesOn, StandbyUntouched DEF nodeVars
<1>5. ASSUME NEW n \in Nodes, ActivateNode(n)
      PROVE  RecordsInv'
  <2>1. CASE n = "standby"
    BY <1>5, <2>1, StandbyActivationKeepsRecords
  <2>2. CASE n = "primary"
    <3>1. /\ phase = "activating" /\ UNCHANGED phase /\ awaiting' = awaiting \ {"primary"}
          /\ succeeded' \in {succeeded, succeeded \union {"primary"}}
      BY <1>5, <2>2 DEF ActivateNode
    <3>2. /\ Pending' => Pending
          /\ GoingBack' => GoingBack
          /\ AwaitedOnce'
      BY <3>1 DEF Pending, GoingBack, BeforeTraffic, AwaitedOnce, RecordsInv
    <3>3. MovesTraffic("primary", rollout)
      BY <1>5, <2>2, TrafficMoves
    <3> QED
      BY <1>1, <3>1, <3>2, <3>3, PrimaryCommandsKeepRecords
  <2> QED
    BY <1>1, <2>1, <2>2
<1>6. ASSUME NEW n \in Nodes, CoordinatedRollback(n)
      PROVE  RecordsInv'
  <2>1. /\ phase = "rolling_back" /\ UNCHANGED <<phase, rollout>> /\ n \in awaiting
        /\ awaiting' = awaiting \ {n}
    BY <1>6 DEF CoordinatedRollback
  <2>2. /\ ~Pending'
        /\ GoingBack' => GoingBack
        /\ AwaitedOnce'
    BY <2>1 DEF Pending, GoingBack, BeforeTraffic, AwaitedOnce
  <2>3. CASE n = "standby"
    <3>1. RollBack("standby") \/ UNCHANGED nodeVars
      BY <1>6, <2>3 DEF CoordinatedRollback
    <3>2. CASE RollBack("standby")
      <4>1. StandbyGoesBack
        BY <3>2, StandbyReturns
      <4>2. ~HoldsCandidate(OtherSlot(standby.active))
        BY <2>1, <2>3, <4>1 DEF RecordsInv, SlotsAgree, GoingBack, StandbyGoesBack
      <4> QED
        BY <2>1, <2>2, <4>1, <4>2, StandbyRollbackKeepsRecords
    <3>3. CASE UNCHANGED nodeVars
      <4>1. PrimaryAgrees'
        BY <3>3 DEF RecordsInv, PrimaryAgrees, nodeVars
      <4> QED
        BY <2>1, <2>2, <3>3, <4>1, StandbyUntouched DEF nodeVars
    <3> QED
      BY <3>1, <3>2, <3>3
  <2>4. CASE n = "primary"
    <3>1. MovesTraffic("primary", rollout)
      BY <1>6, <2>4, TrafficMoves
    <3> QED
      BY <1>1, <2>1, <2>2, <3>1, PrimaryCommandsKeepRecords
  <2> QED
    BY <1>1, <2>3, <2>4
<1>7. ASSUME UNCHANGED orchestratorVars
      PROVE  /\ UNCHANGED <<rollout, phase, awaiting, succeeded>>
             /\ Pending' = Pending /\ GoingBack' = GoingBack /\ AwaitedOnce'
  BY <1>7 DEF orchestratorVars, Pending, GoingBack, AwaitedOnce, RecordsInv
<1>8. ASSUME NEW n \in Nodes, OperatorRollback(n)
      PROVE  RecordsInv'
  <2>1. UNCHANGED orchestratorVars
    BY <1>8 DEF OperatorRollback
  <2>2. CASE n = "standby"
    <3>1. RollBack("standby") /\ ~HoldsCandidate(OtherSlot(standby.active))
      BY <1>8, <2>2, RollbackCandidates = FALSE DEF OperatorRollback
    <3> QED
      BY <1>1, <1>7, <2>1, <3>1, StandbyReturns, StandbyRollbackKeepsRecords
  <2>3. CASE n = "primary"
    BY <1>1, <1>7, <1>8, <2>1, <2>3, TrafficMoves, PrimaryCommandsKeepRecords
  <2> QED
    BY <1>1, <2>2, <2>3
<1>9. ASSUME NEW r \in Builds, PrimaryRecovery(r)
      PROVE  RecordsInv'
  <2>1. UNCHANGED orchestratorVars /\ MovesTraffic("primary", r)
    BY <1>1, <1>9, TrafficMoves DEF PrimaryRecovery
  <2> QED
    BY <1>1, <1>7, <2>1, PrimaryCommandsKeepRecords
<1>10. CASE Migrates \/ UNCHANGED rolloutVars
  <2>1. UNCHANGED <<orchestratorVars, nodeVars>>
    BY <1>10 DEF Migrates, rolloutVars
  <2>2. PrimaryAgrees'
    BY <2>1 DEF RecordsInv, PrimaryAgrees, nodeVars
  <2> QED
    BY <1>1, <1>7, <2>1, <2>2, StandbyUntouched DEF nodeVars
<1> QED
  BY <1>2, <1>3, <1>4, <1>5, <1>6, <1>8, <1>9, <1>10, KindsOfStep

-----------------------------------------------------------------------------
(* The invariants so far, at the start. *)

LEMMA RolloutStarts ==
    ASSUME RolloutInit
    PROVE  RolloutTypes /\ BuiltInv /\ RecordsInv
<1> USE DEF RolloutInit, MigrationInit
<1>1. /\ 0 \in Builds /\ 0 \in Commits /\ Builds \subseteq Nat /\ NoBuild \notin Builds
      /\ FirstSlot \in Slots
  BY BuildsAreNumbers, TwoSlots, RolloutAssumption
<1>2. MigrationTypeOK /\ schema \in [Nodes -> Nat]
  BY <1>1, MigrationAssumption DEF MigrationTypeOK, JobStatuses
<1>3. Counted /\ \A s \in Spendings : spent[s] \in 0 .. Allowed[s]
  BY RolloutAssumption DEF Counted, Spendings, Allowed
<1>4. /\ standby \in StandbyRecords /\ primary \in PrimaryRecords
      /\ prepared \in Preparations /\ SavedWithPrevious /\ primaryPast \subseteq Pasts
  BY <1>1 DEF StandbyRecords, PrimaryRecords, Preparations, MaybeBuild, SavedWithPrevious
<1>5. plan \in [Nodes -> Plans]
  BY PlansAreTyped
<1>6. RolloutTypes
  BY <1>1, <1>2, <1>3, <1>4, <1>5
  DEF RolloutTypes, RolloutTypeOK, StandbyRecords, PrimaryRecords, Preparations, Phases
<1>7. BuiltInv
  <2>1. PrimaryNames = {0, NoBuild}
    BY DEF PrimaryNames, Nodes
  <2> QED
    BY <1>1, <2>1 DEF BuiltInv, Unbuilt, OnlyBuilt, CommitsGrow, Commits, Nodes
<1>8. standby.upstream = FirstSlot /\ standby.active = FirstSlot
  OBVIOUS
<1>9. OtherSlot(FirstSlot) \in Slots /\ OtherSlot(FirstSlot) # FirstSlot
  BY TwoSlots
<1>10. StandbyAgrees
  BY <1>1, <1>8, <1>9 DEF StandbyAgrees, Nodes
<1>11. PrimaryAgrees
  BY DEF PrimaryAgrees, Nodes
<1>12. ~Pending /\ ~GoingBack
  BY DEF Pending, GoingBack, BeforeTraffic
<1>13. RecordsInv
  BY <1>10, <1>11, <1>12
  DEF RecordsInv, NotYetThere, NotYetPrepared, CandidateIsApart, SlotsAgree, AwaitedOnce
<1> QED
  BY <1>6, <1>7, <1>13

(* What rolling-deploy and the two nodes keep has its types, whatever fails   *)
(* and whenever operators roll back: a rollback never restores an override    *)
(* that was not saved.                                                        *)
THEOREM RolloutTypeCorrect == RolloutSafety => []RolloutTypeOK
<1>1. RolloutInit => RolloutTypes
  BY RolloutStarts
<1>2. RolloutTypes /\ [RolloutNext]_rolloutVars => RolloutTypes'
  BY TypesHold
<1>3. RolloutTypes => RolloutTypeOK
  BY DEF RolloutTypes
<1> QED
  BY <1>1, <1>2, <1>3, PTL DEF RolloutSafety

RecordedInv == RolloutTypes /\ BuiltInv /\ RecordsInv

LEMMA RecordedIsInvariant ==
    ASSUME RollbackCandidates = FALSE
    PROVE  RolloutSafety => []RecordedInv
<1>1. RolloutInit => RecordedInv
  BY RolloutStarts DEF RecordedInv
<1>2. RecordedInv /\ [RolloutNext]_rolloutVars => RecordedInv'
  BY RollbackCandidates = FALSE, TypesHold, BuiltHolds, RecordsHold DEF RecordedInv
<1> QED
  BY <1>1, <1>2, PTL DEF RolloutSafety

(* Each node's CURRENT names the release whose code answers there, and the    *)
(* primary's manifest too, whichever command fails half way and whenever      *)
(* operators roll back, except on a primary whose compose up was stopped half *)
(* way, or which was rolled back twice in a row; as long as operators do not  *)
(* roll the standby back to a candidate.                                      *)
THEOREM RecordsNameTheServed ==
    ASSUME RollbackCandidates = FALSE
    PROVE  RolloutSafety => []RecordIsServed
<1>1. RecordedInv => RecordIsServed
  <2>1. StandbyAgrees => currentRelease["standby"] = ServedOn("standby")
    BY DEF ServedOn, StandbyAgrees
  <2>2. PrimaryAgrees => PrimaryIsRecorded
    BY DEF PrimaryAgrees, PrimaryIsRecorded
  <2> QED
    BY <2>1, <2>2 DEF RecordedInv, RecordsInv, RecordIsServed
<1>2. RolloutSafety => []RecordedInv
  BY RollbackCandidates = FALSE, RecordedIsInvariant
<1> QED
  BY <1>1, <1>2, PTL

(* A prepare never replaces the container of the slot that the standby's      *)
(* traffic goes to.                                                           *)
THEOREM LiveSlotsAreSpared ==
    ASSUME RollbackCandidates = FALSE
    PROVE  RolloutSafety => LiveSlotIsKept
<1> DEFINE Kept == \A s \in Slots : standby.upstream = s /\ standby'.upstream = s =>
                       standby'.runs[s] = standby.runs[s]
<1>1. RecordedInv /\ [RolloutNext]_rolloutVars => [Kept]_rolloutVars
  <2> SUFFICES ASSUME RecordedInv, [RolloutNext]_rolloutVars
               PROVE  Kept
    OBVIOUS
  <2> USE DEF RecordedInv
  <2>1. /\ standby.active \in Slots /\ standby.upstream = standby.active
        /\ rollout \in Builds /\ "primary" \in Nodes
    BY DEF RolloutTypes, RolloutTypeOK, RecordsInv, StandbyAgrees, Nodes
  <2>2. ASSUME NEW n \in Nodes, PrepareNode(n)
        PROVE  Kept
    <3>1. standby' = standby \/ StandbyPlaces(rollout) \/ StandbyPlaces(NoBuild)
      BY <2>2, PreparingHasThreeEnds DEF NeedsNothing, BecomesReady, FailsToPrepare
    <3> QED
      BY <2>1, <3>1, TwoSlots DEF StandbyPlaces
  <2>3. ASSUME NEW n \in Nodes, NEW r \in Builds, MovesTraffic(n, r)
        PROVE  Kept
    BY <2>3 DEF MovesTraffic, StandbyTakes, StandbyRestores, StandbyGoesBack, PrimaryMoves, nodeVars
  <2>4. Steers => Kept
    BY SteeringSparesTheNodes DEF nodeVars
  <2>5. (\E c \in Commits : StartRollout(c)) => Kept
    BY DEF StartRollout, nodeVars
  <2>6. Migrates \/ UNCHANGED rolloutVars => Kept
    BY DEF Migrates, rolloutVars, nodeVars
  <2> HIDE DEF Kept
  <2> QED
    BY <2>1, <2>2, <2>3, <2>4, <2>5, <2>6, KindsOfStep, TrafficMoves
<1>2. RolloutSafety => []RecordedInv
  BY RollbackCandidates = FALSE, RecordedIsInvariant
<1> QED
  BY <1>1, <1>2, PTL DEF RolloutSafety, LiveSlotIsKept

-----------------------------------------------------------------------------
(* Schema and code: what is safe on a node stays safe there. *)

LEMMA TargetsAreNumbers ==
    ASSUME RolloutTypes
    PROVE  /\ \A r \in Builds : Target(r) \in Nat
           /\ \A q, r \in Builds : commitOf[q] <= commitOf[r] => Target(q) <= Target(r)
           /\ schema["primary"] \in Nat /\ schema["standby"] \in Nat /\ replicated \in Nat
<1>1. commitOf \in [Builds -> Commits] /\ schema \in [Nodes -> Nat] /\ replicated \in Nat
  BY DEF RolloutTypes, RolloutTypeOK, MigrationTypeOK
<1>2. \A r \in Builds : commitOf[r] \in Commits
  BY <1>1
<1> QED
  BY <1>1, <1>2, HeadsAreOrdered DEF Target, Nodes

(* Neither a revision nor a controller begins. *)
SparesDatabases ==
    /\ UNCHANGED <<commitOf, schema, replica>>
    /\ \A n \in Nodes : AtWork(n)' \subseteq AtWork(n)

LEMMA ScriptSparesDatabases ==
    ASSUME RolloutTypes,
           \/ \E n \in Nodes : PrepareNode(n)
           \/ Steers /\ ~RecoverStandby
           \/ \E n \in Nodes, r \in Builds : MovesTraffic(n, r)
           \/ UNCHANGED rolloutVars
    PROVE  SparesDatabases /\ UNCHANGED <<migrationJob, replicated>>
<1> USE DEF migrationVars, databaseVars, containerVars
<1>1. UNCHANGED <<commitOf, migrationVars>> =>
          SparesDatabases /\ UNCHANGED <<migrationJob, replicated>>
  BY DEF SparesDatabases, AtWork
<1>2. CASE \E n \in Nodes : PrepareNode(n)
  BY <1>1, <1>2, PreparingHasThreeEnds DEF PreparingFrame
<1>3. CASE Steers /\ ~RecoverStandby
  <2>1. UNCHANGED <<commitOf, databaseVars, migrationJob>> /\ rollout \in Builds
    BY <1>3, SteeringSparesTheNodes DEF RolloutTypes, RolloutTypeOK
  <2>2. UNCHANGED worker \/ \E n \in Nodes : StartMigration(n, rollout)
    BY <1>3
    DEF Steers, DecidePhases, StandbySchemaReady, PrimaryDataReady, ReconcileStandby,
        GiveUpWaiting, DecideActivation, DecideRollback, FinishRollout, OrchestratorDies,
        PreparedStatus, Nodes
  <2>3. \A n \in Nodes : AtWork(n)' \subseteq AtWork(n)
    BY <2>1, <2>2, StartingIsLocal DEF WorkerIs, AtWork
  <2> QED
    BY <2>1, <2>3 DEF SparesDatabases
<1>4. CASE \E n \in Nodes, r \in Builds : MovesTraffic(n, r)
  BY <1>1, <1>4 DEF MovesTraffic
<1>5. CASE UNCHANGED rolloutVars
  BY <1>1, <1>5 DEF rolloutVars
<1> QED
  BY <1>2, <1>3, <1>4, <1>5

LEMMA SparingKeepsSafe ==
    ASSUME SparesDatabases, NEW n \in Nodes
    PROVE  Reached(n) \subseteq Reached(n)' /\ Safe(n) \subseteq Safe(n)'
<1>1. \A r \in Builds : Target(r)' = Target(r)
  BY DEF SparesDatabases, Target
<1>2. AtWork(n)' \subseteq AtWork(n) /\ schema' = schema /\ Lost(n)' = Lost(n)
  BY DEF SparesDatabases, Lost
<1>3. \A q \in AtWork(n)' : q \in AtWork(n) /\ Target(q)' = Target(q)
  BY <1>1, <1>2 DEF AtWork
<1>4. Reached(n) \subseteq Reached(n)'
  <2>1. ASSUME NEW r \in Reached(n)
        PROVE  /\ r \in Builds /\ Target(r)' <= schema'[n]
               /\ \A q \in AtWork(n)' : Target(r)' < Target(q)'
    BY <1>1, <1>2, <1>3 DEF Reached
  <2> QED
    BY <2>1 DEF Reached
<1> QED
  BY <1>1, <1>2, <1>4 DEF Safe

(* Controllers only climb, and one begins above all that was reached. *)
LEMMA ContainersKeepSafe ==
    ASSUME RolloutTypes, UNCHANGED <<commitOf, replica>>,
           NEW m \in Nodes, NEW q \in Builds, ContainerMoves(m, q)
    PROVE  /\ \A n \in Nodes : Reached(n) \subseteq Reached(n)' /\ Safe(n) \subseteq Safe(n)'
           /\ \A n \in Nodes : schema[n] <= schema'[n]
<1>1. \A r \in Builds : Target(r) \in Nat /\ Target(r)' = Target(r)
  BY TargetsAreNumbers DEF Target
<1>2. schema \in [Nodes -> Nat] /\ Nodes = {"primary", "standby"}
  BY DEF RolloutTypes, Nodes
<1>3. \A n \in Nodes : schema[n] <= schema'[n] /\ schema'[n] \in Nat /\ schema[n] \in Nat
  BY <1>2 DEF ContainerMoves
<1>4. \A n \in Nodes : \A p \in AtWork(n)' : p \in AtWork(n) \/ Target(p) > schema[n]
  BY DEF AtWork, ContainerMoves, WorkerIs, containerVars
<1>5. ASSUME NEW n \in Nodes
      PROVE  Reached(n) \subseteq Reached(n)'
  <2>1. ASSUME NEW r \in Builds, r \in Reached(n), NEW p \in AtWork(n)'
        PROVE  Target(r) < Target(p)
    <3>1. p \in Builds
      BY <2>1 DEF AtWork
    <3> QED
      BY <1>1, <1>3, <1>4, <2>1, <3>1 DEF Reached
  <2>2. \A r \in Reached(n) : r \in Builds /\ Target(r) <= schema'[n]
    BY <1>1, <1>3 DEF Reached
  <2>3. \A p \in AtWork(n)' : Target(p)' = Target(p)
    BY <1>1 DEF AtWork
  <2> QED
    BY <1>1, <2>1, <2>2, <2>3 DEF Reached
<1>6. ASSUME NEW n \in Nodes
      PROVE  Safe(n) \subseteq Safe(n)'
  <2>1. Lost(n)' = Lost(n)
    BY DEF Lost
  <2>2. \A r \in Safe(n) : r \in Builds /\ Target(r)' <= schema'["primary"]
    BY <1>1, <1>2, <1>3 DEF Safe
  <2> QED
    BY <1>5, <2>1, <2>2 DEF Safe
<1> QED
  BY <1>3, <1>5, <1>6

(* What a rebuild takes away from the standby it has from the primary. *)
LEMMA ReseedKeepsSafe ==
    ASSUME RolloutTypes, UNCHANGED commitOf, NEW q \in Builds, Reseeds(q)
    PROVE  /\ \A n \in Nodes : Safe(n) \subseteq Safe(n)'
           /\ AtWork("standby")' \subseteq AtWork("standby")
           /\ AtWork("primary")' = AtWork("primary")
<1>1. \A r \in Builds : Target(r)' = Target(r)
  BY DEF Target
<1>2. /\ AtWork("standby")' \subseteq AtWork("standby")
      /\ AtWork("primary")' = AtWork("primary")
      /\ schema'["primary"] = schema["primary"]
  BY DEF Reseeds, StandbyIsRebuilt, StandbyIsLost, AtWork, RolloutTypes, Nodes
<1>3. Safe("primary") \subseteq Safe("primary")'
  <2>1. ASSUME NEW r \in Reached("primary")
        PROVE  /\ r \in Builds /\ Target(r)' <= schema'["primary"]
               /\ \A p \in AtWork("primary")' : Target(r)' < Target(p)'
    BY <1>1, <1>2 DEF Reached, AtWork
  <2>2. Reached("primary") \subseteq Reached("primary")'
    BY <2>1 DEF Reached
  <2> QED
    BY <1>1, <1>2, <2>2 DEF Safe, Lost
<1>4. Safe("standby") \subseteq Safe("standby")'
  <2>1. CASE UNCHANGED schema /\ Lost("standby")' = Lost("standby")
    <3>1. ASSUME NEW r \in Reached("standby")
          PROVE  /\ r \in Builds /\ Target(r)' <= schema'["standby"]
                 /\ \A p \in AtWork("standby")' : Target(r)' < Target(p)'
      BY <1>1, <1>2, <2>1 DEF Reached, AtWork
    <3>2. Reached("standby") \subseteq Reached("standby")'
      BY <3>1 DEF Reached
    <3> QED
      BY <1>1, <2>1, <3>2 DEF Safe
  <2>2. CASE StandbyIsRebuilt /\ \A p \in Builds : worker'["standby"][p] # "migrating"
    <3>1. schema'["standby"] = schema["primary"] /\ AtWork("standby")' = {}
      BY <2>2 DEF StandbyIsRebuilt, AtWork, RolloutTypes, Nodes
    <3> QED
      BY <1>1, <1>2, <3>1 DEF Safe, Reached
  <2>3. CASE StandbyIsLost
    <3>1. Lost("standby")'
      BY <2>3 DEF StandbyIsLost, Lost
    <3> QED
      BY <1>1, <1>2, <3>1 DEF Safe
  <2> QED
    BY <2>1, <2>2, <2>3 DEF Reseeds, Lost
<1> QED
  BY <1>2, <1>3, <1>4 DEF Nodes

LEMMA StartKeepsSafe ==
    ASSUME RolloutTypes, BuiltInv, NEW c \in Commits, StartRollout(c), NEW n \in Nodes
    PROVE  /\ \A r \in Safe(n) : r <= rollout => r \in Safe(n)'
           /\ AtWork(n)' = AtWork(n)
           /\ \A r \in Builds : r <= rollout => Target(r)' = Target(r)
<1>1. /\ commitOf' = [commitOf EXCEPT ![rollout + 1] = c] /\ rollout \in Nat
      /\ UNCHANGED <<schema, replica, worker>>
      /\ commitOf \in [Builds -> Commits] /\ Builds \subseteq Nat
  BY BuildsAreNumbers
  DEF RolloutTypes, RolloutTypeOK, MigrationTypeOK, StartRollout, migrationVars, databaseVars,
      containerVars
<1>2. \A r \in Builds : r <= rollout => Target(r)' = Target(r)
  BY <1>1 DEF Target
<1>3. AtWork(n)' = AtWork(n)
  BY <1>1 DEF AtWork
<1>4. \A q \in AtWork(n) : q \in Builds /\ q <= rollout
  BY <1>1 DEF AtWork, BuiltInv, Unbuilt
<1>5. \A r \in Reached(n) : r <= rollout => r \in Reached(n)'
  <2>1. ASSUME NEW r \in Reached(n), r <= rollout
        PROVE  /\ r \in Builds /\ Target(r)' <= schema'[n]
               /\ \A q \in AtWork(n)' : Target(r)' < Target(q)'
    BY <1>1, <1>2, <1>3, <1>4, <2>1 DEF Reached
  <2> QED
    BY <2>1 DEF Reached
<1> QED
  BY <1>1, <1>2, <1>3, <1>5 DEF Safe, Lost

(* One controller at a time, none on a lost database, and a cursor that both   *)
(* databases have reached.                                                    *)
ControllersInv == OneMigrates /\ CursorBehind /\ LostIsIdle

LEMMA ControllersHold ==
    ASSUME RolloutTypes, BuiltInv, ControllersInv, [RolloutNext]_rolloutVars
    PROVE  ControllersInv'
<1>1. ASSUME SparesDatabases, UNCHANGED replicated
      PROVE  ControllersInv'
  <2>1. AtWork("standby")' \subseteq AtWork("standby")
    BY <1>1 DEF SparesDatabases, Nodes
  <2>2. LostIsIdle'
    BY <1>1, <2>1 DEF SparesDatabases, ControllersInv, LostIsIdle
  <2> QED
    BY <1>1, <2>2 DEF SparesDatabases, ControllersInv, OneMigrates, CursorBehind
<1>2. ASSUME NEW c \in Commits, StartRollout(c)
      PROVE  ControllersInv'
  <2>1. UNCHANGED <<schema, worker, replicated, replica>>
    BY <1>2 DEF StartRollout, migrationVars, databaseVars, containerVars
  <2> QED
    BY <2>1 DEF ControllersInv, OneMigrates, CursorBehind, LostIsIdle, AtWork
<1>3. CASE RecoverStandby
  <2>1. Reseeds(rollout) /\ UNCHANGED commitOf /\ rollout \in Builds
    BY <1>3, RecoveryReseeds DEF RecoverStandby, RolloutTypes, RolloutTypeOK
  <2>2. /\ AtWork("standby")' \subseteq AtWork("standby")
        /\ AtWork("primary")' = AtWork("primary")
    BY <2>1, ReseedKeepsSafe
  <2>3. OneMigrates'
    BY <2>2 DEF ControllersInv, OneMigrates, Nodes
  <2>4. CursorBehind'
    <3>1. /\ schema["primary"] \in Nat /\ schema \in [Nodes -> Nat]
          /\ Nodes = {"primary", "standby"}
      BY DEF RolloutTypes, Nodes
    <3>2. replicated <= schema["primary"] /\ replicated <= schema["standby"]
      BY <3>1 DEF ControllersInv, CursorBehind
    <3>3. replicated' <= schema'["primary"] /\ replicated' <= schema'["standby"]
      BY <2>1, <3>1, <3>2 DEF Reseeds, StandbyIsRebuilt, StandbyIsLost
    <3> QED
      BY <3>1, <3>3 DEF CursorBehind
  <2>5. LostIsIdle'
    <3>1. replica' = "lost" => replica = "lost" \/ AtWork("standby")' = {}
      BY <2>1 DEF Reseeds, StandbyIsRebuilt, AtWork
    <3> QED
      BY <2>2, <3>1 DEF ControllersInv, LostIsIdle
  <2> QED
    BY <2>3, <2>4, <2>5 DEF ControllersInv
<1>4. CASE Migrates
  <2>1. CASE ReplicateCursor
    <3>1. /\ UNCHANGED <<schema, worker, replica>> /\ replicated' = replicated + 1
          /\ replicated < schema["primary"] /\ replicated < schema["standby"]
      BY <2>1 DEF ReplicateCursor, containerVars
    <3>2. CursorBehind'
      BY <3>1, TargetsAreNumbers DEF CursorBehind, Nodes
    <3> QED
      BY <3>1, <3>2 DEF ControllersInv, OneMigrates, LostIsIdle, AtWork
  <2>2. ASSUME NEW m \in Nodes, NEW q \in Builds, ContainerMoves(m, q),
               UNCHANGED <<replicated, replica>>
        PROVE  ControllersInv'
    <3>1. UNCHANGED commitOf
      BY <1>4 DEF Migrates
    <3>2. \A n \in Nodes : schema[n] <= schema'[n] /\ schema'[n] \in Nat /\ schema[n] \in Nat
      <4>1. \A n \in Nodes : schema[n] <= schema'[n]
        BY <2>2, <3>1, ContainersKeepSafe
      <4> QED
        BY <2>2, <4>1 DEF RolloutTypes, ContainerMoves
    <3>3. CursorBehind'
      BY <2>2, <3>2, TargetsAreNumbers DEF ControllersInv, CursorBehind
    <3>4. OneMigrates'
      BY <2>2 DEF ControllersInv, OneMigrates, AtWork, ContainerMoves, WorkerIs, Locked, containerVars
    <3>5. LostIsIdle'
      BY <2>2 DEF ControllersInv, LostIsIdle, AtWork, ContainerMoves, WorkerIs, Lost, Nodes,
                  containerVars
    <3> QED
      BY <3>3, <3>4, <3>5 DEF ControllersInv
  <2> QED
    BY <1>4, <2>1, <2>2 DEF Migrates
<1>5. CASE ~ \/ \E c \in Commits : StartRollout(c)
             \/ RecoverStandby \/ Migrates
  BY <1>1, <1>5, KindsOfStep, TrafficMoves, ScriptSparesDatabases
  DEF RolloutTypes, RolloutTypeOK, Nodes
<1> QED
  BY <1>2, <1>3, <1>4, <1>5

(* A controller succeeds at its target, with nobody else at work. *)
LEMMA SuccessIsReached ==
    ASSUME RolloutTypes, OneMigrates, UNCHANGED commitOf,
           NEW m \in Nodes, NEW q \in Builds, ContainerMoves(m, q),
           NEW n \in Nodes, NEW r \in Builds,
           migrationJob'[n][r] = "succeeded", migrationJob[n][r] # "succeeded"
    PROVE  n = m /\ r = q /\ r \in Reached(n)' /\ Target(r) = schema[n] /\ UNCHANGED schema
<1>1. /\ n = m /\ r = q /\ Target(q) = schema[m] /\ UNCHANGED schema
      /\ WorkerIs(m, q, "off")
      /\ ~Locked(m) \/ worker[m][q] = "migrating"
  BY DEF ContainerMoves, StatusIs, containerVars
<1>2. AtWork(m)' = {}
  BY <1>1 DEF Locked, WorkerIs, AtWork, OneMigrates
<1>3. Target(q)' = Target(q) /\ Target(q) \in Nat
  BY TargetsAreNumbers DEF Target
<1>4. q \in Reached(m)'
  BY <1>1, <1>2, <1>3 DEF Reached
<1> QED
  BY <1>1, <1>4

LEMMA StandbyJobStays ==
    ASSUME RolloutTypes, BuiltInv, ControllersInv, StandbyJobHolds, [RolloutNext]_rolloutVars
    PROVE  StandbyJobHolds'
<1>1. rollout \in Builds /\ rollout \in Nat /\ "standby" \in Nodes /\ "primary" \in Nodes
  BY BuildsAreNumbers DEF RolloutTypes, RolloutTypeOK, Nodes
<1>2. ASSUME NEW c \in Commits, StartRollout(c)
      PROVE  StandbyJobHolds'
  <2>1. rollout' = rollout + 1 /\ rollout + 1 \in Builds /\ UNCHANGED migrationJob
    BY <1>1, <1>2, MigrationAssumption
    DEF StartRollout, Builds, migrationVars, containerVars
  <2> QED
    BY <1>1, <2>1 DEF BuiltInv, Unbuilt, StandbyJobHolds
<1>3. CASE RecoverStandby
  <2>1. Reseeds(rollout) /\ UNCHANGED rollout
    BY <1>3, RecoveryReseeds DEF RecoverStandby, orchestratorVars
  <2> QED
    BY <2>1 DEF Reseeds, StandbyJobHolds
<1>4. CASE Migrates
  <2>1. UNCHANGED <<rollout, commitOf>>
    BY <1>4 DEF Migrates, orchestratorVars
  <2>2. CASE ReplicateCursor
    <3>1. UNCHANGED <<schema, replica, worker, migrationJob>>
      BY <2>2 DEF ReplicateCursor, containerVars
    <3>2. SparesDatabases
      BY <2>1, <3>1 DEF SparesDatabases, AtWork
    <3> QED
      BY <1>1, <2>1, <3>1, <3>2, SparingKeepsSafe DEF StandbyJobHolds
  <2>3. ASSUME NEW m \in Nodes, NEW q \in Builds, ContainerMoves(m, q),
               UNCHANGED replica
        PROVE  StandbyJobHolds'
    <3>1. Reached("standby") \subseteq Reached("standby")'
      BY <1>1, <2>1, <2>3, ContainersKeepSafe
    <3>2. migrationJob'["standby"][rollout] = "succeeded" => rollout \in Reached("standby")'
      BY <1>1, <2>1, <2>3, <3>1, SuccessIsReached DEF StandbyJobHolds, ControllersInv
    <3> QED
      BY <2>1, <3>2 DEF StandbyJobHolds
  <2> QED
    BY <1>4, <2>2, <2>3 DEF Migrates
<1>5. CASE ~ \/ \E c \in Commits : StartRollout(c)
             \/ RecoverStandby \/ Migrates
  <2>1. SparesDatabases /\ UNCHANGED migrationJob
    BY <1>1, <1>5, KindsOfStep, TrafficMoves, ScriptSparesDatabases
  <2>2. UNCHANGED rollout
    BY <1>1, <1>5, KindsOfStep, TrafficMoves, SteeringSparesTheNodes, PreparingHasThreeEnds
    DEF PreparingFrame, MovesTraffic, rolloutVars, orchestratorVars
  <2> QED
    BY <1>1, <2>1, <2>2, SparingKeepsSafe DEF StandbyJobHolds
<1> QED
  BY <1>2, <1>3, <1>4, <1>5

(* What the plan of a node may say, given the code that is safe there. *)
LEMMA PlansAreSafe ==
    ASSUME RolloutTypes, CodeIsSafe, NEW n \in Nodes, Needs(n) # "schema"
    PROVE  rollout \in Safe(n)
<1>1. rollout \in Builds
  BY DEF RolloutTypes, RolloutTypeOK
<1>2. Target(BaseOf(n)) = Target(rollout)
  BY DEF Needs, Target
<1>3. BaseOf(n) \in Safe(n)
  <2>1. primary.manifest \in PrimaryNames \ {NoBuild}
    BY PrimaryIsTyped DEF PrimaryNames
  <2> QED
    BY <2>1 DEF BaseOf, CodeIsSafe, Nodes
<1> QED
  BY <1>1, <1>2, <1>3 DEF Safe, Reached

(* The gates of a node let nothing through that is not safe there. *)
LEMMA GatesAreSafe ==
    ASSUME RolloutTypes, CodeIsSafe, NEW n \in Nodes, NEW r \in Builds,
           CandidateRuns(n, r), GatesPass(n, r)
    PROVE  r \in Safe(n)
<1>1. n = "primary" \/ n = "standby"
  BY DEF Nodes
<1>2. prepared[n][r] # Unprepared
  BY DEF CandidateRuns
<1>3. CASE prepared[n][r].migrate
  BY <1>1, <1>3 DEF GatesPass, CodeIsSafe
<1>4. CASE ~prepared[n][r].migrate
  BY <1>2, <1>4 DEF CodeIsSafe
<1> QED
  BY <1>3, <1>4

LEMMA CodeStaysSafe ==
    ASSUME RolloutTypes, RolloutTypes', BuiltInv, ControllersInv, StandbyJobHolds, CodeIsSafe,
           [RolloutNext]_rolloutVars
    PROVE  CodeIsSafe'
<1>1. /\ rollout \in Builds /\ rollout \in Nat /\ Builds \subseteq Nat /\ NoBuild \notin Builds
      /\ currentRelease \in [Nodes -> Builds]
      /\ standby \in StandbyRecords /\ prepared \in Preparations
      /\ Nodes = {"primary", "standby"} /\ reconciled \subseteq Builds
  BY RolloutAssumption, BuildsAreNumbers
  DEF RolloutTypes, RolloutTypeOK, Nodes, StandbyRecords, Preparations
<1>2. ASSUME \A n \in Nodes : Safe(n) \subseteq Safe(n)', UNCHANGED <<nodeVars, reconciled>>,
             \A r \in Builds :
                 migrationJob'["primary"][r] = "succeeded" =>
                     migrationJob["primary"][r] = "succeeded" \/ r \in Safe("primary")'
      PROVE  CodeIsSafe'
  <2>1. UNCHANGED <<currentRelease, prepared, standby>> /\ PrimaryNames' = PrimaryNames
    BY <1>2 DEF nodeVars, PrimaryNames
  <2>2. currentRelease'["standby"] \in Safe("standby")'
    BY <1>1, <1>2, <2>1 DEF CodeIsSafe
  <2>3. \A s \in Slots : standby'.named[s] \in Builds => standby'.named[s] \in Safe("standby")'
    BY <1>1, <1>2, <2>1 DEF CodeIsSafe
  <2>4. PrimaryNames' \ {NoBuild} \subseteq Safe("primary")'
    BY <1>1, <1>2, <2>1 DEF CodeIsSafe
  <2>5. \A n \in Nodes, r \in Builds :
            prepared'[n][r] # Unprepared /\ ~prepared'[n][r].migrate => r \in Safe(n)'
    BY <1>2, <2>1 DEF CodeIsSafe
  <2>6. reconciled' \subseteq Safe("standby")'
    BY <1>1, <1>2 DEF CodeIsSafe
  <2>7. \A r \in Builds : migrationJob'["primary"][r] = "succeeded" => r \in Safe("primary")'
    BY <1>1, <1>2 DEF CodeIsSafe
  <2> QED
    BY <2>2, <2>3, <2>4, <2>5, <2>6, <2>7 DEF CodeIsSafe
<1>3. ASSUME NEW c \in Commits, StartRollout(c)
      PROVE  CodeIsSafe'
  <2>1. /\ UNCHANGED <<currentRelease, prepared, standby, reconciled, migrationJob>>
        /\ PrimaryNames' = PrimaryNames
    BY <1>3 DEF StartRollout, nodeVars, gateVars, migrationVars, containerVars, PrimaryNames
  <2>2. \A n \in Nodes : \A r \in Safe(n) : r <= rollout => r \in Safe(n)'
    BY <1>3, StartKeepsSafe
  <2>3. currentRelease'["standby"] \in Safe("standby")'
    BY <1>1, <2>1, <2>2 DEF CodeIsSafe, BuiltInv, OnlyBuilt
  <2>4. \A s \in Slots : standby'.named[s] \in Builds => standby'.named[s] \in Safe("standby")'
    BY <1>1, <2>1, <2>2 DEF CodeIsSafe, BuiltInv, OnlyBuilt
  <2>5. PrimaryNames' \ {NoBuild} \subseteq Safe("primary")'
    BY <1>1, <2>1, <2>2 DEF CodeIsSafe, BuiltInv, OnlyBuilt
  <2>6. \A r \in Builds : ~(r > rollout) => r <= rollout
    BY <1>1
  <2>7. \A n \in Nodes, r \in Builds :
            prepared'[n][r] # Unprepared /\ ~prepared'[n][r].migrate => r \in Safe(n)'
    BY <2>1, <2>2, <2>6 DEF CodeIsSafe, BuiltInv, Unbuilt
  <2>8. reconciled' \subseteq Safe("standby")'
    BY <1>1, <2>1, <2>2 DEF CodeIsSafe, BuiltInv, Unbuilt
  <2>9. \A r \in Builds : migrationJob'["primary"][r] = "succeeded" => r \in Safe("primary")'
    BY <1>1, <2>1, <2>2, <2>6 DEF CodeIsSafe, BuiltInv, Unbuilt
  <2> QED
    BY <2>3, <2>4, <2>5, <2>7, <2>8, <2>9 DEF CodeIsSafe
<1>4. CASE RecoverStandby
  <2>1. Reseeds(rollout) /\ UNCHANGED <<commitOf, nodeVars, reconciled>>
    BY <1>4, RecoveryReseeds DEF RecoverStandby
  <2>2. \A n \in Nodes : Safe(n) \subseteq Safe(n)'
    BY <1>1, <2>1, ReseedKeepsSafe
  <2> QED
    BY <1>2, <2>1, <2>2 DEF Reseeds
<1>5. CASE Migrates
  <2>1. UNCHANGED <<commitOf, nodeVars, reconciled>>
    BY <1>5 DEF Migrates, gateVars
  <2>2. CASE ReplicateCursor
    <3>1. UNCHANGED <<schema, replica, worker, migrationJob>>
      BY <2>2 DEF ReplicateCursor, containerVars
    <3>2. SparesDatabases
      BY <2>1, <3>1 DEF SparesDatabases, AtWork
    <3> QED
      BY <1>2, <2>1, <3>1, <3>2, SparingKeepsSafe
  <2>3. ASSUME NEW m \in Nodes, NEW q \in Builds, ContainerMoves(m, q),
               UNCHANGED replica
        PROVE  CodeIsSafe'
    <3>1. \A n \in Nodes : Safe(n) \subseteq Safe(n)'
      BY <2>1, <2>3, ContainersKeepSafe
    <3>2. ASSUME NEW r \in Builds, migrationJob'["primary"][r] = "succeeded",
                 migrationJob["primary"][r] # "succeeded"
          PROVE  r \in Safe("primary")'
      <4>1. /\ r \in Reached("primary")' /\ Target(r) = schema["primary"] /\ UNCHANGED schema
        BY <1>1, <2>1, <2>3, <3>2, SuccessIsReached DEF ControllersInv
      <4>2. Target(r)' = Target(r)
        BY <2>1 DEF Target
      <4>3. Target(r)' <= schema'["primary"]
        BY <4>1, <4>2, TargetsAreNumbers
      <4> QED
        BY <3>2, <4>1, <4>3 DEF Safe
    <3> QED
      BY <1>2, <2>1, <3>1, <3>2
  <2> QED
    BY <1>5, <2>2, <2>3 DEF Migrates
<1>6. ASSUME NEW n \in Nodes, PrepareNode(n)
      PROVE  CodeIsSafe'
  <2>1. /\ PreparingFrame
        /\ NeedsNothing(n) \/ BecomesReady(n) \/ FailsToPrepare(n)
    BY <1>6, PreparingHasThreeEnds
  <2>2. \A m \in Nodes : Safe(m) \subseteq Safe(m)'
    BY <1>6, ScriptSparesDatabases, SparingKeepsSafe
  <2>3. /\ UNCHANGED <<currentRelease, reconciled, migrationJob>>
        /\ PrimaryNames' = PrimaryNames
        /\ \A s \in Slots : standby'.named[s] = standby.named[s]
    BY <1>1, <2>1
    DEF PreparingFrame, gateVars, migrationVars, containerVars, NeedsNothing, BecomesReady,
        FailsToPrepare, StandbyPlaces, PrimaryNames
  <2>4. \A m \in Nodes, r \in Builds :
            prepared'[m][r] # Unprepared /\ ~prepared'[m][r].migrate => r \in Safe(m)'
    <3>1. CASE BecomesReady(n)
      <4>1. prepared'[n][rollout].migrate <=> Needs(n) = "schema"
        <5>1. prepared'[n][rollout] = [slot |-> OtherSlot(standby.active),
                                       before |-> standby.active,
                                       migrate |-> Needs(n) = "schema"]
          BY <1>1, <3>1, Zenon DEF BecomesReady, PreparedAt
        <5>2. [slot |-> OtherSlot(standby.active), before |-> standby.active,
               migrate |-> Needs(n) = "schema"].migrate = (Needs(n) = "schema")
          OBVIOUS
        <5> QED
          BY <5>1, <5>2, Zenon
      <4>2. \A m \in Nodes, r \in Builds :
                ~(m = n /\ r = rollout) => prepared'[m][r] = prepared[m][r]
        BY <3>1 DEF BecomesReady, PreparedAt
      <4> QED
        BY <2>2, <4>1, <4>2, PlansAreSafe DEF CodeIsSafe
    <3>2. CASE ~BecomesReady(n)
      <4>1. prepared' = prepared
        BY <2>1, <3>2 DEF NeedsNothing, FailsToPrepare
      <4> QED
        BY <2>2, <4>1 DEF CodeIsSafe
    <3> QED
      BY <3>1, <3>2
  <2>5. currentRelease'["standby"] \in Safe("standby")'
    BY <1>1, <2>2, <2>3 DEF CodeIsSafe
  <2>6. \A s \in Slots : standby'.named[s] \in Builds => standby'.named[s] \in Safe("standby")'
    BY <1>1, <2>2, <2>3 DEF CodeIsSafe
  <2>7. /\ PrimaryNames' \ {NoBuild} \subseteq Safe("primary")'
        /\ reconciled' \subseteq Safe("standby")'
        /\ \A r \in Builds : migrationJob'["primary"][r] = "succeeded" => r \in Safe("primary")'
    BY <1>1, <2>2, <2>3 DEF CodeIsSafe
  <2> QED
    BY <2>4, <2>5, <2>6, <2>7 DEF CodeIsSafe
<1>7. ASSUME Steers, ~RecoverStandby
      PROVE  CodeIsSafe'
  <2>1. /\ \A n \in Nodes : Safe(n) \subseteq Safe(n)'
        /\ UNCHANGED <<nodeVars, migrationJob, databaseVars>>
        /\ PrimaryNames' = PrimaryNames
    BY <1>7, ScriptSparesDatabases, SparingKeepsSafe, SteeringSparesTheNodes
    DEF nodeVars, PrimaryNames
  <2>2. CASE ~ReconcileStandby
    <3>1. UNCHANGED reconciled
      BY <1>7, <2>2
      DEF Steers, DecidePhases, StandbySchemaReady, PrimaryDataReady, GiveUpWaiting,
          DecideActivation, DecideRollback, FinishRollout, OrchestratorDies, PreparedStatus, gateVars
    <3> QED
      BY <1>2, <2>1, <3>1
  <2>3. CASE ReconcileStandby
    <3>1. \/ UNCHANGED reconciled
          \/ /\ migrationJob["standby"][rollout] = "succeeded"
             /\ replicated = Target(rollout)
             /\ reconciled' = reconciled \union {rollout}
      BY <2>3 DEF ReconcileStandby
    <3>2. CASE UNCHANGED reconciled
      BY <1>2, <2>1, <3>2
    <3>3. CASE ~UNCHANGED reconciled
      <4>1. rollout \in Safe("standby")
        <5>1. replicated <= schema["primary"] /\ rollout \in Reached("standby")
          BY <1>1, <3>1, <3>3 DEF StandbyJobHolds, ControllersInv, CursorBehind
        <5> QED
          BY <1>1, <3>1, <3>3, <5>1 DEF Safe
      <4>2. reconciled' \subseteq Safe("standby")'
        BY <1>1, <2>1, <3>1, <3>3, <4>1 DEF CodeIsSafe
      <4>3. UNCHANGED <<currentRelease, prepared, standby, migrationJob>>
        BY <2>1 DEF nodeVars
      <4>4. \A s \in Slots : standby'.named[s] \in Builds => standby'.named[s] \in Safe("standby")'
        BY <1>1, <2>1, <4>3 DEF CodeIsSafe
      <4>5. /\ PrimaryNames' \ {NoBuild} \subseteq Safe("primary")'
            /\ \A r \in Builds : migrationJob'["primary"][r] = "succeeded" => r \in Safe("primary")'
        BY <1>1, <2>1, <4>3 DEF CodeIsSafe
      <4>6. /\ currentRelease'["standby"] \in Safe("standby")'
            /\ \A n \in Nodes, r \in Builds :
                   prepared'[n][r] # Unprepared /\ ~prepared'[n][r].migrate => r \in Safe(n)'
        BY <1>1, <2>1, <4>3 DEF CodeIsSafe
      <4> QED
        BY <4>2, <4>4, <4>5, <4>6 DEF CodeIsSafe
    <3> QED
      BY <3>2, <3>3
  <2> QED
    BY <2>2, <2>3
<1>8. ASSUME NEW n \in Nodes, NEW r \in Builds, MovesTraffic(n, r)
      PROVE  CodeIsSafe'
  <2>1. \A m \in Nodes : Safe(m) \subseteq Safe(m)'
    BY <1>8, ScriptSparesDatabases, SparingKeepsSafe
  <2>2. UNCHANGED <<migrationJob, reconciled>>
    BY <1>8 DEF MovesTraffic, migrationVars, containerVars, gateVars
  <2>3. /\ reconciled' \subseteq Safe("standby")'
        /\ \A q \in Builds : migrationJob'["primary"][q] = "succeeded" => q \in Safe("primary")'
    BY <1>1, <2>1, <2>2 DEF CodeIsSafe
  <2>4. \A m \in Nodes, q \in Builds :
            prepared'[m][q] # Unprepared /\ ~prepared'[m][q].migrate => q \in Safe(m)'
    <3>1. \A m \in Nodes, q \in Builds :
              prepared'[m][q] = Unprepared \/ prepared'[m][q] = prepared[m][q]
      BY <1>8 DEF MovesTraffic, PreparedAt, StandbyRestores, StandbyGoesBack, nodeVars
    <3> QED
      BY <2>1, <3>1 DEF CodeIsSafe
  <2>5. CASE UNCHANGED nodeVars
    BY <1>2, <2>1, <2>2, <2>5
  <2>6. CASE n = "standby" /\ ~UNCHANGED nodeVars
    <3>1. UNCHANGED primary /\ currentRelease' \in [Nodes -> Builds]
          /\ currentRelease'["primary"] = currentRelease["primary"]
      BY <1>1, <1>8, <2>6 DEF MovesTraffic, StandbyTakes, StandbyRestores, StandbyGoesBack
    <3>2. PrimaryNames' \ {NoBuild} \subseteq Safe("primary")'
      BY <1>1, <2>1, <3>1 DEF CodeIsSafe, PrimaryNames
    <3>3. CASE CandidateRuns(n, r) /\ GatesPass(n, r) /\ StandbyTakes(r)
      <4>1. r \in Safe("standby")
        BY <2>6, <3>3, GatesAreSafe
      <4>2. currentRelease'["standby"] \in Safe("standby")'
        BY <1>1, <2>1, <3>3, <4>1 DEF StandbyTakes
      <4>3. \A s \in Slots : standby'.named[s] \in Builds => standby'.named[s] \in Safe("standby")'
        BY <1>1, <2>1, <3>3, <4>1 DEF CodeIsSafe, StandbyTakes
      <4> QED
        BY <2>3, <2>4, <3>2, <4>2, <4>3 DEF CodeIsSafe
    <3>4. CASE StandbyRestores(r)
      <4>1. currentRelease'["standby"] \in Safe("standby")'
        BY <1>1, <2>1, <3>4 DEF CodeIsSafe, StandbyRestores
      <4>2. \A s \in Slots : standby'.named[s] \in Builds => standby'.named[s] \in Safe("standby")'
        BY <1>1, <2>1, <3>4 DEF CodeIsSafe, StandbyRestores
      <4> QED
        BY <2>3, <2>4, <3>2, <4>1, <4>2 DEF CodeIsSafe
    <3>5. CASE StandbyGoesBack
      <4>1. GoesBackTo("standby") \in Safe("standby")
        BY <1>1, <3>5, TwoSlots DEF StandbyGoesBack, GoesBackTo, CodeIsSafe, StandbyRecords
      <4> HIDE DEF GoesBackTo
      <4>2. currentRelease'["standby"] \in Safe("standby")'
        BY <1>1, <2>1, <3>5, <4>1 DEF StandbyGoesBack
      <4>3. \A s \in Slots : standby'.named[s] \in Builds => standby'.named[s] \in Safe("standby")'
        BY <1>1, <2>1, <3>5 DEF CodeIsSafe, StandbyGoesBack
      <4> QED
        BY <2>3, <2>4, <3>2, <4>2, <4>3 DEF CodeIsSafe
    <3> QED
      BY <1>8, <2>6, <3>3, <3>4, <3>5 DEF MovesTraffic
  <2>7. CASE n = "primary" /\ ~UNCHANGED nodeVars
    <3>1. /\ \/ GatesPass(n, r) /\ CandidateRuns(n, r) /\ PrimaryMoves({r})
             \/ PrimaryMoves({})
      BY <1>8, <2>7 DEF MovesTraffic
    <3>2. UNCHANGED standby /\ currentRelease'["standby"] = currentRelease["standby"]
      BY <3>1 DEF PrimaryMoves
    <3>3. currentRelease'["standby"] \in Safe("standby")'
      BY <1>1, <2>1, <3>2 DEF CodeIsSafe
    <3>4. \A s \in Slots : standby'.named[s] \in Builds => standby'.named[s] \in Safe("standby")'
      BY <1>1, <2>1, <3>2 DEF CodeIsSafe
    <3>5. PrimaryNames' \ {NoBuild} \subseteq Safe("primary")'
      <4>1. Safe("primary") \subseteq Safe("primary")' /\ PrimaryNames \ {NoBuild} \subseteq Safe("primary")
        BY <1>1, <2>1 DEF CodeIsSafe
      <4>2. GatesPass(n, r) /\ CandidateRuns(n, r) => r \in Safe("primary")
        BY <2>7, GatesAreSafe
      <4>3. CASE PrimaryMoves({})
        BY <4>1, <4>3 DEF PrimaryMoves
      <4>4. CASE r \in Safe("primary") /\ PrimaryMoves({r})
        BY <4>1, <4>4 DEF PrimaryMoves
      <4> QED
        BY <3>1, <4>2, <4>3, <4>4
    <3> QED
      BY <2>3, <2>4, <3>3, <3>4, <3>5 DEF CodeIsSafe
  <2> QED
    BY <1>8, <2>5, <2>6, <2>7 DEF MovesTraffic
<1>9. CASE UNCHANGED rolloutVars
  <2>1. /\ UNCHANGED <<nodeVars, reconciled, migrationJob>>
        /\ \A n \in Nodes : Safe(n) \subseteq Safe(n)'
    BY <1>9, ScriptSparesDatabases, SparingKeepsSafe DEF rolloutVars, gateVars
  <2> QED
    BY <1>2, <2>1
<1> QED
  BY <1>1, <1>3, <1>4, <1>5, <1>6, <1>7, <1>8, <1>9, KindsOfStep, TrafficMoves

LEMMA PlansHold ==
    ASSUME RolloutTypes, BuiltInv, CodeIsSafe, PlanIsSafe, [RolloutNext]_rolloutVars
    PROVE  PlanIsSafe'
<1> USE DEF EnterPhase, EndRollout, BeforeTraffic
<1>1. /\ rollout \in Builds /\ plan \in [Nodes -> Plans] /\ Nodes = {"primary", "standby"}
      /\ currentRelease \in [Nodes -> Builds] /\ succeeded \subseteq Nodes
  BY DEF RolloutTypes, RolloutTypeOK, Nodes
<1>2. ASSUME UNCHANGED <<rollout, phase, plan>>, \A n \in Nodes : Safe(n) \subseteq Safe(n)',
             UNCHANGED succeeded \/ phase \notin {"preparing", "gating"}
      PROVE  PlanIsSafe'
  BY <1>2 DEF PlanIsSafe, Deploying
<1>3. ASSUME NEW c \in Commits, StartRollout(c)
      PROVE  PlanIsSafe'
  BY <1>3 DEF StartRollout, PlanIsSafe, Unplanned
<1>4. ASSUME NEW n \in Nodes, PrepareNode(n)
      PROVE  PlanIsSafe'
  <2>1. /\ phase = "preparing" /\ PreparingFrame
        /\ NeedsNothing(n) \/ BecomesReady(n) \/ FailsToPrepare(n)
    BY <1>4, PreparingHasThreeEnds
  <2>2. \A m \in Nodes : Safe(m) \subseteq Safe(m)'
    BY <1>4, ScriptSparesDatabases, SparingKeepsSafe
  <2>3. UNCHANGED <<rollout, phase>>
    BY <2>1 DEF PreparingFrame
  <2>4. CASE FailsToPrepare(n)
    BY <1>2, <2>2, <2>3, <2>4 DEF FailsToPrepare
  <2>5. CASE NeedsNothing(n) \/ BecomesReady(n)
    <3>1. plan' = [plan EXCEPT ![n] = Needs(n)] /\ succeeded' = succeeded \union {n}
      BY <2>5 DEF NeedsNothing, BecomesReady
    <3>2. Needs(n) # "unknown" /\ (Needs(n) # "schema" => rollout \in Safe(n))
      BY PlansAreTyped, PlansAreSafe
    <3> HIDE DEF BeforeTraffic
    <3>3. \A m \in Nodes : plan'[m] = IF m = n THEN Needs(n) ELSE plan[m]
      BY <1>1, <3>1
    <3> QED
      BY <2>1, <2>2, <2>3, <3>1, <3>2, <3>3 DEF PlanIsSafe, BeforeTraffic
  <2> QED
    BY <2>1, <2>4, <2>5
<1>5. CASE RecoverStandby
  <2>1. Reseeds(rollout) /\ UNCHANGED <<commitOf, orchestratorVars>>
    BY <1>5, RecoveryReseeds DEF RecoverStandby
  <2> QED
    BY <1>1, <1>2, <2>1, ReseedKeepsSafe DEF orchestratorVars
<1>6. ASSUME Steers, ~RecoverStandby
      PROVE  PlanIsSafe'
  <2>1. (\A n \in Nodes : Safe(n) \subseteq Safe(n)') /\ UNCHANGED rollout
    BY <1>6, ScriptSparesDatabases, SparingKeepsSafe, SteeringSparesTheNodes
  <2>2. phase' = "idle" => PlanIsSafe'
    BY DEF PlanIsSafe
  <2>3. CASE DecidePhases
    <3>1. CASE phase' = "idle"
      BY <2>2, <3>1
    <3>2. CASE phase' # "idle"
      <4>1. /\ phase = "preparing" /\ phase' \in {"standby_schema", "gating"}
            /\ succeeded = Nodes /\ succeeded' = {} /\ plan' = plan
            /\ phase' = "standby_schema" => Deploying = Nodes
        BY <2>3, <3>2 DEF DecidePhases
      <4> QED
        BY <2>1, <4>1 DEF PlanIsSafe, Deploying
    <3> QED
      BY <3>1, <3>2
  <2>4. CASE StandbySchemaReady
    BY <2>1, <2>4 DEF StandbySchemaReady, PlanIsSafe, Deploying
  <2>5. CASE PrimaryDataReady
    BY <2>1, <2>5 DEF PrimaryDataReady, PlanIsSafe
  <2>6. CASE ReconcileStandby
    BY <2>1, <2>6 DEF ReconcileStandby, PlanIsSafe
  <2>7. CASE DecideActivation
    <3>1. CASE phase' = "idle"
      BY <2>2, <3>1
    <3>2. CASE phase' # "idle"
      <4>1. /\ phase = "gating" /\ phase' = "activating" /\ succeeded = Deploying /\ plan' = plan
        BY <2>7, <3>2 DEF DecideActivation
      <4>2. ASSUME NEW n \in Nodes
            PROVE  rollout \in Safe(n) /\ plan[n] # "unknown"
        BY <1>1, <4>1 DEF PlanIsSafe, Deploying, Plans
      <4> QED
        BY <2>1, <4>1, <4>2 DEF PlanIsSafe
    <3> QED
      BY <3>1, <3>2
  <2>8. CASE DecideRollback \/ GiveUpWaiting \/ FinishRollout \/ OrchestratorDies
    BY <2>2, <2>8 DEF DecideRollback, GiveUpWaiting, FinishRollout, OrchestratorDies, PlanIsSafe
  <2>9. ASSUME NEW n \in Nodes, PreparedStatus(n)
        PROVE  PlanIsSafe'
    <3>1. /\ phase = "gating" /\ UNCHANGED <<phase, plan>>
          /\ succeeded' = succeeded
             \/ /\ succeeded' = succeeded \union {n}
                /\ CandidateRuns(n, rollout) /\ GatesPass(n, rollout)
      BY <2>9 DEF PreparedStatus
    <3>2. CASE succeeded' = succeeded
      BY <1>2, <2>1, <3>1, <3>2
    <3>3. CASE succeeded' # succeeded
      <4>1. rollout \in Safe(n)
        BY <1>1, <3>1, <3>3, GatesAreSafe
      <4> QED
        BY <2>1, <3>1, <3>3, <4>1 DEF PlanIsSafe
    <3> QED
      BY <3>2, <3>3
  <2> QED
    BY <1>6, <2>3, <2>4, <2>5, <2>6, <2>7, <2>8, <2>9 DEF Steers
<1>7. ASSUME NEW n \in Nodes, NEW r \in Builds, MovesTraffic(n, r), UNCHANGED <<phase, plan>>,
             UNCHANGED succeeded \/ phase = "activating"
      PROVE  PlanIsSafe'
  BY <1>2, <1>7, ScriptSparesDatabases, SparingKeepsSafe DEF MovesTraffic
<1>8. ASSUME NEW n \in Nodes, ActivateNode(n) \/ CoordinatedRollback(n) \/ OperatorRollback(n)
      PROVE  PlanIsSafe'
  <2>1. MovesTraffic(n, rollout)
    BY <1>8, TrafficMoves
  <2>2. UNCHANGED <<phase, plan>> /\ (UNCHANGED succeeded \/ phase = "activating")
    BY <1>8 DEF ActivateNode, CoordinatedRollback, OperatorRollback, orchestratorVars
  <2> QED
    BY <1>1, <1>7, <2>1, <2>2
<1>9. ASSUME NEW r \in Builds, PrimaryRecovery(r)
      PROVE  PlanIsSafe'
  <2>1. MovesTraffic("primary", r)
    BY <1>1, <1>9, TrafficMoves
  <2>2. UNCHANGED <<phase, plan, succeeded>>
    BY <1>9 DEF PrimaryRecovery, orchestratorVars
  <2> QED
    BY <1>1, <1>7, <2>1, <2>2
<1>10. CASE Migrates
  <2>1. UNCHANGED <<commitOf, orchestratorVars>>
    BY <1>10 DEF Migrates
  <2>2. CASE ReplicateCursor
    <3>1. UNCHANGED <<schema, replica, worker>>
      BY <2>2 DEF ReplicateCursor, containerVars
    <3>2. SparesDatabases
      BY <2>1, <3>1 DEF SparesDatabases, AtWork
    <3> QED
      BY <1>2, <2>1, <3>2, SparingKeepsSafe DEF orchestratorVars
  <2>3. ASSUME NEW m \in Nodes, NEW q \in Builds, ContainerMoves(m, q),
               UNCHANGED replica
        PROVE  PlanIsSafe'
    BY <1>2, <2>1, <2>3, ContainersKeepSafe DEF orchestratorVars
  <2> QED
    BY <1>10, <2>2, <2>3 DEF Migrates
<1>11. CASE UNCHANGED rolloutVars
  BY <1>2, <1>11, ScriptSparesDatabases, SparingKeepsSafe DEF rolloutVars, orchestratorVars
<1> QED
  BY <1>3, <1>4, <1>5, <1>6, <1>8, <1>9, <1>10, <1>11, KindsOfStep

LEMMA StandbyLeadStays ==
    ASSUME RolloutTypes, BuiltInv, ControllersInv, StandbyJobHolds, PlanIsSafe, StandbyLeads,
           [RolloutNext]_rolloutVars
    PROVE  StandbyLeads'
<1>1. /\ rollout \in Builds /\ rollout \in Nat /\ Builds \subseteq Nat
      /\ Nodes = {"primary", "standby"}
      /\ \A r \in Builds : Target(r) \in Nat
      /\ schema["primary"] \in Nat /\ schema["standby"] \in Nat
      /\ schema \in [Nodes -> Nat]
  BY BuildsAreNumbers, TargetsAreNumbers DEF RolloutTypes, RolloutTypeOK, Nodes
<1>2. ASSUME SparesDatabases, UNCHANGED reseeded,
             \A r \in Builds : worker'["primary"][r] # "off" /\ reseeded = {} =>
                 worker["primary"][r] # "off" \/ Target(r) <= schema["standby"]
      PROVE  StandbyLeads'
  <2>1. \A r \in Builds : Target(r)' = Target(r)
    BY <1>2 DEF SparesDatabases, Target
  <2> QED
    BY <1>2, <2>1 DEF StandbyLeads, SparesDatabases
<1>3. ASSUME NEW c \in Commits, StartRollout(c)
      PROVE  StandbyLeads'
  <2>1. UNCHANGED <<schema, replica, worker, reseeded>>
    BY <1>3 DEF StartRollout, migrationVars, databaseVars, containerVars, gateVars
  <2>2. \A r \in Builds : r <= rollout => Target(r)' = Target(r)
    BY <1>1, <1>3, StartKeepsSafe
  <2>3. \A r \in Builds : worker["primary"][r] # "off" => r <= rollout
    <3>1. \A r \in Builds : r > rollout => worker["primary"][r] = "off"
      BY <1>1 DEF BuiltInv, Unbuilt
    <3> QED
      BY <1>1, <3>1
  <2> QED
    BY <2>1, <2>2, <2>3 DEF StandbyLeads
<1>4. CASE RecoverStandby
  <2>1. reseeded' # {}
    BY <1>4 DEF RecoverStandby
  <2> QED
    BY <2>1 DEF StandbyLeads
<1>5. CASE Migrates
  <2>1. UNCHANGED <<commitOf, reseeded>>
    BY <1>5 DEF Migrates, gateVars
  <2>2. \A r \in Builds : Target(r)' = Target(r)
    BY <2>1 DEF Target
  <2>3. CASE ReplicateCursor
    <3>1. UNCHANGED <<schema, replica, worker>>
      BY <2>3 DEF ReplicateCursor, containerVars
    <3> QED
      BY <2>1, <2>2, <3>1 DEF StandbyLeads
  <2>4. ASSUME NEW m \in Nodes, NEW q \in Builds, ContainerMoves(m, q),
               UNCHANGED replica
        PROVE  StandbyLeads'
    <3>1. \A n \in Nodes : schema[n] <= schema'[n]
      BY <2>1, <2>4, ContainersKeepSafe
    <3>2. \A r \in Builds : worker'["primary"][r] # "off" => worker["primary"][r] # "off"
      BY <1>1, <2>4 DEF ContainerMoves, WorkerIs, containerVars
    <3>3. \A n \in Nodes : schema'[n] \in Nat
      BY <1>1, <2>4 DEF ContainerMoves
    <3>4. schema'["primary"] = schema["primary"]
          \/ /\ worker["primary"][q] # "off" /\ schema'["primary"] <= Target(q)
             /\ m = "primary" /\ schema'["standby"] = schema["standby"]
      BY <1>1, <2>4 DEF ContainerMoves
    <3>5. ASSUME reseeded = {}, NEW r \in Builds, worker'["primary"][r] # "off"
          PROVE  Target(r) <= schema'["standby"]
      <4>1. Target(r) <= schema["standby"] /\ schema["standby"] <= schema'["standby"]
        BY <1>1, <3>1, <3>2, <3>5 DEF StandbyLeads
      <4> QED
        BY <1>1, <3>3, <4>1
    <3>6. ASSUME reseeded = {}
          PROVE  schema'["primary"] <= schema'["standby"]
      <4>1. /\ schema["primary"] <= schema["standby"]
            /\ worker["primary"][q] # "off" => Target(q) <= schema["standby"]
        BY <3>6 DEF StandbyLeads
      <4> QED
        BY <1>1, <3>1, <3>3, <3>4, <4>1
    <3> QED
      BY <2>1, <2>2, <2>4, <3>5, <3>6 DEF StandbyLeads
  <2> QED
    BY <1>5, <2>3, <2>4 DEF Migrates
<1>6. CASE StandbySchemaReady
  <2>1. SparesDatabases /\ UNCHANGED reseeded
    BY <1>6, ScriptSparesDatabases, SteeringSparesTheNodes
    DEF Steers, StandbySchemaReady, RecoverStandby, EnterPhase, orchestratorVars, gateVars
  <2>2. ASSUME reseeded = {}
        PROVE  Target(rollout) <= schema["standby"]
    <3>1. ~Lost("standby")
      BY <2>2 DEF StandbyLeads, Lost
    <3>2. CASE plan["standby"] = "schema"
      BY <1>6, <3>2 DEF StandbySchemaReady, StandbyJobHolds, Reached
    <3>3. CASE plan["standby"] # "schema"
      <4>1. plan["standby"] = "code"
        BY <1>1, <1>6, <3>3 DEF StandbySchemaReady, PlanIsSafe, Deploying
      <4> QED
        BY <1>1, <1>6, <3>1, <4>1 DEF StandbySchemaReady, PlanIsSafe, BeforeTraffic, Safe, Reached
    <3> QED
      BY <3>2, <3>3
  <2>3. \A r \in Builds : worker'["primary"][r] # "off" =>
            worker["primary"][r] # "off" \/ r = rollout
    BY <1>1, <1>6, StartingIsLocal DEF StandbySchemaReady, WorkerIs
  <2> QED
    BY <1>2, <2>1, <2>2, <2>3
<1>7. CASE DecidePhases
  <2>1. SparesDatabases /\ UNCHANGED reseeded
    BY <1>7, ScriptSparesDatabases, SteeringSparesTheNodes
    DEF Steers, DecidePhases, RecoverStandby, gateVars
  <2>2. \A r \in Builds : worker'["primary"][r] # "off" => worker["primary"][r] # "off"
    BY <1>1, <1>7, StartingIsLocal DEF DecidePhases, WorkerIs
  <2> QED
    BY <1>2, <2>1, <2>2
<1>8. CASE ~ \/ \E c \in Commits : StartRollout(c)
             \/ RecoverStandby \/ Migrates \/ StandbySchemaReady \/ DecidePhases
  <2>1. \/ \E n \in Nodes : PrepareNode(n)
        \/ Steers
        \/ \E n \in Nodes, r \in Builds : MovesTraffic(n, r)
        \/ UNCHANGED rolloutVars
    BY <1>1, <1>8, KindsOfStep, TrafficMoves
  <2>2. SparesDatabases
    BY <1>8, <2>1, ScriptSparesDatabases
  <2>3. UNCHANGED <<worker, reseeded>>
    <3>1. (\E n \in Nodes : PrepareNode(n)) => UNCHANGED <<worker, reseeded>>
      BY PreparingHasThreeEnds DEF PreparingFrame, migrationVars, containerVars, gateVars
    <3>2. Steers => UNCHANGED <<worker, reseeded>>
      BY <1>8
      DEF Steers, PrimaryDataReady, ReconcileStandby, GiveUpWaiting, DecideActivation,
          DecideRollback, FinishRollout, OrchestratorDies, PreparedStatus, migrationVars,
          containerVars, gateVars
    <3> QED
      BY <2>1, <3>1, <3>2 DEF MovesTraffic, rolloutVars, migrationVars, containerVars, gateVars
  <2> QED
    BY <1>2, <2>2, <2>3
<1> QED
  BY <1>3, <1>4, <1>5, <1>6, <1>7, <1>8

SchemasInv ==
    ControllersInv /\ StandbyJobHolds /\ CodeIsSafe /\ PlanIsSafe /\ StandbyLeads

LEMMA SchemasStart ==
    ASSUME RolloutInit
    PROVE  SchemasInv
<1> USE DEF RolloutInit, MigrationInit
<1>1. /\ 0 \in Builds /\ 0 \in Commits /\ FirstSlot \in Slots /\ NoBuild \notin Builds
      /\ Nodes = {"primary", "standby"}
  BY BuildsAreNumbers, TwoSlots, RolloutAssumption DEF Nodes
<1>2. \A n \in Nodes : AtWork(n) = {}
  BY DEF AtWork
<1>3. \A r \in Builds : Target(r) = HeadOf(0)
  BY DEF Target
<1>4. HeadOf(0) = 0
  <2>1. {m \in Migrating : m <= 0} = {}
    <3>1. \A m \in Migrating : m \in 1 .. LastCommit
      BY MigrationAssumption
    <3>2. \A m \in Migrating : ~(m <= 0)
      BY <3>1
    <3> QED
      BY <3>2
  <2> QED
    BY <2>1, FS_EmptySet DEF HeadOf
<1>5. \A n \in Nodes : Safe(n) = Builds /\ Reached(n) = Builds
  BY <1>1, <1>2, <1>3, <1>4 DEF Safe, Reached
<1>6. ControllersInv
  BY <1>2 DEF ControllersInv, OneMigrates, CursorBehind, LostIsIdle
<1>7. CodeIsSafe
  <2>1. PrimaryNames = {0, NoBuild}
    BY <1>1 DEF PrimaryNames
  <2> QED
    BY <1>1, <1>5, <2>1 DEF CodeIsSafe
<1> QED
  BY <1>1, <1>3, <1>4, <1>6, <1>7
  DEF SchemasInv, StandbyJobHolds, PlanIsSafe, StandbyLeads, BeforeTraffic

LEMMA SchemasAreInvariant == RolloutSafety => [](RolloutTypes /\ BuiltInv /\ SchemasInv)
<1> DEFINE Inv == RolloutTypes /\ BuiltInv /\ SchemasInv
<1>1. RolloutInit => Inv
  BY RolloutStarts, SchemasStart
<1>2. Inv /\ [RolloutNext]_rolloutVars => Inv'
  <2> SUFFICES ASSUME Inv, [RolloutNext]_rolloutVars
               PROVE  Inv'
    OBVIOUS
  <2>1. RolloutTypes' /\ BuiltInv'
    BY TypesHold, BuiltHolds
  <2>2. ControllersInv' /\ StandbyJobHolds' /\ CodeIsSafe' /\ PlanIsSafe' /\ StandbyLeads'
    BY <2>1, ControllersHold, StandbyJobStays, CodeStaysSafe, PlansHold, StandbyLeadStays
    DEF SchemasInv
  <2> QED
    BY <2>1, <2>2 DEF SchemasInv
<1> QED
  BY <1>1, <1>2, PTL DEF RolloutSafety

(* The code that answers on a node finds every revision it was built with in  *)
(* that node's database, unless a rebuild of that database broke off half     *)
(* way; and, until a standby is rebuilt, the primary never writes under a     *)
(* revision that the standby does not have.  For any number of rollouts that  *)
(* fail, die, are recovered or are rolled back, again and again, as long as   *)
(* operators do not roll the standby back to a candidate.                     *)
THEOREM CodeFindsItsSchema ==
    ASSUME RollbackCandidates = FALSE
    PROVE  RolloutSafety => []SchemasInOrder
<1>1. RecordedInv /\ SchemasInv => SchemasInOrder
  <2> SUFFICES ASSUME RecordedInv, SchemasInv
               PROVE  SchemasInOrder
    OBVIOUS
  <2>1. ServedOn("standby") = currentRelease["standby"]
    BY DEF RecordedInv, RecordsInv, ServedOn, StandbyAgrees
  <2>2. \A n \in Nodes : ServedOn(n) = NoBuild \/ ServedOn(n) \in Safe(n)
    BY <2>1 DEF SchemasInv, CodeIsSafe, ServedOn, PrimaryNames, Nodes
  <2>3. SchemaBeforeCode
    BY <2>2 DEF SchemaBeforeCode, Safe, Reached
  <2>4. StandbySchemaFirst
    BY DEF SchemasInv, StandbyLeads, StandbySchemaFirst
  <2> QED
    BY <2>3, <2>4 DEF SchemasInOrder
<1>2. RolloutSafety => []RecordedInv
  BY RollbackCandidates = FALSE, RecordedIsInvariant
<1> QED
  BY <1>1, <1>2, SchemasAreInvariant, PTL

(* While traffic is being switched nobody migrates a database, not even a     *)
(* controller that an earlier rollout left behind: its target was reached.    *)
(* Whenever operators roll back.                                              *)
THEOREM ActivationsAreQuiet == RolloutSafety => []QuietActivation
<1>1. RolloutTypes /\ BuiltInv /\ SchemasInv => QuietActivation
  <2> SUFFICES ASSUME RolloutTypes, BuiltInv, SchemasInv, phase = "activating",
                      NEW n \in Nodes, NEW r \in Builds, worker[n][r] = "migrating"
               PROVE  FALSE
    BY DEF QuietActivation
  <2>1. rollout \in Builds /\ Builds \subseteq Nat
    BY BuildsAreNumbers DEF RolloutTypes, RolloutTypeOK
  <2>2. r <= rollout
    <3>1. ~(r > rollout)
      BY DEF BuiltInv, Unbuilt
    <3> QED
      BY <2>1, <3>1
  <2>3. Target(r) <= Target(rollout) /\ Target(r) \in Nat /\ Target(rollout) \in Nat
    BY <2>1, <2>2, TargetsAreNumbers DEF BuiltInv, CommitsGrow
  <2>4. rollout \in Safe(n) /\ r \in AtWork(n)
    BY DEF SchemasInv, PlanIsSafe, AtWork
  <2>5. ~Lost(n)
    BY <2>4 DEF SchemasInv, ControllersInv, LostIsIdle, Lost
  <2>6. Target(rollout) < Target(r)
    BY <2>4, <2>5 DEF Safe, Reached
  <2> QED
    BY <2>3, <2>6
<1> QED
  BY <1>1, SchemasAreInvariant, PTL

-----------------------------------------------------------------------------
(* Both nodes end on one commit. *)

LEMMA DeployingHolds ==
    ASSUME RolloutTypes, DeployingOnly, [RolloutNext]_rolloutVars
    PROVE  DeployingOnly'
<1> USE DEF EnterPhase, EndRollout
<1>1. Nodes = {"primary", "standby"} /\ Deploying \subseteq Nodes
  BY DEF Nodes, Deploying
<1>2. UNCHANGED orchestratorVars => DeployingOnly'
  BY DEF DeployingOnly, orchestratorVars, Deploying
<1>3. phase' \notin {"activating", "rolling_back"} => DeployingOnly'
  BY DEF DeployingOnly
<1>4. CASE DecideActivation
  <2>1. phase' = "idle" \/ (plan' = plan /\ phase' = "activating"
                            /\ awaiting' = Deploying /\ succeeded' = {})
    BY <1>4 DEF DecideActivation
  <2> QED
    BY <1>3, <2>1 DEF DeployingOnly, Deploying
<1>5. CASE DecideRollback
  <2>1. phase' = "identity" \/ (phase = "activating" /\ phase' = "rolling_back"
                                /\ awaiting' = succeeded /\ succeeded # Deploying)
    BY <1>5 DEF DecideRollback
  <2> QED
    BY <1>1, <1>3, <2>1 DEF DeployingOnly
<1>6. CASE Steers /\ ~DecideActivation /\ ~DecideRollback
  BY <1>2, <1>3, <1>6
  DEF Steers, DecidePhases, StandbySchemaReady, RecoverStandby, PrimaryDataReady,
      ReconcileStandby, GiveUpWaiting, FinishRollout, OrchestratorDies, PreparedStatus
<1>7. ASSUME NEW n \in Nodes, ActivateNode(n)
      PROVE  DeployingOnly'
  <2>1. /\ phase = "activating" /\ UNCHANGED <<phase, plan>>
        /\ n \in awaiting /\ awaiting' \subseteq awaiting
        /\ succeeded' \subseteq succeeded \union {n}
    BY <1>7 DEF ActivateNode
  <2> QED
    BY <2>1 DEF DeployingOnly, Deploying
<1>8. ASSUME NEW n \in Nodes, CoordinatedRollback(n)
      PROVE  DeployingOnly'
  BY <1>1, <1>8 DEF CoordinatedRollback, DeployingOnly
<1>9. ASSUME \/ \E n \in Nodes : OperatorRollback(n)
             \/ \E r \in Builds : PrimaryRecovery(r)
             \/ Migrates \/ UNCHANGED rolloutVars
      PROVE  DeployingOnly'
  BY <1>2, <1>9 DEF OperatorRollback, PrimaryRecovery, Migrates, rolloutVars
<1>10. ASSUME \/ \E c \in Commits : StartRollout(c)
              \/ \E n \in Nodes : PrepareNode(n)
       PROVE  DeployingOnly'
  BY <1>3, <1>10 DEF StartRollout, PrepareNode
<1> QED
  BY <1>4, <1>5, <1>6, <1>7, <1>8, <1>9, <1>10, KindsOfStep

(* What is undisturbed after a step was so before, and the step spent none of *)
(* the disturbances.                                                          *)
LEMMA DisturbancesStay ==
    ASSUME RolloutTypes, Undisturbed'
    PROVE  /\ UNCHANGED spent => Undisturbed
           /\ \A what \in Spendings : Spend(what) => Undisturbed /\ what \notin Disturbances
<1>1. spent \in [Spendings -> Nat] /\ Disturbances \subseteq Spendings
  BY DEF RolloutTypes, Counted, Disturbances, Spendings
<1>2. UNCHANGED spent => Undisturbed
  BY DEF Undisturbed
<1>3. ASSUME NEW what \in Spendings, Spend(what)
      PROVE  Undisturbed /\ what \notin Disturbances
  <2>1. spent' = [spent EXCEPT ![what] = spent[what] + 1]
    BY <1>3 DEF Spend
  <2>2. what \notin Disturbances
    <3>1. spent'[what] = spent[what] + 1 /\ spent[what] \in Nat
      BY <1>1, <2>1
    <3> QED
      BY <3>1 DEF Undisturbed
  <2>3. \A s \in Disturbances : spent'[s] = spent[s]
    BY <1>1, <2>1, <2>2
  <2> QED
    BY <2>2, <2>3 DEF Undisturbed
<1> QED
  BY <1>2, <1>3

(* What an activation does to the primary that goes through, or whose smoke    *)
(* test fails.                                                                *)
PrimaryTakes(r) ==
    /\ PrimaryMovedTo(r, r, r, r)
    /\ primaryPast' = primaryPast \ {"halfway", "rolled_back"}

PrimaryReturns ==
    /\ PrimaryMovedTo(currentRelease["primary"], primary.override, primary.override,
                      primary.manifest)
    /\ primaryPast' = primaryPast \ {"rolled_back"}

(* An activation that nothing disturbs. *)
Activates(n) ==
    /\ phase = "activating" /\ phase' = phase /\ n \in awaiting
    /\ UNCHANGED <<commitOf, rollout, plan>>
    /\ \/ /\ CandidateRuns(n, rollout) /\ succeeded' = succeeded \union {n}
          /\ \/ n = "standby" /\ StandbyTakes(rollout)
             \/ n = "primary" /\ PrimaryTakes(rollout)
       \/ /\ UNCHANGED succeeded
          /\ \/ n = "standby" /\ StandbyRestores(rollout)
             \/ n = "primary" /\ PrimaryReturns
             \/ UNCHANGED nodeVars

(* A rollback by the script that nothing disturbs. *)
IsRolledBack(n) ==
    /\ phase = "rolling_back" /\ phase' = phase /\ n \in awaiting
    /\ awaiting' = awaiting \ {n}
    /\ UNCHANGED <<commitOf, rollout, plan>>
    /\ \/ n = "standby" /\ StandbyGoesBack
       \/ /\ n = "primary"
          /\ UNCHANGED standby
          /\ currentRelease' = [currentRelease EXCEPT !["primary"] = GoesBackTo("primary")]
          /\ primaryPast' = (primaryPast \ {"halfway"}) \union {"rolled_back"} \union Doubling
       \/ ~CanRollBack(n) /\ UNCHANGED nodeVars

LEMMA UndisturbedSteps ==
    ASSUME RolloutTypes, [RolloutNext]_rolloutVars, Undisturbed'
    PROVE  /\ Undisturbed
           /\ \/ \E c \in Commits : StartRollout(c)
              \/ \E n \in Nodes : PrepareNode(n)
              \/ Steers /\ ~OrchestratorDies
              \/ \E n \in Nodes : Activates(n)
              \/ \E n \in Nodes : IsRolledBack(n)
              \/ UNCHANGED <<commitOf, orchestratorVars, nodeVars>>
<1>1. /\ Nodes = {"primary", "standby"} /\ rollout \in Builds
      /\ \A what \in Disturbances : ~Spend(what)
      /\ UNCHANGED spent \/ Spend("nodeFaults") => Undisturbed
  BY DisturbancesStay DEF RolloutTypes, RolloutTypeOK, Disturbances, Spendings, Nodes
<1>2. ASSUME NEW c \in Commits, StartRollout(c)
      PROVE  Undisturbed
  BY <1>1, <1>2 DEF StartRollout
<1>3. ASSUME NEW n \in Nodes, PrepareNode(n)
      PROVE  Undisturbed
  BY <1>1, <1>3, PreparingHasThreeEnds DEF NeedsNothing, BecomesReady, FailsToPrepare
<1>4. ASSUME Steers
      PROVE  Undisturbed /\ ~OrchestratorDies
  <2>1. ~OrchestratorDies
    BY <1>1 DEF OrchestratorDies, Disturbances
  <2>2. UNCHANGED spent \/ Spend("nodeFaults")
    BY <1>4, <2>1
    DEF Steers, DecidePhases, StandbySchemaReady, RecoverStandby, PrimaryDataReady,
        ReconcileStandby, GiveUpWaiting, DecideActivation, DecideRollback, FinishRollout,
        PreparedStatus
  <2> QED
    BY <1>1, <2>1, <2>2
<1>5. ASSUME NEW n \in Nodes, ActivateNode(n)
      PROVE  Undisturbed /\ Activates(n)
  <2>1. /\ phase = "activating" /\ phase' = phase /\ n \in awaiting
        /\ UNCHANGED <<commitOf, rollout, plan>>
    BY <1>5 DEF ActivateNode
  <2>2. \/ /\ CandidateRuns(n, rollout) /\ TakeTraffic(n, rollout)
           /\ succeeded' = succeeded \union {n} /\ UNCHANGED spent
        \/ /\ CandidateRuns(n, rollout) /\ RestoreTraffic(n, rollout)
           /\ UNCHANGED <<prepared, succeeded>> /\ Spend("nodeFaults")
        \/ UNCHANGED <<nodeVars, spent, succeeded>>
    BY <1>1, <1>5, Zenon DEF ActivateNode, Disturbances
  <2>3. ASSUME CandidateRuns(n, rollout), TakeTraffic(n, rollout)
        PROVE  \/ n = "standby" /\ StandbyTakes(rollout)
               \/ n = "primary" /\ PrimaryTakes(rollout)
    BY <1>1, <2>3, StandbySwitches, SwitchMoves DEF TakeTraffic, PrimaryTakes, SwitchPrimary
  <2>4. ASSUME CandidateRuns(n, rollout), RestoreTraffic(n, rollout), UNCHANGED prepared
        PROVE  \/ n = "standby" /\ StandbyRestores(rollout)
               \/ n = "primary" /\ PrimaryReturns
    BY <1>1, <2>4, StandbyReturns, RestoreMoves DEF RestoreTraffic, PrimaryReturns, RestorePrimary
  <2> QED
    BY <1>1, <2>1, <2>2, <2>3, <2>4 DEF Activates
<1>6. ASSUME NEW n \in Nodes, CoordinatedRollback(n)
      PROVE  Undisturbed /\ IsRolledBack(n)
  <2>1. /\ phase = "rolling_back" /\ phase' = phase /\ n \in awaiting
        /\ awaiting' = awaiting \ {n}
        /\ UNCHANGED <<commitOf, rollout, plan>>
    BY <1>6 DEF CoordinatedRollback
  <2>2. \/ RollBack(n) /\ UNCHANGED spent
        \/ ~CanRollBack(n) /\ UNCHANGED <<nodeVars, spent>>
    BY <1>1, <1>6, Zenon DEF CoordinatedRollback, Disturbances
  <2>3. ASSUME RollBack("primary")
        PROVE  /\ UNCHANGED standby
               /\ currentRelease' =
                      [currentRelease EXCEPT !["primary"] = GoesBackTo("primary")]
               /\ primaryPast' =
                      (primaryPast \ {"halfway"}) \union {"rolled_back"} \union Doubling
    BY <2>3 DEF RollBack, RollBackPrimary, GoesBackTo
  <2> QED
    BY <1>1, <2>1, <2>2, <2>3, StandbyReturns DEF IsRolledBack
<1>7. ASSUME \/ \E n \in Nodes : OperatorRollback(n)
             \/ \E r \in Builds : PrimaryRecovery(r)
      PROVE  FALSE
  BY <1>1, <1>7 DEF OperatorRollback, PrimaryRecovery, Disturbances
<1>8. ASSUME Migrates \/ UNCHANGED rolloutVars
      PROVE  Undisturbed /\ UNCHANGED <<commitOf, orchestratorVars, nodeVars>>
  BY <1>1, <1>8 DEF Migrates, rolloutVars
<1> QED
  BY <1>2, <1>3, <1>4, <1>5, <1>6, <1>7, <1>8, KindsOfStep

(* Who is ahead while the script decides. *)
LEMMA SteeringKeepsAhead ==
    ASSUME Steers, ~OrchestratorDies
    PROVE  Ahead' = Ahead \/ (Ahead' = {} /\ phase = "activating" /\ succeeded = Deploying)
<1> USE DEF EnterPhase, EndRollout
<1>1. CASE DecideRollback
  BY <1>1 DEF DecideRollback, Ahead
<1>2. CASE FinishRollout
  BY <1>2 DEF FinishRollout, Ahead
<1>3. CASE DecideActivation
  BY <1>3 DEF DecideActivation, Ahead
<1>4. CASE RecoverStandby
  BY <1>4 DEF RecoverStandby, orchestratorVars, Ahead
<1>5. CASE \/ DecidePhases \/ StandbySchemaReady \/ PrimaryDataReady \/ ReconcileStandby
           \/ GiveUpWaiting
  BY <1>5 DEF DecidePhases, StandbySchemaReady, PrimaryDataReady, ReconcileStandby,
              GiveUpWaiting, Ahead
<1>6. ASSUME NEW n \in Nodes, PreparedStatus(n)
      PROVE  Ahead' = Ahead
  BY <1>6 DEF PreparedStatus, Ahead
<1> QED
  BY <1>1, <1>2, <1>3, <1>4, <1>5, <1>6 DEF Steers

LEMMA PastStaysPlain ==
    ASSUME RolloutTypes, RecordsInv, PastIsPlain, [RolloutNext]_rolloutVars
    PROVE  PastIsPlain'
<1> SUFFICES ASSUME Undisturbed'
             PROVE  /\ primaryPast' \subseteq {"rolled_back"}
                    /\ "primary" \in Ahead' => primaryPast' = {}
  BY DEF PastIsPlain
<1>1. /\ primaryPast \subseteq {"rolled_back"}
      /\ "primary" \in Ahead => primaryPast = {}
  BY UndisturbedSteps DEF PastIsPlain
<1>2. ASSUME UNCHANGED primaryPast, Ahead' \subseteq Ahead
      PROVE  /\ primaryPast' \subseteq {"rolled_back"}
             /\ "primary" \in Ahead' => primaryPast' = {}
  BY <1>1, <1>2
<1>3. ASSUME NEW c \in Commits, StartRollout(c)
      PROVE  UNCHANGED primaryPast /\ Ahead' = {}
  BY <1>3 DEF StartRollout, EnterPhase, nodeVars, Ahead
<1>4. ASSUME NEW n \in Nodes, PrepareNode(n)
      PROVE  UNCHANGED primaryPast /\ Ahead' = {}
  BY <1>4, PreparingHasThreeEnds DEF PreparingFrame, Ahead
<1>5. ASSUME Steers, ~OrchestratorDies
      PROVE  UNCHANGED primaryPast /\ Ahead' \subseteq Ahead
  BY <1>5, SteeringKeepsAhead, SteeringSparesTheNodes DEF nodeVars
<1>6. ASSUME NEW n \in Nodes, Activates(n)
      PROVE  /\ primaryPast' \subseteq {"rolled_back"}
             /\ "primary" \in Ahead' => primaryPast' = {}
  <2>1. Ahead = succeeded /\ Ahead' = succeeded' /\ n \notin succeeded
    BY <1>6 DEF Activates, Ahead, RecordsInv, AwaitedOnce
  <2>2. CASE primaryPast' = primaryPast
    BY <1>1, <1>6, <2>1, <2>2 DEF Activates, PrimaryTakes
  <2>3. CASE primaryPast' # primaryPast
    <3>1. n = "primary" /\ (PrimaryTakes(rollout) \/ PrimaryReturns)
      BY <1>6, <2>3 DEF Activates, StandbyTakes, StandbyRestores, nodeVars
    <3> QED
      BY <1>1, <3>1 DEF PrimaryTakes, PrimaryReturns
  <2> QED
    BY <2>2, <2>3
<1>7. ASSUME NEW n \in Nodes, IsRolledBack(n)
      PROVE  /\ primaryPast' \subseteq {"rolled_back"}
             /\ "primary" \in Ahead' => primaryPast' = {}
  <2>1. Ahead = awaiting /\ Ahead' = awaiting \ {n} /\ n \in Ahead
    BY <1>7 DEF IsRolledBack, Ahead
  <2> QED
    BY <1>1, <1>7, <2>1 DEF IsRolledBack, StandbyGoesBack, Doubling, nodeVars
<1>8. UNCHANGED <<commitOf, orchestratorVars, nodeVars>> =>
          UNCHANGED primaryPast /\ Ahead' = Ahead
  BY DEF orchestratorVars, nodeVars, Ahead
<1> QED
  BY <1>2, <1>3, <1>4, <1>5, <1>6, <1>7, <1>8, UndisturbedSteps

(* The primary's CURRENT is the base of its next plan. *)
LEMMA PlainBase ==
    ASSUME RecordsInv, PastIsPlain, Undisturbed, NEW n \in Nodes
    PROVE  BaseOf(n) = currentRelease[n] /\ primary.runs = currentRelease["primary"]
BY DEF RecordsInv, PrimaryAgrees, PastIsPlain, BaseOf, Nodes

LEMMA PlanIsFollowed ==
    ASSUME RolloutTypes, RecordsInv, PastIsPlain, NodesFollowPlan, [RolloutNext]_rolloutVars
    PROVE  NodesFollowPlan'
<1> USE DEF EnterPhase, EndRollout, BeforeTraffic
<1> SUFFICES ASSUME Undisturbed'
             PROVE  NodesFollowPlan'
  BY DEF NodesFollowPlan
<1>1. Undisturbed /\ currentRelease \in [Nodes -> Builds] /\ Nodes = {"primary", "standby"}
      /\ plan \in [Nodes -> Plans]
  BY UndisturbedSteps DEF RolloutTypes, RolloutTypeOK, Nodes
<1>2. ASSUME NEW c \in Commits, StartRollout(c)
      PROVE  NodesFollowPlan'
  BY <1>2 DEF StartRollout, NodesFollowPlan, Unplanned
<1>3. ASSUME NEW n \in Nodes, PrepareNode(n)
      PROVE  NodesFollowPlan'
  <2>1. /\ phase = "preparing" /\ PreparingFrame
        /\ NeedsNothing(n) \/ BecomesReady(n) \/ FailsToPrepare(n)
    BY <1>3, PreparingHasThreeEnds
  <2>2. UNCHANGED <<commitOf, rollout, phase, currentRelease>>
    BY <2>1 DEF PreparingFrame
  <2>3. plan' = plan \/ plan' = [plan EXCEPT ![n] = Needs(n)]
    BY <2>1 DEF NeedsNothing, BecomesReady, FailsToPrepare
  <2>4. Needs(n) = "none" => commitOf[currentRelease[n]] = commitOf[rollout]
    BY <1>1, PlainBase DEF Needs
  <2>5. \A m \in Nodes : plan'[m] = plan[m] \/ (m = n /\ plan'[m] = Needs(n))
    BY <1>1, <2>3
  <2> QED
    BY <1>1, <2>1, <2>2, <2>4, <2>5 DEF NodesFollowPlan
<1>4. ASSUME Steers, ~OrchestratorDies
      PROVE  NodesFollowPlan'
  <2>1. UNCHANGED <<commitOf, rollout, currentRelease>>
    BY <1>4, SteeringSparesTheNodes DEF nodeVars
  <2>2. \/ phase' \in {"idle", "identity", "rolling_back"}
        \/ /\ plan' = plan
           /\ \/ phase \in BeforeTraffic /\ (phase' \in BeforeTraffic \/ succeeded' = {})
              \/ phase = "activating" /\ phase' = phase /\ succeeded' = succeeded
        \/ UNCHANGED <<phase, plan, succeeded>>
    BY <1>4
    DEF Steers, DecidePhases, StandbySchemaReady, RecoverStandby, PrimaryDataReady,
        ReconcileStandby, GiveUpWaiting, DecideActivation, DecideRollback, FinishRollout,
        PreparedStatus, orchestratorVars
  <2> QED
    BY <1>1, <2>1, <2>2 DEF NodesFollowPlan
<1>5. ASSUME NEW n \in Nodes, Activates(n)
      PROVE  NodesFollowPlan'
  <2>1. /\ phase = "activating" /\ phase' = phase
        /\ UNCHANGED <<commitOf, rollout, plan>>
    BY <1>5 DEF Activates
  <2>2. \/ /\ succeeded' = succeeded \union {n} /\ currentRelease'[n] = rollout
           /\ \A m \in Nodes : m # n => currentRelease'[m] = currentRelease[m]
        \/ /\ succeeded' = succeeded
           /\ \A m \in Nodes : currentRelease'[m] = currentRelease[m]
    BY <1>1, <1>5
    DEF Activates, StandbyTakes, StandbyRestores, PrimaryTakes, PrimaryReturns, PrimaryMovedTo,
        nodeVars
  <2> QED
    BY <1>1, <2>1, <2>2 DEF NodesFollowPlan
<1>6. ASSUME NEW n \in Nodes, IsRolledBack(n)
      PROVE  NodesFollowPlan'
  BY <1>6 DEF IsRolledBack, NodesFollowPlan
<1>7. UNCHANGED <<commitOf, orchestratorVars, nodeVars>> => NodesFollowPlan'
  BY <1>1 DEF NodesFollowPlan, orchestratorVars, nodeVars
<1> QED
  BY <1>2, <1>3, <1>4, <1>5, <1>6, <1>7, UndisturbedSteps

LEMMA AgreementHolds ==
    ASSUME RolloutTypes, BuiltInv, RecordsInv, PlanIsSafe, DeployingOnly, PastIsPlain,
           NodesFollowPlan, RolloutAgrees, [RolloutNext]_rolloutVars
    PROVE  RolloutAgrees'
<1> SUFFICES ASSUME Undisturbed'
             PROVE  RolloutAgrees'
  BY DEF RolloutAgrees
<1>1. /\ rollout \in Builds /\ rollout \in Nat /\ Builds \subseteq Nat
      /\ plan \in [Nodes -> Plans] /\ Nodes = {"primary", "standby"}
      /\ currentRelease \in [Nodes -> Builds] /\ succeeded \subseteq Nodes /\ awaiting \subseteq Nodes
      /\ standby \in StandbyRecords /\ primary \in PrimaryRecords /\ prepared \in Preparations
      /\ NoBuild \notin Builds /\ commitOf \in [Builds -> Commits]
      /\ Undisturbed
  BY RolloutAssumption, BuildsAreNumbers, UndisturbedSteps
  DEF RolloutTypes, RolloutTypeOK, MigrationTypeOK, Nodes, StandbyRecords, PrimaryRecords,
      Preparations
<1>2. ASSUME UNCHANGED <<commitOf, currentRelease>>, Ahead' = Ahead,
             \A n \in Ahead : CanRollBack(n)' = CanRollBack(n) /\ GoesBackTo(n)' = GoesBackTo(n)
      PROVE  RolloutAgrees'
  BY <1>1, <1>2 DEF RolloutAgrees, ReturnsTo
<1>3. ASSUME Ahead = {}, Ahead' = {},
             \A n \in Nodes : commitOf'[currentRelease'[n]] = commitOf[currentRelease[n]]
      PROVE  RolloutAgrees'
  BY <1>1, <1>3 DEF RolloutAgrees, ReturnsTo
<1>4. ASSUME NEW c \in Commits, StartRollout(c)
      PROVE  RolloutAgrees'
  <2>1. /\ phase = "idle" /\ phase' = "preparing"
        /\ commitOf' = [commitOf EXCEPT ![rollout + 1] = c]
        /\ UNCHANGED currentRelease
    BY <1>4 DEF StartRollout, EnterPhase, nodeVars
  <2>2. Ahead = {} /\ Ahead' = {}
    BY <2>1 DEF Ahead
  <2>3. \A n \in Nodes : currentRelease[n] \in Builds /\ currentRelease[n] <= rollout
    <3>1. currentRelease["primary"] \in PrimaryNames \ {NoBuild}
      BY <1>1 DEF PrimaryNames
    <3> QED
      BY <1>1, <3>1 DEF BuiltInv, OnlyBuilt
  <2>4. \A n \in Nodes : currentRelease[n] # rollout + 1
    BY <1>1, <2>3
  <2> QED
    BY <1>1, <1>3, <2>1, <2>2, <2>3, <2>4
<1>5. ASSUME NEW n \in Nodes, PrepareNode(n)
      PROVE  RolloutAgrees'
  <2>1. phase = "preparing" /\ PreparingFrame
    BY <1>5, PreparingHasThreeEnds
  <2>2. Ahead = {} /\ Ahead' = {}
    BY <2>1 DEF Ahead, PreparingFrame
  <2> QED
    BY <1>3, <2>1, <2>2 DEF PreparingFrame
<1>6. ASSUME Steers, ~OrchestratorDies
      PROVE  RolloutAgrees'
  <2>1. UNCHANGED <<commitOf, rollout, nodeVars>>
    BY <1>6, SteeringSparesTheNodes
  <2>2. CASE Ahead' = Ahead
    BY <1>2, <2>1, <2>2 DEF nodeVars, CanRollBack, GoesBackTo
  <2>3. CASE Ahead' = {} /\ phase = "activating" /\ succeeded = Deploying
    <3>1. ASSUME NEW n \in Nodes
          PROVE  commitOf[currentRelease[n]] = commitOf[rollout]
      <4>1. CASE n \in succeeded
        BY <1>1, <2>3, <4>1 DEF NodesFollowPlan
      <4>2. CASE n \notin succeeded
        <5>1. plan[n] = "none"
          BY <1>1, <2>3, <4>2 DEF PlanIsSafe, Deploying, Plans
        <5> QED
          BY <1>1, <2>3, <5>1 DEF NodesFollowPlan
      <4> QED
        BY <4>1, <4>2
    <3> QED
      BY <2>1, <2>3, <3>1 DEF RolloutAgrees, ReturnsTo, nodeVars
  <2> QED
    BY <1>6, <2>2, <2>3, SteeringKeepsAhead
<1>7. ASSUME NEW n \in Nodes, Activates(n)
      PROVE  RolloutAgrees'
  <2>1. /\ phase = "activating" /\ UNCHANGED <<commitOf, rollout>>
        /\ Ahead = succeeded /\ Ahead' = succeeded' /\ n \notin succeeded
    BY <1>7 DEF Activates, Ahead, RecordsInv, AwaitedOnce
  <2>2. ASSUME CandidateRuns(n, rollout), succeeded' = succeeded \union {n},
               \/ n = "standby" /\ StandbyTakes(rollout)
               \/ n = "primary" /\ PrimaryTakes(rollout)
        PROVE  RolloutAgrees'
    <3> SUFFICES ASSUME NEW m \in Nodes \ succeeded', NEW k \in Nodes
                 PROVE  ReturnsTo(k, m)'
      BY <2>1 DEF RolloutAgrees
    <3>1. m \notin succeeded /\ m # n /\ k \in {m, n}
      BY <1>1, <2>2
    <3>2. commitOf[currentRelease[n]] = commitOf[currentRelease[m]]
      BY <1>1, <2>1, <3>1 DEF RolloutAgrees, ReturnsTo
    <3>3. currentRelease'[m] = currentRelease[m]
      BY <1>1, <2>2, <3>1 DEF StandbyTakes, PrimaryTakes, PrimaryMovedTo
    <3>4. CanRollBack(n)' /\ GoesBackTo(n)' = currentRelease[n]
      <4>1. CASE n = "primary"
        BY <1>1, <2>2, <4>1 DEF PrimaryTakes, PrimaryMovedTo, CanRollBack, GoesBackTo
      <4>2. CASE n = "standby"
        <5> DEFINE made == prepared["standby"][rollout]
        <5>1. /\ made # Unprepared /\ standby.active = made.before
              /\ made.before = OtherSlot(made.slot)
          BY <1>7, <2>1, <2>2, <4>2
          DEF Activates, CandidateRuns, RecordsInv, CandidateIsApart, Pending
        <5>2. /\ standby'.active = made.slot /\ made.slot \in Slots /\ made.before \in Slots
              /\ \A s \in Slots : /\ standby'.runs[s] = standby.runs[s]
                                  /\ standby'.named[s] = IF s = made.slot THEN rollout
                                                         ELSE standby.named[s]
          BY <2>2, <4>2 DEF StandbyTakes
        <5>3. OtherSlot(standby'.active) = made.before /\ made.before # made.slot
          BY <5>1, <5>2, TwoSlots
        <5>4. /\ standby.named[made.before] = currentRelease["standby"]
              /\ standby.runs[made.before] = currentRelease["standby"]
          BY <5>1 DEF RecordsInv, StandbyAgrees
        <5>5. /\ standby'.named[made.before] = currentRelease["standby"]
              /\ standby'.runs[made.before] = currentRelease["standby"]
          BY <5>2, <5>3, <5>4
        <5> QED
          BY <1>1, <4>2, <5>3, <5>5 DEF CanRollBack, GoesBackTo
      <4> QED
        BY <1>1, <4>1, <4>2
    <3>5. CASE k = m
      BY <2>1, <3>5 DEF ReturnsTo
    <3>6. CASE k = n
      BY <2>1, <2>2, <3>2, <3>3, <3>4, <3>6 DEF ReturnsTo
    <3> QED
      BY <3>1, <3>5, <3>6
  <2>3. ASSUME UNCHANGED succeeded,
               \/ n = "standby" /\ StandbyRestores(rollout)
               \/ n = "primary" /\ PrimaryReturns
               \/ UNCHANGED nodeVars
        PROVE  RolloutAgrees'
    <3>1. currentRelease' = currentRelease
      BY <1>1, <2>3 DEF StandbyRestores, PrimaryReturns, PrimaryMovedTo, nodeVars
    <3>2. \A k \in Ahead : IF k = "standby" THEN standby' = standby ELSE primary' = primary
      BY <1>1, <2>1, <2>3 DEF StandbyRestores, PrimaryReturns, PrimaryMovedTo, nodeVars
    <3>3. \A k \in Ahead : CanRollBack(k)' = CanRollBack(k) /\ GoesBackTo(k)' = GoesBackTo(k)
      BY <3>2 DEF CanRollBack, GoesBackTo
    <3> QED
      BY <1>2, <2>1, <2>3, <3>1, <3>3
  <2> QED
    BY <1>7, <2>2, <2>3 DEF Activates
<1>8. ASSUME NEW n \in Nodes, IsRolledBack(n)
      PROVE  RolloutAgrees'
  <2>1. /\ phase = "rolling_back" /\ phase' = phase /\ n \in awaiting
        /\ awaiting' = awaiting \ {n} /\ UNCHANGED <<commitOf, rollout>>
    BY <1>8 DEF IsRolledBack
  <2>2. awaiting = {n} /\ Ahead = {n} /\ Ahead' = {}
    BY <1>1, <2>1 DEF DeployingOnly, Ahead
  <2>3. PICK o \in Nodes : o # n /\ Nodes = {n, o}
    BY <1>1
  <2>4. CanRollBack(n) /\ commitOf[GoesBackTo(n)] = commitOf[currentRelease[o]]
    BY <1>1, <2>2, <2>3 DEF RolloutAgrees, ReturnsTo
  <2>5. currentRelease' = [currentRelease EXCEPT ![n] = GoesBackTo(n)]
    BY <1>8, <2>4 DEF IsRolledBack, StandbyGoesBack
  <2>6. \A i \in Nodes : commitOf'[currentRelease'[i]] = commitOf[currentRelease[o]]
    BY <1>1, <2>1, <2>3, <2>4, <2>5
  <2> QED
    BY <2>2, <2>6 DEF RolloutAgrees, ReturnsTo
<1>9. ASSUME UNCHANGED <<commitOf, orchestratorVars, nodeVars>>
      PROVE  RolloutAgrees'
  BY <1>2, <1>9 DEF orchestratorVars, nodeVars, Ahead, CanRollBack, GoesBackTo
<1> QED
  BY <1>4, <1>5, <1>6, <1>7, <1>8, <1>9, UndisturbedSteps

(* A rollout that has ended leaves both nodes on the same commit, however it  *)
(* failed, unless a command failed after it had taken effect or was stopped   *)
(* by the container engine, the script died half way, or somebody moved one   *)
(* node alone.                                                                *)
THEOREM NodesEndOnOneCommit ==
    ASSUME RollbackCandidates = FALSE
    PROVE  RolloutSafety => []NodesAgree
<1> DEFINE Follows == DeployingOnly /\ PastIsPlain /\ NodesFollowPlan /\ RolloutAgrees
           Inv == RecordedInv /\ SchemasInv /\ Follows
<1>1. RolloutInit => Inv
  <2> SUFFICES ASSUME RolloutInit
               PROVE  Follows
    BY RolloutStarts, SchemasStart DEF RecordedInv
  <2>1. /\ phase = "idle" /\ primaryPast = {} /\ \A n \in Nodes : currentRelease[n] = 0
    BY DEF RolloutInit
  <2> QED
    BY <2>1 DEF DeployingOnly, PastIsPlain, NodesFollowPlan, RolloutAgrees, ReturnsTo, Ahead,
                BeforeTraffic
<1>2. Inv /\ [RolloutNext]_rolloutVars => Inv'
  <2> SUFFICES ASSUME Inv, [RolloutNext]_rolloutVars
               PROVE  Inv'
    OBVIOUS
  <2> USE DEF RecordedInv, SchemasInv
  <2>1. RolloutTypes' /\ BuiltInv' /\ RecordsInv'
    BY RollbackCandidates = FALSE, TypesHold, BuiltHolds, RecordsHold
  <2>2. ControllersInv' /\ StandbyJobHolds' /\ CodeIsSafe' /\ PlanIsSafe' /\ StandbyLeads'
    BY <2>1, ControllersHold, StandbyJobStays, CodeStaysSafe, PlansHold, StandbyLeadStays
  <2>3. DeployingOnly' /\ PastIsPlain' /\ NodesFollowPlan' /\ RolloutAgrees'
    BY DeployingHolds, PastStaysPlain, PlanIsFollowed, AgreementHolds
  <2> QED
    BY <2>1, <2>2, <2>3
<1>3. Inv => NodesAgree
  <2> SUFFICES ASSUME Inv, phase = "idle", Undisturbed
               PROVE  commitOf[ServedOn("primary")] = commitOf[ServedOn("standby")]
    BY DEF NodesAgree
  <2>1. Ahead = {} /\ "primary" \in Nodes /\ "standby" \in Nodes
    BY DEF Ahead, Nodes
  <2>2. commitOf[currentRelease["primary"]] = commitOf[currentRelease["standby"]]
    BY <2>1 DEF RolloutAgrees, ReturnsTo
  <2>3. ServedOn("primary") = currentRelease["primary"]
    BY <2>1, PlainBase DEF RecordedInv, ServedOn
  <2>4. ServedOn("standby") = currentRelease["standby"]
    BY DEF RecordedInv, RecordsInv, ServedOn, StandbyAgrees
  <2> QED
    BY <2>2, <2>3, <2>4
<1> HIDE DEF Inv
<1> QED
  BY <1>1, <1>2, <1>3, PTL DEF RolloutSafety

-----------------------------------------------------------------------------
(* Both kinds of release together. *)

LEMMA BothKindsRun == BothSpec => ReleaseSafety /\ RolloutSafety
<1>1. BothInit => ReleaseInit /\ RolloutInit
  BY DEF BothInit
<1>2. [BothNext]_bothVars => [ReleaseNext]_orchestrationVars /\ [RolloutNext]_rolloutVars
  BY DEF BothNext, bothVars
<1> QED
  BY <1>1, <1>2, PTL DEF BothSpec, ReleaseSafety, RolloutSafety

(* The rows of a release and the records of the nodes keep their types, with  *)
(* everybody at work that drives either.                                      *)
THEOREM BothTypesCorrect == BothSpec => []BothTypeOK
<1>1. ReleaseTypeOK /\ RolloutTypeOK => BothTypeOK
  BY DEF BothTypeOK
<1> QED
  BY <1>1, BothKindsRun, ReleaseTypeCorrect, RolloutTypeCorrect, PTL

=============================================================================
