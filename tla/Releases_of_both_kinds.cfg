SPECIFICATION BothSpec
CONSTANTS
  a1 = a1
  a2 = a2
  r1 = r1
  reconciler = reconciler
  api = api
  Callers = {a1, a2}
  Releases = {r1}
  NoRelease = NoRelease
  Drivers = {reconciler, api}
  Reconciler = reconciler
  ApiResumes = TRUE
  JobCount = 1
  Workers = {}
  NoWorker = NoWorker
  MaxDeployments = 2
  MaxRepairs = 1
  AutoActivated = {}
  PublicServices = {1, 2}
  Static = {}
  MaxRollouts = 2
  LastCommit = 3
  Migrating = {1, 2}
  MaxMigrationFaults = 1
  MaxDrifts = 1
  NoBuild = NoBuild
  blue = blue
  green = green
  Slots = {blue, green}
  MaxNodeFaults = 1
  MaxSlips = 1
  MaxEngineFaults = 1
  MaxDeaths = 1
  MaxRecoveries = 1
  MaxRollbacks = 2
  MaxTogether = 2
  RollbackNodes = {"primary", "standby"}
  RollbackCandidates = FALSE
INVARIANTS BothTypeOK ActivationIsEarned OneActivationAtATime OneCandidatePerRelease
  SchemasInOrder RecordIsServed NodesAgree QuietActivation
PROPERTIES RouteGivenToRunning EndedReleasesStay LiveSlotIsKept EveryRolloutEnds
CHECK_DEADLOCK FALSE
