SPECIFICATION RolloutSpec
CONSTANTS
  MaxRollouts = 2
  LastCommit = 2
  Migrating = {2}
  MaxMigrationFaults = 0
  MaxDrifts = 0
  NoBuild = NoBuild
  blue = blue
  green = green
  Slots = {blue, green}
  MaxNodeFaults = 0
  MaxSlips = 0
  MaxEngineFaults = 0
  MaxDeaths = 0
  MaxRecoveries = 0
  MaxRollbacks = 1
  MaxTogether = 1
  RollbackNodes = {"standby"}
  RollbackCandidates = TRUE
INVARIANT
  SchemaBeforeCode
CHECK_DEADLOCK FALSE
