SPECIFICATION RetentionSpec
CONSTANTS
  w1 = w1
  Workers = {w1}
  NoWorker = NoWorker
  p1 = p1
  Appliers = {p1}
  MaxOperations = 1
  KeepRecent = 2
  EvidencePolicies = {FALSE}
  WindowPolicies = {TRUE}
  MaxDeployments = 2
  MaxRepairs = 0
  MaxCrashes = 0
  AutoActivated = {1, 2}
  PublicServices = {1, 2}
  Static = {}
  Jobs = {}
  LeaseCoversBuild = TRUE
INVARIANT RouteIsNotRetired
CHECK_DEADLOCK FALSE
