SPECIFICATION ReleaseSafety
CONSTANTS
  r1 = r1
  reconciler = reconciler
  api = api
  Callers = {}
  Releases = {r1}
  NoRelease = NoRelease
  Drivers = {reconciler, api}
  Reconciler = reconciler
  ApiResumes = TRUE
  JobCount = 2
  Workers = {}
  NoWorker = NoWorker
  MaxDeployments = 1
  MaxRepairs = 0
  AutoActivated = {}
  PublicServices = {1}
  Static = {1}
INVARIANTS ActivationIsEarned
CHECK_DEADLOCK FALSE
