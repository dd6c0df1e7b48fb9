SPECIFICATION ReleaseSpec
CONSTANTS
  a1 = a1
  r1 = r1
  reconciler = reconciler
  Callers = {a1}
  Releases = {r1}
  NoRelease = NoRelease
  Drivers = {reconciler}
  Reconciler = reconciler
  ApiResumes = FALSE
  JobCount = 0
  Workers = {}
  NoWorker = NoWorker
  MaxDeployments = 1
  MaxRepairs = 0
  AutoActivated = {}
  PublicServices = {1}
  Static = {1}
PROPERTIES InterruptedActivationsResume
CHECK_DEADLOCK FALSE
