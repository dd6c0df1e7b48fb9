SPECIFICATION ReleaseSpec
CONSTANTS
  a1 = a1
  a2 = a2
  r1 = r1
  r2 = r2
  reconciler = reconciler
  Callers = {a1, a2}
  Releases = {r1, r2}
  NoRelease = NoRelease
  Drivers = {reconciler}
  Reconciler = reconciler
  ApiResumes = FALSE
  JobCount = 0
  Workers = {}
  NoWorker = NoWorker
  MaxDeployments = 2
  MaxRepairs = 0
  AutoActivated = {}
  PublicServices = {1, 2}
  Static = {1, 2}
PROPERTIES FailureSparesOtherRoutes VerifiedHoldsRoute VerifiedWasConfirmed AcceptedReleasesAdvance
CHECK_DEADLOCK FALSE
