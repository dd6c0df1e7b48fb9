SPECIFICATION ControllerSpec
CONSTANTS
  w1 = w1
  w2 = w2
  Workers = {w1, w2}
  NoWorker = NoWorker
  MaxDeployments = 2
  MaxRepairs = 0
  MaxCrashes = 0
  AutoActivated = {1, 2}
  PublicServices = {1, 2}
  Static = {1}
  Jobs = {}
  LeaseCoversBuild = FALSE
INVARIANTS RouteWasHealthy
CHECK_DEADLOCK FALSE
