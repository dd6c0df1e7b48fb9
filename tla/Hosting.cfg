SPECIFICATION HostingSpec
CONSTANTS
  w1 = w1
  w2 = w2
  Workers = {w1, w2}
  NoWorker = NoWorker
  a1 = a1
  Callers = {a1}
  MaxDeployments = 3
  MaxRepairs = 1
  MaxCrashes = 1
  AutoActivated = {2}
  PublicServices = {1, 2}
  Static = {1, 2}
  Jobs = {}
  LeaseCoversBuild = TRUE
  DeployedWorkers = {w1}
  PlaneLength = 2
INVARIANTS PlaneTypeOK RouteWasHealthy ColumnsAgree DeployedServicesAreBacked
PROPERTIES ImplementsLedger DeployedQueueSettles
CHECK_DEADLOCK FALSE
