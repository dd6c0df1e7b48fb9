SPECIFICATION SharedSpec
CONSTANTS
  w1 = w1
  Workers = {w1}
  NoWorker = NoWorker
  p1 = p1
  p2 = p2
  Appliers = {p1, p2}
  MaxOperations = 2
  KeepRecent = 1
  EvidencePolicies = {TRUE}
  WindowPolicies = {FALSE}
  MaxDeployments = 2
  MaxRepairs = 1
  MaxCrashes = 0
  AutoActivated = {1, 2}
  PublicServices = {1, 2}
  Static = {}
  Jobs = {}
  LeaseCoversBuild = TRUE
  o1 = o1
  o2 = o2
  o3 = o3
  People = {o1, o2, o3}
  Creator = o1
  Privileged = {}
  Limits = {2, 3}
  b1 = b1
  b2 = b2
  Browsers = {b1, b2}
  MaxCalls = 4
  h1 = h1
  h2 = h2
  Warehouses = {h1, h2}
  Expiries = {1, 2}
  Inbounds = {1, 2}
  Outbounds = {1, 2}
  l1 = l1
  l2 = l2
  Clerks = {l1, l2}
  s1 = s1
  Shipments = {s1}
INVARIANTS SharedTypeOK RouteIsNotRetired ContainersHaveTheirRelease LimitHolds
  StockIsConserved ArchivedItemIsEmpty
PROPERTIES RetiredStaysRetired OwnershipIsNotLost
CHECK_DEADLOCK FALSE
