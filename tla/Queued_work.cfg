SPECIFICATION QueuedSpec
CONSTANTS
  s1 = s1
  s2 = s2
  Services = {s1, s2}
  Routed = {s1}
  SuspendEnabled = TRUE
  MaxWakes = 1
  MaxFaults = 2
  u1 = u1
  Uploads = {u1}
  NoUpload = NoUpload
  Parts = {1}
  w1 = w1
  Verifiers = {w1}
  MaxAttempts = 2
  MaxRevivals = 1
  MaxUploadFaults = 1
  c1 = c1
  Actions = {c1}
  NoAction = NoAction
  a1 = a1
  a2 = a2
  Arguments = {a1, a2}
  SecretActions = {c1}
  t1 = t1
  t2 = t2
  Tabs = {t1, t2}
  e1 = e1
  e2 = e2
  Executors = {e1, e2}
  MaxEdits = 1
  MaxGrants = 2
  MaxExecutorDeaths = 1
  x1 = x1
  Computations = {x1}
  NoComputation = NoComputation
  k1 = k1
  k2 = k2
  Workers = {k1, k2}
  MaxWorkerDeaths = 1
  MaxWorkerStops = 1
  MaxConnections = 2
  Courses = {"approval", "cancellation", "revocation"}
INVARIANTS QueuedTypeOK RowsMatchEngine LiveSourceKeepsObject RunsWhatWasReviewed
  StatusTellsWhatRan RunsAtMostOnce
PROPERTIES WakeIsHonoured EndedWorkStays BegunWorkEnds OfferIsHandled
CHECK_DEADLOCK FALSE
