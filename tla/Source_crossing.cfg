SPECIFICATION UploadSpec
CONSTANTS
  u1 = u1
  Uploads = {u1}
  NoUpload = NoUpload
  Parts = {1}
  w1 = w1
  Verifiers = {w1}
  MaxAttempts = 2
  MaxRevivals = 0
  MaxUploadFaults = 1
INVARIANTS SourcesAreKept
CHECK_DEADLOCK FALSE
