SPECIFICATION UploadSpec
CONSTANTS
  u1 = u1
  Uploads = {u1}
  NoUpload = NoUpload
  Parts = {1}
  w1 = w1
  w2 = w2
  Verifiers = {w1, w2}
  MaxAttempts = 2
  MaxRevivals = 0
  MaxUploadFaults = 1
PROPERTIES VerifiedUploadsStay
CHECK_DEADLOCK FALSE
