SPECIFICATION FairOpsSpec
CONSTANTS
  None = None
  w1 = w1  w2 = w2  ann = ann  bob = bob  k1 = k1  k2 = k2  dev = dev  l1 = l1
  Worker = {w1, w2}
  Attorney = {ann, bob}
  Fallback = ann
  Key = {k1, k2, dev}
  DEV_JWT_SECRET = dev
  ENVIRONMENT = "production"
  Rosters <- MCRosters
  Browser = {bob}
  TOKEN_LIFE = 1
  MAX_AGE = 2
  LIMIT = 1
  MULTIPLES = 2
  GRANULARITY = 1
  Lead = {l1}
INVARIANTS
  OpsTypeOK
  BucketReady
  DoctorIsFinal
PROPERTIES
  RemovedIsLockedOut
  LetIn
