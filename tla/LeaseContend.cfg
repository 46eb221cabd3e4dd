CONSTANTS
  Services = {s1, s2, s3}
  NoFile = nofile
  MaxAttempts = 3
  MayStall = TRUE
  MaxCrashes = 2
SPECIFICATION FairSpec
INVARIANTS TypeOK ExclusiveUnlessRaced
PROPERTY LeaseRecovered
CHECK_DEADLOCK FALSE
