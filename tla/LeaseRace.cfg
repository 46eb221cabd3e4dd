CONSTANTS
  Services = {s1, s2, s3}
  NoFile = nofile
  MaxAttempts = 3
  MayStall = FALSE
  MaxCrashes = 0
SPECIFICATION Spec
SYMMETRY ServiceSymmetry
INVARIANT Exclusive
CHECK_DEADLOCK FALSE
