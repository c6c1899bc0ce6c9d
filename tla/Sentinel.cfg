SPECIFICATION Spec
SYMMETRY NameSymmetry
CONSTANTS
  s1 = s1
  s2 = s2
  s3 = s3
  m = m
  a = a
  b = b
  NULL = NULL
  Sentinels = {s1, s2, s3}
  Instances = {m, a, b}
  Master = m
  Quorum = 1
  MaxEpoch = 2
CHECK_DEADLOCK FALSE
INVARIANTS
  OneTimelyLeader
  SameEpochSameMaster
  RestartKeepsMaster
PROPERTIES
  OneVotePerEpoch
