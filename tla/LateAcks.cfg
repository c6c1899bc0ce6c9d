SPECIFICATION Spec
CONSTANTS
  v1 = v1
  v2 = v2
  r1 = r1
  r2 = r2
  Voters = {v1, v2}
  Replicas = {r1, r2}
  Size = 3
  MaxEpoch = 2
  LateAcks = TRUE
SYMMETRY NodeSymmetry
INVARIANTS
  OneWinnerPerEpoch
