SPECIFICATION Spec
CONSTANTS
  NULL = NULL
  Nodes = {1, 2, 3, 4}
  Slots = {1, 2, 3}
  Situations <- MainSituations
  MaxEpoch = 4
INVARIANTS
  StableAgrees
  StableEpochsDiffer
  ReplicaServesNothing
