SPECIFICATION Spec
CONSTANTS
  NULL = NULL
  Nodes = {1, 2, 3}
  BacklogSize = 2
  MaxOffset = 3
  MaxId = 5
  Situations <- RolesOrPings
CHECK_DEADLOCK FALSE
INVARIANTS
  SameData
  IdentifiesData
