SPECIFICATION Spec
CONSTANTS
  NULL = NULL
  c1 = c1
  c2 = c2
  Clients = {c1, c2}
  DBs = {0}
  Keys = {"k"}
  Texts = {"a", "b"}
  IntTexts = {}
  PosTexts = {}
  Workloads <- StaleFillWorkloads
INVARIANTS
  CacheMatchesDatabase
