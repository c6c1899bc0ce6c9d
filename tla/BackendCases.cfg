SPECIFICATION FairSpec
CONSTANTS
  NULL = NULL
  c1 = c1
  c2 = c2
  Clients = {c1, c2}
  DBs = {0, 1}
  Keys = {"k", "l"}
  Texts = {"a", "b", "1"}
  IntTexts = {"1"}
  PosTexts = {"1"}
  Workloads <- CaseWorkloads
INVARIANTS
  GetAnswersDatabase
  SetsReachBoth
  AckedSetIsStored
PROPERTIES
  WaiterIsResumed
