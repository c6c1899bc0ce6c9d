SPECIFICATION FairSpec
CONSTANTS
  NULL = NULL
  k1 = k1
  r1 = r1
  Modes <- TwoModes
  DBs = {0, 1}
  Keys = {k1}
  Results = {r1}
INVARIANTS
  MainAssertsHold
  AnswerIsIntact
  NoLostJob
  IInv
PROPERTIES
  KeepsServing
  ImplementsService
