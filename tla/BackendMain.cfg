SPECIFICATION Spec
CONSTANTS
  NULL = NULL
  c1 = c1
  c2 = c2
  Clients = {c1, c2}
  DBs = {0}
  Keys = {"k"}
  Texts = {"a", "b", "1", ""}
  IntTexts = {"1"}
  PosTexts = {"1"}
  Workloads <- MainWorkloads
SYMMETRY ClientSymmetry
INVARIANTS
  WaitersRegisteredOnce
  DisconnectedForgotten
  JobHasCandidate
  SuccessIsAcknowledged
  OneWriteServesAll
PROPERTIES
  FailureChangesNothing
  ImplementsService
