SPECIFICATION Spec
SYMMETRY ClientSymmetry
CONSTANTS
  NULL = NULL
  k1 = k1
  k2 = k2
  t1 = t1
  t2 = t2
  c1 = c1
  c2 = c2
  c3 = c3
  Clients = {c1, c2, c3}
  Keys = {k1, k2}
  Texts = {t1, t2}
  Situations <- WatchedOrBlocked
  MaxLen = 2
  MaxQueue = 2
INVARIANTS
  WaitersRegistered
  ChangedIsFlagged
  NobodySleepsOnAList
  RecoversAtomically
  FileIsComplete
PROPERTIES
  ServedInOrder
