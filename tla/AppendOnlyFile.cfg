SPECIFICATION FairSpec
CONSTANTS
  NULL = NULL
  DBs = {0, 1}
  MaxBytes = 6
  MaxJobs = 1
  Situations <- Main
INVARIANTS
  RecoversPrefix
  WrittenBeforeReply
  AlwaysDurable
PROPERTIES
  NeverForgets
  EventuallyDurable
  SwitchedOn
