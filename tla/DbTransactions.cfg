CONSTANTS
  r1 = r1
  r2 = r2
  r3 = r3
  Rows = {r1, r2, r3}
  Theirs = {r3}
  RecordLimit = 2
  SizeLimited = TRUE
  Faults = {"lost", "refused", "error"}
SPECIFICATION Spec
INVARIANTS
  TypeOK
  AutoRestored
  BatchKept
PROPERTIES
  CommitKept
  IsAtomic
CHECK_DEADLOCK FALSE
