\* Minutes: skew 5, minimum 15, Condor limit 30, a quarter of ten hours 150.
CONSTANTS
  None = None
  ClockSkew = 5
  MinLifetime = 15
  CondorLimit = 30
  LifeToLose = 150
  FirstRead = 0
  LastRead = 60
  LongestLife = 600
SPECIFICATION Spec
INVARIANTS
  DeltaIsLoop
  LeavesLimit
  LosesNoMore
PROPERTIES
  NeverPostponed
CHECK_DEADLOCK FALSE
