CONSTANTS
  j1 = j1
  j2 = j2
  Jobs = {j1}
  Servers = {s1}
  Subjects = {d1}
  Watchdogs = {w1, w2}
  None = None
  ClockSkew = 1
  MinLifetime = 1
  CondorLimit = 1
  LifeToLose = 3
  MaxProxies = 2
  MaxSuffix = 0
  MaxTime = 3
  Epoch = 2
  Backlog = 2
  ClientLives <- LongAndShort
  RenewedLives <- Good
  VomsEnabled = FALSE
  Faults = {"kill","timeout"}
  Habits = {"repeat","foreign"}
SPECIFICATION Spec
SYMMETRY WatchdogSymmetry
INVARIANTS
  SharingLimited
PROPERTIES
  LiveJobsHaveProxy
  OnlyExpiryDropsJobs
  IsService
CHECK_DEADLOCK FALSE
