CONSTANTS
  j1 = j1
  j2 = j2
  Jobs = {j1, j2}
  Servers = {s1}
  Subjects = {d1}
  Watchdogs = {w1}
  None = None
  ClockSkew = 1
  MinLifetime = 1
  CondorLimit = 1
  LifeToLose = 3
  MaxProxies = 2
  MaxSuffix = 1
  MaxTime = 3
  Epoch = 2
  Backlog = 1
  ClientLives <- LongAndShort
  RenewedLives <- Good
  VomsEnabled = TRUE
  Faults = {"kill", "timeout"}
  Habits = {}
SPECIFICATION Spec
SYMMETRY JobSymmetry
INVARIANTS
  RegistrationHeld
PROPERTIES
  LiveJobsHaveProxy
CHECK_DEADLOCK FALSE
