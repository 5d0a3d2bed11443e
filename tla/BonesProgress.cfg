SPECIFICATION FairSpec

CONSTANTS
  Slaves = {s1}
  Overload = 2
  ReqsMax = 2
  SeqMod = 3
  Services = {serve, store}
  Clients = {c1, c2, c3, c4}
  None = None
  Faults = {}

PROPERTIES
  FirstRequestTried
  QueueMoves
  OverloadPasses

CHECK_DEADLOCK FALSE
