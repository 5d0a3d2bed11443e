SPECIFICATION Spec

CONSTANTS
  Slaves = {s1}
  Overload = 1
  ReqsMax = 2
  SeqMod = 8
  Services = {serve}
  Clients = {c1, c2}
  None = None
  Faults = {}

PROPERTIES
  RejectsOnlyWhenFull

CHECK_DEADLOCK FALSE
