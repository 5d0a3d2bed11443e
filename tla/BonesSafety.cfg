SPECIFICATION Spec

CONSTANTS
  Slaves = {s1, s2}
  Overload = 1
  ReqsMax = 2
  SeqMod = 8
  Services = {serve}
  Clients = {c1, c2, c3}
  None = None
  Faults = {"crash", "sendmsg", "term"}

SYMMETRY Symmetry

INVARIANTS
  TypeOK
  WaitingBounded
  NoDeathForgotten

PROPERTY IsHandOver

CHECK_DEADLOCK FALSE
