\* One connection whose accepted socket is blocking: three bytes from the client
\* and one from the server in records of one or two, sockets that hold two units,
\* reads in any pieces; a process may run again one unit of time too late.
SPECIFICATION FairSpec
CONSTANTS
  Blocking = {"server"}
  Timeouts = {1}
  Flights = 2
  Chunk = 2
  Capacity = 2
  Sizes = {1, 2}
  MaxBytes <- MCMaxBytes
  Late = 1
  Faults = {"signal", "malloc", "kill", "resolver", "refused"}
INVARIANTS
  TypeOK
  InOrder
  TimeoutValid
  EndMeansAll
PROPERTIES
  IsStream
  CallsEnd
CHECK_DEADLOCK FALSE
