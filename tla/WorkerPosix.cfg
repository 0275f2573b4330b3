SPECIFICATION FairSpec
CONSTANTS
  RequestSize = 2
  SocketSize = 1
  PipeSize = 2
  ChunkSize = 2
  FirstCapacity = 1
  Maximum <- MCMaximum
  WriteLimit <- MCWriteLimit
  Manners = {"any", "cooperative"}
  Faults = {"setup", "spawn", "poll", "send", "read", "memory"}
  Forks = TRUE
  Deadline = TRUE
INVARIANTS
  ReportExact
  ReturnedClean
PROPERTIES
  AlwaysReturns
  NoTransportDeadlock
\* The call returns and the processes end.
CHECK_DEADLOCK FALSE
