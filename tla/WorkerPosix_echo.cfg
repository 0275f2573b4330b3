SPECIFICATION FairSpec
CONSTANTS
  RequestSize = 1
  SocketSize = 1
  PipeSize = 1
  ChunkSize = 1
  FirstCapacity = 1
  Maximum <- MCMaximum
  WriteLimit <- MCWriteLimit
  Manners = {"cooperative"}
  Faults = {}
  Forks = FALSE
  Deadline = FALSE
INVARIANT EchoSucceeds
\* The call returns and the worker ends.
CHECK_DEADLOCK FALSE
