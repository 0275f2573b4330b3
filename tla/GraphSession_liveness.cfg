SPECIFICATION FairSpec
CONSTANTS
  Threads = {t1, t2}
  Buffers = {b1}
  Addresses = {a1, a2}
  ArgumentCount = 2
  Inputs = {1}
  Zero = zero
  Data = {zero}
  Compute <- MCCompute
  InitStages = {"direct", "command_list"}
  NoThread = NoThread
  Null = Null
PROPERTY LockReleased
\* The client may stop calling once the session is gone.
CHECK_DEADLOCK FALSE
