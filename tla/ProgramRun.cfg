SPECIFICATION FairSpec
CONSTANTS
  Threads = {t1, t2}
  Arrays = {a1, a2}
  NoThread = NoThread
  NoArray = NoArray
INVARIANTS  ClosedIsFinal
PROPERTIES KeepsPromise EventuallyReleased
CHECK_DEADLOCK FALSE
