SPECIFICATION MCSpec
CONSTANTS
  p1 = p1  p2 = p2  p3 = p3
  t1 = t1  t2 = t2  t3 = t3
  g1 = g1  g2 = g2  g3 = g3
  q1 = q1  q2 = q2  q3 = q3
  None = None  Unset = Unset  Broken = Broken
  Proc <- Procs3
  Thread <- Threads3
  ProcOf <- OneEach3
  Gen <- Gens3
  Queue <- Queues3
  Fails <- AnyCall
  CrashAt <- AnyPoint
  MaxFault = 3
  IdleStops <- Procs3
  StaleQueue = TRUE
  PidReuse = TRUE
  Tries = 2
INVARIANTS TypeOK OneService LiveServiceReachable UnlinkedIsDead LockNotLeaked
PROPERTIES OnlyLockHolderChangesNames Takeover
CHECK_DEADLOCK FALSE
