SPECIFICATION ClientSpec
CONSTANTS
  p1 = p1  p2 = p2  p3 = p3
  t1 = t1  t2 = t2  t3 = t3
  a1 = a1  a2 = a2
  g1 = g1  g2 = g2  g3 = g3
  q1 = q1  q2 = q2  q3 = q3
  None = None  Unset = Unset  Broken = Broken
  Proc <- Procs3
  Thread <- Threads2
  ProcOf <- Servers2
  App <- Apps1
  AppOf <- Client1
  Gen <- Gens3
  Queue <- Queues3
  Fails <- AnyCall
  CrashAt <- AnyPoint
  MaxFault = 1
  IdleStops <- Procs3
  StaleQueue = FALSE
  PidReuse = TRUE
  Tries = 2
  RunDll = TRUE
  SpawnRace = FALSE
  Rumblers <- Apps1
  MaxMsg = 1
  Daemon <- Nobody
INVARIANTS ClientTypeOK NoMixedGenerations QueueHasShm
CHECK_DEADLOCK FALSE
