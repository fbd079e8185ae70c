SPECIFICATION ClientSpec
CONSTANTS
  p1 = p1  p2 = p2  p3 = p3
  t1 = t1  t2 = t2  t3 = t3
  a1 = a1  a2 = a2
  g1 = g1  g2 = g2  g3 = g3
  q1 = q1  q2 = q2  q3 = q3
  None = None  Unset = Unset  Broken = Broken
  Proc <- Procs1
  Thread <- Threads2
  ProcOf <- Host1Twice
  App <- Apps2
  AppOf <- TwoInClient
  Gen <- Gens3
  Queue <- Queues3
  Fails <- Nobody
  CrashAt <- Nobody
  MaxFault = 0
  IdleStops <- Nobody
  StaleQueue = FALSE
  PidReuse = FALSE
  Tries = 2
  RunDll = FALSE
  SpawnRace = TRUE
  Rumblers <- Nobody
  MaxMsg = 1
  Daemon <- Nobody
INVARIANTS OneService
CHECK_DEADLOCK FALSE
