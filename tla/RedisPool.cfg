CONSTANTS
  Threads = {t1, t2, t3, t4}
  Conns = {c1, c2}
  NoConn = NoConn
  TimedWait = FALSE
SPECIFICATION FairSpec
INVARIANTS
  NoLostWakeup
PROPERTIES
  SleepersServedWhenLoadStops
