CONSTANTS
  Threads = {t1, t2, t3, t4}
  Conns = {c1, c2}
  NoConn = NoConn
  TimedWait = TRUE
SPECIFICATION FairSpec
INVARIANTS
  TypeOK
  EveryConnectionAccountedFor
  NoLostWakeup
  OnlySurplusThreadsWait
PROPERTIES
  TimedAcquireReturns
  ImplementsResourcePool
