CONSTANTS
  Threads = {t1, t2}
  Conns = {c1}
  Accept = Accept
  Timer = Timer
  None = None
  MaxThrows = 0
SPECIFICATION Spec
INVARIANT NoRequestLostByShutdown
