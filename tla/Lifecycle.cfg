CONSTANTS
  Threads = {t1, t2}
  Conns = {c1, c2}
  Accept = Accept
  Timer = Timer
  None = None
  MaxThrows = 2
SPECIFICATION FairSpec
INVARIANTS
  TypeOK
  HandlersFindPoolsOpen
  OneOperationEach
  NothingIsForgotten
  ThreadsLeaveOnlyAfterStop
PROPERTIES
  ShutdownCompletes
  ServedWhileAThreadIsLeft
