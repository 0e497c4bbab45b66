CONSTANTS
  Threads = {t1}
  Limits = {1, 2}
  InitComments = 2
  MaxRequests = 3
  MaxFaults = 0
SPECIFICATION FairSpec
INVARIANTS
  LimitIsReturned
