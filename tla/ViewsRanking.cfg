CONSTANTS
  Threads = {t1, t2}
  Articles = {a1}
  InitViews <- MCInitViews
  None = None
  SyncTop = 1
  HotTop = 1
  MaxRequests = 2
  MaxFaults = 0
SPECIFICATION FairSpec
INVARIANTS
  RankingIsLatest
