CONSTANTS
  Threads = {t1, t2}
  Articles = {a1, a2}
  InitViews <- MCInitViews
  None = None
  SyncTop = 2
  HotTop = 1
  MaxRequests = 2
  MaxFaults = 2
SPECIFICATION FairSpec
INVARIANTS
  TypeOK
  NoPhantomViews
  OneSyncAtATime
  CountedIsRanked
PROPERTIES
  SyncNeverGoesBack
  CountedViewsReachMySQL
