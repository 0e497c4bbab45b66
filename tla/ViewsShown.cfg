CONSTANTS
  Threads = {t1}
  Articles = {a1}
  InitViews <- MCSeededViews
  None = None
  SyncTop = 1
  HotTop = 1
  MaxRequests = 3
  MaxFaults = 0
SPECIFICATION FairSpec
PROPERTIES
  ShownNeverFalls
