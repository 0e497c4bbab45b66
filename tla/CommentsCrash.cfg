CONSTANTS
  Threads = {t1}
  Limits = {2}
  InitComments = 1
  MaxRequests = 2
  MaxFaults = 1
SPECIFICATION FairSpec
PROPERTIES
  StaleListsExpire
