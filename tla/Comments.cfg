CONSTANTS
  Threads = {t1, t2}
  Limits = {2}
  InitComments = 1
  MaxRequests = 4
  MaxFaults = 1
SPECIFICATION FairSpec
INVARIANTS
  TypeOK
  UntimedListIsBeingFilled
  ListIsBounded
  MissIsCompleteOrEmpty
PROPERTIES
  StaleListsExpireUnlessFaulty
