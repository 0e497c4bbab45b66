CONSTANTS
  Requests <- Comment
  Fragments <- AnyLines
  InitialSize = 2
  ReadMax = 4
  MaxRequests = 1
SPECIFICATION FairSpec
PROPERTY EveryRequestAnswered
