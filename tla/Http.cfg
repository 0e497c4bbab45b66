CONSTANTS
  Requests <- MixedRequests
  Fragments <- AnyLines
  InitialSize = 2
  ReadMax = 4
  MaxRequests = 3
SPECIFICATION FairSpec
INVARIANTS
  TypeOK
  OnlySplitBodiesAreMistaken
  UnreadBytesInOrder
  NothingDiscardedAfterResponse
  OnlySplitBodiesAreLost
  BufferHoldsOneRequest
  HangsUpOnlyForAReason
PROPERTIES
  WholeRequestIsHandled
  AnsweredUnlessBodyLost
  SessionEndsWithItsClient
  ImplementsRequestStream
