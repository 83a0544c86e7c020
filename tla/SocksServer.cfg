CONSTANTS
  Client = {"c1", "c2"}
  Requests <- SomeRequests
  MaxData <- SomeData
  Chunk = 2
SPECIFICATION FairSpec
INVARIANTS RepliesRight
PROPERTIES KeepsStreams Delivered Reaped
CHECK_DEADLOCK FALSE
