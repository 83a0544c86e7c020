SPECIFICATION FairSpec
CONSTANTS
  MaxPipe = 3
  Capacity = 1
  MaxFork = 4
  MaxLine = 3
  MaxForkError = 1
  Lines <- CommandLines
INVARIANTS
  SigpipeHasReader
PROPERTIES
  LineEnds
CHECK_DEADLOCK FALSE
