CONSTANTS
  Client = {"c1", "c2"}
  Lines <- SomeLines
  MaxLine = 1
  MaxInt = 9
  MaxPipe = 3
  Garbled <- SomeGarbled
SPECIFICATION FairSpec
INVARIANTS LineMeant Survives
PROPERTY ShellsEnd
CHECK_DEADLOCK FALSE
