CONSTANTS
  User = {1, 2}
  MaxPipe = 2
  Capacity = 1
  Lines <- AnyLines
  MaxFork = 2
  MaxLine = 3
  MaxSession = 3
  MaxForkError = 1
SPECIFICATION FairSpec
INVARIANTS MailRouted ChildrenAccounted PipesKept
PROPERTIES LeaksOnly LineEnds
CHECK_DEADLOCK FALSE
