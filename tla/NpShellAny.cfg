SPECIFICATION Spec
CONSTANTS
  MaxPipe = 3
  Capacity = 1
  MaxFork = 4
  MaxLine = 3
  MaxForkError = 2
  Lines <- AnyLines
INVARIANTS
  TypeOK
  SlotOwnership
  NoInheritedEnds
  ChildrenAccounted
PROPERTIES
  KeepsPromise
CHECK_DEADLOCK FALSE
