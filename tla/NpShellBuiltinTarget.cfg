SPECIFICATION Spec
CONSTANTS
  MaxPipe = 3
  Capacity = 1
  MaxFork = 3
  MaxLine = 3
  MaxForkError = 0
  Lines <- BuiltinTarget
INVARIANTS
  NotStuck
CHECK_DEADLOCK FALSE
