CONSTANTS
  MaxUser = 2
  Name = {"a"}
  MaxShell = 2
  MaxCommand = 2
SPECIFICATION Spec
INVARIANTS NoGhosts
PROPERTY PrintedOnce
CHECK_DEADLOCK FALSE
