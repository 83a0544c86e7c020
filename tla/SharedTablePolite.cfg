CONSTANTS
  MaxUser = 2
  Name = {"a"}
  MaxShell = 3
  MaxCommand = 2
SPECIFICATION PoliteSpec
INVARIANTS TableRight
PROPERTY Flushed
CHECK_DEADLOCK FALSE
