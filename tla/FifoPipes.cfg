CONSTANTS
  User = {1, 2}
  MaxPipe = 3
  Capacity = 1
  Typed <- UserLines
  MaxFork = 3
  MaxLine = 3
  MaxLogin = 3
  MaxKilled = 1
SPECIFICATION PoliteSpec
INVARIANTS MailboxWhole ReadOnce
PROPERTY SendEnds
CHECK_DEADLOCK FALSE
