SPECIFICATION FairSpec
CONSTANTS
  c1 = c1
  c2 = c2
  n1 = n1
  n2 = n2
  Conn = {c1, c2}
  Name = {n1, n2}
  Nobody = Nobody
  NoName = NoName
  NoEntry = NoEntry
  Msock = 3
  MaxFd = 5
  Lines <- CoreLines
PROPERTIES
  KeepsRoster
  DepartedRemoved
  WaitingAccepted
CHECK_DEADLOCK FALSE
