SPECIFICATION Spec
CONSTANTS
  c1 = c1
  c2 = c2
  n1 = n1
  Conn = {c1, c2}
  Name = {n1}
  Nobody = Nobody
  NoName = NoName
  NoEntry = NoEntry
  Msock = 3
  MaxFd = 8
  Lines <- TableLines
SYMMETRY Symmetry
INVARIANTS
  TypeOK
  IdsPartitioned
  NeverStops
  WatchedFds
  NamesAgree
  CensusRight
CHECK_DEADLOCK FALSE
