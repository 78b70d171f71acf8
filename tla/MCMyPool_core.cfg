SPECIFICATION Spec
CONSTANTS
  My = {m1, m2, m3}
  Client = {c1, c2}
  NumNode = 2
  MinConn <- MCMin2
  MaxConn <- MCMax
  MaxInflight = 0
  PingBatch = 1
  CountMod = 8
  IndetCnt = {0}
  SessionCb = {"session"}
  MaxFault = 1
  NULL = NULL
SYMMETRY Symmetry
INVARIANTS
  TypeOK
  NothingLost
  ReadyWhenAvail
  OwnedIffUsed
  ConnectingExact
  CapacityOK
PROPERTIES
  ImplementsLease
  CleanedStaysClean
