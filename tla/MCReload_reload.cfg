SPECIFICATION ReloadSpec
CONSTANTS
  My = {m1, m2, m3}
  Client = {c1}
  NumNode = 2
  MinConn <- MCMin
  MaxConn <- MCMax
  MaxInflight = 0
  PingBatch = 1
  CountMod = 8
  IndetCnt = {7}
  SessionCb = {}
  MaxFault = 0
  MaxSlave = 2
  MaxReload = 2
  File <- MCFile
  NULL = NULL
SYMMETRY Symmetry
INVARIANTS
  ListServed
  OneSlotEach
  ConnectingExact
