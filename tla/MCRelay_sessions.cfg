SPECIFICATION RelaySpec
CONSTANTS
  My = {m1, m2}
  Client = {c1, c2}
  NumNode = 1
  MinConn <- MCMin
  MaxConn <- MCMax
  MaxInflight = 0
  PingBatch = 1
  CountMod = 8
  IndetCnt = {0}
  SessionCb = {"use_req", "use_resp", "query", "answer"}
  MaxFault = 1
  MaxOwed = 2
  NULL = NULL
SYMMETRY Symmetry
INVARIANTS
  RelayTypeOK
  PointersAgree
  CallbacksFitState
