SPECIFICATION Spec
CONSTANTS
  My = {m1, m2, m3}
  Client = {c1, c2}
  NumNode = 1
  MinConn <- MCMinOne
  MaxConn <- MCMaxOne
  MaxInflight = 0
  PingBatch = 1
  CountMod = 8
  IndetCnt = {0}
  SessionCb = {"session"}
  MaxFault = 2
  NULL = NULL
INVARIANT HaveConnTrue
