SPECIFICATION Spec
CONSTANTS
  My = {m1, m2, m3}
  Client = {c1, c2}
  NumNode = 1
  MinConn <- MCMinOne
  MaxConn <- MCMaxOne
  MaxInflight = 10
  PingBatch = 1
  CountMod = 16
  IndetCnt = {0, 11}
  SessionCb = {"session"}
  MaxFault = 2
  NULL = NULL
INVARIANT ConnectingCountTrue
