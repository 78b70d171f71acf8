SPECIFICATION FairSpec
CONSTANTS
  My = {m1, m2}
  Client = {c1}
  NumNode = 1
  MinConn <- MCMinOne
  MaxConn <- MCMaxTwo
  MaxInflight = 0
  PingBatch = 1
  CountMod = 16
  IndetCnt = {0}
  SessionCb = {"session"}
  MaxFault = 2
  NULL = NULL
PROPERTIES
  Recovers
  ShrinksToMin
  ReleaseIsSafe
