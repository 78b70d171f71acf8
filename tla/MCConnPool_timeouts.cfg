SPECIFICATION ConnFairSpec
CONSTANTS
  Client = {c1, c2, c3}
  CliPages = 2
  Timeout <- MCTimeout
  MaxConns = 1
  Interval = 1
CHECK_DEADLOCK FALSE
INVARIANTS
  ConnTypeOK
  ListOfState
PROPERTIES
  TimeoutExact
  NoneStuck
