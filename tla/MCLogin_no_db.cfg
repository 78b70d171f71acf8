SPECIFICATION LoginSpec
CONSTANTS
  LowFlag = {"db", "ssl", "secure"}
  HighFlag = {"plugin"}
  Greeting <- MCGreeting
  User <- MCUser
  Password = {"", "p", "q"}
  user <- MCuser
  passwd = "p"
  my_user = "r"
  my_pass = "p"
  CliScram <- MCCliScram
  DbName <- MCDbName
  Stale <- MCStale
INVARIANT DatabaseHeard
