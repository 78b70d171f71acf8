SPECIFICATION EventSpec
CONSTANTS
  NumFd = 2
  hccount = 1
  MaxEvent = 2
  Arg = {o1, o2, o3}
  Callback = {"cb"}
  NULL = NULL
SYMMETRY Symmetry
PROPERTY LimitKept
