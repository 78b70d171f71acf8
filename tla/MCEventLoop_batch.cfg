SPECIFICATION EventSpec
CONSTANTS
  NumFd = 4
  hccount = 4
  MaxEvent = 3
  Arg = {o1, o2, o3, o4}
  Callback = {"cb"}
  NULL = NULL
SYMMETRY Symmetry
INVARIANTS
  EventTypeOK
  TableExact
PROPERTY CallsOwner
