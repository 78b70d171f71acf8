SPECIFICATION BufSpec
CONSTANTS
  HEADER_SIZE = 2
  PREALLOC = 4
  PktLen = {3, 4, 6}
  Answer = {1, 5}
  MaxSent = 3
CHECK_DEADLOCK FALSE
INVARIANT OneCommand
