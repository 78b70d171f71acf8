SPECIFICATION PoolSpec
CONSTANTS
  Chunk = {k1, k2, k3, k4}
  PagesPerChunk = 3
  MaxFree = 2
  Prealloc = 2
  MaxPages = 8
SYMMETRY Symmetry
INVARIANTS
  RoomMeansPage
CHECK_DEADLOCK FALSE
