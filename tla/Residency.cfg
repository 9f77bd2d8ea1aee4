SPECIFICATION Spec
CONSTANTS
  NumMeshes = 3
  Views = {{1, 2}, {1, 2, 3}}
  Worker = {w1, w2}
  Budget = 1
  VertSlots = 3
  IdxChunks = 2
  IdxSlots = 2
  MayFail = FALSE
  MaxQueue = 4
  None = None
CHECK_DEADLOCK FALSE
INVARIANTS
  EachLoadOnce
  DrawnComplete
PROPERTIES
  LoadEnds
  SeenIsResident
  TeardownReturns
