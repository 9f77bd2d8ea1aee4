SPECIFICATION Spec
CONSTANTS
  NumMeshes = 2
  Views = {{1, 2}}
  Worker = {w1, w2}
  Budget = 1
  VertSlots = 1
  IdxChunks = 2
  IdxSlots = 1
  MayFail = TRUE
  MaxQueue = 3
  None = None
SYMMETRY Symmetry
CHECK_DEADLOCK FALSE
INVARIANTS
  NoLostLoad
  

  
