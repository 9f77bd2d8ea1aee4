SPECIFICATION Spec
CONSTANTS
  Files <- MCFiles
  CmdLines <- MCCmdLines
  MaxLoads = 4
  MaxEvents = 4
  WarmUps = 3
  MaxTextures = 2
  None = None
CHECK_DEADLOCK FALSE
INVARIANTS
  HeldAlive
  NothingLost
  DrawsOneLoad
  PosedBeforeDrawn
PROPERTIES
  
  BatchEnds
