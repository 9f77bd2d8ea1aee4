SPECIFICATION Spec
CONSTANTS
  Capacity = 48
  Request = {9, 20}
  MeshId = {7}
  MaxSlots = 3
  MaxFrame = 2
  EvictCount = 2
INVARIANTS
  Partition
  NoFalseExhaustion
PROPERTIES
  EvictsOldest
  StableSlots
