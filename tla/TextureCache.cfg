SPECIFICATION CacheSpec
CONSTANTS
  k1 = k1
  k2 = k2
  Absent = Absent
  Pid = {p1, p2}
  NumTextures = 3
  Key = {k1, k2}
  KeyOf <- MCKeyOf
  DimsOf <- MCDimsOf
  NumFiles = 5
  MaxCrashes = 1
SYMMETRY Symmetry
CHECK_DEADLOCK FALSE
INVARIANTS
  
  
  WritersApart
