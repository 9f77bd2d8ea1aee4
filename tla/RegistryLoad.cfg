SPECIFICATION Spec
CONSTANTS
  m1 = m1
  m2 = m2
  p = p
  i = i
  j = j
  None = None
  Mesh = {m1, m2}
  View = {p, i, j}
  Thread = {w1, w2}
  Compressed = {p, i, j}
  Broken = {j}
  PosView <- MCPosView
  IdxView <- MCIdxView
  MaxLoads = 2
CHECK_DEADLOCK FALSE
INVARIANTS
  CountedReadsDecoded
