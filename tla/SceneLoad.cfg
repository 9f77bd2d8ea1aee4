SPECIFICATION Spec
CONSTANTS
  va = va
  vb = vb
  vc = vc
  vd = vd
  None = None
  View = {va, vb, vc, vd}
  Thread = {t1, t2, t3}
  Compressed = {va, vc, vd}
  Broken = {vd}
  Scenes <- MCScenes
  Children <- MCChildren
  MeshOf <- MCMeshOf
  Primitives <- MCPrimitives
  MaxIndices = 12
  VertexWords = 1
  WordBits = 4
  PfxBuckets = 4
  MaxIndexBuffers = 4
  Options <- MCOptions
CHECK_DEADLOCK FALSE
INVARIANTS
  ReadsDecoded
  WritersApart
  DrawsSource
  FetchesInBuffer
PROPERTIES
  DecodedOnce
  
