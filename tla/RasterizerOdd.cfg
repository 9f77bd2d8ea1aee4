SPECIFICATION Spec
CONSTANTS
  W = 6
  Far = 4
  Views <- MCCorner
  TG = {g1, g2}
  Batch = 2
  Cap2 = 2
  Cap3 = 2
  Tile = 4
  Word = 2
  Words = 2
  Payload = 16
  None = None
INVARIANTS
  NeverWronglyCulled
