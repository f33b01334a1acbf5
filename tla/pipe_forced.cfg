SPECIFICATION ShapeSpec
CONSTANTS
  d1 = d1
  d2 = d2
  b1 = b1
  b2 = b2
  r1 = r1
  Document = {d1}
  Builder = {b1, b2}
  Reader = {}
  Forces = {TRUE, FALSE}
  NoDocument = NoDocument
  MaxStamp = 5
  MaxDigest = 1
  MaxEdits = 1
  MaxSwaps = 2
  Shapes = {"builds"}
SYMMETRY Symmetry
CHECK_DEADLOCK FALSE
PROPERTY
  RebuildIdempotent
