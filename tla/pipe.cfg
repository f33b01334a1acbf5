SPECIFICATION ShapeSpec
CONSTANTS
  d1 = d1
  d2 = d2
  b1 = b1
  b2 = b2
  r1 = r1
  Document = {d1, d2}
  Builder = {b1, b2}
  Reader = {r1}
  Forces = {FALSE}
  NoDocument = NoDocument
  MaxStamp = 7
  MaxDigest = 2
  MaxEdits = 1
  MaxSwaps = 2
  Shapes = {"answers", "builds"}
SYMMETRY Symmetry
CHECK_DEADLOCK FALSE
INVARIANTS
  TypeOK
  DerivedFromStored
  StoredIsCurrent
  AnswersComparable
PROPERTIES
  AnsweredFromCurrentText
  RebuildIdempotent
