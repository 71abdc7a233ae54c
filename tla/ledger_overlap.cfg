SPECIFICATION Spec
CONSTANTS
  Position = {p1, p2}
  Rec = {r1}
  ShortRec = {}
  Session = {s1, s2, s3, s4}
  Price = {2}
  Quantity = {1, 2}
  Size = {20}
  Interleaved = TRUE
SYMMETRY Symmetry
CHECK_DEADLOCK FALSE
INVARIANTS RowsAgree TrackedTwiceByOverlap
PROPERTIES PositionsOnlyEnd
