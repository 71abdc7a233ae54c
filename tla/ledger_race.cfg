SPECIFICATION Spec
CONSTANTS
  Position = {p1}
  Rec = {r1}
  ShortRec = {}
  Session = {s1, s2, s3}
  Price = {2}
  Quantity = {1}
  Size = {20}
  Interleaved = TRUE
CHECK_DEADLOCK FALSE
INVARIANTS LedgerBalanced
