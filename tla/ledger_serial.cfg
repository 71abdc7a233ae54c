SPECIFICATION Spec
CONSTANTS
  Position = {p1, p2}
  Rec = {r1, r2}
  ShortRec = {r2}
  Session = {s1, s2, s3, s4}
  Price = {2, 4}
  Quantity = {1, 2}
  Size = {20, 40}
  Interleaved = FALSE
SYMMETRY Symmetry
CHECK_DEADLOCK FALSE
INVARIANTS TypeOK LedgerBalanced FillsAreLogged
PROPERTIES ImplementsAccountLedger
