SPECIFICATION Spec
CONSTANTS
  User = {u1, u2}
  Inv = {w1, w2}
  NoInv = NoInv
  Faults = {"redis", "db", "ack", "pipeline", "crash", "slow"}
SYMMETRY Symmetry
CHECK_DEADLOCK FALSE
INVARIANTS TypeOK RecordsAgree ReturnedIsRecorded
PROPERTIES ForeignLockKept
