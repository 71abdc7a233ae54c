SPECIFICATION FairSpec
CONSTANTS
  User = {u1}
  Inv = {w1, w2}
  NoInv = NoInv
  Faults = {"redis", "db", "pipeline", "crash"}
CHECK_DEADLOCK FALSE
INVARIANTS OneScanPerUser
PROPERTIES EndedRunIsFinal ImplementsRunLedger RunsConclude LockIsFreed RefusedCallIsAnswered
