SPECIFICATION Spec
CONSTANTS
  Cron = {c1}
  Slot = {monday, friday}
  Zone = {EST}
  DefaultSlot = monday
  Handler = {h1, h2}
  MaxStops = 0

SYMMETRY Symmetry
CHECK_DEADLOCK FALSE
INVARIANTS UpdatesReachScheduler
