SPECIFICATION FairSpec
CONSTANTS
  Cron = {c1, c2}
  Slot = {monday}
  Zone = {EST, PST}
  DefaultSlot = monday
  Handler = {h1, h2, h3}
  MaxStops = 2
CHECK_DEADLOCK FALSE
INVARIANTS TypeOK SyncedJobs
PROPERTIES RestartRepairs
