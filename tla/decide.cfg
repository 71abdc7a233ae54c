SPECIFICATION Spec
CONSTANTS
  TradingDay <- MCTradingDay
  Batch <- MCBatch
  Facts <- MCFacts
  Profile <- MCProfile
  FirstOutcome <- MCFirst
  LiveOutcome <- MCLive
  Answer <- MCAnswer
  FinalistLimit = 2
  MaxAttempts = 2
  Tap = {t1, t2}
  MaxEdits = 1
  MaxCrashes = 1
INVARIANTS
  TypeOK
  NeverStrongerThanScoring
  SizedForItsUser
  PlansBracketEntry
  RepeatsOnlyByOverlap
PROPERTY RequestsEnd
CHECK_DEADLOCK FALSE
