SPECIFICATION Spec
CONSTANTS
  p1 = p1
  p2 = p2
  u1 = u1
  u2 = u2
  AAPL = AAPL
  Position = {p1, p2}
  ShortPosition = {p2}
  User = {u1, u2}
  Owner <- OwnerOf
  Ticker <- TickerOf
  Price = {1, 2}
  FirstPlan <- PlanOf
  ExitBy <- ExitOf
  Expiry <- ExpiryOf
  Unwritten = {p1}
  Shadow = FALSE
  LastDay = 1
  MaxPolls = 2
  MaxTaps = 1
  Tapped = {p1}
CHECK_DEADLOCK FALSE
INVARIANTS TypeOK RecordedIsHeard DatesAnnouncedOnce
PROPERTIES SilenceIsKept TapsAndPollsEnd
