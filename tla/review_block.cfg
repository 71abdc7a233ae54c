SPECIFICATION Spec
CONSTANTS
  p1 = p1
  Position = {p1}
  Rec <- RecOf
  Entry <- EntryOf
  Call = {1, 2}
  Market <- Markets
  Answer <- Answers
  Stop = {20}
  Cap = 1
  LastDay = 1
  MaxPolls = 2
  MaxEdits = 2
  MaxLapses = 1
  TradingDay = {0, 1, 2, 3, 4, 5}
CHECK_DEADLOCK FALSE
PROPERTIES PollsEnd
