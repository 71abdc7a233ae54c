SPECIFICATION Spec
CONSTANTS
  TradingDay <- MCTradingDay
  Scan = {1, 2}
  Query = {"A", "B", "C1", "C2", "energy", "utilities"}
  ArmOf <- MCArmOf
  Page <- MCPage
  MaxCaptures = 2
  MaxLoads = 2
  Ttl = 2
  MaxTime = 2
  Setup <- MCSetup
  Today = 9
  Limit = 2
  PeadLimit = 3
  CatalystWorld <- MCCatalystWorld
  Calendar <- MCCalendar
  PeadWorld <- MCPeadWorld
  History <- MCHistory
  ActivistWorld <- MCActivistWorld
INVARIANTS
  TypeOK
  RowsAreEarned
  BatchIsHonest
PROPERTY DiscoveriesEnd
CHECK_DEADLOCK FALSE
