SPECIFICATION ConsoleSpec
CONSTANTS
  RingCap = 2
  WindowStep = 1
  PageSize = 2
  MaxLines = 4
  MaxTrouble = 3
  MaxAudit = 5
  Keys = {k1, k2}
  Vals = {0, 1}
  MaxWrites = 2
  MaxClicks = 6
  MaxRecords = 3
  MaxFormClicks = 4
  MaxRuns = 2
  MaxVersion = 2
  MaxUpdClicks = 4
  WatchTicks = 1
  Policies = {0, 1, 2}
  MaxAuto = 6
  MaxDoc = 3
  MaxSetClicks = 5
  Limits = {1, 2}
  QuotaBytes = {0, 3, 8}
  MaxRule = 3
  MaxPplClicks = 4
  People = {"ann", "bob"}
  MaxToken = 3
  HistoryLength = 5
  MaxListClicks = 4
  MaxTick = 4
  WindowTicks = 2
  MaxCounterTicks = 3
  MaxWebClicks = 4
  MaxWebMoves = 2
  MaxSnapshots = 2
  MaxGeoClicks = 2
  MaxMapMoves = 6
  MaxClock = 10
  MaxSaves = 2
  MaxServed = 1
  StatsAge = 1
INVARIANTS JournalMovesOn JournalHasNoGaps EditorsStaySound WatchDecidesRight
  RequestsAreMeant DoneIsShown ListsAgree FiguresAreHonest TrafficIsHonest
  GeographyIsCurrent
PROPERTIES DraftsKept RunsMoveForward
CHECK_DEADLOCK FALSE
