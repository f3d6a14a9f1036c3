CONSTANTS
  s1 = s1
  s2 = s2
  Strategies = {s1, s2}
  Universe <- Specs
  ListedRetired = {s2}
  Verdicts <- SomeVerdicts
  Screens <- SomeScreens
  LastDay = 2
  NoFile = NoFile
  Torn = Torn
  Hour = 2
  Day = 4
  Settlement = 3
  Lookback = 6
  PageBars = 1
  LastTick = 9
  Nothing = Nothing
  e1 = e1
  e2 = e2
  e3 = e3
  Events = {e1, e2, e3}
  TradeTime <- Times
  DayLength = 2
  FlushAt = 2
  DedupMemory = 2
  BackoffMax = 4
  MaxFragments = 4
  MaxMishaps = 2
  MaxEngines = 3
  MaxDone = 1
  MaxPositions = 2
  MaxRegimes = 3
  ReadyMinTrades = 3
  ObservingMinTrades = 2
  DegradedMinTrades = 2
  Capital = 10
  Outcomes <- SomeOutcomes
  MaxSessions = 2
  MaxLogged = 4
SPECIFICATION ResearchSpec
INVARIANTS HistoryTellsTheVerdict NothingBeforeItsTime EventsAreKept SessionsAreSingle NoTradeGoesUntold VerdictsAgree
PROPERTIES VerdictsAreNeverLost EarnedTiersGoLive
CHECK_DEADLOCK FALSE
