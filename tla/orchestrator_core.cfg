CONSTANTS
  e1 = e1
  e2 = e2
  e3 = e3
  s1 = s1
  s2 = s2
  Entries = {e1, e2, e3}
  Symbols = {s1, s2}
  SymbolOf <- TwoSymbols
  Sharpe <- Ratios
  MinuteTicks = 2
  CooldownTicks = 4
  MaxPerMinute = 1
  HealthEvery = 2
  ErrorThreshold = 1
  MaxMissed = 2
SPECIFICATION FairSpec
CHECK_DEADLOCK FALSE
INVARIANTS HaltStopsEntries
PROPERTIES TroubleEnds
