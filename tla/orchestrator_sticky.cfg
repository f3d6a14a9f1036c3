CONSTANTS
  e1 = e1
  e2 = e2
  e3 = e3
  s1 = s1
  s2 = s2
  Entries = {e1}
  Symbols = {s1}
  SymbolOf <- OneSymbol
  Sharpe <- OneRatio
  MinuteTicks = 2
  CooldownTicks = 2
  MaxPerMinute = 1
  HealthEvery = 2
  ErrorThreshold = 1
  MaxMissed = 2
SPECIFICATION FairSpec
CHECK_DEADLOCK FALSE
PROPERTIES RecoversWhenResolved
