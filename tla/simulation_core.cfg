CONSTANTS
  Window = 2
  MaxBar = 4
  MaxTrades = 2
  Templates = {"macd", "cmf"}
  Side <- TemplateSide
  Tags <- TemplateTags
  ObserveOnly = {}
  Kinds = {"trending", "choppy"}
  Initial = 100
  Candles <- SomeCandles
  Signals <- SomeSignals
  MaxBars = 4
  CommissionRate = 5
  Slippage = 1
  PositionSize = 50
  AllowShorts = TRUE
  AllowFlip = TRUE
  MinTrades = 2
  MinProfitFactor = 135
  Levels = {2000, 3500, 4000, 4500, 6000}
  Ranges = {400, 5000}
  Bars <- SomeBars
  MaxSeries = 7
  PerTarget = 2
  Missing = {4}
SPECIFICATION SimulationSpec
INVARIANTS SessionsResume FailsClosed LedgerBalances EntriesAreSound
PROPERTY NewBarsOnlyExtend
CHECK_DEADLOCK FALSE
