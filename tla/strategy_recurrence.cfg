CONSTANTS
  winrate = winrate
  sharpe = sharpe
  Conditions = {winrate, sharpe}
  Threshold <- Days
  MaxFailures = 1
SPECIFICATION StrategySpec
PROPERTIES RecurrenceStartsAfresh
CHECK_DEADLOCK FALSE
