CONSTANTS
  a1 = a1
  Api = {a1}
  MaxMissed = 2
  MaxOverlap = 2
  MaxCodes = 1
  MaxSetbacks = 1
  o1 = o1
  loop = loop
  Orders = {o1}
  Cancellable = {o1}
  Reconcilers = {loop}
  Loop = loop
  MaxFaults = 1
  MaxRestarts = 1
  winrate = winrate
  sharpe = sharpe
  Conditions = {winrate, sharpe}
  Threshold <- Days
  MaxFailures = 1
  MonthTicks = 2
  KeepDays = 1
  KeepMonths = 2
  MaxMishaps = 1
  LastSecond = 6
  DayLength = 5
  LocalAhead = 1
  UpsertCooldown = 2
  SlowestUpdate = 1
  Results = {1}
  MaxExecuted = 1
  MaxTroubles = 1
  LastTick = 8
SPECIFICATION LifecycleSpec
INVARIANTS TypeOK TradesMatchFills TraceableUnlessFault
INVARIANTS NothingIsUndone HistoryExplainsStatus BackupsSurvive DaysAreTold
PROPERTIES ImplementsContract SubmittedSettles
PROPERTIES HaltsHold DemotionIsFair
CHECK_DEADLOCK FALSE
