CONSTANTS
  DayLength = 5
  LocalAhead = 0
  UpsertCooldown = 2
  SlowestUpdate = 1
  Results = {0, 1}
  MaxExecuted = 2
  MaxTroubles = 1
  LastTick = 6
SPECIFICATION MonitoringSpec
INVARIANT RealizedIsRecorded
CHECK_DEADLOCK FALSE
