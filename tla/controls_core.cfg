CONSTANTS
  btc = btc
  alt = alt
  Symbols = {btc, alt}
  Breakers = {"drawdown", "correlation"}
  BreakerCooldown = 1
  MaxOpenPositions = 2
  MaxPositionSize = 2
  MaxConcentration = 2
  AssetLimit <- Limits
  CorrelatedLimit = 3
  MaxApproved = 2
  Requests <- SizeRequests
  Equity = 100000
  Lot = 1000
  Calls <- SomeCalls
  Capacity <- BucketSize
  Rate <- BucketRate
  Cost = 2
  Naps <- BucketNaps
  MaxLine = 2
  LookBack = 3
  Streams = {"tab", "phone"}
  QueueSize = 2
  MaxEvents = 4
  Events <- SomeEvents
  Configured = {"telegram", "email"}
  TitleCooldown = 1
  Hour = 1
  LevelMax = 2
  EmailAfter = 0
  SmsAfter = 1
  RepeatEvery = 1
  MaxTicks = 2
  Callers = {live, paper}
  Wanted <- SomeSeries
  Setups <- SomeSetups
  SeriesTtl = 1
  IndicatorTtl = 1
  MaxSize = 2
  MaxDelay = 1
  MaxCandle = 6
  PageSize = 2
  MaxPages = 2
  live = live
  paper = paper
  DayTicks = 2
  WeekDays = 2
  RetryTicks = 1
  MaxLate = 1
  MaxFills = 1
  MaxStarts = 2
  EndOfTime = 8
  MaxPlaced = 2
  MaxDoubts = 1
  KeysPresent = {TRUE, FALSE}
SPECIFICATION ControlSpec
INVARIANTS ExposureWithinLimits SizeIsSound CallsArePaidFor EventsAreAccountedFor FloodsAreBounded SummariesAreSound DataIsWhatWasAsked AnswersTellTheTruth
PROPERTIES TripsAreHonoured
CHECK_DEADLOCK FALSE
