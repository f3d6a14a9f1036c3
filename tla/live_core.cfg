CONSTANTS
  t1 = t1
  t2 = t2
  btc = btc
  NoState = NoState
  TierSeq <- TwoTiers
  SymbolOf <- OneSymbol
  Suits <- Routing
  Regimes = {"bull", "bear"}
  MaxActive = 2
  MaxSame = 1
  LossLimit = 1
  MaxFaults = 1
  MaxCrashes = 1
SPECIFICATION FairSpec
INVARIANTS ViewsAgree KillSwitchStops
PROPERTY StopsEnforced
