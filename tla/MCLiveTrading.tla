---------------------------- MODULE MCLiveTrading ---------------------------
EXTENDS LiveTrading, TLC
CONSTANTS t1, t2, btc
TwoTiers == <<t1, t2>>
OneSymbol == (t1 :> btc) @@ (t2 :> btc)
Routing == (t1 :> {"bull", "bear"}) @@ (t2 :> {"bull"})
=============================================================================
