---------------------------- MODULE MCSimulation ----------------------------
(***************************************************************************)
(* The strategy side: indicators, signal generators, backtests, paper      *)
(* sessions and the routing of templates to them.  They share nothing      *)
(* here: one of them runs, the others stay as they begin.                  *)
(***************************************************************************)
EXTENDS PaperTrading, RegimeRouting, Backtest, SignalRules, Indicators

VARIABLE running

\* RegimeRouting
TemplateSide == [macd |-> "bull", cmf |-> "bear"]
TemplateTags == [macd |-> {"choppy_bull"}, cmf |-> {}]

\* Backtest
Prices == {8, 10, 13}
SomeCandles ==
    {c \in [open : Prices, high : Prices, low : Prices, close : Prices] :
       c.low <= c.open /\ c.low <= c.close /\ c.high >= c.open /\ c.high >= c.close}
SomeSignals ==
    {[direction |-> "close"],
     [direction |-> "long", stop |-> 9, target |-> 12], [direction |-> "long", stop |-> 9, target |-> 0],
     [direction |-> "short", stop |-> 12, target |-> 9], [direction |-> "short", stop |-> 12, target |-> 0]}
FlatCandle == [open |-> 10, high |-> 10, low |-> 10, close |-> 10]

\* Indicators
SomeBars ==
    {[high |-> 1400, low |-> 1100, close |-> 1390, volume |-> 3],
     [high |-> 1210, low |-> 900, close |-> 950, volume |-> 1],
     [high |-> 1000, low |-> 1000, close |-> 1000, volume |-> 0]}

SimulationInit ==
    /\ running \in {"paper", "routing", "backtest", "rules", "indicators"}
    /\ PaperInit /\ RouteInit /\ BackInit /\ RuleInit /\ SeriesInit
    /\ running # "backtest" => bar = FlatCandle
    /\ running # "routing" => kinds = <<"choppy", "choppy">>

PaperStep == running = "paper" /\ PaperNext
RouteStep == running = "routing" /\ RouteNext
BackStep == running = "backtest" /\ BackNext
RuleStep == running = "rules" /\ RuleNext
SeriesStep == running = "indicators" /\ SeriesNext

SimulationNext ==
    \/ PaperStep /\ UNCHANGED <<routeVars, backVars, ruleVars, series, running>>
    \/ RouteStep /\ UNCHANGED <<paperVars, backVars, ruleVars, series, running>>
    \/ BackStep /\ UNCHANGED <<paperVars, routeVars, ruleVars, series, running>>
    \/ RuleStep /\ UNCHANGED <<paperVars, routeVars, backVars, series, running>>
    \/ SeriesStep /\ UNCHANGED <<paperVars, routeVars, backVars, ruleVars, running>>

SimulationSpec ==
    SimulationInit
    /\ [][SimulationNext]_<<paperVars, routeVars, backVars, ruleVars, series, running>>
=============================================================================
