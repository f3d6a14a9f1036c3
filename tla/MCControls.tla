----------------------------- MODULE MCControls -----------------------------
(***************************************************************************)
(* The services around trading: risk checks and sizing, the exchange's     *)
(* calls and rate limits, events, alerts, summaries and market data.  They *)
(* share nothing here: one of them runs, the others stay as they begin.    *)
(***************************************************************************)
EXTENDS RiskPipeline, Sizing, RateLimiter, EventBus, Alerting, Summaries, MarketData,
        ExchangeCalls

VARIABLE running

CONSTANTS btc, alt

\* RiskPipeline
Limits == [s \in {btc, alt} |-> IF s = btc THEN 2 ELSE 3]

\* Sizing
SizeRequests ==
    [method : {"fixed_risk", "atr_based", "kelly"}, stop : {1, 5, 40}, atr : {1, 4}, cap : {2, 5},
     volatility : {0, 50, 100}, regime : {0, 30, 100}, cash : {0, 1000, 31000, 100000},
     entry : {100}, wins : {30, 60}, gain : {2}, loss : {1}]

\* RateLimiter
BucketSize == [requests |-> 6, orders |-> 4, daily |-> 6]
BucketRate == [requests |-> 2, orders |-> 1, daily |-> 1]
BucketNaps == [emergency |-> 2, daily |-> 4, throttle |-> 1, standard |-> 1]
SomeCalls == {[priority |-> 1, order |-> TRUE], [priority |-> 2, order |-> TRUE],
              [priority |-> 3, order |-> FALSE]}

\* Alerting
Event(kind, subject) == [kind |-> kind, subject |-> subject]
SomeEvents ==
    {Event("daily_loss_warning", "a"), Event("daily_loss_warning", "b"),
     Event("health_check_failed", "db"), Event("order_rejected", "a"),
     Event("kill_switch_activated", "a")}

\* MarketData
CONSTANTS live, paper
\* Two callers share a series and one of them does not validate it; two setups
\* share a key, since what they differ in is not listed.
SomeSeries == {[symbol |-> "btc", checks |-> "all"], [symbol |-> "btc", checks |-> "none"]}
SomeSetups ==
    {[class |-> "keltner", listed |-> 2, rest |-> 10], [class |-> "keltner", listed |-> 2, rest |-> 20],
     [class |-> "ema", listed |-> 2, rest |-> 0]}

controlVars == <<riskVars, sizeVars, limitVars, busVars, alertVars, sumVars, cacheVars,
                 histVars, callVars, running>>

ControlInit ==
    /\ running \in {"risk", "sizing", "limiter", "bus", "alerting", "summaries", "cache", "history",
                   "calls"}
    /\ RiskInit /\ SizeInit /\ LimitInit /\ BusInit /\ AlertInit /\ SumInit /\ CacheInit
    /\ IF running = "calls" THEN CallInit
       ELSE /\ keyed = TRUE /\ book = << >> /\ apiCall = NoCall /\ callStage = "idle"
            /\ reply = "none" /\ read = "none" /\ answer = "none"
            /\ confirmed = 0 /\ doubts = 0 /\ told = [i \in Ids |-> "none"]
    /\ IF running = "history" THEN HistInit
       ELSE /\ listed = {} /\ malformed = {} /\ end = 1
            /\ last = 0 /\ history = {} /\ pages = 0 /\ fetch = "running"

RiskStep == running = "risk" /\ RiskNext
SizeStep == running = "sizing" /\ SizeNext
LimitStep == running = "limiter" /\ LimitNext
BusStep == running = "bus" /\ BusNext
AlertStep == running = "alerting" /\ AlertNext
SummaryStep == running = "summaries" /\ SumNext
CacheStep == running = "cache" /\ CacheNext
HistoryStep == running = "history" /\ HistNext
CallStep == running = "calls" /\ CallNext

ControlNext ==
    \/ RiskStep /\ UNCHANGED <<sizeVars, limitVars, busVars, alertVars, sumVars,
                     cacheVars, histVars, callVars, running>>
    \/ SizeStep /\ UNCHANGED <<riskVars, limitVars, busVars, alertVars, sumVars,
                     cacheVars, histVars, callVars, running>>
    \/ LimitStep /\ UNCHANGED <<riskVars, sizeVars, busVars, alertVars, sumVars,
                     cacheVars, histVars, callVars, running>>
    \/ BusStep /\ UNCHANGED <<riskVars, sizeVars, limitVars, alertVars, sumVars,
                     cacheVars, histVars, callVars, running>>
    \/ AlertStep /\ UNCHANGED <<riskVars, sizeVars, limitVars, busVars, sumVars,
                     cacheVars, histVars, callVars, running>>
    \/ SummaryStep /\ UNCHANGED <<riskVars, sizeVars, limitVars, busVars, alertVars,
                     cacheVars, histVars, callVars, running>>
    \/ CacheStep /\ UNCHANGED <<riskVars, sizeVars, limitVars, busVars, alertVars,
                     sumVars, histVars, callVars, running>>
    \/ HistoryStep /\ UNCHANGED <<riskVars, sizeVars, limitVars, busVars, alertVars,
                     sumVars, cacheVars, callVars, running>>
    \/ CallStep /\ UNCHANGED <<riskVars, sizeVars, limitVars, busVars, alertVars,
                     sumVars, cacheVars, histVars, running>>

ControlSpec == ControlInit /\ [][ControlNext]_controlVars
=============================================================================
