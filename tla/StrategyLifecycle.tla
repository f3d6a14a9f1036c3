-------------------------- MODULE StrategyLifecycle --------------------------
(***************************************************************************)
(* The lifecycle of one strategy in src/src/core/strategy/engine.py.  The  *)
(* API's calls are serial among themselves; the hourly check for           *)
(* underperformance runs in a worker thread beside them.  Every call reads *)
(* the row in one session and saves its copy in another, which writes the  *)
(* columns the call has changed.                                           *)
(***************************************************************************)
EXTENDS Naturals, FiniteSets

CONSTANTS Conditions,   \* what makes a strategy underperform
          Threshold,    \* Threshold[c]: how many days c may last
          MaxFailures     \* bound: calls that fail or die before they save

ASSUME ThresholdAssumption ==
    /\ IsFiniteSet(Conditions) /\ Conditions # {}
    /\ Threshold \in [Conditions -> Nat \ {0}]

VARIABLES
    strategy,   \* status, history and parameters of the row, and in `since`
                \* live_results.underperformance_tracking, as ages in days
    api,        \* the call of the API under way
    monitor,    \* the hourly check under way
    low,        \* the conditions that the results in live_results fulfil
    absent,     \* history: the conditions that the last check did not find
    noticed,    \* history: days since a check has first found a condition
    failures
strategyVars == <<strategy, api, monitor, low, absent, noticed, failures>>

Statuses == {"draft", "backtest", "simulated_paper", "live_paper", "pending_approval", "live",
             "paused", "underperforming", "optimization", "retired"}

ValidTransitions ==
    [s \in Statuses |->
        CASE s = "draft" -> {"backtest"}
          [] s = "backtest" -> {"simulated_paper", "draft"}
          [] s = "simulated_paper" -> {"live_paper"}
          [] s = "live_paper" -> {"pending_approval"}
          [] s = "pending_approval" -> {"live", "draft"}
          [] s = "live" -> {"paused", "underperforming", "retired"}
          [] s = "paused" -> {"live", "retired"}
          [] s = "underperforming" -> {"optimization", "paused", "retired", "live"}
          [] s = "optimization" -> {"live", "paused", "retired"}
          [] s = "retired" -> {}]

(* Ages are counted up to what the longest threshold needs.                *)
Longest == CHOOSE n \in {Threshold[c] : c \in Conditions} :
              \A c \in Conditions : Threshold[c] <= n
Never == Longest + 1
Older(n) == IF n >= Longest THEN n ELSE n + 1

Idle == [pc |-> "idle"]

StrategyInit ==
    /\ strategy = [status |-> "none", last |-> "none", chained |-> TRUE, params |-> 0,
              since |-> [c \in Conditions |-> Never]]
    /\ api = Idle /\ monitor = Idle
    /\ low = {} /\ failures = 0
    /\ absent = Conditions
    /\ noticed = [c \in Conditions |-> Never]

(* A bug of Moved: the event is appended to the list in place, and the     *)
(* session does not see that the column has changed.                       *)
MovedUnflagged(copy, to) == [strategy EXCEPT !.status = to]

(* The row after the status and the history of a copy have been saved: the *)
(* history is kept as its last event and whether its events fit together.  *)
Moved(copy, to) ==
    [strategy EXCEPT !.status = to, !.last = to,
                !.chained = copy.chained /\ copy.last = copy.status
                            /\ to \in ValidTransitions[copy.status]]

StatusCopy == [status |-> strategy.status, last |-> strategy.last, chained |-> strategy.chained]

(***************************************************************************)
(* Calls of the API.                                                       *)
(***************************************************************************)
CreateStrategy ==
    /\ strategy.status = "none" /\ api = Idle
    /\ strategy' = [strategy EXCEPT !.status = "draft", !.last = "draft"]
    /\ UNCHANGED <<api, monitor, low, absent, noticed, failures>>

Read(call) ==
    /\ strategy.status # "none" /\ api = Idle
    /\ api' = call
    /\ UNCHANGED <<strategy, monitor, low, absent, noticed, failures>>

MayMoveTo(to) == to \in ValidTransitions[strategy.status]

TransitionStatus(to) ==
    /\ strategy.status # "none" /\ MayMoveTo(to)
    /\ Read([pc |-> "save", to |-> to, copy |-> StatusCopy])

UpdateStrategyParameters ==
    /\ strategy.status \in {"draft", "paused"}
    /\ Read([pc |-> "save", params |-> 1 - strategy.params])

SaveStrategy ==
    /\ api.pc = "save"
    /\ strategy' = IF "to" \in DOMAIN api THEN Moved(api.copy, api.to)
              ELSE [strategy EXCEPT !.params = api.params]
    /\ api' = Idle
    /\ UNCHANGED <<monitor, low, absent, noticed, failures>>

(***************************************************************************)
(* The hourly check.                                                       *)
(***************************************************************************)
(* The tracking dictionary in memory: a condition that holds is entered    *)
(* with the present time unless it is there, one that does not is removed. *)
Tracked == [c \in Conditions |->
               IF c \notin low THEN Never ELSE IF strategy.since[c] = Never THEN 0 ELSE strategy.since[c]]

(* A bug of Persisted: the tracking dictionary is never written.           *)
PersistedNever == strategy.since

(* If the row has a tracking dictionary, it is this very object that is    *)
(* changed, so that it equals itself and nothing is flagged as modified.   *)
Persisted == IF \A c \in Conditions : strategy.since[c] = Never THEN Tracked ELSE strategy.since

(* A bug of Due: a condition demotes as soon as it is found.               *)
DueAtOnce == low

Due == {c \in low : Tracked[c] >= Threshold[c]}

CheckUnderperformance ==
    /\ monitor = Idle
    /\ strategy.status = "live"
    /\ monitor' = [pc |-> "save", since |-> Persisted, due |-> Due # {}]
    /\ noticed' = [c \in Conditions |-> IF c \in low /\ noticed[c] = Never THEN 0 ELSE noticed[c]]
    /\ absent' = Conditions \ low
    /\ UNCHANGED <<strategy, api, low, failures>>

SaveTracking ==
    /\ monitor.pc = "save"
    /\ strategy' = [strategy EXCEPT !.since = monitor.since]
    /\ monitor' = IF monitor.due THEN [pc |-> "reload"] ELSE Idle
    /\ UNCHANGED <<api, low, absent, noticed, failures>>

(* transition_status reads the row again.                                  *)
Reload ==
    /\ monitor.pc = "reload"
    /\ IF MayMoveTo("underperforming")
       THEN monitor' = [pc |-> "demote", copy |-> StatusCopy]
       ELSE monitor' = Idle
    /\ UNCHANGED <<strategy, api, low, absent, noticed, failures>>

Demote ==
    /\ monitor.pc = "demote"
    /\ strategy' = Moved(monitor.copy, "underperforming")
    /\ monitor' = Idle
    /\ UNCHANGED <<api, low, absent, noticed, failures>>

(* A session raises or the process dies before it has saved.               *)
Fail ==
    /\ failures < MaxFailures
    /\ failures' = failures + 1
    /\ \/ api # Idle /\ api' = Idle /\ UNCHANGED monitor
       \/ monitor # Idle /\ monitor' = Idle /\ UNCHANGED api
    /\ UNCHANGED <<strategy, low, absent, noticed>>

(***************************************************************************)
(* Results and time.                                                       *)
(***************************************************************************)
(* A strategy has live results from its first day as a live strategy on.   *)
HasTraded == strategy.status \in {"live", "paused", "underperforming", "optimization"}

ResultsChange ==
    /\ HasTraded
    /\ low' \in SUBSET Conditions
    /\ low' # low
    /\ UNCHANGED <<strategy, api, monitor, absent, noticed, failures>>

Aged(ages) == [c \in Conditions |-> IF ages[c] = Never THEN Never ELSE Older(ages[c])]

DayPasses ==
    /\ HasTraded
    /\ strategy' = [strategy EXCEPT !.since = Aged(strategy.since)]
    /\ monitor' = IF monitor.pc = "save" THEN [monitor EXCEPT !.since = Aged(@)] ELSE monitor
    /\ noticed' = Aged(noticed)
    /\ UNCHANGED <<api, low, absent, failures>>

MonitorStep == CheckUnderperformance \/ SaveTracking \/ Reload \/ Demote

StrategyNext ==
    \/ CreateStrategy \/ UpdateStrategyParameters \/ SaveStrategy
    \/ \E to \in Statuses : TransitionStatus(to)
    \/ MonitorStep \/ Fail
    \/ ResultsChange \/ DayPasses

StrategySpec == StrategyInit /\ [][StrategyNext]_strategyVars

(* The main loop checks every hour, calls end and days pass; nobody is     *)
(* obliged to call the API.                                                *)
StrategyFairSpec ==
    /\ StrategySpec
    /\ WF_strategyVars(MonitorStep) /\ WF_strategyVars(SaveStrategy) /\ WF_strategyVars(DayPasses)

(***************************************************************************)
(* Properties.                                                             *)
(***************************************************************************)
\* However calls overlap, the history in the row is a chain of permitted
\* transitions that ends with the row's status: status and history are
\* saved together, and saves for other purposes leave both alone.
HistoryExplainsStatus ==
    strategy.status # "none" => strategy.chained /\ strategy.last = strategy.status

Decided == monitor = Idle /\ monitor' # Idle /\ monitor'.due

\* The check does not decide to demote a strategy before one of the
\* conditions has been known, from when a check first noticed it, for as
\* long as its threshold says: restarts and failing saves do not shorten it.
NoDemotionWithoutNotice ==
    [][ Decided => \E c \in low : noticed[c] # Never /\ noticed[c] >= Threshold[c] ]_strategyVars

\* A condition that lasts while the strategy is live ends in its demotion,
\* as long as it is the only one: the first to be found is written down.
LastingFailureDemotes ==
    \A c \in Conditions :
        [](low \subseteq {c}) => ~<>[](strategy.status = "live" /\ low = {c})

\* Demotion is fair: never without its notice, and never put off for good.
DemotionIsFair == NoDemotionWithoutNotice /\ LastingFailureDemotes

\* "Condition cleared - remove tracking entry": only a condition that has
\* lasted, and that the last check has found too, demotes a strategy.
RecurrenceStartsAfresh ==
    [][ Decided => \E c \in low : c \notin absent ]_strategyVars
=============================================================================
