---------------------------- MODULE MCLifecycles ----------------------------
(***************************************************************************)
(* The life of an order, the system's state row, the lifecycle of a         *)
(* strategy, the daily P&L records and the backups of the configuration.    *)
(* They share nothing here: one of them runs, the others stay as they begin.*)
(***************************************************************************)
EXTENDS OrderLifecycle, SystemState, StrategyLifecycle, Backups, Monitoring

VARIABLE running

\* OrderLifecycle
CONSTANTS o1, loop

\* SystemState and StrategyLifecycle
CONSTANTS a1, winrate, sharpe

Days == [c \in {winrate, sharpe} |-> IF c = winrate THEN 1 ELSE 2]

lifecycleVars == <<vars, systemVars, strategyVars, backVars, monitorVars, running>>

LifecycleInit ==
    /\ running \in {"orders", "system", "strategy", "backups", "monitoring"}
    /\ Init /\ SystemInit /\ StrategyInit /\ BackInit /\ MonitoringInit

OrderStep == running = "orders" /\ Next
SystemStep == running = "system" /\ SystemNext
StrategyStep == running = "strategy" /\ StrategyNext
BackupStep == running = "backups" /\ BackNext
MonitoringStep == running = "monitoring" /\ MonitoringNext

LifecycleNext ==
    \/ OrderStep /\ UNCHANGED <<systemVars, strategyVars, backVars, monitorVars, running>>
    \/ SystemStep /\ UNCHANGED <<vars, strategyVars, backVars, monitorVars, running>>
    \/ StrategyStep /\ UNCHANGED <<vars, systemVars, backVars, monitorVars, running>>
    \/ BackupStep /\ UNCHANGED <<vars, systemVars, strategyVars, monitorVars, running>>
    \/ MonitoringStep /\ UNCHANGED <<vars, systemVars, strategyVars, backVars, running>>

\* The fairness each module states (Fairness, SystemFairSpec, StrategyFairSpec), for
\* when it is the one that runs.
Orderly == running = "orders"

LifecycleSpec ==
    /\ LifecycleInit /\ [][LifecycleNext]_lifecycleVars
    /\ \A o \in Orders :
          /\ WF_vars(Orderly /\ InFlight(o))
          /\ WF_vars(Orderly /\ (\/ MonitorBegin(o) \/ MonitorPoll(o) \/ MonitorMark(o)
                                 \/ MonitorPartial(o) \/ MonitorFillDone(o)))
          /\ WF_vars(Orderly /\ (CancelAtExchange(o) \/ CancelStopMonitoring(o) \/ CancelMark(o)))
          /\ \A h \in Handlers : WF_vars(Orderly /\ HandleFill(h, o))
    /\ \A r \in Reconcilers : WF_vars(Orderly /\ Reconcile(r))
    /\ WF_vars(Orderly /\ StartLoop) /\ WF_vars(Orderly /\ LoopStopped)
    /\ \A c \in Callers : WF_systemVars(running = "system" /\ Step(c))
    /\ WF_strategyVars(running = "strategy" /\ MonitorStep)
    /\ WF_strategyVars(running = "strategy" /\ SaveStrategy)
    /\ WF_strategyVars(running = "strategy" /\ DayPasses)
=============================================================================
