----------------------------- MODULE Monitoring -----------------------------
(***************************************************************************)
(* The daily P&L records (src/src/core/monitoring/service.py), written by  *)
(* one coroutine in the orchestrator's cycles: it keeps the time of its    *)
(* last write in memory, settles which day it is before its first await,   *)
(* and reads, looks up and saves in awaits of their own, while trades are  *)
(* executed, the clock goes on and the process may start again.  The day   *)
(* is that of the host's clock; the trades are asked for from the midnight *)
(* of the same date in UTC.                                                *)
(***************************************************************************)
EXTENDS Integers, FiniteSets, FiniteSetsExt

CONSTANTS DayLength,        \* ticks of a day
          LocalAhead,       \* ticks the host's clock is ahead of UTC, or behind
          UpsertCooldown,  \* PNL_UPSERT_COOLDOWN_SECONDS
          SlowestUpdate,   \* bound: ticks an update takes at most
          Results,         \* of trades: the P&L a trade realises, 0 when it opens
          MaxExecuted,     \* bound: trades
          MaxTroubles,     \* bound: failed calls and uses of the kill switch
          LastTick         \* bound: the clock

ASSUME MonitoringAssumption ==
    /\ {DayLength, UpsertCooldown} \subseteq Nat \ {0}
    /\ SlowestUpdate \in 0..(UpsertCooldown - 1)
    /\ LocalAhead \in (1 - DayLength)..(DayLength - 1)

VARIABLES
    tick,       \* ticks so far, from a local midnight
    executed,   \* the trades table: [id, executed_at, commission]
    closedFor,  \* the position rows: what each trade realised, by trade
    records,    \* the P&L rows by record_date
    lastWrite,  \* _last_pnl_write of the account; empty when it has none
    update,     \* where _update_pnl_record is: "idle", "trades", "save"
    locals,     \* its locals: [now, today, read, trades]
    cycled,     \* a cycle has run, or was cut short, in this tick
    halted,     \* the kill switch is active
    troubles,
    troubled    \* history: days on which an update failed or a cycle was cut short
monitorVars == <<tick, executed, closedFor, records, lastWrite, update, locals,
                 cycled, halted, troubles, troubled>>

(* date.today(): the local date.                                           *)
Day(t) == t \div DayLength

(* datetime(today.year, today.month, today.day, tzinfo=timezone.utc).      *)
UtcMidnight(day) == day * DayLength + LocalAhead
Nothing == [now |-> 0, today |-> 0, read |-> 0, trades |-> {}]

MonitoringInit ==
    /\ tick = 0 /\ executed = {} /\ closedFor = << >>
    /\ records = << >> /\ lastWrite = {} /\ update = "idle" /\ locals = Nothing
    /\ cycled = FALSE /\ halted = FALSE /\ troubles = 0 /\ troubled = {}

Trouble ==
    /\ troubles < MaxTroubles /\ troubles' = troubles + 1
    /\ troubled' = troubled \cup {Day(tick)}

Debounced == \E w \in lastWrite : tick - w < UpsertCooldown

(* getattr(row, name, 0.0).                                                *)
Attribute(row, name) == IF name \in DOMAIN row THEN row[name] ELSE 0
Realized(trades) == MapThenSumSet(LAMBDA t : Attribute(t, "realized_pnl"), trades)

(***************************************************************************)
(* run_cycle for the account, in a cycle of the orchestrator.              *)
(***************************************************************************)
BeginUpdate ==
    /\ update = "idle" /\ ~cycled /\ ~halted
    /\ cycled' = TRUE
    /\ IF Debounced THEN UNCHANGED <<update, locals>>
       ELSE /\ update' = "trades"
            /\ locals' = [Nothing EXCEPT !.now = tick, !.today = Day(tick)]
    /\ UNCHANGED <<tick, executed, closedFor, records, lastWrite, halted, troubles, troubled>>

(* A bug of TradesSince: the trades of the last 24 hours.                  *)
TradesSinceYesterday(day) == {t \in executed : t.executed_at + DayLength >= tick}

(* get_trades_for_account: from that midnight on, without an end.          *)
TradesSince(day) == {t \in executed : t.executed_at >= UtcMidnight(day)}

ReadTrades ==
    /\ update = "trades"
    /\ locals' = [locals EXCEPT !.read = tick, !.trades = TradesSince(locals.today)]
    /\ update' = "save"
    /\ UNCHANGED <<tick, executed, closedFor, records, lastWrite, cycled, halted,
                   troubles, troubled>>

(* get_pnl_for_date and save_pnl_record: the day's row is created or its   *)
(* figures are replaced; only then is the write remembered.                *)
Figures == [read |-> locals.read, trades |-> locals.trades, realized |-> Realized(locals.trades)]

SaveRecord ==
    /\ update = "save"
    /\ records' = [d \in DOMAIN records \cup {locals.today} |->
                      IF d = locals.today THEN Figures ELSE records[d]]
    /\ lastWrite' = {locals.now}
    /\ update' = "idle" /\ locals' = Nothing
    /\ UNCHANGED <<tick, executed, closedFor, cycled, halted, troubles, troubled>>

(* Any of the calls raises: logged, and left to the next cycle.            *)
UpdateFails ==
    /\ update # "idle"
    /\ Trouble
    /\ update' = "idle" /\ locals' = Nothing
    /\ UNCHANGED <<tick, executed, closedFor, records, lastWrite, cycled, halted>>

(***************************************************************************)
(* Around it.                                                              *)
(***************************************************************************)
(* _handle_fill saves a trade; the position row keeps what it realised.    *)
ExecuteTrade(result) ==
    LET id == Cardinality(executed) + 1 IN
    /\ id <= MaxExecuted
    /\ executed' = executed \cup {[id |-> id, executed_at |-> tick, commission |-> 1]}
    /\ closedFor' = [i \in 1..id |-> IF i = id THEN result ELSE closedFor[i]]
    /\ UNCHANGED <<tick, records, lastWrite, update, locals, cycled, halted, troubles, troubled>>

(* While the kill switch is active a cycle ends before the monitoring.     *)
SwitchOn ==
    /\ ~halted /\ update = "idle"
    /\ Trouble
    /\ halted' = TRUE
    /\ UNCHANGED <<tick, executed, closedFor, records, lastWrite, update, locals, cycled>>

SwitchOff ==
    /\ halted /\ halted' = FALSE
    /\ troubled' = troubled \cup {Day(tick)}
    /\ UNCHANGED <<tick, executed, closedFor, records, lastWrite, update, locals, cycled, troubles>>

(* The process ends, within an update or not, and is started again.        *)
ProcessRestarts ==
    /\ lastWrite' = {}
    /\ update' = "idle" /\ locals' = Nothing /\ cycled' = FALSE
    /\ troubled' = IF update = "idle" THEN troubled ELSE troubled \cup {Day(tick)}
    /\ UNCHANGED <<tick, executed, closedFor, records, halted, troubles>>

(* A cycle takes place in every tick, and an update ends in time.          *)
ClockTicks ==
    /\ tick < LastTick
    /\ cycled \/ halted
    /\ update # "idle" => tick < locals.now + SlowestUpdate
    /\ tick' = tick + 1 /\ cycled' = (update # "idle")
    /\ troubled' = IF halted THEN troubled \cup {Day(tick), Day(tick + 1)} ELSE troubled
    /\ UNCHANGED <<executed, closedFor, records, lastWrite, update, locals, halted, troubles>>

MonitoringNext ==
    \/ BeginUpdate \/ ReadTrades \/ SaveRecord \/ UpdateFails
    \/ \E result \in Results : ExecuteTrade(result)
    \/ SwitchOn \/ SwitchOff \/ ProcessRestarts \/ ClockTicks

MonitoringSpec == MonitoringInit /\ [][MonitoringNext]_monitorVars

(***************************************************************************)
(* Properties.                                                             *)
(***************************************************************************)
Earlier(a, b) == IF a < b THEN a ELSE b

\* The date of a trade's executed_at.
UtcDay(t) == (t - LocalAhead) \div DayLength

\* On a day without trouble, however often the process is started again
\* between two updates, the day's record lacks only the trades of the last
\* UpsertCooldown ticks (plus the duration of an update) before now or before
\* the local midnight, and those executed before the UTC midnight of its date:
\* ahead of UTC the latter are in no record at all. And a trade is counted on
\* a day that is neither its local nor its UTC date only by an update that
\* began before the local midnight and read after it.
DaysAreTold ==
    /\ \A t \in executed :
          LET d == Day(t.executed_at)
              horizon == Earlier(tick, (d + 1) * DayLength) IN
          /\ d \notin troubled
          /\ t.executed_at >= UtcMidnight(d)
          /\ t.executed_at + UpsertCooldown + SlowestUpdate < horizon
          => d \in DOMAIN records /\ t \in records[d].trades
    /\ \A d \in DOMAIN records :
          Day(records[d].read) = d =>
              \A t \in records[d].trades : d \in {Day(t.executed_at), UtcDay(t.executed_at)}

\* realized_pnl is the profit or loss of the closed positions: what the trades
\* counted by a day's record have realised.
RealizedIsRecorded ==
    \A d \in DOMAIN records :
        records[d].realized = MapThenSumSet(LAMBDA t : closedFor[t.id], records[d].trades)
=============================================================================
