------------------------------ MODULE Summaries -----------------------------
(***************************************************************************)
(* The scheduled summaries (src/src/core/alerting/scheduler.py): two loops *)
(* that sleep until midnight and until Sunday's midnight, collect what the *)
(* database knows at that moment and send it.  Time passes in ticks, from  *)
(* a Sunday's midnight; a loop may wake late, and a summary may fail.      *)
(***************************************************************************)
EXTENDS Integers, Sequences, FiniteSets

CONSTANTS DayTicks,     \* ticks of a day
          WeekDays,     \* days of a week
          RetryTicks,   \* the wait after an error
          MaxLate,      \* bound: how late a loop may wake
          MaxFills,     \* bound: orders filled
          MaxStarts,    \* bound: starts of the scheduler
          EndOfTime     \* bound: ticks

VARIABLES
    time,       \* ticks so far
    fillTimes,  \* when the filled orders were filled
    tasks,      \* each loop's task: "sleeping", "retrying" or "ended"
    wakes,      \* when its sleep ends
    starts,     \* starts so far
    dailies,    \* the daily summaries sent: [at, trades]
    weeklies,   \* the weekly ones
    tardy,      \* history: a loop has woken late
    skipped     \* history: a summary has failed
sumVars == <<time, fillTimes, tasks, wakes, starts, dailies, weeklies, tardy, skipped>>

ASSUME SummariesAssumption ==
    /\ {DayTicks, WeekDays, RetryTicks} \subseteq Nat \ {0}
    /\ MaxLate < DayTicks

WeekTicks == DayTicks * WeekDays
Loops == {"daily", "weekly"}

SecondsUntilMidnight == DayTicks - (time % DayTicks)

(* A bug of SecondsUntilSunday: on a Sunday the target is that Sunday's    *)
(* midnight, which has passed; the floor of one second remains.            *)
SecondsUntilThisSunday ==
    IF time % WeekTicks < DayTicks THEN 1 ELSE WeekTicks - (time % WeekTicks)

(* From Sunday's midnight on the target is the next Sunday.                *)
SecondsUntilSunday == WeekTicks - (time % WeekTicks)

NextWake(loop) == time + (IF loop = "daily" THEN SecondsUntilMidnight ELSE SecondsUntilSunday)

SumInit ==
    /\ time = 0 /\ fillTimes = {}
    /\ tasks = [loop \in Loops |-> "ended"] /\ wakes = [loop \in Loops |-> 0]
    /\ starts = 0 /\ dailies = <<>> /\ weeklies = <<>>
    /\ tardy = FALSE /\ skipped = FALSE

(***************************************************************************)
(* The scheduler.                                                          *)
(***************************************************************************)
StartScheduler ==
    /\ \A loop \in Loops : tasks[loop] = "ended"
    /\ starts < MaxStarts /\ starts' = starts + 1
    /\ tasks' = [loop \in Loops |-> "sleeping"]
    /\ wakes' = [loop \in Loops |-> NextWake(loop)]
    /\ UNCHANGED <<time, fillTimes, dailies, weeklies, tardy, skipped>>

(* Both tasks are cancelled wherever they wait.                            *)
StopScheduler ==
    /\ tasks' = [loop \in Loops |-> "ended"]
    /\ UNCHANGED <<time, fillTimes, wakes, starts, dailies, weeklies, tardy, skipped>>

(* _aggregate_daily_data: the orders filled since the midnight that has    *)
(* just passed; _aggregate_weekly_data: those of the last seven days.      *)
Midnight == time - (time % DayTicks)
AggregateDaily == [at |-> time, trades |-> {f \in fillTimes : f >= Midnight}]
AggregateWeekly == [at |-> time, trades |-> {f \in fillTimes : f >= time - WeekTicks}]

Send(loop) ==
    \/ /\ loop = "daily" /\ dailies' = Append(dailies, AggregateDaily)
       /\ UNCHANGED weeklies
    \/ /\ loop = "weekly" /\ weeklies' = Append(weeklies, AggregateWeekly)
       /\ UNCHANGED dailies

(* A loop wakes: its summary goes out and it sleeps until the next one; an *)
(* error is logged and waited out, and the summary is not tried again.     *)
Wakes(loop, fails) ==
    /\ tasks[loop] = "sleeping" /\ time >= wakes[loop]
    /\ tardy' = (tardy \/ time > wakes[loop])
    /\ IF fails
       THEN /\ tasks' = [tasks EXCEPT ![loop] = "retrying"]
            /\ wakes' = [wakes EXCEPT ![loop] = time + RetryTicks]
            /\ skipped' = TRUE
            /\ UNCHANGED <<dailies, weeklies>>
       ELSE /\ Send(loop)
            /\ wakes' = [wakes EXCEPT ![loop] = NextWake(loop)]
            /\ UNCHANGED <<tasks, skipped>>
    /\ UNCHANGED <<time, fillTimes, starts>>

Retries(loop) ==
    /\ tasks[loop] = "retrying" /\ time >= wakes[loop]
    /\ tasks' = [tasks EXCEPT ![loop] = "sleeping"]
    /\ wakes' = [wakes EXCEPT ![loop] = NextWake(loop)]
    /\ UNCHANGED <<time, fillTimes, starts, dailies, weeklies, tardy, skipped>>

(***************************************************************************)
(* Around it.                                                              *)
(***************************************************************************)
OrderFills ==
    /\ time \notin fillTimes /\ Cardinality(fillTimes) < MaxFills
    /\ fillTimes' = fillTimes \cup {time}
    /\ UNCHANGED <<time, tasks, wakes, starts, dailies, weeklies, tardy, skipped>>

TimePasses ==
    /\ time < EndOfTime
    /\ \A loop \in Loops : tasks[loop] # "ended" => time < wakes[loop] + MaxLate
    /\ time' = time + 1
    /\ UNCHANGED <<fillTimes, tasks, wakes, starts, dailies, weeklies, tardy, skipped>>

SumNext ==
    \/ StartScheduler \/ StopScheduler
    \/ \E loop \in Loops : Retries(loop) \/ \E fails \in BOOLEAN : Wakes(loop, fails)
    \/ OrderFills \/ TimePasses

(***************************************************************************)
(* Properties.                                                             *)
(***************************************************************************)
InOrder(summaries, period) ==
    \A i, j \in DOMAIN summaries : i < j => summaries[i].at \div period < summaries[j].at \div period

\* However late the loops wake, whatever fails and however often the system is
\* stopped and started, no day and no week is summed up twice; summaries go
\* out at their midnight when nothing is late; and then two weekly summaries
\* in a row leave out no order that was filled between them.
SummariesAreSound ==
    /\ InOrder(dailies, DayTicks) /\ InOrder(weeklies, WeekTicks)
    /\ ~tardy =>
          /\ \A i \in DOMAIN dailies : dailies[i].at % DayTicks = 0
          /\ \A i \in DOMAIN weeklies : weeklies[i].at % WeekTicks = 0
          /\ \A i \in DOMAIN weeklies \ {1} :
                weeklies[i - 1].at = weeklies[i].at - WeekTicks =>
                    \A f \in fillTimes :
                        weeklies[i - 1].at <= f /\ f < weeklies[i].at => f \in weeklies[i].trades
=============================================================================
