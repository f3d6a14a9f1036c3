----------------------------- MODULE PaperTrading ---------------------------
(***************************************************************************)
(* A live paper session (src/src/core/strategy/paper/engine.py): the       *)
(* polling loop with its replay of missed bars, the simulated trader and   *)
(* portfolio of the backtest package behind it, the session's row that     *)
(* survives restarts.  The last bar of a fetched series is still forming:  *)
(* what it reaches later is not known yet.  Prices are abstracted to       *)
(* whether a bar reaches the stop or the target of a position.             *)
(***************************************************************************)
EXTENDS Integers, Sequences, SequencesExt

CONSTANTS Window,        \* bars of a fetched series
          MaxBar,        \* bound: bars
          MaxTrades      \* bound: positions opened

VARIABLES
    loop,       \* "off", "fetching" or "waiting" for the next poll
    stopSet,    \* _stop_event
    pos,        \* _portfolio._position: [id, entry] or None
    log,        \* _trade_log: the ids of the closed positions
    cursor,     \* _last_bar_timestamp, 0 before the first bar
    saved,      \* the session's row, None before the first save
    forming,    \* the bar that is forming
    reached,    \* <<id, bar>>: the bar has reached the stop or target of id
    opened,     \* positions opened so far
    unseen,     \* history: bars that were forming when a poll processed them, or had left the window
    slipped     \* history: a load or a save has failed
paperVars == <<loop, stopSet, pos, log, cursor, saved, forming, reached, opened, unseen, slipped>>

None == [none |-> TRUE]

PaperInit ==
    /\ loop = "off" /\ stopSet = FALSE
    /\ pos = None /\ log = <<>> /\ cursor = 0 /\ saved = None
    /\ forming = 1 /\ reached = {} /\ opened = 0
    /\ unseen = {} /\ slipped = FALSE

(***************************************************************************)
(* start: a new engine, the state of the row or, when reading it fails, a  *)
(* fresh one.                                                              *)
(***************************************************************************)
Loaded ==
    IF saved = None THEN pos' = None /\ log' = <<>> /\ cursor' = 0
    ELSE pos' = saved.pos /\ log' = saved.log /\ cursor' = saved.cursor

StartSession ==
    /\ loop = "off"
    /\ loop' = "fetching" /\ stopSet' = FALSE
    /\ \/ Loaded /\ UNCHANGED slipped
       \/ /\ saved # None
          /\ pos' = None /\ log' = <<>> /\ cursor' = 0
          /\ slipped' = TRUE
    /\ UNCHANGED <<saved, forming, reached, opened, unseen>>

StopSession ==
    /\ loop # "off" /\ ~stopSet
    /\ stopSet' = TRUE
    /\ UNCHANGED <<loop, pos, log, cursor, saved, forming, reached, opened, unseen, slipped>>

(***************************************************************************)
(* A poll.                                                                 *)
(***************************************************************************)
Fetched == {b \in 1..forming : b > forming - Window}

(* A bug of Replayed: only the latest bar is looked at.                    *)
ReplayedLatest == {forming}

(* The bars to check: those after the cursor, the latest one without it.   *)
Replayed == IF cursor = 0 THEN {forming} ELSE {b \in Fetched : b > cursor}

StopTaken == pos # None /\ \E b \in Replayed : <<pos.id, b>> \in reached

AfterReplay == [pos |-> IF StopTaken THEN None ELSE pos,
                log |-> IF StopTaken THEN Append(log, pos.id) ELSE log]

(* What a signal does to s, filled at the open of the forming bar: one in  *)
(* the direction of the position is ignored, another one only closes it.   *)
ExecuteSignal(s, signal) ==
    IF signal = "none" \/ (signal = "same" /\ s.pos # None) \/ (signal = "opposite" /\ s.pos = None)
    THEN s
    ELSE IF s.pos = None
    THEN [s EXCEPT !.pos = [id |-> opened + 1, entry |-> forming]]
    ELSE [pos |-> None, log |-> Append(s.log, s.pos.id)]

Saved(s) == [pos |-> s.pos, log |-> s.log, cursor |-> forming]

ProcessLiveBar(signal, saves) ==
    /\ loop = "fetching"
    /\ (signal = "same" => opened < MaxTrades)
    /\ loop' = "waiting"
    /\ cursor' = forming
    /\ unseen' = unseen \cup {forming} \cup {b \in 1..forming : b \notin Fetched /\ cursor # 0 /\ b > cursor}
    /\ LET after == ExecuteSignal(AfterReplay, signal)
       IN /\ pos' = after.pos /\ log' = after.log
          /\ opened' = IF after.pos # None /\ after.pos.id > opened THEN opened + 1 ELSE opened
          /\ IF saves THEN saved' = Saved(after) /\ UNCHANGED slipped
             ELSE UNCHANGED saved /\ slipped' = TRUE
    /\ UNCHANGED <<stopSet, forming, reached>>

(* The generator raises: the cursor has moved and nothing is saved.        *)
GeneratorFails ==
    /\ loop = "fetching"
    /\ loop' = "waiting"
    /\ pos' = AfterReplay.pos /\ log' = AfterReplay.log
    /\ cursor' = forming
    /\ unseen' = unseen \cup {forming} \cup {b \in 1..forming : b \notin Fetched /\ cursor # 0 /\ b > cursor}
    /\ slipped' = TRUE
    /\ UNCHANGED <<stopSet, saved, forming, reached, opened>>

FetchFails ==
    /\ loop = "fetching"
    /\ loop' = "waiting"
    /\ UNCHANGED <<stopSet, pos, log, cursor, saved, forming, reached, opened, unseen, slipped>>

NextPoll ==
    /\ loop = "waiting" /\ ~stopSet
    /\ loop' = "fetching"
    /\ UNCHANGED <<stopSet, pos, log, cursor, saved, forming, reached, opened, unseen, slipped>>

(* The stop event ends the loop: the position is closed in memory, after   *)
(* the last save.                                                          *)
ForceClose ==
    /\ loop = "waiting" /\ stopSet
    /\ loop' = "off"
    /\ log' = IF pos = None THEN log ELSE Append(log, pos.id)
    /\ pos' = None
    /\ UNCHANGED <<stopSet, cursor, saved, forming, reached, opened, unseen, slipped>>

(* The process dies, or the router cancels a task that does not stop.      *)
Dies ==
    /\ loop # "off"
    /\ loop' = "off" /\ pos' = None /\ log' = <<>> /\ cursor' = 0
    /\ UNCHANGED <<stopSet, saved, forming, reached, opened, unseen, slipped>>

(***************************************************************************)
(* The market.                                                             *)
(***************************************************************************)
NewBar ==
    /\ forming < MaxBar
    /\ forming' = forming + 1
    /\ UNCHANGED <<loop, stopSet, pos, log, cursor, saved, reached, opened, unseen, slipped>>

Reaches ==
    /\ \E p \in {pos, IF saved = None THEN None ELSE saved.pos} \ {None} : reached' = reached \cup {<<p.id, forming>>}
    /\ UNCHANGED <<loop, stopSet, pos, log, cursor, saved, forming, opened, unseen, slipped>>

PaperNext ==
    \/ StartSession \/ StopSession \/ NextPoll \/ FetchFails \/ GeneratorFails
    \/ \E signal \in {"none", "same", "opposite"}, saves \in BOOLEAN : ProcessLiveBar(signal, saves)
    \/ ForceClose \/ Dies
    \/ NewBar \/ Reaches

(***************************************************************************)
(* Properties.                                                             *)
(***************************************************************************)
\* An open position has been checked against every bar since its entry that
\* was complete when a poll saw it, through restarts and gaps in the data:
\* the cursor never passes such a bar by.
StopsAreSeen ==
    pos # None /\ cursor # 0 =>
        \A b \in (pos.entry + 1)..cursor : <<pos.id, b>> \in reached => b \in unseen

\* A trade that the row has as closed is closed for good: it is not open in
\* the row, no restart opens it again, and no trade is in a log twice.
TradesStayClosed ==
    saved # None =>
        /\ saved.pos # None => saved.pos.id \notin ToSet(saved.log)
        /\ pos # None => pos.id \notin ToSet(log) /\ (~slipped => pos.id \notin ToSet(saved.log))
        /\ IsInjective(saved.log)

\* A session loses nothing it is responsible for between its polls: neither a
\* stop reached while it could not look, nor the end of a trade.
SessionsResume == StopsAreSeen /\ TradesStayClosed
=============================================================================
