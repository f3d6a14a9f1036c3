---------------------------- MODULE PaperMonitor ----------------------------
(***************************************************************************)
(* The paper trading runner's monitoring (src/scripts/run_paper_trading):  *)
(* the trade monitor that tells of entries and closed trades by comparing  *)
(* each engine with what it saw at its last look, and the hourly summary.  *)
(* Engines come and go with the regime: a new one resumes the session from *)
(* its row.  A look takes a snapshot, then waits for the messenger between *)
(* its alerts, and the engine goes on meanwhile.  One session.             *)
(***************************************************************************)
EXTENDS Integers, Sequences, SequencesExt

CONSTANTS MaxPositions,     \* bound: positions opened
          MaxRegimes        \* bound: engines made for the session

VARIABLES
    process,    \* "up", "stopping" or "down"
    logs,       \* the closed positions of each engine made, the last one current
    trading,    \* the current engine runs
    holding,    \* the position it has open, 0 for none
    row,        \* the session's row: [log, holding]
    positions,  \* positions opened so far
    had,        \* had_position: a position was open at the last look
    counted,    \* last_counts: closed trades at the last look
    look,       \* the look under way: [of, open, n, stage, left] or NoLook
    announced,  \* history: what alerts have been tried for, <<"opened" or "closed", position>>
    unsaved        \* history: a save of the session has failed
monVars == <<process, logs, trading, holding, row, positions, had, counted, look, announced, unsaved>>

ASSUME MonitorAssumption == MaxPositions \in Nat /\ MaxRegimes \in Nat

NoLook == [stage |-> "none"]

MonInit ==
    /\ process = "up"
    /\ logs = <<<<>>>> /\ trading = TRUE /\ holding = 0
    /\ row = [log |-> <<>>, holding |-> 0]
    /\ positions = 0
    /\ had = FALSE /\ counted = 0 /\ look = NoLook
    /\ announced = {} /\ unsaved = FALSE

Engine == Len(logs)
Trades == logs[Engine]

(***************************************************************************)
(* The engines (PaperTrading models their polls in detail).                *)
(***************************************************************************)
SaveSession(saves) ==
    IF saves THEN row' = [log |-> logs'[Engine], holding |-> holding'] /\ UNCHANGED unsaved
    ELSE unsaved' = TRUE /\ UNCHANGED row

Trade(saves) ==
    /\ trading
    /\ \/ /\ holding = 0 /\ positions < MaxPositions
          /\ positions' = positions + 1 /\ holding' = positions'
          /\ UNCHANGED logs
       \/ /\ holding # 0 /\ holding' = 0
          /\ logs' = [logs EXCEPT ![Engine] = Append(@, holding)]
          /\ UNCHANGED positions
    /\ SaveSession(saves)
    /\ UNCHANGED <<process, trading, had, counted, look, announced>>

(* A regime that does not suit: the engine closes its position in memory.  *)
EngineEnds ==
    /\ trading
    /\ trading' = FALSE /\ holding' = 0
    /\ logs' = [logs EXCEPT ![Engine] = IF holding = 0 THEN @ ELSE Append(@, holding)]
    /\ UNCHANGED <<process, row, positions, had, counted, look, announced, unsaved>>

(* build_engines: a new engine, under the session's old name.              *)
BuildEngines ==
    /\ process = "up" /\ ~trading /\ Engine < MaxRegimes
    /\ logs' = Append(logs, row.log) /\ holding' = row.holding
    /\ trading' = TRUE
    /\ UNCHANGED <<process, row, positions, had, counted, look, announced, unsaved>>

(***************************************************************************)
(* trade_monitor.                                                          *)
(***************************************************************************)

(* A bug of Exits: the trades to tell are counted from the end of the log  *)
(* as it has become, by how many the snapshot had more.                    *)
ExitsFromEnd(log) == SubSeq(log, Len(log) - (look.n - counted) + 1, Len(log))

(* The trades to tell of: those of the log as it is now.                   *)
Exits(log) == SubSeq(log, counted + 1, Len(log))

(* get_status of an engine that runs; an entry is told of at once.         *)
StartLook ==
    /\ process = "up" /\ look = NoLook /\ trading
    /\ look' = [of |-> Engine, open |-> holding # 0, n |-> Len(Trades), stage |-> "entry", left |-> <<>>]
    /\ announced' = IF holding # 0 /\ ~had THEN announced \cup {<<"opened", holding>>} ELSE announced
    /\ UNCHANGED <<process, logs, trading, holding, row, positions, had, counted, unsaved>>

(* The entry's alert has been sent or has failed: the closed trades, if    *)
(* the snapshot has more of them than the last look.                       *)
StartExits ==
    /\ look.stage = "entry"
    /\ look' = [look EXCEPT !.stage = "exits",
                            !.left = IF look.n > counted THEN Exits(logs[look.of]) ELSE <<>>]
    /\ UNCHANGED <<process, logs, trading, holding, row, positions, had, counted, announced, unsaved>>

SendExit ==
    /\ look.stage = "exits" /\ look.left # <<>>
    /\ announced' = announced \cup {<<"closed", Head(look.left)>>}
    /\ look' = [look EXCEPT !.left = Tail(@)]
    /\ UNCHANGED <<process, logs, trading, holding, row, positions, had, counted, unsaved>>

(* What is remembered is the snapshot, not the engine as it has become.    *)
EndLook ==
    /\ look.stage = "exits" /\ look.left = <<>>
    /\ had' = look.open /\ counted' = look.n
    /\ look' = NoLook
    /\ UNCHANGED <<process, logs, trading, holding, row, positions, announced, unsaved>>

(* status_reporter and hourly_summary, which read the engines without      *)
(* waiting: the sessions that run, their open and their closed positions.  *)
Open == IF holding = 0 THEN 0 ELSE 1
StatusReport == [sessions |-> IF trading THEN 1 ELSE 0, open |-> Open, closed |-> Len(Trades)]
HourlySummary == [total |-> Open + Len(Trades), closed |-> Len(Trades)]

(***************************************************************************)
(* The process.                                                            *)
(***************************************************************************)

(* SIGTERM: the monitors are cancelled wherever they wait; the router then *)
(* stops its engines and the process ends.                                 *)
Shutdown ==
    /\ process = "up"
    /\ process' = "stopping" /\ look' = NoLook
    /\ UNCHANGED <<logs, trading, holding, row, positions, had, counted, announced, unsaved>>

ProcessEnds ==
    /\ process = "stopping" /\ ~trading
    /\ process' = "down"
    /\ UNCHANGED <<logs, trading, holding, row, positions, had, counted, look, announced, unsaved>>

(* The process dies, or has ended, and is started again: the monitor knows *)
(* nothing, the session's row is still there.                              *)
Relaunch ==
    /\ Engine < MaxRegimes
    /\ process' = "up"
    /\ logs' = Append(logs, row.log) /\ holding' = row.holding /\ trading' = TRUE
    /\ had' = FALSE /\ counted' = 0 /\ look' = NoLook
    /\ UNCHANGED <<row, positions, announced, unsaved>>

MonNext ==
    \/ \E saves \in BOOLEAN : Trade(saves)
    \/ EngineEnds \/ BuildEngines
    \/ StartLook \/ StartExits \/ SendExit \/ EndLook
    \/ Shutdown \/ ProcessEnds \/ Relaunch

(***************************************************************************)
(* Properties.                                                             *)
(***************************************************************************)
Told(kind) == {p \in 1..positions : <<kind, p>> \in announced}

\* As long as every save succeeds, a closed trade that the monitor has passed
\* by has been told of, whatever was closed while it waited for the messenger
\* and however often the session changed engines; the summaries count every
\* position the session ever opened, once; and nobody is told of the end of a
\* position that no engine has closed.
NoTradeGoesUntold ==
    /\ ~unsaved =>
          /\ \A i \in DOMAIN Trades : i <= counted => Trades[i] \in Told("closed")
          /\ StatusReport.sessions = 1 => HourlySummary.total = positions
    /\ \A p \in Told("closed") : \E e \in DOMAIN logs : p \in ToSet(logs[e])
=============================================================================
