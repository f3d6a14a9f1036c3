---------------------------- MODULE PaperSessions ---------------------------
(***************************************************************************)
(* Paper sessions asked for through the API (src/src/api/routes/           *)
(* paper_trading.py): the manager that keeps one engine per strategy and   *)
(* the life of an engine in its two modes.  The request that starts an     *)
(* engine waits until the engine has ended; a stop only sets an event the  *)
(* engine sees at its next wait.  Engines of the API have no store: what   *)
(* remains of a session is what its stop wrote to the strategy's row.      *)
(***************************************************************************)
EXTENDS Integers, Sequences, FiniteSets

CONSTANTS MaxEngines,       \* bound: sessions started
          MaxDone           \* bound: trades of a session

VARIABLES
    engines,    \* the engines made, each [mode, running, stopping, trades, open]
    sessions,   \* _sessions of the one strategy: the engine it holds, 0 for none
    admitted,   \* the strategy's status allows paper trading
    results,    \* strategy.paper_results: [of, trades]
    told        \* the last answer to a client: [of, status], of 0 for a refusal
deskVars == <<engines, sessions, admitted, results, told>>

ASSUME DeskAssumption == MaxEngines \in Nat /\ MaxDone \in Nat

NoResults == [of |-> 0, trades |-> 0]
Refused == [of |-> 0]

DeskInit ==
    /\ engines = <<>> /\ sessions = 0 /\ admitted = TRUE
    /\ results = NoResults /\ told = Refused

Running(e) == e # 0 /\ engines[e].running
GetStatus(e) == [running |-> engines[e].running, trades |-> engines[e].trades, open |-> engines[e].open]
Answered(e) == [of |-> e, status |-> GetStatus(e)]

(***************************************************************************)
(* The endpoints.                                                          *)
(***************************************************************************)

(* A bug of HasSession: an engine that has been told to stop counts as     *)
(* gone, although its loop has not ended yet.                              *)
HasSessionUnlessStopping == Running(sessions) /\ ~engines[sessions].stopping

HasSession == Running(sessions)

NewEngine(mode) == [mode |-> mode, running |-> TRUE, stopping |-> FALSE, trades |-> 0, open |-> FALSE]

(* start_paper_trading: the strategy's status is looked at, then the       *)
(* session it has; nothing is awaited before the new engine is running.    *)
(* The answer of a start that succeeds is the end of the engine.           *)
StartPaper(mode) ==
    /\ IF ~admitted \/ HasSession
       THEN told' = Refused /\ UNCHANGED <<engines, sessions>>
       ELSE /\ Len(engines) < MaxEngines
            /\ engines' = Append(engines, NewEngine(mode))
            /\ sessions' = Len(engines) + 1
            /\ UNCHANGED told
    /\ UNCHANGED <<admitted, results>>

(* A strategy without a generator: the engine cannot be made, and the      *)
(* session that had ended is already forgotten.                            *)
StartFails ==
    /\ admitted /\ ~HasSession
    /\ sessions' = 0 /\ told' = Refused
    /\ UNCHANGED <<engines, admitted, results>>

Persisted(writes) == IF writes THEN [of |-> sessions, trades |-> engines[sessions].trades] ELSE results

(* stop_paper_trading: the event is set on an engine that runs, and what   *)
(* it has so far is written to the strategy's row; a write that fails is   *)
(* logged.  The engine stays in the dictionary.                            *)
StopPaper(writes) ==
    /\ IF sessions = 0
       THEN told' = Refused /\ UNCHANGED <<engines, results>>
       ELSE /\ engines' = [engines EXCEPT ![sessions].stopping = @ \/ Running(sessions)]
            /\ results' = Persisted(writes)
            /\ told' = Answered(sessions)
    /\ UNCHANGED <<sessions, admitted>>

(* The manager's getters: of the session it has, ended or not.             *)
OfSession == IF sessions = 0 THEN Refused ELSE Answered(sessions)

(* get_paper_status, get_paper_trades, get_paper_dashboard.                *)
AskPaper ==
    /\ told' = OfSession
    /\ UNCHANGED <<engines, sessions, admitted, results>>

(***************************************************************************)
(* The engine.                                                             *)
(***************************************************************************)
ForceClosed(e) == [e EXCEPT !.trades = IF e.open THEN @ + 1 ELSE @, !.open = FALSE]

Ended(e, final) ==
    /\ engines' = [engines EXCEPT ![e] = [final EXCEPT !.running = FALSE]]
    /\ told' = [of |-> e, status |-> [running |-> FALSE, trades |-> final.trades, open |-> final.open]]
    /\ UNCHANGED <<sessions, admitted, results>>

(* A replay that lacks bars, or whose generator raises: the request is     *)
(* answered with an error.                                                 *)
EngineRaises(e) ==
    /\ Running(e) /\ engines[e].mode = "simulated"
    /\ \E n \in 0..MaxDone, open \in BOOLEAN :
          engines' = [engines EXCEPT ![e] = [@ EXCEPT !.running = FALSE, !.trades = n, !.open = open]]
    /\ told' = Refused
    /\ UNCHANGED <<sessions, admitted, results>>

(* _run_simulated: once the bars are fetched the replay is one step, cut   *)
(* short before its first bar by a stop.                                   *)
RunSimulated(e) ==
    /\ Running(e) /\ engines[e].mode = "simulated"
    /\ \E n \in 0..MaxDone :
          /\ engines[e].stopping => n = 0
          /\ Ended(e, [engines[e] EXCEPT !.trades = n])

(* _run_live: a poll with a new bar may close a position or open one.      *)
LiveBar(e) ==
    /\ Running(e) /\ engines[e].mode = "live"
    /\ engines[e].trades < MaxDone
    /\ engines' = [engines EXCEPT ![e] = IF @.open THEN ForceClosed(@) ELSE [@ EXCEPT !.open = TRUE]]
    /\ UNCHANGED <<sessions, admitted, results, told>>

RunLiveEnds(e) ==
    /\ Running(e) /\ engines[e].mode = "live" /\ engines[e].stopping
    /\ Ended(e, ForceClosed(engines[e]))

(***************************************************************************)
(* Around it.                                                              *)
(***************************************************************************)
StatusMoves == admitted' = ~admitted /\ UNCHANGED <<engines, sessions, results, told>>

(* The API process restarts: its engines and its dictionary are gone.      *)
ApiRestarts ==
    /\ engines' = [e \in DOMAIN engines |-> [engines[e] EXCEPT !.running = FALSE]]
    /\ sessions' = 0 /\ told' = Refused
    /\ UNCHANGED <<admitted, results>>

DeskNext ==
    \/ \E mode \in {"simulated", "live"} : StartPaper(mode)
    \/ StartFails
    \/ \E writes \in BOOLEAN : StopPaper(writes)
    \/ AskPaper
    \/ \E e \in DOMAIN engines : RunSimulated(e) \/ LiveBar(e) \/ RunLiveEnds(e) \/ EngineRaises(e)
    \/ StatusMoves \/ ApiRestarts

(***************************************************************************)
(* Properties.                                                             *)
(***************************************************************************)

\* Through overlapping starts and stops, errors and restarts of the API, at
\* most one engine trades a strategy and it is the one a stop reaches; the
\* results in the strategy's row are of a session that was stopped, and claim
\* no trade it did not make.
SessionsAreSingle ==
    /\ \A e \in DOMAIN engines : engines[e].running => e = sessions
    /\ results.of # 0 =>
          /\ engines[results.of].running => engines[results.of].stopping
          /\ results.trades <= engines[results.of].trades
=============================================================================
