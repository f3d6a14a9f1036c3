--------------------------- MODULE ResearchProofs ---------------------------
(***************************************************************************)
(* Proofs about research: the paper sessions' rows, the monitor that tells *)
(* of their trades, the liquidations the collector keeps, the biographies  *)
(* of the symbols, what a point-in-time store may know, and the verdicts   *)
(* that lead from paper to real money.                                     *)
(***************************************************************************)
EXTENDS PaperSessions, PaperMonitor, Liquidations, Biographies, PointInTime, Promotion,
        Sums, TLAPS

(***************************************************************************)
(* That the sessions of a strategy are single and its results honest, for  *)
(* any number of sessions and trades.  A stop writes the results while the *)
(* engine may still run: they stay covered because its trades only grow,   *)
(* and the one assignment that could lower them, the replay's, is made by  *)
(* an engine that had none, or has not been asked to stop.                 *)
(***************************************************************************)

Engines == [mode : {"simulated", "live"}, running : BOOLEAN, stopping : BOOLEAN,
           trades : Nat, open : BOOLEAN]

DeskTypes ==
    /\ engines \in Seq(Engines)
    /\ sessions \in 0..Len(engines)
    /\ results.of \in 0..Len(engines)
    /\ results.trades \in Nat

ReplaysAreOneStep ==
    \A e \in 1..Len(engines) : engines[e].mode = "simulated" /\ engines[e].running => engines[e].trades = 0

One == \A e \in 1..Len(engines) : engines[e].running => e = sessions

Honest ==
    results.of # 0 =>
        /\ engines[results.of].running => engines[results.of].stopping
        /\ results.trades <= engines[results.of].trades

DeskInv == DeskTypes /\ ReplaysAreOneStep /\ One /\ Honest

LEMMA DeskInitial == DeskInit => DeskInv
  BY DEF DeskInit, DeskInv, DeskTypes, ReplaysAreOneStep, One, Honest, NoResults

(* What the engine's assignments leave alone.                              *)
Assigned(r, s, n, o) == [r EXCEPT !.running = s, !.trades = n, !.open = o]

LEMMA AssignedRest ==
    ASSUME NEW r \in Engines, NEW n \in Nat, NEW o \in BOOLEAN, NEW s \in BOOLEAN
    PROVE  /\ Assigned(r, s, n, o) \in Engines
           /\ Assigned(r, s, n, o).stopping = r.stopping
           /\ Assigned(r, s, n, o).mode = r.mode
           /\ Assigned(r, s, n, o).running = s
           /\ Assigned(r, s, n, o).trades = n
  BY DEF Engines, Assigned

(* A step of one engine that loses no trade and does not go on unless live. *)
LEMMA EngineStep ==
    ASSUME DeskInv, NEW e \in 1..Len(engines),
           NEW n \in Nat, NEW o \in BOOLEAN, NEW s \in BOOLEAN,
           engines' = [engines EXCEPT ![e] = Assigned(engines[e], s, n, o)],
           engines[e].running, n >= engines[e].trades, s => engines[e].mode = "live",
           UNCHANGED <<sessions, results>>
    PROVE  DeskInv'
<1> DEFINE final == Assigned(engines[e], s, n, o)
<1>0. \A d \in 1..Len(engines) : engines[d] \in Engines
  BY DEF DeskInv, DeskTypes
<1>1. final \in Engines /\ final.stopping = engines[e].stopping /\ final.mode = engines[e].mode
      /\ final.running = s /\ final.trades = n
  BY <1>0, AssignedRest
<1> HIDE DEF final
<1>2. /\ Len(engines') = Len(engines) /\ engines' \in Seq(Engines)
      /\ \A d \in 1..Len(engines) : engines'[d] = IF d = e THEN final ELSE engines[d]
  BY <1>1 DEF DeskInv, DeskTypes, final
<1>3. DeskTypes'
  BY <1>2 DEF DeskInv, DeskTypes
<1>4. ReplaysAreOneStep' /\ One'
  BY <1>1, <1>2 DEF DeskInv, ReplaysAreOneStep, One
<1>5. Honest'
  BY <1>0, <1>1, <1>2 DEF DeskInv, DeskTypes, Honest, Engines
<1> QED
  BY <1>3, <1>4, <1>5 DEF DeskInv

LEMMA DeskStep == DeskInv /\ [DeskNext]_deskVars => DeskInv'
<1> SUFFICES ASSUME DeskInv, [DeskNext]_deskVars PROVE DeskInv'
  OBVIOUS
<1>types. DeskTypes /\ ReplaysAreOneStep /\ One /\ Honest
  BY DEF DeskInv
<1>engine. \A e \in 1..Len(engines) : engines[e] \in Engines
  BY <1>types DEF DeskTypes
<1>0. ASSUME UNCHANGED <<engines, sessions, results>> PROVE DeskInv'
  BY <1>0 DEF DeskInv, DeskTypes, ReplaysAreOneStep, One, Honest
<1>1. ASSUME NEW mode \in {"simulated", "live"}, StartPaper(mode) PROVE DeskInv'
  <2>1. CASE ~admitted \/ HasSession
    BY <1>0, <1>1, <2>1 DEF StartPaper
  <2>2. CASE admitted /\ ~HasSession
    <3>1. /\ engines' = Append(engines, NewEngine(mode))
          /\ sessions' = Len(engines) + 1
          /\ UNCHANGED results
      BY <1>1, <2>2 DEF StartPaper
    <3>2. NewEngine(mode) \in Engines
      BY <1>1 DEF NewEngine, Engines
    <3>3. /\ engines' \in Seq(Engines) /\ Len(engines') = Len(engines) + 1
          /\ \A e \in 1..Len(engines) : engines'[e] = engines[e]
          /\ engines'[Len(engines) + 1] = NewEngine(mode)
      BY <3>1, <3>2, <1>types DEF DeskTypes
    <3>4. \A e \in 1..Len(engines) : ~engines[e].running
      BY <2>2, <1>types DEF HasSession, Running, One, DeskTypes
    <3>5. DeskTypes'
      BY <1>types, <3>1, <3>3 DEF DeskTypes
    <3>6. ReplaysAreOneStep' /\ One'
      BY <1>types, <3>1, <3>3, <3>4 DEF DeskTypes, ReplaysAreOneStep, One, NewEngine
    <3>7. Honest'
      BY <1>types, <3>1, <3>3 DEF DeskTypes, Honest
    <3> QED
      BY <3>5, <3>6, <3>7 DEF DeskInv
  <2> QED
    BY <2>1, <2>2
<1>2. CASE StartFails
  <2>1. sessions' = 0 /\ UNCHANGED <<engines, results>>
    BY <1>2 DEF StartFails
  <2>2. \A e \in 1..Len(engines) : ~engines[e].running
    BY <1>2, <1>types DEF StartFails, HasSession, Running, One, DeskTypes
  <2> QED
    BY <1>types, <2>1, <2>2 DEF DeskInv, DeskTypes, ReplaysAreOneStep, One, Honest
<1>3. ASSUME NEW writes \in BOOLEAN, StopPaper(writes) PROVE DeskInv'
  <2>1. CASE sessions = 0
    BY <1>0, <1>3, <2>1 DEF StopPaper
  <2>2. CASE sessions # 0
    <3>0. sessions \in 1..Len(engines) /\ engines[sessions] \in Engines
      BY <1>types, <1>engine, <2>2 DEF DeskTypes
    <3>1. /\ engines' = [engines EXCEPT ![sessions].stopping = @ \/ Running(sessions)]
          /\ results' = Persisted(writes)
          /\ UNCHANGED sessions
      BY <1>3, <2>2 DEF StopPaper
    <3> DEFINE told1 == [engines[sessions] EXCEPT !.stopping = @ \/ Running(sessions)]
    <3>2. engines' = [engines EXCEPT ![sessions] = told1]
      BY <3>1
    <3>3. told1 \in Engines /\ told1.trades = engines[sessions].trades
          /\ told1.running = engines[sessions].running /\ told1.mode = engines[sessions].mode
      BY <3>0 DEF Engines, Running
    <3>4. engines[sessions].running => told1.stopping
      BY <2>2, <3>0 DEF Engines, Running
    <3>4a. engines[sessions].stopping => told1.stopping
      BY <3>0 DEF Engines
    <3> HIDE DEF told1
    <3>5. /\ engines' \in Seq(Engines) /\ Len(engines') = Len(engines)
          /\ \A e \in 1..Len(engines) : engines'[e] = IF e = sessions THEN told1 ELSE engines[e]
      BY <3>0, <3>2, <3>3, <1>types DEF DeskTypes
    <3>6. \/ results' = results
          \/ results'.of = sessions /\ results'.trades = engines[sessions].trades
      BY <3>1 DEF Persisted
    <3>7. DeskTypes'
      BY <1>types, <3>0, <3>1, <3>5, <3>6 DEF DeskTypes, Engines
    <3>8. ReplaysAreOneStep' /\ One'
      BY <1>types, <3>0, <3>1, <3>3, <3>5 DEF ReplaysAreOneStep, One
    <3>9. Honest'
      <4>1. CASE results' = results
        BY <1>types, <3>0, <3>3, <3>4a, <3>5, <4>1 DEF DeskTypes, Honest
      <4>2. CASE results'.of = sessions /\ results'.trades = engines[sessions].trades
        BY <3>0, <3>3, <3>4, <3>5, <4>2 DEF Honest, Engines
      <4> QED
        BY <3>6, <4>1, <4>2
    <3> QED
      BY <3>7, <3>8, <3>9 DEF DeskInv
  <2> QED
    BY <2>1, <2>2
<1>4. CASE AskPaper \/ StatusMoves \/ UNCHANGED deskVars
  BY <1>0, <1>4 DEF AskPaper, StatusMoves, deskVars
<1>5. ASSUME NEW e \in DOMAIN engines, RunSimulated(e) PROVE DeskInv'
  <2>0. e \in 1..Len(engines) /\ engines[e] \in Engines /\ engines[e].running
        /\ engines[e].mode = "simulated" /\ engines[e].trades = 0
    BY <1>5, <1>types, <1>engine DEF RunSimulated, Running, DeskTypes, ReplaysAreOneStep
  <2>1. PICK n \in 0..MaxDone : Ended(e, [engines[e] EXCEPT !.trades = n])
    BY <1>5 DEF RunSimulated
  <2>2. PICK o \in BOOLEAN : engines[e].open = o
    BY <2>0 DEF Engines
  <2>3. engines' = [engines EXCEPT ![e] = Assigned(engines[e], FALSE, n, o)]
        /\ UNCHANGED <<sessions, results>>
    BY <2>0, <2>1, <2>2 DEF Ended, Engines, Assigned
  <2>4. n \in Nat /\ n >= engines[e].trades
    BY <2>0, DeskAssumption
  <2> QED
    BY <2>0, <2>3, <2>4, EngineStep
<1>6. ASSUME NEW e \in DOMAIN engines, EngineRaises(e) PROVE DeskInv'
  <2>0. e \in 1..Len(engines) /\ engines[e] \in Engines /\ engines[e].running
        /\ engines[e].mode = "simulated" /\ engines[e].trades = 0
    BY <1>6, <1>types, <1>engine DEF EngineRaises, Running, DeskTypes, ReplaysAreOneStep
  <2>1. PICK n \in 0..MaxDone, o \in BOOLEAN :
            engines' = [engines EXCEPT ![e] = [@ EXCEPT !.running = FALSE, !.trades = n, !.open = o]]
    BY <1>6 DEF EngineRaises
  <2>2. engines' = [engines EXCEPT ![e] = Assigned(engines[e], FALSE, n, o)]
        /\ UNCHANGED <<sessions, results>>
    BY <1>6, <2>0, <2>1 DEF EngineRaises, Engines, Assigned
  <2>3. n \in Nat /\ n >= engines[e].trades
    BY <2>0, DeskAssumption
  <2> QED
    BY <2>0, <2>2, <2>3, EngineStep
<1>7. ASSUME NEW e \in DOMAIN engines, LiveBar(e) PROVE DeskInv'
  <2>0. e \in 1..Len(engines) /\ engines[e] \in Engines /\ engines[e].running /\ engines[e].mode = "live"
    BY <1>7, <1>types, <1>engine DEF LiveBar, Running, DeskTypes
  <2> DEFINE t == engines[e].trades
  <2>1. t \in Nat /\ t + 1 \in Nat /\ t >= t /\ t + 1 >= t
    BY <2>0 DEF Engines
  <2>2. \/ engines' = [engines EXCEPT ![e] = Assigned(engines[e], TRUE, t + 1, FALSE)]
        \/ engines' = [engines EXCEPT ![e] = Assigned(engines[e], TRUE, t, TRUE)]
    BY <1>7, <2>0 DEF LiveBar, ForceClosed, Engines, Assigned
  <2>3. UNCHANGED <<sessions, results>>
    BY <1>7 DEF LiveBar
  <2> HIDE DEF t
  <2> QED
    BY <2>0, <2>1, <2>2, <2>3, EngineStep DEF t
<1>8. ASSUME NEW e \in DOMAIN engines, RunLiveEnds(e) PROVE DeskInv'
  <2>0. e \in 1..Len(engines) /\ engines[e] \in Engines /\ engines[e].running /\ engines[e].mode = "live"
    BY <1>8, <1>types, <1>engine DEF RunLiveEnds, Running, DeskTypes
  <2> DEFINE t == engines[e].trades
  <2>1. t \in Nat /\ t + 1 \in Nat /\ t >= t /\ t + 1 >= t
    BY <2>0 DEF Engines
  <2>2. \/ engines' = [engines EXCEPT ![e] = Assigned(engines[e], FALSE, t + 1, FALSE)]
        \/ engines' = [engines EXCEPT ![e] = Assigned(engines[e], FALSE, t, FALSE)]
    BY <1>8, <2>0 DEF RunLiveEnds, Ended, ForceClosed, Engines, Assigned
  <2>3. UNCHANGED <<sessions, results>>
    BY <1>8 DEF RunLiveEnds, Ended
  <2> HIDE DEF t
  <2> QED
    BY <2>0, <2>1, <2>2, <2>3, EngineStep DEF t
<1>9. CASE ApiRestarts
  <2> DEFINE Dead(e) == [engines[e] EXCEPT !.running = FALSE]
  <2>1. engines' = [e \in 1..Len(engines) |-> Dead(e)] /\ sessions' = 0 /\ UNCHANGED results
    BY <1>9, <1>types DEF ApiRestarts, DeskTypes
  <2>2. \A e \in 1..Len(engines) : Dead(e) \in Engines /\ ~Dead(e).running /\ Dead(e).trades = engines[e].trades
    BY <1>engine DEF Engines
  <2> HIDE DEF Dead
  <2>3. engines' \in Seq(Engines) /\ Len(engines') = Len(engines)
        /\ \A e \in 1..Len(engines) : engines'[e] = Dead(e)
    BY <1>types, <2>1, <2>2 DEF DeskTypes
  <2>4. DeskTypes'
    BY <1>types, <2>1, <2>3 DEF DeskTypes
  <2>5. ReplaysAreOneStep' /\ One' /\ Honest'
    BY <1>types, <2>1, <2>2, <2>3 DEF DeskTypes, ReplaysAreOneStep, One, Honest
  <2> QED
    BY <2>4, <2>5 DEF DeskInv
<1> QED
  BY <1>1, <1>2, <1>3, <1>4, <1>5, <1>6, <1>7, <1>8, <1>9 DEF DeskNext

\* Through overlapping starts and stops, errors and restarts, at most one
\* engine trades the strategy, and the results in its row are of a session
\* that was stopped and claim no trade it did not make.
THEOREM SingleAndHonest == DeskInit /\ [][DeskNext]_deskVars => []SessionsAreSingle
<1>1. DeskInit /\ [][DeskNext]_deskVars => []DeskInv
  BY DeskInitial, DeskStep, PTL
<1>2. DeskInv => SessionsAreSingle
  BY DEF DeskInv, DeskTypes, One, Honest, SessionsAreSingle
<1> QED
  BY <1>1, <1>2, PTL

(***************************************************************************)
(* The paper monitor: as long as every save succeeds the i-th closed trade *)
(* of every engine is the i-th position of the session, so the number a    *)
(* look remembers tells which trades it has told of.                       *)
(***************************************************************************)
Looks == [of : Nat, open : BOOLEAN, n : Nat, stage : {"entry", "exits"}, left : Seq(Nat)]
Counting(log) == \A i \in DOMAIN log : log[i] = i
IsTold(p) == <<"closed", p>> \in announced

MonTypes ==
    /\ logs \in Seq(Seq(Nat)) /\ Len(logs) > 0
    /\ trading \in BOOLEAN /\ unsaved \in BOOLEAN
    /\ holding \in Nat /\ positions \in Nat /\ counted \in Nat
    /\ row \in [log : Seq(Nat), holding : Nat]
    /\ look = NoLook \/ look \in Looks

LookInv ==
    look \in Looks =>
        /\ look.of \in DOMAIN logs /\ look.n <= Len(logs[look.of])
        /\ \A i \in DOMAIN look.left : \E k \in DOMAIN logs[look.of] : look.left[i] = logs[look.of][k]

ClosedInv == \A p \in Nat : IsTold(p) => \E e \in DOMAIN logs : \E k \in DOMAIN logs[e] : p = logs[e][k]

SavedInv ==
    ~unsaved =>
        /\ \A e \in DOMAIN logs : Counting(logs[e])
        /\ Counting(row.log)
        /\ row.holding \in {0, Len(row.log) + 1}
        /\ positions = Len(row.log) + (IF row.holding = 0 THEN 0 ELSE 1)
        /\ Len(logs[Len(logs)]) <= positions
        /\ trading => row.log = logs[Len(logs)] /\ row.holding = holding
        /\ \A i \in 1..counted : IsTold(i)
        /\ look \in Looks /\ look.stage = "exits" =>
               \A i \in 1..look.n : IsTold(i) \/ \E k \in DOMAIN look.left : look.left[k] = i

MonInv == MonTypes /\ LookInv /\ ClosedInv /\ SavedInv

LEMMA MonInitial == MonInit => MonInv
<1> SUFFICES ASSUME MonInit PROVE MonInv
  OBVIOUS
<1>1. /\ logs = <<<<>>>> /\ trading = TRUE /\ holding = 0
      /\ row = [log |-> <<>>, holding |-> 0] /\ positions = 0
      /\ counted = 0 /\ look = NoLook /\ announced = {} /\ unsaved = FALSE
  BY DEF MonInit
<1>2. NoLook \notin Looks
  BY DEF NoLook, Looks
<1>3. MonTypes
  <2>1. <<>> \in Seq(Nat) /\ <<<<>>>> \in Seq(Seq(Nat)) /\ Len(<<<<>>>>) > 0
    OBVIOUS
  <2>2. row \in [log : Seq(Nat), holding : Nat]
    BY <1>1, <2>1
  <2> QED
    BY <1>1, <2>1, <2>2 DEF MonTypes
<1>4. LookInv /\ ClosedInv
  BY <1>1, <1>2 DEF LookInv, ClosedInv, IsTold
<1>5. SavedInv
  BY <1>1, <1>2 DEF SavedInv, Counting
<1> QED
  BY <1>3, <1>4, <1>5 DEF MonInv

\* What a step of an engine keeps: logs only grow, and nothing told is unsaid.
LEMMA LogsGrow ==
    ASSUME MonTypes, LookInv, ClosedInv, MonTypes', UNCHANGED <<look, announced>>,
           DOMAIN logs \subseteq DOMAIN logs',
           \A e \in DOMAIN logs :
               /\ Len(logs[e]) <= Len(logs'[e])
               /\ \A k \in DOMAIN logs[e] : k \in DOMAIN logs'[e] /\ logs'[e][k] = logs[e][k]
    PROVE  LookInv' /\ ClosedInv'
<1>1. ASSUME look \in Looks
      PROVE  /\ look.of \in DOMAIN logs' /\ look.n <= Len(logs'[look.of])
             /\ \A i \in DOMAIN look.left : \E k \in DOMAIN logs'[look.of] : look.left[i] = logs'[look.of][k]
  <2>1. look.of \in DOMAIN logs /\ look.n <= Len(logs[look.of]) /\ look.n \in Nat
    BY <1>1 DEF LookInv, Looks
  <2>2. Len(logs[look.of]) \in Nat /\ Len(logs'[look.of]) \in Nat
    BY <2>1 DEF MonTypes
  <2>3. \A i \in DOMAIN look.left : \E k \in DOMAIN logs[look.of] : look.left[i] = logs[look.of][k]
    BY <1>1 DEF LookInv
  <2> QED
    BY <2>1, <2>2, <2>3
<1>2. LookInv'
  BY <1>1 DEF LookInv
<1>3. ClosedInv'
  BY DEF ClosedInv, IsTold
<1> QED
  BY <1>2, <1>3

LEMMA MonTrade == ASSUME MonInv, NEW saves \in BOOLEAN, Trade(saves) PROVE MonInv'
<1>types. /\ logs \in Seq(Seq(Nat)) /\ Len(logs) > 0 /\ Len(logs) \in DOMAIN logs
          /\ holding \in Nat /\ positions \in Nat /\ Len(logs) \in Nat
          /\ logs[Len(logs)] \in Seq(Nat) /\ row \in [log : Seq(Nat), holding : Nat]
          /\ Len(logs[Len(logs)]) \in Nat
  BY DEF MonInv, MonTypes
<1> DEFINE L == Len(logs)
           T == logs[L]
<1>1. /\ trading /\ UNCHANGED <<process, trading, had, counted, look, announced>>
      /\ \/ holding = 0 /\ positions' = positions + 1 /\ holding' = positions + 1 /\ logs' = logs
         \/ holding # 0 /\ holding' = 0 /\ logs' = [logs EXCEPT ![L] = Append(@, holding)] /\ positions' = positions
  BY DEF Trade, Engine
<1> DEFINE T2 == IF holding = 0 THEN T ELSE Append(T, holding)
<1>a. T2 \in Seq(Nat) /\ L \in DOMAIN logs /\ [logs EXCEPT ![L] = T] = logs
  BY <1>types
<1>b. logs' = [logs EXCEPT ![L] = T2]
  BY <1>1, <1>a
<1> HIDE DEF T2
<1>2. logs' \in Seq(Seq(Nat)) /\ Len(logs') = L /\ DOMAIN logs' = DOMAIN logs
      /\ \A e \in DOMAIN logs : e # L => logs'[e] = logs[e]
  BY <1>a, <1>b, <1>types, ReplaceFacts
<1>4. /\ holding = 0 => logs'[L] = T
      /\ holding # 0 => logs'[L] = Append(T, holding)
  BY <1>a, <1>b, <1>types DEF T2
<1>5. /\ saves => row' = [log |-> logs'[L], holding |-> holding'] /\ unsaved' = unsaved
      /\ ~saves => unsaved' = TRUE /\ row' = row
  BY <1>2 DEF Trade, SaveSession, Engine
<1> HIDE DEF L, T
<1>6. MonTypes'
  <2>1. holding' \in Nat /\ positions' \in Nat
    BY <1>1, <1>types
  <2>2. logs'[L] \in Seq(Nat)
    BY <1>2, <1>types DEF L
  <2>3. row' \in [log : Seq(Nat), holding : Nat] /\ unsaved' \in BOOLEAN
    <3>1. unsaved \in BOOLEAN
      BY DEF MonInv, MonTypes
    <3>2. CASE saves
      BY <1>5, <2>1, <2>2, <3>1, <3>2
    <3>3. CASE ~saves
      BY <1>5, <3>1, <3>3, <1>types
    <3> QED
      BY <3>2, <3>3
  <2> QED
    BY <1>1, <1>2, <2>1, <2>3, <1>types DEF MonInv, MonTypes, L
<1>7. ASSUME NEW e \in DOMAIN logs
      PROVE  /\ Len(logs[e]) <= Len(logs'[e])
             /\ \A k \in DOMAIN logs[e] : k \in DOMAIN logs'[e] /\ logs'[e][k] = logs[e][k]
  <2>1. CASE e # L
    <3>1. logs[e] \in Seq(Nat)
      BY <1>types
    <3> QED
      BY <1>2, <2>1, <3>1
  <2>2. CASE e = L
    <3>1. T \in Seq(Nat) /\ logs[e] = T
      BY <1>types, <2>2 DEF T, L
    <3>2. CASE holding = 0
      <4>1. logs'[e] = T /\ Len(T) \in Nat
        BY <1>4, <2>2, <3>1, <3>2
      <4> QED
        BY <3>1, <4>1
    <3>3. CASE holding # 0
      <4> DEFINE A == Append(T, holding)
      <4>1. /\ Len(A) = Len(T) + 1 /\ Len(T) \in Nat
            /\ \A k \in DOMAIN T : k \in DOMAIN A /\ A[k] = T[k]
        BY <1>types, <3>1, AppendFacts
      <4>2. logs'[e] = A
        BY <1>4, <2>2, <3>3
      <4> HIDE DEF A
      <4> QED
        BY <3>1, <4>1, <4>2
    <3> QED
      BY <3>2, <3>3
  <2> QED
    BY <2>1, <2>2
<1>8. LookInv' /\ ClosedInv'
  BY <1>1, <1>2, <1>6, <1>7, LogsGrow DEF MonInv
<1>9. ASSUME ~unsaved' PROVE SavedInv'
  <2>1. saves /\ ~unsaved
    BY <1>5, <1>9
  <2>2. /\ \A e \in DOMAIN logs : Counting(logs[e])
        /\ row.holding \in {0, Len(row.log) + 1}
        /\ positions = Len(row.log) + (IF row.holding = 0 THEN 0 ELSE 1)
        /\ row.log = T /\ row.holding = holding
    BY <1>1, <2>1 DEF MonInv, SavedInv, L, T
  <2>3. T \in Seq(Nat) /\ Counting(T) /\ Len(T) \in Nat
    BY <1>types, <2>2 DEF T, L
  <2>4. holding = 0 \/ holding = Len(T) + 1
    BY <2>2
  <2>5. Counting(logs'[L]) /\ Len(logs'[L]) = (IF holding = 0 THEN Len(T) ELSE Len(T) + 1)
    <3>1. CASE holding = 0
      BY <1>4, <2>3, <3>1
    <3>2. CASE holding # 0
      BY <1>4, <2>3, <2>4, <3>2 DEF Counting
    <3> QED
      BY <3>1, <3>2
  <2>6. \A e \in DOMAIN logs' : Counting(logs'[e])
    BY <1>2, <2>2, <2>5
  <2>7. /\ holding' \in {0, Len(logs'[L]) + 1}
        /\ positions' = Len(logs'[L]) + (IF holding' = 0 THEN 0 ELSE 1)
        /\ Len(logs'[L]) <= positions'
    <3> DEFINE len == Len(T)
               len2 == Len(logs'[L])
    <3>1. len \in Nat /\ len2 = (IF holding = 0 THEN len ELSE len + 1) /\ (holding = 0 \/ holding = len + 1)
          /\ positions = len + (IF holding = 0 THEN 0 ELSE 1)
      BY <2>2, <2>3, <2>4, <2>5
    <3> HIDE DEF len, len2
    <3>2. CASE holding = 0
      <4>1. holding' = len + 1 /\ positions' = len + 1 /\ len2 = len
        BY <1>1, <3>1, <3>2
      <4> QED
        BY <3>1, <4>1 DEF len2
    <3>3. CASE holding # 0
      <4>1. holding' = 0 /\ positions' = len + 1 /\ len2 = len + 1
        BY <1>1, <3>1, <3>3
      <4> QED
        BY <3>1, <4>1 DEF len2
    <3> QED
      BY <3>2, <3>3
  <2>8. row'.log = logs'[L] /\ row'.holding = holding' /\ Len(logs') = L
    BY <1>2, <1>5, <2>1
  <2>9. /\ \A i \in 1..counted' : IsTold(i)'
        /\ look' \in Looks /\ look'.stage = "exits" =>
               \A i \in 1..look'.n : IsTold(i)' \/ \E k \in DOMAIN look'.left : look'.left[k] = i
    BY <1>1, <2>1 DEF MonInv, SavedInv, IsTold
  <2> QED
    BY <2>5, <2>6, <2>7, <2>8, <2>9 DEF SavedInv
<1> QED
  BY <1>6, <1>8, <1>9 DEF MonInv, SavedInv

LEMMA MonEnd == ASSUME MonInv, EngineEnds PROVE MonInv'
<1>types. /\ logs \in Seq(Seq(Nat)) /\ Len(logs) > 0 /\ Len(logs) \in DOMAIN logs
          /\ holding \in Nat /\ positions \in Nat /\ Len(logs) \in Nat
          /\ logs[Len(logs)] \in Seq(Nat) /\ row \in [log : Seq(Nat), holding : Nat]
          /\ Len(logs[Len(logs)]) \in Nat
  BY DEF MonInv, MonTypes
<1> DEFINE L == Len(logs)
           T == logs[L]
<1>1. /\ trading /\ ~trading' /\ trading' \in BOOLEAN /\ holding' = 0
      /\ logs' = [logs EXCEPT ![L] = IF holding = 0 THEN @ ELSE Append(@, holding)]
      /\ UNCHANGED <<row, positions, counted, look, announced, unsaved>>
  BY DEF EngineEnds, Engine
<1>2. logs' \in Seq(Seq(Nat)) /\ Len(logs') = L /\ DOMAIN logs' = DOMAIN logs
      /\ \A e \in DOMAIN logs : e # L => logs'[e] = logs[e]
  BY <1>1, <1>types
<1>4. /\ holding = 0 => logs'[L] = T
      /\ holding # 0 => logs'[L] = Append(T, holding)
  BY <1>1, <1>types
<1> HIDE DEF L, T
<1>6. MonTypes'
  BY <1>1, <1>2, <1>types DEF MonInv, MonTypes, L
<1>7. ASSUME NEW e \in DOMAIN logs
      PROVE  /\ Len(logs[e]) <= Len(logs'[e])
             /\ \A k \in DOMAIN logs[e] : k \in DOMAIN logs'[e] /\ logs'[e][k] = logs[e][k]
  <2>1. CASE e # L
    <3>1. logs[e] \in Seq(Nat)
      BY <1>types
    <3> QED
      BY <1>2, <2>1, <3>1
  <2>2. CASE e = L
    <3>1. T \in Seq(Nat) /\ logs[e] = T
      BY <1>types, <2>2 DEF T, L
    <3>2. CASE holding = 0
      <4>1. logs'[e] = T /\ Len(T) \in Nat
        BY <1>4, <2>2, <3>1, <3>2
      <4> QED
        BY <3>1, <4>1
    <3>3. CASE holding # 0
      <4> DEFINE A == Append(T, holding)
      <4>1. /\ Len(A) = Len(T) + 1 /\ Len(T) \in Nat
            /\ \A k \in DOMAIN T : k \in DOMAIN A /\ A[k] = T[k]
        BY <1>types, <3>1, AppendFacts
      <4>2. logs'[e] = A
        BY <1>4, <2>2, <3>3
      <4> HIDE DEF A
      <4> QED
        BY <3>1, <4>1, <4>2
    <3> QED
      BY <3>2, <3>3
  <2> QED
    BY <2>1, <2>2
<1>8. LookInv' /\ ClosedInv'
  BY <1>1, <1>2, <1>6, <1>7, LogsGrow DEF MonInv
<1>9. ASSUME ~unsaved' PROVE SavedInv'
  <2>1. ~unsaved
    BY <1>1, <1>9
  <2>2. /\ \A e \in DOMAIN logs : Counting(logs[e])
        /\ Counting(row.log)
        /\ row.holding \in {0, Len(row.log) + 1}
        /\ positions = Len(row.log) + (IF row.holding = 0 THEN 0 ELSE 1)
        /\ row.log = T /\ row.holding = holding
    BY <1>1, <2>1 DEF MonInv, SavedInv, L, T
  <2>3. T \in Seq(Nat) /\ Counting(T) /\ Len(T) \in Nat
    BY <1>types, <2>2 DEF T, L
  <2>4. holding = 0 \/ holding = Len(T) + 1
    BY <2>2
  <2>5. Counting(logs'[L]) /\ Len(logs'[L]) = positions
    <3>1. CASE holding = 0
      BY <1>4, <2>2, <2>3, <3>1
    <3>2. CASE holding # 0
      <4>1. logs'[L] = Append(T, Len(T) + 1) /\ positions = Len(T) + 1
        BY <1>4, <2>2, <2>4, <3>2
      <4> QED
        BY <2>3, <4>1 DEF Counting
    <3> QED
      BY <3>1, <3>2
  <2>6. \A e \in DOMAIN logs' : Counting(logs'[e])
    BY <1>2, <2>2, <2>5
  <2>9. /\ \A i \in 1..counted' : IsTold(i)'
        /\ look' \in Looks /\ look'.stage = "exits" =>
               \A i \in 1..look'.n : IsTold(i)' \/ \E k \in DOMAIN look'.left : look'.left[k] = i
    BY <1>1, <2>1 DEF MonInv, SavedInv, IsTold
  <2>10. Len(logs'[Len(logs')]) <= positions'
    BY <1>1, <1>2, <2>5, <1>types
  <2> QED
    BY <1>1, <2>2, <2>6, <2>9, <2>10 DEF SavedInv
<1> QED
  BY <1>6, <1>8, <1>9 DEF MonInv, SavedInv

\* A new engine resumes the session's row, whatever becomes of the monitor.
LEMMA MonResume ==
    ASSUME MonInv, logs' = Append(logs, row.log), holding' = row.holding, trading' = TRUE,
           UNCHANGED <<row, positions, announced, unsaved>>,
           UNCHANGED <<counted, look>> \/ (counted' = 0 /\ look' = NoLook)
    PROVE  MonInv'
<1>types. /\ logs \in Seq(Seq(Nat)) /\ Len(logs) > 0 /\ Len(logs) \in DOMAIN logs
          /\ holding \in Nat /\ positions \in Nat /\ Len(logs) \in Nat
          /\ row \in [log : Seq(Nat), holding : Nat] /\ row.log \in Seq(Nat)
  BY DEF MonInv, MonTypes
<1>1. /\ logs' \in Seq(Seq(Nat)) /\ Len(logs') = Len(logs) + 1 /\ DOMAIN logs \subseteq DOMAIN logs'
      /\ \A e \in DOMAIN logs' : e = Len(logs') \/ e \in DOMAIN logs
      /\ \A e \in DOMAIN logs : logs'[e] = logs[e]
      /\ logs'[Len(logs')] = row.log
  BY <1>types
<1>2. MonTypes'
  BY <1>1, <1>types DEF MonInv, MonTypes
<1>3. NoLook \notin Looks
  BY DEF NoLook, Looks
<1>4. LookInv'
  BY <1>1, <1>3 DEF MonInv, LookInv
<1>5. ClosedInv'
  BY <1>1 DEF MonInv, ClosedInv, IsTold
<1>6. ASSUME ~unsaved' PROVE SavedInv'
  <2>1. /\ \A e \in DOMAIN logs : Counting(logs[e])
        /\ Counting(row.log)
        /\ row.holding \in {0, Len(row.log) + 1}
        /\ positions = Len(row.log) + (IF row.holding = 0 THEN 0 ELSE 1)
        /\ \A i \in 1..counted : IsTold(i)
        /\ look \in Looks /\ look.stage = "exits" =>
               \A i \in 1..look.n : IsTold(i) \/ \E k \in DOMAIN look.left : look.left[k] = i
    BY <1>6 DEF MonInv, SavedInv
  <2>2. \A e \in DOMAIN logs' : Counting(logs'[e])
    BY <1>1, <2>1
  <2>3. Len(row.log) <= positions /\ Len(row.log) \in Nat
    BY <2>1, <1>types
  <2>4. \A i \in 1..counted' : IsTold(i)'
    <3>1. \A i \in 1..0 : FALSE
      OBVIOUS
    <3>2. counted' = counted \/ counted' = 0
      OBVIOUS
    <3> QED
      BY <2>1, <3>1, <3>2 DEF IsTold
  <2>5. look' \in Looks /\ look'.stage = "exits" =>
               \A i \in 1..look'.n : IsTold(i)' \/ \E k \in DOMAIN look'.left : look'.left[k] = i
    BY <1>3, <2>1 DEF IsTold
  <2> QED
    BY <1>1, <2>1, <2>2, <2>3, <2>4, <2>5 DEF SavedInv
<1> QED
  BY <1>2, <1>4, <1>5, <1>6 DEF MonInv, SavedInv

LEMMA MonLook == ASSUME MonInv, StartLook \/ StartExits PROVE MonInv'
<1>types. /\ logs \in Seq(Seq(Nat)) /\ Len(logs) > 0 /\ Len(logs) \in DOMAIN logs
          /\ Len(logs) \in Nat /\ counted \in Nat /\ logs[Len(logs)] \in Seq(Nat)
          /\ look = NoLook \/ look \in Looks
  BY DEF MonInv, MonTypes
<1>none. NoLook \notin Looks /\ NoLook.stage = "none"
  BY DEF NoLook, Looks
<1>1. CASE StartLook
  <2>1. /\ look' = [of |-> Len(logs), open |-> holding # 0, n |-> Len(logs[Len(logs)]),
                    stage |-> "entry", left |-> <<>>]
        /\ UNCHANGED <<logs, trading, holding, row, positions, counted, unsaved>>
    BY <1>1 DEF StartLook, Engine, Trades
  <2>2. look' \in Looks /\ look'.of = Len(logs) /\ look'.n = Len(logs[Len(logs)])
        /\ look'.stage = "entry" /\ look'.left = <<>>
    BY <1>types, <2>1 DEF Looks
  <2>3. \A p : IsTold(p)' <=> IsTold(p)
    BY <1>1 DEF StartLook, IsTold
  <2>4. MonTypes'
    BY <2>1, <2>2 DEF MonInv, MonTypes
  <2>5. LookInv' /\ ClosedInv'
    BY <1>types, <2>1, <2>2, <2>3 DEF MonInv, LookInv, ClosedInv
  <2>6. SavedInv'
    BY <2>1, <2>2, <2>3 DEF MonInv, SavedInv
  <2> QED
    BY <2>4, <2>5, <2>6 DEF MonInv
<1>2. CASE StartExits
  <2> DEFINE log == logs[look.of]
             left == IF look.n > counted THEN SubSeq(log, counted + 1, Len(log)) ELSE <<>>
  <2>1. /\ look.stage = "entry" /\ look' = [look EXCEPT !.stage = "exits", !.left = left]
        /\ UNCHANGED <<logs, trading, holding, row, positions, counted, announced, unsaved>>
    BY <1>2 DEF StartExits, Exits
  <2>2. look \in Looks
    BY <1>types, <1>none, <2>1
  <2>3. /\ look.of \in DOMAIN logs /\ log \in Seq(Nat) /\ look.n <= Len(log) /\ look.n \in Nat
        /\ Len(log) \in Nat
    BY <1>types, <2>2 DEF MonInv, LookInv, Looks
  <2> HIDE DEF log
  <2>4. left \in Seq(Nat) /\ \A i \in DOMAIN left : \E k \in DOMAIN log : left[i] = log[k]
    <3>1. CASE look.n > counted
      <4>1. /\ SubSeq(log, counted + 1, Len(log)) \in Seq(Nat)
            /\ Len(SubSeq(log, counted + 1, Len(log))) = Len(log) - counted
            /\ \A i \in 1..(Len(log) - counted) : SubSeq(log, counted + 1, Len(log))[i] = log[counted + i]
        <5>1. counted <= Len(log)
          BY <1>types, <2>3, <3>1
        <5> QED
          BY <1>types, <2>3, <5>1, TailFrom
      <4>2. \A i \in 1..(Len(log) - counted) : counted + i \in DOMAIN log
        BY <1>types, <2>3, <3>1
      <4>3. left = SubSeq(log, counted + 1, Len(log)) /\ Len(log) - counted \in Nat
        BY <1>types, <2>3, <3>1
      <4> HIDE DEF left
      <4>4. DOMAIN left = 1..(Len(log) - counted)
        BY <4>1, <4>3
      <4> QED
        BY <4>1, <4>2, <4>3, <4>4
    <3>2. CASE ~(look.n > counted)
      BY <3>2
    <3> QED
      BY <3>1, <3>2
  <2>5. ASSUME Counting(log), NEW i \in 1..look.n, i \notin 1..counted
        PROVE  \E k \in DOMAIN left : left[k] = i
    <3>1. look.n > counted /\ i > counted /\ i \in Nat /\ i <= Len(log)
      BY <1>types, <2>3, <2>5
    <3>2. left = SubSeq(log, counted + 1, Len(log))
      BY <3>1
    <3>3. i - counted \in 1..(Len(log) - counted)
      BY <1>types, <2>3, <3>1
    <3>4. /\ Len(left) = Len(log) - counted /\ left \in Seq(Nat)
          /\ left[i - counted] = log[counted + (i - counted)]
      <4>1. counted <= Len(log)
        BY <1>types, <2>3, <3>1
      <4> HIDE DEF left
      <4> QED
        BY <1>types, <2>3, <3>2, <3>3, <4>1, TailFrom
    <3>5. log[counted + (i - counted)] = i
      BY <1>types, <2>3, <2>5, <3>1 DEF Counting
    <3>6. i - counted \in DOMAIN left
      BY <3>3, <3>4
    <3> QED
      BY <3>4, <3>5, <3>6
  <2> HIDE DEF left
  <2>6. look' \in Looks /\ look'.of = look.of /\ look'.n = look.n /\ look'.left = left
    BY <2>1, <2>2, <2>4 DEF Looks
  <2>7. MonTypes'
    BY <2>1, <2>6 DEF MonInv, MonTypes
  <2>8. LookInv'
    BY <2>1, <2>3, <2>4, <2>6 DEF LookInv, log
  <2>9. ClosedInv'
    BY <2>1 DEF MonInv, ClosedInv, IsTold
  <2>10. ASSUME ~unsaved' PROVE SavedInv'
    <3>1. ~unsaved /\ Counting(log) /\ \A i \in 1..counted : IsTold(i)
      BY <2>1, <2>3, <2>10 DEF MonInv, SavedInv, log
    <3>2. \A i \in 1..look'.n : IsTold(i)' \/ \E k \in DOMAIN look'.left : look'.left[k] = i
      BY <2>1, <2>5, <2>6, <3>1 DEF IsTold
    <3> QED
      BY <2>1, <3>1, <3>2 DEF MonInv, SavedInv, IsTold
  <2> QED
    BY <2>7, <2>8, <2>9, <2>10 DEF MonInv, SavedInv
<1> QED
  BY <1>1, <1>2

\* What is left of a sequence without its first element.
LEMMA Advance ==
    ASSUME NEW s \in Seq(Nat), s # <<>>
    PROVE  /\ Tail(s) \in Seq(Nat) /\ 1 \in DOMAIN s /\ Head(s) = s[1]
           /\ \A i \in DOMAIN Tail(s) : i + 1 \in DOMAIN s /\ Tail(s)[i] = s[i + 1]
           /\ \A i \in DOMAIN s : i # 1 => i - 1 \in DOMAIN Tail(s) /\ Tail(s)[i - 1] = s[i]
<1>1. Len(s) \in Nat /\ Len(s) > 0 /\ DOMAIN s = 1..Len(s)
  OBVIOUS
<1>2. Tail(s) \in Seq(Nat) /\ Len(Tail(s)) = Len(s) - 1 /\ DOMAIN Tail(s) = 1..Len(s) - 1
  BY <1>1
<1>3. \A i \in 1..Len(s) - 1 : Tail(s)[i] = s[i + 1]
  BY <1>1
<1> QED
  BY <1>1, <1>2, <1>3

LEMMA MonTell == ASSUME MonInv, SendExit PROVE MonInv'
<1>types. logs \in Seq(Seq(Nat)) /\ (look = NoLook \/ look \in Looks)
  BY DEF MonInv, MonTypes
<1>none. NoLook.stage = "none"
  BY DEF NoLook
<1> DEFINE p0 == Head(look.left)
<1>1. /\ look.stage = "exits" /\ look.left # <<>>
      /\ announced' = announced \cup {<<"closed", p0>>}
      /\ look' = [look EXCEPT !.left = Tail(@)]
      /\ UNCHANGED <<logs, trading, holding, row, positions, counted, unsaved>>
  BY DEF SendExit
<1>2. look \in Looks /\ look.left \in Seq(Nat)
  BY <1>types, <1>none, <1>1 DEF Looks
<1>3. /\ Tail(look.left) \in Seq(Nat) /\ 1 \in DOMAIN look.left /\ p0 = look.left[1]
      /\ \A i \in DOMAIN Tail(look.left) : i + 1 \in DOMAIN look.left /\ Tail(look.left)[i] = look.left[i + 1]
      /\ \A i \in DOMAIN look.left : i # 1 => i - 1 \in DOMAIN Tail(look.left) /\ Tail(look.left)[i - 1] = look.left[i]
  BY <1>1, <1>2, Advance
<1>4. /\ look' \in Looks /\ look'.of = look.of /\ look'.n = look.n /\ look'.stage = look.stage
      /\ look'.left = Tail(look.left)
  BY <1>1, <1>2, <1>3 DEF Looks
<1>5. look.of \in DOMAIN logs /\ look.n <= Len(logs[look.of])
      /\ \A i \in DOMAIN look.left : \E k \in DOMAIN logs[look.of] : look.left[i] = logs[look.of][k]
  BY <1>2 DEF MonInv, LookInv
<1>6. \A p : IsTold(p)' <=> IsTold(p) \/ p = p0
  BY <1>1 DEF IsTold
<1>7. MonTypes'
  BY <1>1, <1>4 DEF MonInv, MonTypes
<1>8. LookInv'
  BY <1>1, <1>3, <1>4, <1>5 DEF LookInv
<1>9. ClosedInv'
  BY <1>1, <1>3, <1>5, <1>6 DEF MonInv, ClosedInv
<1> HIDE DEF p0
<1>10. ASSUME ~unsaved' PROVE SavedInv'
  <2>1. ~unsaved /\ \A i \in 1..look.n : IsTold(i) \/ \E k \in DOMAIN look.left : look.left[k] = i
    BY <1>1, <1>2, <1>10 DEF MonInv, SavedInv
  <2>2. ASSUME NEW i \in 1..look.n PROVE IsTold(i)' \/ \E k \in DOMAIN look'.left : look'.left[k] = i
    <3>1. CASE IsTold(i)
      BY <1>6, <3>1
    <3>2. CASE \E k \in DOMAIN look.left : look.left[k] = i
      <4>1. PICK k \in DOMAIN look.left : look.left[k] = i
        BY <3>2
      <4>2. CASE k = 1
        <5>1. i = p0
          BY <1>3, <4>1, <4>2
        <5> QED
          BY <1>6, <5>1
      <4>3. CASE k # 1
        <5>1. k - 1 \in DOMAIN look'.left /\ look'.left[k - 1] = i
          BY <1>3, <1>4, <4>1, <4>3
        <5> QED
          BY <5>1
      <4> QED
        BY <4>2, <4>3
    <3> QED
      BY <2>1, <3>1, <3>2
  <2>3. \A i \in 1..counted' : IsTold(i)'
    BY <1>1, <1>6, <2>1 DEF MonInv, SavedInv
  <2> QED
    BY <1>1, <1>4, <2>1, <2>2, <2>3 DEF MonInv, SavedInv
<1> QED
  BY <1>7, <1>8, <1>9, <1>10 DEF MonInv, SavedInv

LEMMA MonRest ==
    ASSUME MonInv, UNCHANGED <<logs, trading, holding, row, positions, announced, unsaved>>,
           \/ look' \in {look, NoLook} /\ counted' = counted
           \/ EndLook
    PROVE  MonInv'
<1>none. NoLook \notin Looks /\ NoLook.stage = "none"
  BY DEF NoLook, Looks
<1>1. look' = look \/ look' = NoLook
  BY DEF EndLook
<1>2. counted' = counted \/ (look.stage = "exits" /\ look.left = <<>> /\ counted' = look.n)
  BY DEF EndLook
<1>3. MonTypes'
  BY <1>none, <1>1, <1>2 DEF MonInv, MonTypes, Looks
<1>4. LookInv' /\ ClosedInv'
  BY <1>none, <1>1 DEF MonInv, LookInv, ClosedInv, IsTold
<1>5. ~unsaved => \A i \in 1..counted' : IsTold(i)
  BY <1>none, <1>2 DEF MonInv, MonTypes, SavedInv
<1>6. SavedInv'
  BY <1>none, <1>1, <1>5 DEF MonInv, SavedInv, IsTold
<1> QED
  BY <1>3, <1>4, <1>6 DEF MonInv

LEMMA MonStep == ASSUME MonInv, [MonNext]_monVars PROVE MonInv'
<1>1. CASE BuildEngines
  BY <1>1, MonResume DEF BuildEngines
<1>2. CASE Relaunch
  BY <1>2, MonResume DEF Relaunch
<1>3. CASE EndLook
  BY <1>3, MonRest DEF EndLook
<1>4. CASE Shutdown \/ ProcessEnds \/ UNCHANGED monVars
  BY <1>4, MonRest DEF Shutdown, ProcessEnds, monVars
<1> QED
  BY <1>1, <1>2, <1>3, <1>4, MonTrade, MonEnd, MonLook, MonTell DEF MonNext

\* However the engines come and go and whatever is closed while an alert is
\* on its way, a closed trade that the monitor has passed by has been told of
\* and every position is counted once, as long as no save has failed; and no
\* end is told of that no engine has seen.
THEOREM TradesAreTold == MonInit /\ [][MonNext]_monVars => []NoTradeGoesUntold
<1>1. MonInv => NoTradeGoesUntold
  <2> SUFFICES ASSUME MonInv PROVE NoTradeGoesUntold
    OBVIOUS
  <2>types. /\ logs \in Seq(Seq(Nat)) /\ Len(logs) \in DOMAIN logs /\ positions \in Nat /\ counted \in Nat
            /\ Trades \in Seq(Nat) /\ Len(Trades) \in Nat
    BY DEF MonInv, MonTypes, Trades, Engine
  <2>1. ASSUME ~unsaved, NEW i \in DOMAIN Trades, i <= counted PROVE Trades[i] \in Told("closed")
    <3>1. Trades[i] = i /\ i \in 1..Len(Trades) /\ Len(Trades) <= positions
      <4>1. /\ \A e \in DOMAIN logs : Counting(logs[e])
            /\ Len(logs[Len(logs)]) <= positions
        BY <2>1 DEF MonInv, SavedInv
      <4>2. Counting(Trades) /\ Len(Trades) <= positions
        BY <2>types, <4>1 DEF Trades, Engine
      <4> HIDE DEF Trades
      <4> QED
        BY <2>1, <2>types, <4>2 DEF Counting
    <3>2. IsTold(i)
      BY <2>1, <2>types, <3>1 DEF MonInv, SavedInv
    <3> QED
      BY <2>types, <3>1, <3>2 DEF Told, IsTold
  <2>2. ASSUME ~unsaved, trading PROVE HourlySummary.total = positions
    <3>1. /\ positions = Len(row.log) + (IF row.holding = 0 THEN 0 ELSE 1)
          /\ row.log = Trades /\ row.holding = holding
      BY <2>2 DEF MonInv, SavedInv, Trades, Engine
    <3> QED
      BY <3>1, <2>types DEF HourlySummary, Open
  <2>3. StatusReport.sessions = 1 => trading
    BY DEF StatusReport
  <2>4. ASSUME NEW p \in Told("closed") PROVE \E e \in DOMAIN logs : p \in ToSet(logs[e])
    <3>1. p \in Nat /\ IsTold(p)
      BY <2>types DEF Told, IsTold
    <3>2. PICK e \in DOMAIN logs : \E k \in DOMAIN logs[e] : p = logs[e][k]
      BY <3>1 DEF MonInv, ClosedInv
    <3>3. p \in ToSet(logs[e])
      BY <3>2 DEF ToSet
    <3> QED
      BY <3>3
  <2> QED
    BY <2>1, <2>2, <2>3, <2>4 DEF NoTradeGoesUntold
<1> QED
  BY <1>1, MonInitial, MonStep, PTL

(***************************************************************************)
(* The liquidations: where an accepted event is.                           *)
(***************************************************************************)
Buffered == {buffer[i] : i \in DOMAIN buffer}

KeptInv ==
    /\ buffer \in Seq(Events)
    /\ received \subseteq Events
    /\ \A f \in fragments : f.events \subseteq Events /\ \A e \in f.events : f.date = DateOf(e)
    /\ \A e \in received : e \in lost \/ e \in Buffered \/ \E f \in fragments : e \in f.events
    /\ collector \in {"waiting", "stopped", "dead"} => buffer = <<>>

\* The dates of a window's events are those of its ends or between them.
LEMMA DatesInOrder ==
    ASSUME NEW a \in Nat, NEW b \in Nat, a <= b
    PROVE  /\ a \div DayLength \in Nat /\ b \div DayLength \in Nat
           /\ a \div DayLength <= b \div DayLength
<1> DEFINE q == a \div DayLength
           r == b \div DayLength
<1>1. DayLength \in Nat \ {0}
  BY LiquidationAssumption
<1>2. q \in Nat /\ DayLength * q \in Nat /\ DayLength * q <= a
  BY <1>1, Quotients
<1>3. r \in Nat /\ DayLength * r \in Nat /\ b < DayLength * r + DayLength
  BY <1>1, Quotients
<1> HIDE DEF q, r
<1>4. ASSUME r < q PROVE FALSE
  <2>1. DayLength * r + DayLength <= DayLength * q
    BY <1>1, <1>2, <1>3, <1>4, Multiples
  <2> DEFINE x == DayLength * q
             y == DayLength * r
  <2>2. x \in Nat /\ y \in Nat /\ x <= a /\ b < y + DayLength /\ y + DayLength <= x
    BY <1>2, <1>3, <2>1
  <2> HIDE DEF x, y
  <2> QED
    BY <1>1, <2>2
<1>5. q \in Nat /\ r \in Nat /\ ~(r < q)
  BY <1>2, <1>3, <1>4
<1>6. q <= r
  BY <1>5
<1> QED
  BY <1>2, <1>3, <1>6 DEF q, r

\* What a batch leaves behind it: files of its dates, and what was refused.
LEMMA BatchKept ==
    ASSUME NEW batch \in Seq(Events), NEW dates
    PROVE  /\ \A f \in WriteBatch(batch, dates) :
                  f.events \subseteq Events /\ \A e \in f.events : f.date = DateOf(e)
           /\ \A i \in DOMAIN batch :
                  DateOf(batch[i]) \in dates => \E f \in WriteBatch(batch, dates) : batch[i] \in f.events
<1>1. ToSet(batch) \subseteq Events /\ \A i \in DOMAIN batch : batch[i] \in ToSet(batch)
  BY DEF ToSet
<1>2. \A d : FragmentOf(batch, d).date = d /\ FragmentOf(batch, d).events = {e \in ToSet(batch) : DateOf(e) = d}
  BY DEF FragmentOf
<1>3. WriteBatch(batch, dates) = {FragmentOf(batch, d) : d \in dates}
  BY DEF WriteBatch
<1>4. ASSUME NEW f \in WriteBatch(batch, dates)
      PROVE  f.events \subseteq Events /\ \A e \in f.events : f.date = DateOf(e)
  <2>1. PICK d \in dates : f = FragmentOf(batch, d)
    BY <1>3
  <2>2. f.date = d /\ f.events = {e \in ToSet(batch) : DateOf(e) = d}
    BY <1>2, <2>1
  <2> QED
    BY <1>1, <2>2
<1>5. ASSUME NEW i \in DOMAIN batch, DateOf(batch[i]) \in dates
      PROVE  \E f \in WriteBatch(batch, dates) : batch[i] \in f.events
  <2> DEFINE f == FragmentOf(batch, DateOf(batch[i]))
  <2>1. f \in WriteBatch(batch, dates)
    BY <1>3, <1>5
  <2>2. batch[i] \in f.events
    BY <1>1, <1>2
  <2> QED
    BY <2>1, <2>2
<1> QED
  BY <1>4, <1>5

\* A write that breaks off, and what it leaves.
BrokenOff(batch, written, f) ==
    /\ f \in CutShort(batch, Min(Dates(batch) \ written))
    /\ fragments' = fragments \cup WriteBatch(batch, written) \cup {f}
    /\ lost' = lost \cup {e \in ToSet(batch) : DateOf(e) \notin written /\ e \notin f.events}
    /\ buffer' = <<>> /\ mishaps' = mishaps + 1

\* What is known of the disk after a flush: whole files, and what is left of one.
FlushLeaves(batch, dates, rest) ==
    /\ fragments' = fragments \cup WriteBatch(batch, dates) \cup rest
    /\ \A f \in rest : f.events \subseteq Events /\ \A e \in f.events : f.date = DateOf(e)
    /\ buffer' = <<>> /\ lost \subseteq lost'
    /\ \A i \in DOMAIN batch : \/ DateOf(batch[i]) \in dates \/ batch[i] \in lost'
                              \/ \E f \in rest : batch[i] \in f.events

LEMMA WhatBreaksOff ==
    ASSUME NEW batch, FlushRefused(batch)
    PROVE  \E written \in SUBSET Dates(batch) : \E f : BrokenOff(batch, written, f)
  BY DEF FlushRefused, BrokenOff

LEMMA RestIsOfItsDate ==
    ASSUME NEW batch \in Seq(Events), NEW date, NEW f \in CutShort(batch, date)
    PROVE  f.events \subseteq Events /\ \A e \in f.events : f.date = DateOf(e)
<1>1. PICK n \in 0..Len(batch), torn \in BOOLEAN :
          f = [date |-> date, events |-> FirstLines(batch, n, date), torn |-> torn]
  BY DEF CutShort
<1>2. f.date = date /\ f.events = FirstLines(batch, n, date)
  BY <1>1
<1>3. \A i \in 1..n : i \in DOMAIN batch /\ batch[i] \in Events
  BY <1>1
<1> QED
  BY <1>2, <1>3 DEF FirstLines

\* A flush of a batch, refused or not, after which the buffer is empty.
LEMMA FlushKeeps ==
    ASSUME KeptInv, NEW batch \in Seq(Events), Flushed(batch) \/ FlushRefused(batch),
           \A i \in DOMAIN buffer : \E j \in DOMAIN batch : buffer[i] = batch[j],
           \A e \in received' : e \in received \/ \E j \in DOMAIN batch : e = batch[j],
           received' \subseteq Events
    PROVE  KeptInv'
<1> DEFINE Dropped(e) == e \in lost' \/ \E f \in fragments' : e \in f.events
<1>a. \E dates, rest : FlushLeaves(batch, dates, rest)
  <2>1. CASE Flushed(batch)
    <3>1. \A i \in DOMAIN batch : DateOf(batch[i]) \in Dates(batch)
      BY DEF Dates
    <3>2. fragments' = fragments \cup WriteBatch(batch, Dates(batch)) \cup {}
      BY <2>1 DEF Flushed
    <3>3. FlushLeaves(batch, Dates(batch), {})
      BY <2>1, <3>1, <3>2 DEF Flushed, FlushLeaves
    <3> QED
      BY <3>3
  <2>2. CASE FlushRefused(batch)
    <3>1. PICK written, f : written \in SUBSET Dates(batch) /\ BrokenOff(batch, written, f)
      BY <2>2, WhatBreaksOff
    <3>2. \A i \in DOMAIN batch : batch[i] \in ToSet(batch)
      BY DEF ToSet
    <3>3. \A i \in DOMAIN batch :
              DateOf(batch[i]) \in written \/ batch[i] \in f.events \/ batch[i] \in lost'
      BY <3>1, <3>2 DEF BrokenOff
    <3>4. lost \subseteq lost' /\ buffer' = <<>> /\ fragments' = fragments \cup WriteBatch(batch, written) \cup {f}
      BY <3>1 DEF BrokenOff
    <3>5. f.events \subseteq Events /\ \A e \in f.events : f.date = DateOf(e)
      BY <3>1, RestIsOfItsDate DEF BrokenOff
    <3>6. FlushLeaves(batch, written, {f})
      BY <3>3, <3>4, <3>5 DEF FlushLeaves
    <3> QED
      BY <3>6
  <2> QED
    BY <2>1, <2>2
<1>b. PICK dates, rest : FlushLeaves(batch, dates, rest)
  BY <1>a
<1>1. /\ fragments' = fragments \cup WriteBatch(batch, dates) \cup rest
      /\ \A f \in rest : f.events \subseteq Events /\ \A e \in f.events : f.date = DateOf(e)
      /\ buffer' = <<>> /\ lost \subseteq lost'
      /\ \A i \in DOMAIN batch : \/ DateOf(batch[i]) \in dates \/ batch[i] \in lost'
                                \/ \E f \in rest : batch[i] \in f.events
  BY <1>b DEF FlushLeaves
<1>2. \A f \in fragments' : f.events \subseteq Events /\ \A e \in f.events : f.date = DateOf(e)
  BY <1>1, BatchKept DEF KeptInv
<1>3. \A j \in DOMAIN batch : Dropped(batch[j])
  BY <1>1, BatchKept
<1>4. \A e \in received' : Dropped(e)
  BY <1>1, <1>3 DEF KeptInv, Buffered
<1>5. buffer' \in Seq(Events)
  BY <1>1
<1> QED
  BY <1>1, <1>2, <1>4, <1>5 DEF KeptInv

LEMMA KeptInitial == LiqInit => KeptInv
  BY DEF LiqInit, KeptInv

\* Steps that neither accept nor write nor lose anything.
LEMMA NothingMoves ==
    ASSUME KeptInv, UNCHANGED <<buffer, received, fragments, lost>>,
           collector' \in {"waiting", "stopped", "dead"} => buffer = <<>>
    PROVE  KeptInv'
  BY DEF KeptInv, Buffered

LEMMA KeptStep == ASSUME KeptInv, [LiqNext]_liqVars PROVE KeptInv'
<1>types. buffer \in Seq(Events) /\ received \subseteq Events
  BY DEF KeptInv
<1>1. CASE Connect
  BY <1>1, NothingMoves DEF Connect
<1>2. CASE Silence
  <2>1. Flushed(buffer) \/ FlushRefused(buffer)
    BY <1>2 DEF Silence
  <2>2. received' = received
    BY <1>2 DEF Silence
  <2> QED
    BY <1>types, <2>1, <2>2, FlushKeeps
<1>3. CASE Disconnect
  BY <1>3, NothingMoves DEF Disconnect
<1>4. CASE EndSession
  <2>1. Flushed(buffer) \/ FlushRefused(buffer)
    BY <1>4 DEF EndSession
  <2>2. received' = received
    BY <1>4 DEF EndSession
  <2> QED
    BY <1>types, <2>1, <2>2, FlushKeeps
<1>5. CASE RequestStop
  BY <1>5, NothingMoves DEF RequestStop, KeptInv
<1>6. CASE StopWaiting
  BY <1>6, NothingMoves DEF StopWaiting, KeptInv
<1>7. CASE CancelTask
  <2>1. Flushed(buffer) \/ FlushRefused(buffer)
    BY <1>7 DEF CancelTask
  <2>2. received' = received
    BY <1>7 DEF CancelTask
  <2> QED
    BY <1>types, <2>1, <2>2, FlushKeeps
<1>8. CASE Kill
  BY <1>8 DEF Kill, KeptInv, Buffered, ToSet
<1>9. CASE StartCollector
  BY <1>9, NothingMoves DEF StartCollector, KeptInv
<1>10. ASSUME NEW e \in Events, OnMessage(e) PROVE KeptInv'
  <2> DEFINE batch == Append(buffer, e)
  <2>1. /\ batch \in Seq(Events) /\ Len(batch) = Len(buffer) + 1 /\ Len(buffer) \in Nat
        /\ batch[Len(buffer) + 1] = e
        /\ \A i \in DOMAIN buffer : i \in DOMAIN batch /\ batch[i] = buffer[i]
    BY <1>types, AppendFacts
  <2>2. Len(buffer) + 1 \in DOMAIN batch
    BY <2>1
  <2>3. received' = received \cup {e} /\ collector = "connected"
    BY <1>10 DEF OnMessage
  <2>4. CASE buffer' = batch /\ collector' = Onward /\ UNCHANGED <<fragments, lost>>
    <3>1. \A x \in Buffered \cup {e} : x \in Buffered'
      BY <2>1, <2>2, <2>4 DEF Buffered
    <3>2. collector' \notin {"waiting", "stopped", "dead"}
      BY <2>4 DEF Onward
    <3> HIDE DEF batch
    <3> QED
      BY <2>1, <2>3, <2>4, <3>1, <3>2 DEF KeptInv
  <2>5. CASE Flushed(batch) \/ FlushRefused(batch)
    <3>1. /\ \A i \in DOMAIN buffer : \E j \in DOMAIN batch : buffer[i] = batch[j]
          /\ \A x \in received' : x \in received \/ \E j \in DOMAIN batch : x = batch[j]
          /\ received' \subseteq Events
      BY <1>types, <2>1, <2>2, <2>3
    <3> HIDE DEF batch
    <3> QED
      BY <2>1, <2>5, <3>1, FlushKeeps
  <2> QED
    BY <1>10, <2>4, <2>5 DEF OnMessage
<1>11. CASE UNCHANGED liqVars
  BY <1>11, NothingMoves DEF liqVars, KeptInv
<1> QED
  BY <1>1, <1>2, <1>3, <1>4, <1>5, <1>6, <1>7, <1>8, <1>9, <1>10, <1>11 DEF LiqNext

(***************************************************************************)
(* How much is lost, and how many files are torn.                          *)
(***************************************************************************)
TornFiles == {f \in fragments : f.torn}

LossInv ==
    /\ buffer \in Seq(Events) /\ Len(buffer) < FlushAt
    /\ mishaps \in Nat
    /\ IsFiniteSet(lost) /\ Cardinality(lost) <= mishaps * FlushAt
    /\ IsFiniteSet(TornFiles) /\ Cardinality(TornFiles) <= mishaps

LEMMA ElementsAreFew ==
    ASSUME NEW batch \in Seq(Events), NEW S, S \subseteq ToSet(batch)
    PROVE  IsFiniteSet(S) /\ Cardinality(S) <= Len(batch) /\ Cardinality(S) \in Nat
<1> DEFINE T == ToSet(batch)
           D == 1..Len(batch)
           f == [i \in D |-> batch[i]]
<1>1. Len(batch) \in Nat /\ DOMAIN batch = D
  OBVIOUS
<1>2. IsFiniteSet(D) /\ Cardinality(D) = Len(batch)
  BY <1>1, FS_Interval
<1>3. f \in Surjection(D, T)
  BY <1>1 DEF Surjection, ToSet
<1> HIDE DEF T, D, f
<1>4. IsFiniteSet(T) /\ Cardinality(T) <= Len(batch)
  BY <1>2, <1>3, FS_Surjection
<1>5. S \subseteq T
  BY DEF T
<1>6. IsFiniteSet(S) /\ Cardinality(S) <= Cardinality(T)
  BY <1>4, <1>5, FS_Subset
<1> QED
  BY <1>1, <1>4, <1>6, FS_CardinalityType

LEMMA OneMore ==
    ASSUME NEW n \in Nat, NEW k \in Nat PROVE (n + 1) * k = n * k + k /\ n * k \in Nat
  OBVIOUS

LEMMA LossGrows ==
    ASSUME NEW S, IsFiniteSet(S), NEW T, IsFiniteSet(T), NEW n \in Nat, NEW k \in Nat,
           Cardinality(S) <= n * k, Cardinality(T) <= k
    PROVE  IsFiniteSet(S \cup T) /\ Cardinality(S \cup T) <= (n + 1) * k
<1>1. IsFiniteSet(S \cap T)
  BY FS_Subset
<1>2. Cardinality(S) \in Nat /\ Cardinality(T) \in Nat /\ Cardinality(S \cap T) \in Nat
  BY <1>1, FS_CardinalityType
<1>3. /\ IsFiniteSet(S \cup T)
      /\ Cardinality(S \cup T) = Cardinality(S) + Cardinality(T) - Cardinality(S \cap T)
  BY FS_Union
<1>4. (n + 1) * k = n * k + k /\ n * k \in Nat
  BY OneMore
<1> DEFINE a == n * k
           b == (n + 1) * k
<1>5. a \in Nat /\ b = a + k /\ Cardinality(S) <= a
  BY <1>4
<1> HIDE DEF a, b
<1>6. Cardinality(S \cup T) <= b
  BY <1>2, <1>3, <1>5
<1> QED
  BY <1>3, <1>6 DEF b

LEMMA WholeFiles == \A batch, dates : \A f \in WriteBatch(batch, dates) : f.torn = FALSE
  BY DEF WriteBatch, FragmentOf

LEMMA FlushCosts ==
    ASSUME LossInv, NEW batch \in Seq(Events), Len(batch) <= FlushAt,
           Flushed(batch) \/ FlushRefused(batch)
    PROVE  LossInv'
<1>types. mishaps \in Nat /\ FlushAt \in Nat \ {0}
  BY LiquidationAssumption DEF LossInv
<1>1. CASE Flushed(batch)
  <2>1. /\ fragments' = fragments \cup WriteBatch(batch, Dates(batch))
        /\ buffer' = <<>> /\ lost' = lost /\ mishaps' = mishaps
    BY <1>1 DEF Flushed
  <2>2. TornFiles' = TornFiles
    BY <2>1, WholeFiles DEF TornFiles
  <2>3. buffer' \in Seq(Events) /\ Len(buffer') < FlushAt
    BY <1>types, <2>1
  <2> QED
    BY <2>1, <2>2, <2>3 DEF LossInv
<1>2. CASE FlushRefused(batch)
  <2>1. PICK written, f : written \in SUBSET Dates(batch) /\ BrokenOff(batch, written, f)
    BY <1>2, WhatBreaksOff
  <2> DEFINE S == {e \in ToSet(batch) : DateOf(e) \notin written /\ e \notin f.events}
  <2>2. /\ fragments' = fragments \cup WriteBatch(batch, written) \cup {f}
        /\ lost' = lost \cup S /\ buffer' = <<>> /\ mishaps' = mishaps + 1
    BY <2>1 DEF BrokenOff
  <2>3. S \subseteq ToSet(batch)
    OBVIOUS
  <2> HIDE DEF S
  <2>4. IsFiniteSet(S) /\ Cardinality(S) <= Len(batch) /\ Cardinality(S) \in Nat /\ Len(batch) \in Nat
    BY <2>3, ElementsAreFew
  <2>5. Cardinality(S) <= FlushAt
    BY <1>types, <2>4
  <2>6. IsFiniteSet(lost') /\ Cardinality(lost') <= mishaps' * FlushAt
    BY <1>types, <2>2, <2>4, <2>5, LossGrows DEF LossInv
  <2>7. TornFiles' \subseteq TornFiles \cup {f}
    BY <2>2, WholeFiles DEF TornFiles
  <2>8. IsFiniteSet(TornFiles \cup {f}) /\ Cardinality(TornFiles \cup {f}) <= Cardinality(TornFiles) + 1
    <3>1. IsFiniteSet(TornFiles)
      BY DEF LossInv
    <3>2. Cardinality(TornFiles) \in Nat
      BY <3>1, FS_CardinalityType
    <3> QED
      BY <3>1, <3>2, FS_AddElement
  <2>9. IsFiniteSet(TornFiles') /\ Cardinality(TornFiles') <= mishaps'
    <3>1. IsFiniteSet(TornFiles') /\ Cardinality(TornFiles') <= Cardinality(TornFiles \cup {f})
      BY <2>7, <2>8, FS_Subset
    <3>2. IsFiniteSet(TornFiles) /\ Cardinality(TornFiles) <= mishaps
      BY DEF LossInv
    <3>3. Cardinality(TornFiles') \in Nat /\ Cardinality(TornFiles \cup {f}) \in Nat /\ Cardinality(TornFiles) \in Nat
      BY <2>8, <3>1, <3>2, FS_CardinalityType
    <3> QED
      BY <1>types, <2>2, <2>8, <3>1, <3>2, <3>3
  <2>10. buffer' \in Seq(Events) /\ Len(buffer') < FlushAt /\ mishaps' \in Nat
    BY <1>types, <2>2
  <2> QED
    BY <2>6, <2>9, <2>10 DEF LossInv
<1> QED
  BY <1>1, <1>2

LEMMA LossInitial == LiqInit => LossInv
<1> SUFFICES ASSUME LiqInit PROVE LossInv
  OBVIOUS
<1>1. buffer = <<>> /\ lost = {} /\ mishaps = 0 /\ TornFiles = {}
  BY DEF LiqInit, TornFiles
<1>2. Len(<<>>) < FlushAt /\ <<>> \in Seq(Events) /\ FlushAt \in Nat /\ 0 * FlushAt = 0
  BY LiquidationAssumption
<1>3. IsFiniteSet({}) /\ Cardinality({}) = 0
  BY FS_EmptySet
<1> QED
  BY <1>1, <1>2, <1>3 DEF LossInv

LEMMA NothingCosts ==
    ASSUME LossInv, UNCHANGED <<buffer, fragments, lost, mishaps>> PROVE LossInv'
  BY DEF LossInv, TornFiles

LEMMA LossStep == ASSUME LossInv, [LiqNext]_liqVars PROVE LossInv'
<1>types. buffer \in Seq(Events) /\ Len(buffer) \in Nat /\ FlushAt \in Nat \ {0} /\ Len(buffer) < FlushAt
  BY LiquidationAssumption DEF LossInv
<1>flush. ASSUME Flushed(buffer) \/ FlushRefused(buffer) PROVE LossInv'
  <2>1. Len(buffer) <= FlushAt
    BY <1>types
  <2> QED
    BY <1>types, <1>flush, <2>1, FlushCosts
<1>1. CASE Connect \/ Disconnect \/ RequestStop \/ StopWaiting \/ StartCollector \/ UNCHANGED liqVars
  <2>1. UNCHANGED <<buffer, fragments, lost, mishaps>>
    BY <1>1 DEF Connect, Disconnect, RequestStop, StopWaiting, StartCollector, liqVars
  <2> QED
    BY <2>1, NothingCosts
<1>2. CASE Silence
  BY <1>2, <1>flush DEF Silence
<1>3. CASE EndSession
  BY <1>3, <1>flush DEF EndSession
<1>4. CASE CancelTask
  BY <1>4, <1>flush DEF CancelTask
<1>5. CASE Kill
  <2>1. lost' = lost \cup ToSet(buffer) /\ buffer' = <<>> /\ mishaps' = mishaps + 1 /\ fragments' = fragments
    BY <1>5 DEF Kill
  <2>2. IsFiniteSet(ToSet(buffer)) /\ Cardinality(ToSet(buffer)) <= Len(buffer) /\ Cardinality(ToSet(buffer)) \in Nat
    BY <1>types, ElementsAreFew
  <2>3. Cardinality(ToSet(buffer)) <= FlushAt /\ mishaps \in Nat /\ FlushAt \in Nat
    BY <1>types, <2>2 DEF LossInv
  <2>4. IsFiniteSet(lost') /\ Cardinality(lost') <= mishaps' * FlushAt
    BY <2>1, <2>2, <2>3, LossGrows DEF LossInv
  <2>5. TornFiles' = TornFiles
    BY <2>1 DEF TornFiles
  <2>6. IsFiniteSet(TornFiles) /\ Cardinality(TornFiles) <= mishaps /\ Cardinality(TornFiles) \in Nat
    BY FS_CardinalityType DEF LossInv
  <2>7. Cardinality(TornFiles) <= mishaps'
    BY <2>1, <2>3, <2>6
  <2>8. buffer' \in Seq(Events) /\ Len(buffer') < FlushAt /\ mishaps' \in Nat
    BY <1>types, <2>1, <2>3
  <2> QED
    BY <2>4, <2>5, <2>6, <2>7, <2>8 DEF LossInv
<1>6. ASSUME NEW e \in Events, OnMessage(e) PROVE LossInv'
  <2> DEFINE batch == Append(buffer, e)
  <2>1. batch \in Seq(Events) /\ Len(batch) = Len(buffer) + 1
    BY <1>types, AppendFacts
  <2>2. \/ Len(buffer) + 1 < FlushAt /\ buffer' = batch /\ UNCHANGED <<fragments, lost, mishaps>>
        \/ Flushed(batch) \/ FlushRefused(batch)
    BY <1>6 DEF OnMessage
  <2> HIDE DEF batch
  <2>3. CASE Len(buffer) + 1 < FlushAt /\ buffer' = batch /\ UNCHANGED <<fragments, lost, mishaps>>
    BY <2>1, <2>3 DEF LossInv, TornFiles
  <2>4. CASE Flushed(batch) \/ FlushRefused(batch)
    <3>1. Len(batch) <= FlushAt
      BY <1>types, <2>1
    <3> QED
      BY <2>1, <2>4, <3>1, FlushCosts
  <2> QED
    BY <2>2, <2>3, <2>4
<1> QED
  BY <1>1, <1>2, <1>3, <1>4, <1>5, <1>6 DEF LiqNext

\* A query that looks at the dates of its window finds what the window holds,
\* unless one of their files is torn.
LEMMA WindowIsRead ==
    ASSUME KeptInv, NEW from \in Nat, NEW to \in Nat, NEW now \in Nat,
           NEW study, study = LiquidationsInWindow(from, to, now),
           NEW m, m = Min({to, now})
    PROVE  IF study.raises
           THEN \E f \in fragments : f.torn /\ f.date \in (from \div DayLength) - 1..(m \div DayLength) + 1
           ELSE study.events = {e \in Stored : TradeTime[e] \in from..m}
<1>1. m \in Nat
  BY LesserOf
<1>2. study = IF from > m THEN [raises |-> FALSE, events |-> {}] ELSE ReadWindow(from, m)
  BY DEF LiquidationsInWindow
<1>3. \A e \in Stored : e \in Events /\ TradeTime[e] \in Nat
  BY LiquidationAssumption DEF Stored, KeptInv
<1>4. CASE from > m
  <2>1. study.raises = FALSE /\ study.events = {}
    BY <1>2, <1>4
  <2>2. {e \in Stored : TradeTime[e] \in from..m} = {}
    BY <1>1, <1>3, <1>4
  <2> QED
    BY <2>1, <2>2
<1>5. CASE ~(from > m)
  <2>0. from <= m
    BY <1>1, <1>5
  <2>1. study = ReadWindow(from, m)
    BY <1>2, <1>5
  <2>2. ASSUME NEW f \in fragments, NEW e \in f.events, TradeTime[e] \in from..m
        PROVE  f.date \in (from \div DayLength) - 1..(m \div DayLength) + 1
    <3>1. TradeTime[e] \in Nat /\ f.date = TradeTime[e] \div DayLength /\ from <= TradeTime[e] /\ TradeTime[e] <= m
      BY <1>3, <2>2, <1>1 DEF Stored, KeptInv, DateOf
    <3> DEFINE t == TradeTime[e]
               d == t \div DayLength
               first == from \div DayLength
               last == m \div DayLength
    <3>2. first \in Nat /\ d \in Nat /\ first <= d
      BY <3>1, DatesInOrder
    <3>3. last \in Nat /\ d <= last
      BY <1>1, <3>1, DatesInOrder
    <3>4. f.date = d
      BY <3>1
    <3> HIDE DEF first, last, d
    <3>5. f.date \in (first - 1)..(last + 1)
      BY <3>2, <3>3, <3>4
    <3> QED
      BY <3>5 DEF first, last
  <2> DEFINE looked == Candidates(from, m)
  <2>3. CASE \E f \in looked : f.torn
    <3>1. study.raises = TRUE
      BY <2>1, <2>3 DEF ReadWindow
    <3>2. \E f \in fragments : f.torn /\ f.date \in (from \div DayLength) - 1..(m \div DayLength) + 1
      BY <2>3 DEF Candidates
    <3> QED
      BY <3>1, <3>2
  <2>4. CASE ~\E f \in looked : f.torn
    <3>1. study.raises = FALSE /\ study.events = {e \in UNION {f.events : f \in looked} : TradeTime[e] \in from..m}
      BY <2>1, <2>4 DEF ReadWindow
    <3>2. ASSUME NEW e \in study.events PROVE e \in Stored /\ TradeTime[e] \in from..m
      BY <3>1, <3>2 DEF Candidates, Stored
    <3>3. ASSUME NEW e \in Stored, TradeTime[e] \in from..m PROVE e \in study.events
      BY <2>2, <3>1, <3>3 DEF Candidates, Stored
    <3>4. study.events = {e \in Stored : TradeTime[e] \in from..m}
      BY <3>1, <3>2, <3>3
    <3> QED
      BY <3>1, <3>4
  <2> QED
    BY <2>3, <2>4
<1> QED
  BY <1>4, <1>5

\* Whatever is announced again, refused, cut off or killed, and in whatever
\* order, an accepted liquidation is in the collector's buffer or on disk unless
\* its write broke off, which costs a batch at most, none waits while no
\* connection is up, and a study that reads a window is told all that is on disk
\* for it, unless a write tore a file of a date next to it.
THEOREM LiquidationsAreKept == LiqSpec => []EventsAreKept
<1>1. KeptInv /\ LossInv => EventsAreKept
  <2> SUFFICES ASSUME KeptInv, LossInv PROVE EventsAreKept
    OBVIOUS
  <2>1. received \ lost \subseteq ToSet(buffer) \cup Stored
    BY DEF KeptInv, Buffered, ToSet, Stored
  <2>2. {TradeTime[e] : e \in Events} \subseteq Nat
    BY LiquidationAssumption
  <2>3. ASSUME NEW from \in {TradeTime[e] : e \in Events}, NEW to \in {TradeTime[e] : e \in Events},
               NEW now \in {TradeTime[e] : e \in Events}
        PROVE  LET until == Min({to, now})
                   study == LiquidationsInWindow(from, to, now)
               IN IF study.raises
                  THEN \E f \in fragments :
                           f.torn /\ f.date \in (from \div DayLength) - 1..(until \div DayLength) + 1
                  ELSE study.events = {e \in Stored : TradeTime[e] \in from..until}
    <3>1. from \in Nat /\ to \in Nat /\ now \in Nat
      BY <2>2
    <3> DEFINE until == Min({to, now})
               study == LiquidationsInWindow(from, to, now)
    <3>2. until = Min({to, now}) /\ study = LiquidationsInWindow(from, to, now)
      OBVIOUS
    <3> HIDE DEF until, study
    <3>3. IF study.raises
          THEN \E f \in fragments : f.torn /\ f.date \in (from \div DayLength) - 1..(until \div DayLength) + 1
          ELSE study.events = {e \in Stored : TradeTime[e] \in from..until}
      BY <3>1, <3>2, WindowIsRead
    <3> QED
      BY <3>3 DEF until, study
  <2>4. /\ Cardinality(lost) <= mishaps * FlushAt
        /\ Cardinality({f \in fragments : f.torn}) <= mishaps
    BY DEF LossInv, TornFiles
  <2> QED
    BY <2>1, <2>3, <2>4 DEF EventsAreKept, KeptInv
<1> QED
  BY <1>1, KeptInitial, KeptStep, LossInitial, LossStep, PTL DEF LiqSpec

(***************************************************************************)
(* The biographies: what each file tells, and which copy counts.           *)
(***************************************************************************)
Runs == [run : Nat, floors : BOOLEAN, tier : Tiers]
ClassChanges == [run : Nat, to : Tiers]
LogLines == [run : Nat, to : Tiers \cup {"retired"}]
Coverages == [run : Nat, pooled : Tiers, gating : SUBSET UNION {DOMAIN s.regimes : s \in Screens}]

Tells(bio) ==
    /\ bio \in Biography
    /\ bio.class = IF bio.validation = <<>> THEN "none" ELSE Last(bio.validation).tier
    /\ \A i, j \in DOMAIN bio.validation : bio.validation[i].run = bio.validation[j].run => i = j
    /\ TellTheChanges(bio.changes, bio.validation)
    /\ ToSet(bio.changes) \subseteq ToSet(bio.log)
    /\ bio.class \in Deployable => Last(bio.validation).floors
    /\ \A i \in DOMAIN bio.log : bio.log[i].to = "retired" => bio.status = "retired"

Jobs == [kind : {"none"}] \cup [kind : {"retrospective", "screen"}, todo : Seq(Strategies), run : Nat]
        \cup [kind : {"unlink"}, todo : {<<s>> : s \in Strategies}]

Files(dir) == DOMAIN dir = Strategies /\ \A s \in Strategies : dir[s] \in {NoFile, Torn} \/ Tells(dir[s])

\* A retired copy that is complete says what the active one says.
Copied(s) == /\ active[s] \notin {NoFile, Torn} /\ retired[s] \notin {NoFile, Torn}
             /\ retired[s].validation = active[s].validation
             /\ retired[s].coverage = active[s].coverage
             /\ retired[s].status = "retired"

BioInv ==
    /\ Files(active) /\ Files(retired)
    /\ job \in Jobs /\ day \in Nat
    /\ \A s \in Strategies : job.kind = "unlink" /\ Head(job.todo) = s => Copied(s)

Carries(old, new) ==
    /\ IsPrefix(old.validation, new.validation) /\ IsPrefix(old.coverage, new.coverage)
    /\ old.status = new.status

LEMMA PrefixOfItself == ASSUME NEW S, NEW s \in Seq(S) PROVE IsPrefix(s, s)
  BY DEF IsPrefix

LEMMA PrefixAppended == ASSUME NEW S, NEW s \in Seq(S), NEW x \in S PROVE IsPrefix(s, Append(s, x))
<1> DEFINE t == Append(s, x)
<1>1. t \in Seq(S) /\ Len(t) = Len(s) + 1 /\ Len(s) \in Nat /\ \A i \in 1..Len(s) : t[i] = s[i]
  OBVIOUS
<1>2. \A i \in 1..Len(s) : SubSeq(s, 1, Len(s))[i] = s[i] /\ SubSeq(t, 1, Len(s))[i] = t[i]
  OBVIOUS
<1>3. /\ SubSeq(s, 1, Len(s)) \in Seq(S) /\ Len(SubSeq(s, 1, Len(s))) = Len(s)
      /\ SubSeq(t, 1, Len(s)) \in Seq(S) /\ Len(SubSeq(t, 1, Len(s))) = Len(s)
  OBVIOUS
<1>4. SubSeq(s, 1, Len(s)) = SubSeq(t, 1, Len(s))
  BY <1>1, <1>2, <1>3
<1> QED
  BY <1>1, <1>4 DEF IsPrefix

LEMMA SetOfAppended ==
    ASSUME NEW S, NEW s \in Seq(S), NEW x \in S
    PROVE  ToSet(Append(s, x)) = ToSet(s) \cup {x}
<1> DEFINE t == Append(s, x)
           n == Len(s) + 1
<1>1. /\ t[n] = x /\ n \in DOMAIN t
      /\ \A i \in DOMAIN s : i \in DOMAIN t /\ t[i] = s[i]
      /\ \A i \in DOMAIN t : i \in DOMAIN s \/ i = n
  OBVIOUS
<1> HIDE DEF t, n
<1>2. ToSet(t) = ToSet(s) \cup {x}
  BY <1>1 DEF ToSet
<1> QED
  BY <1>2 DEF t

(* The verdicts. *)

LEMMA TierTypes == \A m : ClassifyTier(m) \in Tiers
  BY DEF ClassifyTier, Tiers

LEMMA RunTypes ==
    ASSUME NEW v, NEW run \in Nat
    PROVE  AnalyzeStrategy(v, run).tier \in Tiers /\ AnalyzeStrategy(v, run).run = run
<1>1. ClassifyTier(v.base) \in Tiers /\ ClassifyTier(v.conservative) \in Tiers
  BY TierTypes
<1> QED
  BY <1>1 DEF AnalyzeStrategy, ResolveFinalTier, Tiers

LEMMA DeployableIsSound ==
    ASSUME NEW v \in Verdicts, NEW run \in Nat
    PROVE  /\ AnalyzeStrategy(v, run) \in Runs /\ AnalyzeStrategy(v, run).run = run
           /\ AnalyzeStrategy(v, run).tier \in Deployable => AnalyzeStrategy(v, run).floors
<1> DEFINE m == v.conservative
<1>1. m \in Measures
  BY UniverseAssumption
<1>2. m.p \in Int /\ m.dd \in Int /\ m.n \in Nat
  BY <1>1 DEF Measures
<1> HIDE DEF m
<1>3. ClassifyTier(m) \in {"A", "B"} => m.p < 30 /\ m.dd < 50
  BY <1>2 DEF ClassifyTier
<1>4. ResolveFinalTier(ClassifyTier(v.base), ClassifyTier(m)) \in Deployable
      => ClassifyTier(m) \in {"A", "B"}
  BY DEF ResolveFinalTier, Deployable
<1>5. AnalyzeStrategy(v, run) = [run |-> run, floors |-> m.p < 30 /\ m.dd < 50,
                                 tier |-> ResolveFinalTier(ClassifyTier(v.base), ClassifyTier(m))]
  BY DEF AnalyzeStrategy, HardFloors, m
<1>6. AnalyzeStrategy(v, run).tier \in Tiers
  BY RunTypes
<1> DEFINE floors == m.p < 30 /\ m.dd < 50
           tier == ResolveFinalTier(ClassifyTier(v.base), ClassifyTier(m))
<1>7. floors \in BOOLEAN
  OBVIOUS
<1>8. AnalyzeStrategy(v, run) = [run |-> run, floors |-> floors, tier |-> tier]
  BY <1>5
<1>9. tier \in Deployable => floors
  BY <1>3, <1>4
<1> HIDE DEF floors, tier
<1>10. AnalyzeStrategy(v, run).run = run /\ AnalyzeStrategy(v, run).floors = floors
       /\ AnalyzeStrategy(v, run).tier = tier
  BY <1>8
<1>11. AnalyzeStrategy(v, run) \in Runs
  BY <1>6, <1>7, <1>8, <1>10 DEF Runs
<1>12. CASE floors = TRUE
  BY <1>10, <1>11, <1>12
<1>13. CASE floors = FALSE
  BY <1>9, <1>10, <1>11, <1>13
<1> QED
  BY <1>7, <1>12, <1>13

(* What a run adds to a biography. *)

Differs(h, entry) == h = <<>> \/ Last(h).tier # entry.tier

LEMMA ChangesTold ==
    ASSUME NEW h \in Seq(Runs), NEW entry \in Runs, NEW changes \in Seq([run : Nat, to : Tiers]),
           TellTheChanges(changes, h), ~HasRun(h, entry.run)
    PROVE  /\ ~HasRun(changes, entry.run)
           /\ Differs(h, entry) => TellTheChanges(Append(changes, [run |-> entry.run, to |-> entry.tier]), Append(h, entry))
           /\ ~Differs(h, entry) => TellTheChanges(changes, Append(h, entry))
<1> DEFINE g == Append(h, entry)
           n == Len(h) + 1
           change == [run |-> entry.run, to |-> entry.tier]
           more == Append(changes, change)
<1>1. /\ g \in Seq(Runs) /\ Len(g) = n /\ Len(h) \in Nat /\ g[n] = entry /\ n \notin DOMAIN h
      /\ \A i \in DOMAIN h : i \in DOMAIN g /\ g[i] = h[i]
      /\ \A i \in DOMAIN g : i \in DOMAIN h \/ i = n
      /\ n \in DOMAIN g
  OBVIOUS
<1>2. change \in [run : Nat, to : Tiers]
  BY DEF Runs
<1>3. /\ more \in Seq([run : Nat, to : Tiers]) /\ Len(more) = Len(changes) + 1 /\ Len(changes) \in Nat
      /\ more[Len(changes) + 1] = change
      /\ \A k \in DOMAIN changes : k \in DOMAIN more /\ more[k] = changes[k]
      /\ \A k \in DOMAIN more : k \in DOMAIN changes \/ k = Len(changes) + 1
  BY <1>2
<1>4. DOMAIN changes = 1..Len(changes) /\ DOMAIN more = 1..(Len(changes) + 1) /\ DOMAIN h = 1..Len(h)
      /\ DOMAIN g = 1..n
  BY <1>1, <1>3
<1>5. Reclassified(g) = IF Differs(h, entry) THEN Reclassified(h) \cup {n} ELSE Reclassified(h)
  <2>1. \A i \in DOMAIN h : i \in Reclassified(g) <=> i \in Reclassified(h)
    <3>1. \A i \in DOMAIN h : i = 1 \/ (i - 1 \in DOMAIN h /\ g[i - 1] = h[i - 1])
      BY <1>1, <1>4
    <3> QED
      BY <1>1, <3>1 DEF Reclassified
  <2>2. n \in Reclassified(g) <=> Differs(h, entry)
    <3>1. CASE h = <<>>
      <4>1. n = 1
        BY <3>1
      <4> QED
        BY <1>1, <3>1, <4>1 DEF Reclassified, Differs
    <3>2. CASE h # <<>>
      <4>1. n # 1 /\ n - 1 = Len(h) /\ Len(h) \in DOMAIN h
        BY <1>1, <1>4, <3>2
      <4>2. g[n - 1] = Last(h)
        BY <1>1, <4>1 DEF Last
      <4> QED
        BY <1>1, <3>2, <4>1, <4>2 DEF Reclassified, Differs
    <3> QED
      BY <3>1, <3>2
  <2>3. Reclassified(g) \subseteq DOMAIN h \cup {n} /\ Reclassified(h) \subseteq DOMAIN h
    BY <1>1 DEF Reclassified
  <2> HIDE DEF g, n
  <2>4. CASE Differs(h, entry)
    <3>1. \A x : x \in Reclassified(g) <=> x \in Reclassified(h) \cup {n}
      BY <2>1, <2>2, <2>3, <2>4
    <3> QED
      BY <2>4, <3>1
  <2>5. CASE ~Differs(h, entry)
    <3>1. \A x : x \in Reclassified(g) <=> x \in Reclassified(h)
      BY <2>1, <2>2, <2>3, <2>5
    <3> QED
      BY <2>5, <3>1
  <2> QED
    BY <2>4, <2>5
<1>6. PICK at \in [DOMAIN changes -> DOMAIN h] :
        /\ {at[k] : k \in DOMAIN changes} = Reclassified(h)
        /\ \A k, l \in DOMAIN changes : k < l => at[k] < at[l]
        /\ \A k \in DOMAIN changes : changes[k] = [run |-> h[at[k]].run, to |-> h[at[k]].tier]
  BY DEF TellTheChanges
<1>7. ~HasRun(changes, entry.run)
  BY <1>6 DEF HasRun
<1> HIDE DEF g, n, change, more
<1>8. ASSUME Differs(h, entry) PROVE TellTheChanges(more, g)
  <2> DEFINE last == Len(changes) + 1
             bt == [k \in DOMAIN more |-> IF k \in DOMAIN changes THEN at[k] ELSE n]
  <2>1. last \notin DOMAIN changes /\ last \in DOMAIN more
    BY <1>3, <1>4
  <2>2. bt \in [DOMAIN more -> DOMAIN g]
    BY <1>1, <1>3
  <2>3. /\ \A k \in DOMAIN changes : bt[k] = at[k] /\ more[k] = changes[k] /\ at[k] \in DOMAIN h
        /\ bt[last] = n
    BY <1>3, <2>1
  <2>4. \A k \in DOMAIN more : k \in DOMAIN changes \/ k = last
    BY <1>3
  <2> HIDE DEF last, bt
  <2>5. {bt[k] : k \in DOMAIN more} = Reclassified(g)
    <3>1. \A x : x \in {bt[k] : k \in DOMAIN more} <=> x \in {at[k] : k \in DOMAIN changes} \cup {n}
      BY <1>3, <2>1, <2>3, <2>4
    <3> QED
      BY <1>5, <1>6, <1>8, <3>1
  <2>6. \A k, l \in DOMAIN more : k < l => bt[k] < bt[l]
    <3> SUFFICES ASSUME NEW k \in DOMAIN more, NEW l \in DOMAIN more, k < l PROVE bt[k] < bt[l]
      OBVIOUS
    <3>1. k \in DOMAIN changes
      BY <1>3, <1>4, <2>4 DEF last
    <3>2. at[k] < n
      BY <1>1, <1>4, <2>3, <3>1 DEF n
    <3> QED
      BY <1>6, <2>3, <2>4, <3>1, <3>2
  <2>7. \A k \in DOMAIN more : more[k] = [run |-> g[bt[k]].run, to |-> g[bt[k]].tier]
    <3>1. more[last] = [run |-> g[bt[last]].run, to |-> g[bt[last]].tier]
      BY <1>1, <1>3, <2>3 DEF change, last
    <3>2. ASSUME NEW k \in DOMAIN changes PROVE more[k] = [run |-> g[bt[k]].run, to |-> g[bt[k]].tier]
      BY <1>1, <1>6, <2>3
    <3> QED
      BY <2>4, <3>1, <3>2
  <2> QED
    BY <2>2, <2>5, <2>6, <2>7 DEF TellTheChanges
<1>9. ASSUME ~Differs(h, entry) PROVE TellTheChanges(changes, g)
  <2>1. at \in [DOMAIN changes -> DOMAIN g] /\ \A k \in DOMAIN changes : g[at[k]] = h[at[k]]
    BY <1>1
  <2>2. {at[k] : k \in DOMAIN changes} = Reclassified(g)
    BY <1>5, <1>6, <1>9
  <2>3. \A k \in DOMAIN changes : changes[k] = [run |-> g[at[k]].run, to |-> g[at[k]].tier]
    BY <1>6, <2>1
  <2> QED
    BY <1>6, <2>1, <2>2, <2>3 DEF TellTheChanges
<1> QED
  BY <1>7, <1>8, <1>9 DEF g, more, change

\* A new entry, and the change of class it may bring, are told.
LEMMA RecordedTells ==
    ASSUME NEW bio, Tells(bio), NEW entry \in Runs, ~HasRun(bio.validation, entry.run),
           entry.tier \in Deployable => entry.floors
    PROVE  Tells(Recorded(bio, entry)) /\ Carries(bio, Recorded(bio, entry))
<1> DEFINE h == bio.validation
           change == [run |-> entry.run, to |-> entry.tier]
           new == Recorded(bio, entry)
<1>1. /\ bio \in Biography /\ h \in Seq(Runs) /\ bio.changes \in Seq([run : Nat, to : Tiers])
      /\ bio.log \in Seq([run : Nat, to : Tiers \cup {"retired"}]) /\ bio.coverage \in Seq(Coverages)
  BY DEF Tells, Biography, Runs, Coverages
<1>2. /\ change \in [run : Nat, to : Tiers] /\ change \in [run : Nat, to : Tiers \cup {"retired"}]
      /\ entry.tier \in Tiers /\ entry.tier # "none"
  BY DEF Runs, Tiers
<1>3. bio.class # entry.tier <=> Differs(h, entry)
  BY <1>2 DEF Tells, Differs
<1>4. ~HasRun(bio.changes, entry.run)
  BY <1>1, ChangesTold DEF Tells
<1>5. new = [bio EXCEPT !.validation = Append(h, entry), !.class = entry.tier,
                        !.changes = IF Differs(h, entry) THEN Append(bio.changes, change) ELSE bio.changes,
                        !.log = IF Differs(h, entry) THEN Append(bio.log, change) ELSE bio.log]
  <2>1. CASE Differs(h, entry)
    BY <1>1, <1>3, <1>4, <2>1 DEF Recorded, Biography
  <2>2. CASE ~Differs(h, entry)
    BY <1>1, <1>3, <1>4, <2>2 DEF Recorded, Biography
  <2> QED
    BY <2>1, <2>2
<1> DEFINE g == Append(h, entry)
<1>6. /\ g \in Seq(Runs) /\ Len(g) = Len(h) + 1 /\ Len(h) \in Nat /\ g[Len(h) + 1] = entry
      /\ \A i \in DOMAIN h : i \in DOMAIN g /\ g[i] = h[i]
      /\ \A i \in DOMAIN g : i \in DOMAIN h \/ i = Len(h) + 1
      /\ g # <<>>
  <2> HIDE DEF h
  <2>1. /\ g \in Seq(Runs) /\ Len(g) = Len(h) + 1 /\ Len(h) \in Nat /\ g[Len(h) + 1] = entry
        /\ \A i \in DOMAIN h : i \in DOMAIN g /\ g[i] = h[i]
        /\ \A i \in DOMAIN g : i \in DOMAIN h \/ i = Len(h) + 1
    BY <1>1, AppendFacts
  <2> HIDE DEF g
  <2>2. g # <<>>
    BY <2>1
  <2> QED
    BY <2>1, <2>2
<1>7. Last(g) = entry
  BY <1>6 DEF Last
<1>8. \A i, j \in DOMAIN g : g[i].run = g[j].run => i = j
  <2>1. \A i \in DOMAIN h : h[i].run # entry.run
    BY DEF HasRun
  <2>2. \A i, j \in DOMAIN h : h[i].run = h[j].run => i = j
    BY DEF Tells
  <2> HIDE DEF g, h
  <2> QED
    BY <1>6, <2>1, <2>2
<1>9. /\ Append(bio.changes, change) \in Seq([run : Nat, to : Tiers])
      /\ Append(bio.log, change) \in Seq([run : Nat, to : Tiers \cup {"retired"}])
  BY <1>1, <1>2
<1> DEFINE changes == IF Differs(h, entry) THEN Append(bio.changes, change) ELSE bio.changes
           log == IF Differs(h, entry) THEN Append(bio.log, change) ELSE bio.log
<1>10. changes \in Seq([run : Nat, to : Tiers]) /\ log \in Seq([run : Nat, to : Tiers \cup {"retired"}])
  BY <1>1, <1>9
<1>11. TellTheChanges(changes, g)
  BY <1>1, ChangesTold DEF Tells
<1>12. ToSet(changes) \subseteq ToSet(log)
  <2>1. ToSet(bio.changes) \subseteq ToSet(bio.log)
    BY DEF Tells
  <2>2. CASE Differs(h, entry)
    <3>0. /\ bio.changes \in Seq(ClassChanges) /\ change \in ClassChanges
          /\ bio.log \in Seq(LogLines) /\ change \in LogLines
      BY <1>1, <1>2 DEF ClassChanges, LogLines
    <3> HIDE DEF change
    <3>1. ToSet(Append(bio.changes, change)) = ToSet(bio.changes) \cup {change}
      BY <3>0, SetOfAppended
    <3>2. ToSet(Append(bio.log, change)) = ToSet(bio.log) \cup {change}
      BY <3>0, SetOfAppended
    <3> QED
      BY <2>1, <2>2, <3>1, <3>2
  <2> QED
    BY <2>1, <2>2
<1>13. \A i \in DOMAIN log : log[i].to = "retired" => bio.status = "retired"
  <2>1. \A i \in DOMAIN bio.log : bio.log[i].to = "retired" => bio.status = "retired"
    BY DEF Tells
  <2>2. change.to # "retired"
    BY <1>2 DEF Tiers
  <2>3. \A i \in DOMAIN Append(bio.log, change) :
            \/ i \in DOMAIN bio.log /\ Append(bio.log, change)[i] = bio.log[i]
            \/ Append(bio.log, change)[i] = change
    BY <1>1, <1>2, AppendFacts
  <2> HIDE DEF change
  <2> QED
    BY <2>1, <2>2, <2>3
<1>14. new = [bio EXCEPT !.validation = g, !.class = entry.tier, !.changes = changes, !.log = log]
  BY <1>5
<1>15. IsPrefix(h, g) /\ IsPrefix(bio.coverage, bio.coverage)
  BY <1>1, PrefixAppended, PrefixOfItself
<1> HIDE DEF g, changes, log, new, change
<1>16. /\ new.validation = g /\ new.class = entry.tier /\ new.changes = changes /\ new.log = log
       /\ new.status = bio.status /\ new.coverage = bio.coverage
  BY <1>1, <1>14 DEF Biography
<1>17. new \in Biography
  BY <1>1, <1>2, <1>6, <1>10, <1>14 DEF Biography, Runs
<1> HIDE DEF h
<1>18. Tells(new)
  BY <1>6, <1>7, <1>8, <1>11, <1>12, <1>13, <1>16, <1>17 DEF Tells
<1> QED
  BY <1>15, <1>16, <1>18 DEF Carries, h, new

LEMMA CoverageTells ==
    ASSUME NEW bio, Tells(bio), NEW entry \in Coverages
    PROVE  LET new == [bio EXCEPT !.coverage = Append(@, entry)] IN Tells(new) /\ Carries(bio, new)
<1> DEFINE new == [bio EXCEPT !.coverage = Append(@, entry)]
<1>1. bio \in Biography /\ bio.coverage \in Seq(Coverages) /\ bio.validation \in Seq(Runs)
  BY DEF Tells, Biography, Coverages, Runs
<1>2. Append(bio.coverage, entry) \in Seq(Coverages)
  BY <1>1
<1>3. /\ new \in Biography /\ new.validation = bio.validation /\ new.class = bio.class
      /\ new.changes = bio.changes /\ new.log = bio.log /\ new.status = bio.status
      /\ new.coverage = Append(bio.coverage, entry)
  BY <1>1, <1>2 DEF Biography, Coverages
<1> HIDE DEF new
<1>4. Tells(new)
  BY <1>3 DEF Tells
<1>5. IsPrefix(bio.validation, new.validation) /\ IsPrefix(bio.coverage, new.coverage)
  BY <1>1, <1>3, PrefixAppended, PrefixOfItself
<1> QED
  BY <1>3, <1>4, <1>5 DEF Carries, new

LEMMA RetirementTells ==
    ASSUME NEW bio, Tells(bio)
    PROVE  /\ Tells(Retirement(bio)) /\ Retirement(bio).validation = bio.validation
           /\ Retirement(bio).coverage = bio.coverage /\ Retirement(bio).status = "retired"
<1> DEFINE entry == [run |-> 0, to |-> "retired"]
           log == IF Contains(bio.log, entry) THEN bio.log ELSE Append(bio.log, entry)
           new == Retirement(bio)
<1>1. bio \in Biography /\ bio.log \in Seq([run : Nat, to : Tiers \cup {"retired"}])
  BY DEF Tells, Biography
<1>2. entry \in [run : Nat, to : Tiers \cup {"retired"}]
  OBVIOUS
<1>3. Append(bio.log, entry) \in Seq([run : Nat, to : Tiers \cup {"retired"}])
      /\ \A i \in DOMAIN bio.log : i \in DOMAIN Append(bio.log, entry) /\ Append(bio.log, entry)[i] = bio.log[i]
  BY <1>1, <1>2, AppendFacts
<1>4. log \in Seq([run : Nat, to : Tiers \cup {"retired"}]) /\ ToSet(bio.log) \subseteq ToSet(log)
  BY <1>1, <1>3 DEF ToSet
<1>5. new = [bio EXCEPT !.status = "retired", !.log = log]
  BY <1>1 DEF Retirement, Biography
<1> HIDE DEF new, log, entry
<1>6. /\ new \in Biography /\ new.validation = bio.validation /\ new.class = bio.class
      /\ new.changes = bio.changes /\ new.log = log /\ new.status = "retired"
      /\ new.coverage = bio.coverage
  BY <1>1, <1>4, <1>5 DEF Biography
<1>7. Tells(new)
  BY <1>4, <1>6 DEF Tells
<1> QED
  BY <1>6, <1>7 DEF new

LEMMA NewBiographyTells == \A s : Tells(NewBiography(s))
<1> SUFFICES ASSUME NEW s PROVE Tells(NewBiography(s))
  OBVIOUS
<1> DEFINE new == NewBiography(s)
<1>1. /\ new.validation = <<>> /\ new.class = "none" /\ new.changes = <<>> /\ new.log = <<>>
      /\ new \in Biography
  BY DEF NewBiography, Biography
<1> HIDE DEF new
<1>2. TellTheChanges(<<>>, <<>>)
  <2>1. <<>> \in [DOMAIN <<>> -> DOMAIN <<>>]
    OBVIOUS
  <2>2. Reclassified(<<>>) = {}
    BY DEF Reclassified
  <2>3. DOMAIN <<>> = {}
    OBVIOUS
  <2>4. {<<>>[k] : k \in DOMAIN <<>>} = {}
    BY <2>3
  <2> DEFINE none == <<>>
  <2>5. none \in [DOMAIN none -> DOMAIN none] /\ DOMAIN none = {} /\ Reclassified(none) = {}
        /\ {none[k] : k \in DOMAIN none} = {}
    BY <2>1, <2>2, <2>3, <2>4
  <2> HIDE DEF none
  <2>6. TellTheChanges(none, none)
    BY <2>5 DEF TellTheChanges
  <2> QED
    BY <2>6 DEF none
<1>3. "none" \notin Deployable
  BY DEF Deployable
<1> QED
  BY <1>1, <1>2, <1>3 DEF Tells, ToSet, new

(* The two directories. *)

\* What a step may not do to the copy of a strategy that counts.
Keeps(s) ==
    Canonical(s) \notin {NoFile, Torn} =>
        \/ Canonical(s)' = Torn
        \/ /\ Canonical(s)' # NoFile
           /\ IsPrefix(Canonical(s).validation, Canonical(s)'.validation)
           /\ IsPrefix(Canonical(s).coverage, Canonical(s)'.coverage)
           /\ Contains(Canonical(s).log, [run |-> 0, to |-> "retired"]) => Canonical(s)'.status = "retired"

Untouched(s) == active'[s] = active[s] /\ retired'[s] = retired[s]

LEMMA NoFileTells == ~Tells(NoFile) /\ ~Tells(Torn) /\ NoFile # Torn
  BY UniverseAssumption DEF Tells

LEMMA CanonicalTells ==
    ASSUME BioInv, NEW s \in Strategies, Canonical(s) \notin {NoFile, Torn}
    PROVE  Tells(Canonical(s))
  BY DEF BioInv, Files, Canonical

LEMMA LoadTells ==
    ASSUME BioInv, NEW s \in Strategies, Canonical(s) # Torn
    PROVE  Tells(LoadOrCreate(s)) /\ (Canonical(s) # NoFile => LoadOrCreate(s) = Canonical(s))
  BY CanonicalTells, NewBiographyTells DEF LoadOrCreate

LEMMA CarriedKeeps ==
    ASSUME NEW s, Canonical(s) \notin {NoFile, Torn} =>
                     Canonical(s)' # NoFile /\ Tells(Canonical(s)) /\ 
                     IsPrefix(Canonical(s).validation, Canonical(s)'.validation) /\
                     IsPrefix(Canonical(s).coverage, Canonical(s)'.coverage) /\
                     Canonical(s)'.status \in {Canonical(s).status, "retired"}
    PROVE  Keeps(s)
<1> SUFFICES ASSUME Canonical(s) \notin {NoFile, Torn}, Contains(Canonical(s).log, [run |-> 0, to |-> "retired"])
             PROVE  Canonical(s)'.status = "retired"
  BY DEF Keeps
<1>1. Canonical(s).log \in Seq(LogLines) /\ Canonical(s).status \in {"active", "retired"}
  BY DEF Tells, Biography, LogLines
<1>2. Canonical(s).status = "retired"
  BY <1>1 DEF Tells, Contains
<1> QED
  BY <1>2

LEMMA UntouchedKeeps == ASSUME BioInv, NEW s \in Strategies, Untouched(s) PROVE Keeps(s)
<1>1. Canonical(s)' = Canonical(s)
  BY DEF Untouched, Canonical
<1>2. ASSUME Canonical(s) \notin {NoFile, Torn}
      PROVE  /\ Tells(Canonical(s)) /\ IsPrefix(Canonical(s).validation, Canonical(s).validation)
             /\ IsPrefix(Canonical(s).coverage, Canonical(s).coverage)
  <2>1. Tells(Canonical(s))
    BY <1>2, CanonicalTells
  <2>2. Canonical(s).validation \in Seq(Runs) /\ Canonical(s).coverage \in Seq(Coverages)
    BY <2>1 DEF Tells, Biography, Runs, Coverages
  <2> QED
    BY <2>1, <2>2, PrefixOfItself
<1> QED
  BY <1>1, <1>2, CarriedKeeps

\* A biography is saved where it is read.
LEMMA SaveCounts ==
    ASSUME BioInv, NEW s \in Strategies, NEW b, b = Torn \/ Tells(b), Save(s, b)
    PROVE  /\ Files(active') /\ Files(retired') /\ Canonical(s)' = b
           /\ \A t \in Strategies : t # s => Untouched(t)
<1>1. b # NoFile
  BY NoFileTells
<1>2. CASE active' = [active EXCEPT ![s] = b] /\ retired' = retired
  BY <1>1, <1>2 DEF BioInv, Files, Canonical, Untouched
<1>3. CASE retired' = [retired EXCEPT ![s] = b] /\ active' = active /\ active[s] = NoFile
  BY <1>1, <1>3 DEF BioInv, Files, Canonical, Untouched
<1> QED
  BY <1>2, <1>3 DEF Save, InActive

LEMMA WriteKeeps ==
    ASSUME BioInv, NEW s \in Strategies, Canonical(s) # Torn, NEW b, Tells(b),
           Carries(LoadOrCreate(s), b), Save(s, b)
    PROVE  Files(active') /\ Files(retired') /\ \A t \in Strategies : Keeps(t)
<1>1. /\ Files(active') /\ Files(retired') /\ Canonical(s)' = b
      /\ \A t \in Strategies : t # s => Untouched(t)
  BY SaveCounts
<1>2. b # NoFile
  BY NoFileTells
<1>3. Tells(LoadOrCreate(s)) /\ (Canonical(s) # NoFile => LoadOrCreate(s) = Canonical(s))
  BY LoadTells
<1>4. Keeps(s)
  BY <1>1, <1>2, <1>3, CarriedKeeps DEF Carries
<1> QED
  BY <1>1, <1>4, UntouchedKeeps

LEMMA NothingWritten ==
    ASSUME BioInv, UNCHANGED <<active, retired>>
    PROVE  Files(active') /\ Files(retired') /\ \A t \in Strategies : Keeps(t)
  BY UntouchedKeeps DEF BioInv, Untouched

LEMMA TodoTypes ==
    ASSUME BioInv, job.kind \in {"retrospective", "screen"}, job.todo # <<>>
    PROVE  /\ Head(job.todo) \in Strategies /\ Tail(job.todo) \in Seq(Strategies) /\ job.run \in Nat
           /\ [job EXCEPT !.todo = Tail(job.todo)] \in Jobs
           /\ [job EXCEPT !.todo = Tail(job.todo)].kind = job.kind
<1>1. job \in [kind : {"retrospective", "screen"}, todo : Seq(Strategies), run : Nat]
  BY DEF BioInv, Jobs
<1>2. Head(job.todo) \in Strategies /\ Tail(job.todo) \in Seq(Strategies)
  BY <1>1
<1> QED
  BY <1>1, <1>2 DEF Jobs

LEMMA BioInitial == BioInit => BioInv
<1> SUFFICES ASSUME BioInit PROVE BioInv
  OBVIOUS
<1>1. Files(active) /\ Files(retired) /\ job \in Jobs /\ day \in Nat /\ job.kind # "unlink"
  BY DEF BioInit, Files, NoJob, Jobs
<1> QED
  BY <1>1 DEF BioInv

LEMMA NoJobTypes == NoJob \in Jobs /\ NoJob.kind = "none"
  BY DEF NoJob, Jobs

LEMMA StartedJob ==
    ASSUME BioInv, NEW kind \in {"retrospective", "screen"},
           NEW specs, specs = Universe \/ \E s \in Strategies : specs = <<s>>
    PROVE  [kind |-> kind, todo |-> specs, run |-> day] \in Jobs
<1>1. specs \in Seq(Strategies)
  <2>1. \A s \in Strategies : <<s>> \in Seq(Strategies)
    OBVIOUS
  <2> QED
    BY <2>1, UniverseAssumption
<1>2. day \in Nat
  BY DEF BioInv
<1> QED
  BY <1>1, <1>2 DEF Jobs

\* No step leaves a file that tells something else, and none loses anything.
LEMMA BioStep ==
    ASSUME BioInv, [BioNext]_bioVars
    PROVE  BioInv' /\ \A s \in Strategies : Keeps(s)
<1> DEFINE Goal == Files(active') /\ Files(retired') /\ \A t \in Strategies : Keeps(t)
<1>types. Files(active) /\ Files(retired) /\ job \in Jobs /\ day \in Nat
  BY DEF BioInv
<1>goal. ASSUME Goal, job' \in Jobs, job'.kind # "unlink", day' \in Nat
         PROVE  BioInv' /\ \A s \in Strategies : Keeps(s)
  BY <1>goal DEF BioInv
<1> HIDE DEF Goal
<1>1. CASE StartRetrospective
  <2>1. PICK specs \in {Universe} \cup {<<s>> : s \in Strategies} :
            job' = [kind |-> "retrospective", todo |-> specs, run |-> day]
    BY <1>1 DEF StartRetrospective
  <2>2. job' \in Jobs /\ job'.kind = "retrospective"
    BY <2>1, StartedJob
  <2>3. Goal /\ day' = day
    BY <1>1, NothingWritten DEF StartRetrospective, Goal
  <2> QED
    BY <1>types, <1>goal, <2>2, <2>3
<1>2. CASE AnalyzeNext
  <2>1. job.kind = "retrospective" /\ job.todo # <<>> /\ Canonical(Head(job.todo)) # Torn /\ day' = day
    BY <1>2 DEF AnalyzeNext
  <2> DEFINE s == Head(job.todo)
  <2>2. PICK v \in Verdicts :
          WriteBiography(s, AnalyzeStrategy(v, job.run)) /\ job' = [job EXCEPT !.todo = Tail(job.todo)]
    BY <1>2 DEF AnalyzeNext
  <2> DEFINE entry == AnalyzeStrategy(v, job.run)
  <2>3. s \in Strategies /\ job.run \in Nat /\ job' \in Jobs /\ job'.kind = "retrospective"
    BY <2>1, <2>2, TodoTypes
  <2>4. entry \in Runs /\ (entry.tier \in Deployable => entry.floors)
    BY <2>3, DeployableIsSound
  <2>5. Canonical(s) # Torn
    BY <2>1
  <2> HIDE DEF entry, s
  <2>6. CASE UNCHANGED <<active, retired>>
    <3>1. Goal
      BY <2>6, NothingWritten DEF Goal
    <3> QED
      BY <1>types, <1>goal, <2>1, <2>3, <3>1
  <2>7. CASE ~HasRun(LoadOrCreate(s).validation, entry.run) /\ Save(s, Recorded(LoadOrCreate(s), entry))
    <3>1. Tells(LoadOrCreate(s))
      BY <2>3, <2>5, LoadTells
    <3>2. /\ Tells(Recorded(LoadOrCreate(s), entry))
          /\ Carries(LoadOrCreate(s), Recorded(LoadOrCreate(s), entry))
      BY <2>4, <2>7, <3>1, RecordedTells
    <3>3. Goal
      BY <2>3, <2>5, <2>7, <3>2, WriteKeeps DEF Goal
    <3> QED
      BY <1>types, <1>goal, <2>1, <2>3, <3>3
  <2> QED
    BY <2>2, <2>6, <2>7 DEF WriteBiography, entry
<1>3. CASE WriteReports
  <2>1. Goal /\ day' = day /\ job' = NoJob
    BY <1>3, NothingWritten DEF WriteReports, Goal
  <2> QED
    BY <1>types, <1>goal, <2>1, NoJobTypes
<1>4. CASE StartRegimeScreen
  <2>1. PICK specs \in {Universe} \cup {<<s>> : s \in Strategies}, causal \in BOOLEAN :
            job' = IF causal THEN [kind |-> "screen", todo |-> specs, run |-> day] ELSE NoJob
    BY <1>4 DEF StartRegimeScreen
  <2>2. job' \in Jobs /\ job'.kind # "unlink"
    BY <2>1, StartedJob, NoJobTypes
  <2>3. Goal /\ day' = day
    BY <1>4, NothingWritten DEF StartRegimeScreen, Goal
  <2> QED
    BY <1>types, <1>goal, <2>2, <2>3
<1>5. CASE ScreenNext
  <2>1. /\ job.kind = "screen" /\ job.todo # <<>> /\ Canonical(Head(job.todo)) # Torn /\ day' = day
        /\ job' = IF Len(job.todo) = 1 THEN NoJob ELSE [job EXCEPT !.todo = Tail(job.todo)]
    BY <1>5 DEF ScreenNext
  <2> DEFINE s == Head(job.todo)
  <2>2. PICK screen \in Screens : WriteRegimeCoverage(s, ComputeRegimeCoverage(screen, job.run))
    BY <1>5 DEF ScreenNext
  <2> DEFINE entry == ComputeRegimeCoverage(screen, job.run)
             new == [LoadOrCreate(s) EXCEPT !.coverage = Append(@, entry)]
  <2>3. s \in Strategies /\ job.run \in Nat /\ job' \in Jobs /\ job'.kind # "unlink"
    BY <2>1, TodoTypes, NoJobTypes
  <2>4. entry \in Coverages
    <3>1. AnalyzeStrategy(screen.pooled, job.run).tier \in Tiers
      BY <2>3, RunTypes
    <3>2. \A G : G \subseteq DOMAIN screen.regimes => G \in SUBSET UNION {DOMAIN x.regimes : x \in Screens}
      OBVIOUS
    <3> QED
      BY <2>3, <3>1, <3>2 DEF ComputeRegimeCoverage, Coverages
  <2>5. Canonical(s) # Torn
    BY <2>1
  <2>6. UNCHANGED <<active, retired>> \/ Save(s, new)
    BY <2>2 DEF WriteRegimeCoverage
  <2> HIDE DEF entry, s
  <2>7. CASE UNCHANGED <<active, retired>>
    <3>1. Goal
      BY <2>7, NothingWritten DEF Goal
    <3> QED
      BY <1>types, <1>goal, <2>1, <2>3, <3>1
  <2>8. CASE Save(s, new)
    <3>1. Tells(LoadOrCreate(s))
      BY <2>3, <2>5, LoadTells
    <3>2. Tells(new) /\ Carries(LoadOrCreate(s), new)
      BY <2>4, <3>1, CoverageTells
    <3> HIDE DEF new
    <3>3. Goal
      BY <2>3, <2>5, <2>8, <3>2, WriteKeeps DEF Goal
    <3> QED
      BY <1>types, <1>goal, <2>1, <2>3, <3>3
  <2> QED
    BY <2>6, <2>7, <2>8
<1>6. ASSUME NEW s \in Strategies, ApplyPostMortem(s)
      PROVE  BioInv' /\ \A t \in Strategies : Keeps(t)
  <2> DEFINE new == Retirement(Canonical(s))
  <2>1. /\ job = NoJob /\ Canonical(s) \notin {NoFile, Torn} /\ active' = active /\ day' = day
        /\ retired' = [retired EXCEPT ![s] = new]
        /\ job' = IF active[s] # NoFile THEN [kind |-> "unlink", todo |-> <<s>>] ELSE NoJob
    BY <1>6 DEF ApplyPostMortem, Source
  <2>2. Tells(Canonical(s))
    BY <2>1, CanonicalTells
  <2>3. /\ Tells(new) /\ new.validation = Canonical(s).validation
        /\ new.coverage = Canonical(s).coverage /\ new.status = "retired"
    BY <2>2, RetirementTells
  <2> HIDE DEF new
  <2>4. new # NoFile /\ new # Torn
    BY <2>3, NoFileTells
  <2>5. Files(active') /\ Files(retired') /\ retired'[s] = new
    BY <1>types, <2>1, <2>3 DEF Files
  <2>6. \A t \in Strategies : t # s => Untouched(t)
    BY <1>types, <2>1 DEF Files, Untouched
  <2>7. Keeps(s)
    <3>1. CASE active[s] # NoFile
      <4>1. Canonical(s)' = Canonical(s)
        BY <2>1, <3>1 DEF Canonical
      <4>2. Canonical(s).validation \in Seq(Runs) /\ Canonical(s).coverage \in Seq(Coverages)
        BY <2>2 DEF Tells, Biography, Runs, Coverages
      <4> QED
        BY <2>1, <2>2, <4>1, <4>2, PrefixOfItself, CarriedKeeps
    <3>2. CASE active[s] = NoFile
      <4>1. Canonical(s)' = new
        BY <2>1, <2>5, <3>2 DEF Canonical
      <4>2. Canonical(s).validation \in Seq(Runs) /\ Canonical(s).coverage \in Seq(Coverages)
        BY <2>2 DEF Tells, Biography, Runs, Coverages
      <4> QED
        BY <2>1, <2>2, <2>3, <2>4, <4>1, <4>2, PrefixOfItself, CarriedKeeps
    <3> QED
      BY <3>1, <3>2
  <2>8. job' \in Jobs
    BY <2>1, NoJobTypes DEF Jobs
  <2>9. \A t \in Strategies : job'.kind = "unlink" /\ Head(job'.todo) = t => Copied(t)'
    <3> SUFFICES ASSUME NEW t \in Strategies, job'.kind = "unlink", Head(job'.todo) = t PROVE Copied(t)'
      OBVIOUS
    <3>1. active[s] # NoFile /\ t = s
      BY <2>1, NoJobTypes
    <3>2. Canonical(s) = active[s]
      BY <3>1 DEF Canonical
    <3> QED
      BY <2>1, <2>3, <2>4, <2>5, <3>1, <3>2 DEF Copied
  <2> QED
    BY <1>types, <2>1, <2>5, <2>6, <2>7, <2>8, <2>9, UntouchedKeeps DEF BioInv
<1>7. ASSUME NEW s \in Strategies, CrashInPostMortem(s)
      PROVE  BioInv' /\ \A t \in Strategies : Keeps(t)
  <2>1. /\ job = NoJob /\ job' = job /\ day' = day /\ active' = active
        /\ retired' = [retired EXCEPT ![s] = Torn] /\ Canonical(s) \notin {NoFile, Torn}
    BY <1>7 DEF CrashInPostMortem
  <2>2. Files(active') /\ Files(retired') /\ retired'[s] = Torn
    BY <1>types, <2>1 DEF Files
  <2>3. \A t \in Strategies : t # s => Untouched(t)
    BY <1>types, <2>1 DEF Files, Untouched
  <2>4. Keeps(s)
    <3>1. CASE active[s] # NoFile
      <4>1. Canonical(s)' = Canonical(s)
        BY <2>1, <3>1 DEF Canonical
      <4>2. Tells(Canonical(s))
        BY <2>1, CanonicalTells
      <4>3. Canonical(s).validation \in Seq(Runs) /\ Canonical(s).coverage \in Seq(Coverages)
        BY <4>2 DEF Tells, Biography, Runs, Coverages
      <4> QED
        BY <2>1, <4>1, <4>2, <4>3, PrefixOfItself, CarriedKeeps
    <3>2. CASE active[s] = NoFile
      BY <2>1, <2>2, <3>2 DEF Canonical, Keeps
    <3> QED
      BY <3>1, <3>2
  <2>5. Goal
    BY <2>2, <2>3, <2>4, UntouchedKeeps DEF Goal
  <2> QED
    BY <1>types, <1>goal, <2>1, <2>5, NoJobTypes
<1>8. CASE Unlink
  <2>0. job.kind = "unlink" /\ Head(job.todo) \in Strategies
    BY <1>types, <1>8 DEF Unlink, Jobs
  <2>2. PICK s \in Strategies : s = Head(job.todo)
    BY <2>0
  <2>1. /\ active' = [active EXCEPT ![s] = NoFile] /\ job' = NoJob
        /\ retired' = retired /\ day' = day
    BY <1>8, <2>2 DEF Unlink
  <2>3. Copied(s)
    BY <2>0, <2>2 DEF BioInv
  <2>4. Files(active') /\ Files(retired') /\ active'[s] = NoFile
    BY <1>types, <2>1, <2>2 DEF Files
  <2>5. \A t \in Strategies : t # s => Untouched(t)
    BY <1>types, <2>1 DEF Files, Untouched
  <2>6. Keeps(s)
    <3>1. Canonical(s) = active[s] /\ Canonical(s)' = retired[s] /\ retired[s] # NoFile
      BY <2>1, <2>3, <2>4 DEF Copied, Canonical
    <3>2. Tells(active[s])
      BY <1>types, <2>2, <2>3 DEF Copied, Files
    <3>3. active[s].validation \in Seq(Runs) /\ active[s].coverage \in Seq(Coverages)
      BY <3>2 DEF Tells, Biography, Runs, Coverages
    <3> QED
      BY <2>3, <3>1, <3>2, <3>3, PrefixOfItself, CarriedKeeps DEF Copied
  <2>7. Goal
    BY <2>4, <2>5, <2>6, UntouchedKeeps DEF Goal
  <2> QED
    BY <1>types, <1>goal, <2>1, <2>7, NoJobTypes
<1>9. CASE Die
  <2>1. Goal /\ day' = day /\ job' = NoJob
    BY <1>9, NothingWritten DEF Die, Goal
  <2> QED
    BY <1>types, <1>goal, <2>1, NoJobTypes
<1>10. CASE CrashInWrite
  <2>0. Head(job.todo) \in Strategies
    BY <1>10, TodoTypes DEF CrashInWrite
  <2>2. PICK s \in Strategies : s = Head(job.todo)
    BY <2>0
  <2>1. job' = NoJob /\ day' = day /\ Save(s, Torn)
    BY <1>10, <2>2 DEF CrashInWrite
  <2>3. /\ Files(active') /\ Files(retired') /\ Canonical(s)' = Torn
        /\ \A t \in Strategies : t # s => Untouched(t)
    BY <2>1, <2>2, SaveCounts
  <2>4. Goal
    BY <2>3, UntouchedKeeps DEF Goal, Keeps
  <2> QED
    BY <1>types, <1>goal, <2>1, <2>4, NoJobTypes
<1>11. CASE NextDay
  <2>1. Goal /\ day' \in Nat /\ job' = job /\ job = NoJob
    BY <1>types, <1>11, NothingWritten DEF NextDay, Goal
  <2> QED
    BY <1>types, <1>goal, <2>1, NoJobTypes
<1>12. CASE UNCHANGED bioVars
  <2>1. UNCHANGED <<active, retired, job, day>>
    BY <1>12 DEF bioVars
  <2>2. \A t \in Strategies : Keeps(t)
    BY <2>1, NothingWritten
  <2> QED
    BY <2>1, <2>2 DEF BioInv, Copied
<1> QED
  BY <1>1, <1>2, <1>3, <1>4, <1>5, <1>6, <1>7, <1>8, <1>9, <1>10, <1>11, <1>12 DEF BioNext

\* For any strategies, verdicts and days, and wherever the scripts die: the
\* class of a biography is the verdict of its last run, no run is counted twice,
\* the changes and the log are those of its history, and no class admits to
\* deployment without the floors.
THEOREM HistoriesTell == BioSpec => []HistoryTellsTheVerdict
<1>1. BioInv => HistoryTellsTheVerdict
  BY DEF BioInv, Files, Tells, HistoryTellsTheVerdict
<1>2. BioInv /\ [BioNext]_bioVars => BioInv'
  BY BioStep
<1> QED
  BY <1>1, <1>2, BioInitial, PTL DEF BioSpec

\* And no script, run again or in another order, or after one that died, takes
\* anything back that the copy that counts has said.
THEOREM VerdictsAreKept == BioSpec => VerdictsAreNeverLost
<1>1. BioInv /\ [BioNext]_bioVars => BioInv'
  BY BioStep
<1>2. BioInv /\ [BioNext]_bioVars =>
          [\A s \in Strategies :
               Canonical(s) \notin {NoFile, Torn} =>
                   \/ Canonical(s)' = Torn
                   \/ /\ Canonical(s)' # NoFile
                      /\ IsPrefix(Canonical(s).validation, Canonical(s)'.validation)
                      /\ IsPrefix(Canonical(s).coverage, Canonical(s)'.coverage)
                      /\ Contains(Canonical(s).log, [run |-> 0, to |-> "retired"]) =>
                             Canonical(s)'.status = "retired"]_bioVars
  BY BioStep DEF Keeps
<1> QED
  BY <1>1, <1>2, BioInitial, PTL DEF BioSpec, VerdictsAreNeverLost

(***************************************************************************)
(* What may be known when: a cache is what its source offered at one        *)
(* moment, and an accessor tells the latest of it that was over.           *)
(***************************************************************************)
Observations == [at : Nat, taken : Nat]
Sound == {"funding", "coinbase", "btc"}

\* The instants of a window at which there is an observation, and the bars of it
\* that the pages left out.
Grid(c, from, to) == {t \in from..to : t % Spacing(c) = 0}
Missed(c, file, t) == c = "coinbase" /\ AtSeam(file, t)

\* The observations of a window, taken at one moment.
TakenAt(c, from, to, dropped, moment) ==
    {[at |-> t, taken |-> moment] :
        t \in {t \in Grid(c, from, to) : c = "coinbase" => Paged(from, to, t, dropped)}}

FileOf(c, file, moment) ==
    /\ file.from \in Nat /\ file.to \in Nat /\ file.to <= moment
    /\ \E dropped \in Ends : file.observations = TakenAt(c, file.from, file.to, dropped, moment)

\* Every observation of a window that is over when the window is has been taken.
Serves(c, file, w) ==
    \A t \in w.from..w.to :
        t % Spacing(c) = 0 /\ t + Interval(c) <= w.to => t \in Stamps(file) \/ Missed(c, file, t)

TimeInv ==
    /\ clock \in Nat /\ channel \in Channels
    /\ channel \in Sound =>
        /\ cached = Nothing \/ \E moment \in 0..clock : FileOf(channel, cached, moment)
        /\ window # Nothing =>
              /\ window.from \in Nat /\ window.to \in Nat
              /\ Serves(channel, cached, window)
              /\ \E moment \in 0..clock : FileOf(channel, cached, moment)
        /\ answer # Nothing =>
              /\ window # Nothing /\ answer.ts \in window.from..window.to
              /\ answer.used = Accessor(channel, cached, answer.ts)
              /\ answer.stored = AsOf(channel, cached, answer.ts)

LEMMA Intervals ==
    /\ Hour \in Nat \ {0}
    /\ \A c \in Sound : /\ Spacing(c) \in Nat \ {0}
                        /\ c = "funding" => Interval(c) = 0
                        /\ c # "funding" => Interval(c) = Hour /\ Spacing(c) = Hour
                        /\ \A at \in Nat : KnowableAt(c, at) = at + Interval(c)
  BY TimeAssumption DEF Sound, Spacing, Interval, KnowableAt, PublicationLag

(* The observations of a file. *)

LEMMA SeamsAreMissed ==
    ASSUME NEW file, NEW t, NEW dropped \in Ends, ~Paged(file.from, file.to, t, dropped), PageSpan \in Nat,
           IntoPage(file.from, t) \in Int
    PROVE  AtSeam(file, t)
  BY DEF Paged, AtSeam, Ends

LEMMA PageFacts ==
    /\ PageSpan \in Nat
    /\ \A from \in Nat : \A t \in Nat : IntoPage(from, t) \in Int
<1>1. PageBars \in Nat /\ Hour \in Nat \ {0}
  BY TimeAssumption
<1>2. \A a \in Nat, b \in Nat : a * b \in Nat
  OBVIOUS
<1>3. PageSpan \in Nat
  BY <1>1, <1>2 DEF PageSpan
<1>4. PageSpan + Hour \in Nat \ {0}
  BY <1>1, <1>3
<1>5. PICK step \in Nat \ {0} : step = PageSpan + Hour
  BY <1>4
<1>6. \A from \in Nat : \A t \in Nat : (t - from) % step \in Int
  OBVIOUS
<1> QED
  BY <1>3, <1>5, <1>6 DEF IntoPage

LEMMA FileFacts ==
    ASSUME NEW c \in Sound, NEW file, NEW moment \in Nat, FileOf(c, file, moment)
    PROVE  /\ file.observations \subseteq Observations
           /\ \A o, q \in file.observations : o.at = q.at => o = q
           /\ Stamps(file) \subseteq Grid(c, file.from, file.to)
           /\ \A t \in Grid(c, file.from, file.to) : t \in Stamps(file) \/ Missed(c, file, t)
           /\ \A o \in file.observations : o.taken = moment /\ o.at <= moment /\ o.at \in Stamps(file)
<1>0. PICK dropped \in Ends : file.observations = TakenAt(c, file.from, file.to, dropped, moment)
  BY DEF FileOf
<1> DEFINE G == Grid(c, file.from, file.to)
           T == {t \in G : c = "coinbase" => Paged(file.from, file.to, t, dropped)}
<1>1. /\ file.observations = {[at |-> t, taken |-> moment] : t \in T}
      /\ file.from \in Nat /\ file.to \in Nat /\ file.to <= moment
  BY <1>0 DEF FileOf, TakenAt
<1>2. T \subseteq G /\ \A t \in G : t \in Nat /\ t <= moment
  BY <1>1 DEF Grid
<1>8. \A t \in G : t \in T \/ Missed(c, file, t)
  <2> SUFFICES ASSUME NEW t \in G, t \notin T PROVE Missed(c, file, t)
    OBVIOUS
  <2>1. c = "coinbase" /\ ~Paged(file.from, file.to, t, dropped)
    OBVIOUS
  <2>2. PageSpan \in Nat /\ IntoPage(file.from, t) \in Int
    BY <1>1, <1>2, PageFacts
  <2> QED
    BY <2>1, <2>2, SeamsAreMissed DEF Missed
<1> HIDE DEF T, G
<1>3. \A o \in file.observations : o.at \in T /\ o.taken = moment /\ o = [at |-> o.at, taken |-> moment]
  BY <1>1
<1>4. \A t \in T : \E o \in file.observations : o.at = t
  <2> TAKE t \in T
  <2> DEFINE o == [at |-> t, taken |-> moment]
  <2>1. o \in file.observations /\ o.at = t
    BY <1>1
  <2> QED
    BY <2>1
<1>5. Stamps(file) = T
  BY <1>3, <1>4 DEF Stamps
<1>6. file.observations \subseteq Observations
  BY <1>2, <1>3 DEF Observations
<1>7. \A o, q \in file.observations : o.at = q.at => o = q
  BY <1>3
<1> QED
  BY <1>2, <1>3, <1>5, <1>6, <1>7, <1>8 DEF G

\* The first and the last of a set of instants.
LEMMA Extremes ==
    ASSUME NEW S, S \subseteq Nat, S # {}, NEW b \in Nat, \A x \in S : x <= b
    PROVE  /\ Min(S) \in S /\ \A x \in S : Min(S) <= x
           /\ Max(S) \in S /\ \A x \in S : x <= Max(S)
<1>1. \E n \in S : \A m \in S : n <= m
  BY LeastNatural
<1>2. \E n \in S : \A m \in S : n >= m
  <2>1. PICK n \in S : \A m \in S : m <= n
    BY GreatestNatural
  <2> QED
    BY <2>1
<1>3. Min(S) \in S /\ \A x \in S : Min(S) <= x
  BY <1>1 DEF Min
<1>4. Max(S) \in S /\ \A x \in S : Max(S) >= x
  BY <1>2 DEF Max
<1> QED
  BY <1>3, <1>4

LEMMA NothingInEmpty == \A i : AtOrBefore({}, i) = Nothing
  BY DEF AtOrBefore

LEMMA Latest ==
    ASSUME NEW O, O \subseteq Observations, NEW i \in Int
    PROVE  \/ AtOrBefore(O, i) = Nothing /\ \A o \in O : ~(o.at <= i)
           \/ /\ AtOrBefore(O, i) \in O /\ AtOrBefore(O, i).at <= i
              /\ \A q \in O : q.at <= i => q.at <= AtOrBefore(O, i).at
<1> DEFINE past == {o \in O : o.at <= i}
<1>1. AtOrBefore(O, i) = IF past = {} THEN Nothing ELSE CHOOSE o \in past : \A q \in past : q.at <= o.at
  BY DEF AtOrBefore
<1>2. \A o \in past : o \in O /\ o.at \in Nat /\ o.at <= i
  BY DEF Observations
<1>3. \A o \in O : o.at <= i => o \in past
  OBVIOUS
<1> HIDE DEF past
<1>4. CASE past = {}
  BY <1>1, <1>3, <1>4
<1>5. CASE past # {}
  <2> DEFINE S == {o.at : o \in past}
  <2>1. i \in Nat
    BY <1>2, <1>5
  <2>2. S \subseteq Nat /\ S # {} /\ \A x \in S : x <= i
    BY <1>2, <1>5
  <2> HIDE DEF S
  <2>3. PICK n \in S : \A m \in S : m <= n
    BY <2>1, <2>2, GreatestNatural
  <2>4. \E o \in past : \A q \in past : q.at <= o.at
    BY <2>3 DEF S
  <2> DEFINE r == AtOrBefore(O, i)
  <2>5. r \in past /\ \A q \in past : q.at <= r.at
    BY <1>1, <1>5, <2>4
  <2> QED
    BY <1>2, <1>3, <2>5
<1> QED
  BY <1>4, <1>5

\* There is one latest observation.
LEMMA LatestIs ==
    ASSUME NEW O, O \subseteq Observations, \A o, q \in O : o.at = q.at => o = q, NEW i \in Int,
           NEW r \in O, r.at <= i, \A q \in O : q.at <= i => q.at <= r.at
    PROVE  AtOrBefore(O, i) = r
<1>1. \A q \in O : q.at \in Nat
  BY DEF Observations
<1> DEFINE a == AtOrBefore(O, i)
<1>2. a \in O /\ a.at <= i /\ \A q \in O : q.at <= i => q.at <= a.at
  BY Latest
<1> HIDE DEF a
<1>3. a.at = r.at
  BY <1>1, <1>2
<1>4. a = r
  BY <1>2, <1>3
<1> QED
  BY <1>4 DEF a

(* The caches. *)

LEMMA FetchedServes ==
    ASSUME TimeInv, channel \in Sound, NEW from \in Nat, NEW to \in 0..clock,
           NEW dropped \in Ends, NEW file, file = LoadOrFetch(channel, from, to, dropped)
    PROVE  /\ \E moment \in 0..clock : FileOf(channel, file, moment)
           /\ Serves(channel, file, [from |-> from, to |-> to])
<1>0. clock \in Nat /\ to \in Nat /\ to <= clock
  BY DEF TimeInv
<1>serves. ASSUME NEW moment \in 0..clock, FileOf(channel, file, moment),
                  \A t \in from..to : t % Spacing(channel) = 0 /\ t + Interval(channel) <= to =>
                        t \in file.from..file.to
           PROVE  Serves(channel, file, [from |-> from, to |-> to])
  <2>1. moment \in Nat
    BY <1>0
  <2>2. \A t \in Grid(channel, file.from, file.to) : t \in Stamps(file) \/ Missed(channel, file, t)
    BY <1>serves, <2>1, FileFacts
  <2> QED
    BY <1>serves, <2>2 DEF Serves, Grid
<1>1. CASE Covers(channel, cached, from, to)
  <2>1. file = cached
    BY <1>1 DEF LoadOrFetch
  <2>2. PICK moment \in 0..clock : FileOf(channel, file, moment)
    BY <1>1, <2>1 DEF TimeInv, Covers
  <2>3. moment \in Nat /\ file.from \in Nat /\ file.to \in Nat
    BY <1>0, <2>2 DEF FileOf
  <2>4. CASE channel = "funding"
    <3>1. file.from <= from /\ file.to >= to
      BY <1>1, <2>1, <2>4 DEF Covers
    <3>2. \A t \in from..to : t \in file.from..file.to
      BY <1>0, <2>3, <3>1
    <3> QED
      BY <1>serves, <2>2, <3>2
  <2>5. CASE channel = "coinbase"
    <3>1. file.observations # {} /\ Min(Stamps(file)) <= from /\ Max(Stamps(file)) >= to - Hour
      BY <1>1, <2>1, <2>5 DEF Covers
    <3>2. /\ Stamps(file) \subseteq {t \in file.from..file.to : t % Spacing(channel) = 0}
          /\ \A o \in file.observations : o.at \in Stamps(file)
      BY <2>2, <2>3, FileFacts DEF Grid
    <3>3. Stamps(file) \subseteq Nat /\ Stamps(file) # {} /\ \A x \in Stamps(file) : x <= file.to /\ file.from <= x
      BY <2>3, <3>1, <3>2
    <3>4. Min(Stamps(file)) \in Stamps(file) /\ Max(Stamps(file)) \in Stamps(file)
      BY <2>3, <3>3, Extremes
    <3> DEFINE first == Min(Stamps(file))
               last == Max(Stamps(file))
    <3>5. file.from <= first /\ first \in Nat /\ last \in Nat /\ last <= file.to /\ first <= from /\ last >= to - Hour
      BY <3>1, <3>3, <3>4
    <3> HIDE DEF first, last
    <3>6. Hour \in Nat /\ Interval(channel) = Hour
      BY <2>5, Intervals
    <3>7. \A t \in from..to : t + Interval(channel) <= to => t \in file.from..file.to
      BY <1>0, <2>3, <3>5, <3>6
    <3> QED
      BY <1>serves, <2>2, <3>7
  <2>6. channel # "btc"
    BY <1>1 DEF Covers
  <2> QED
    BY <2>2, <2>4, <2>5, <2>6 DEF Sound
<1>2. CASE ~Covers(channel, cached, from, to)
  <2>1. channel # "etf"
    BY DEF Sound
  <2>2. file = [observations |-> Offered(channel, from, to, dropped), from |-> from, to |-> to]
    BY <1>2, <2>1 DEF LoadOrFetch
  <2>3. {t \in from..to : /\ t % Spacing(channel) = 0 /\ t <= clock
                          /\ channel = "etf" => t + Day <= clock
                          /\ channel = "coinbase" => Paged(from, to, t, dropped)}
        = {t \in Grid(channel, from, to) : channel = "coinbase" => Paged(from, to, t, dropped)}
    BY <1>0, <2>1 DEF Grid
  <2>4. Offered(channel, from, to, dropped) = TakenAt(channel, from, to, dropped, clock)
    BY <2>3 DEF Offered, TakenAt
  <2>5. FileOf(channel, file, clock) /\ clock \in 0..clock
    BY <1>0, <2>2, <2>4 DEF FileOf
  <2> QED
    BY <1>serves, <2>2, <2>5
<1> QED
  BY <1>1, <1>2

(* The answers. *)

LEMMA TimeInitial == TimeInit => TimeInv
  BY DEF TimeInit, TimeInv

LEMMA TimeStep == ASSUME TimeInv, [TimeNext]_timeVars PROVE TimeInv'
<1>types. clock \in Nat /\ channel \in Channels
  BY DEF TimeInv
<1>1. CASE StartReplay
  <2>1. PICK to \in 0..clock, dropped \in Ends :
          LET from == IF to < Lookback THEN 0 ELSE to - Lookback
          IN window' = [from |-> from, to |-> to] /\ cached' = LoadOrFetch(channel, from, to, dropped)
    BY <1>1 DEF StartReplay
  <2> DEFINE from == IF to < Lookback THEN 0 ELSE to - Lookback
  <2>2. from \in Nat /\ to \in Nat
    BY <1>types, TimeAssumption
  <2>3. window' = [from |-> from, to |-> to] /\ cached' = LoadOrFetch(channel, from, to, dropped)
    BY <2>1
  <2>4. answer' = Nothing /\ clock' = clock /\ channel' = channel
    BY <1>1 DEF StartReplay
  <2> HIDE DEF from
  <2>5. channel \in Sound => /\ \E moment \in 0..clock : FileOf(channel, cached', moment)
                             /\ Serves(channel, cached', [from |-> from, to |-> to])
    BY <2>2, <2>3, FetchedServes
  <2> QED
    BY <1>types, <2>2, <2>3, <2>4, <2>5 DEF TimeInv
<1>2. CASE Ask
  <2>1. PICK ts \in window.from..window.to :
          answer' = [ts |-> ts, used |-> Accessor(channel, cached, ts), stored |-> AsOf(channel, cached, ts)]
    BY <1>2 DEF Ask
  <2>2. window # Nothing /\ UNCHANGED <<clock, channel, cached, window>>
    BY <1>2 DEF Ask
  <2>3. /\ answer'.ts = ts /\ answer'.used = Accessor(channel, cached, ts)
        /\ answer'.stored = AsOf(channel, cached, ts)
    BY <2>1
  <2> QED
    BY <2>1, <2>2, <2>3 DEF TimeInv
<1>3. CASE Tick
  <2>1. clock' = clock + 1 /\ UNCHANGED <<channel, cached, window, answer>>
    BY <1>3 DEF Tick
  <2>2. \A m \in 0..clock : m \in 0..clock'
    BY <1>types, <2>1
  <2>3. clock' \in Nat
    BY <1>types, <2>1
  <2> QED
    BY <2>1, <2>2, <2>3 DEF TimeInv
<1>4. CASE UNCHANGED timeVars
  BY <1>4 DEF timeVars, TimeInv
<1> QED
  BY <1>1, <1>2, <1>3, <1>4 DEF TimeNext

\* What an accessor answers from a file, and the feature store with it.
LEMMA AnswersAreSound ==
    ASSUME NEW c \in Sound, NEW file, NEW moment \in Nat, FileOf(c, file, moment), NEW ts \in Nat,
           NEW known, known = {o \in file.observations : KnowableAt(c, o.at) <= ts /\ Defined(c, file, o)}
    PROVE  /\ Accessor(c, file, ts) = AtOrBefore(known, ts)
           /\ AsOf(c, file, ts) # Nothing => AsOf(c, file, ts) = Accessor(c, file, ts)
           /\ Accessor(c, file, ts) # Nothing => Accessor(c, file, ts) \in file.observations
<1> DEFINE O == file.observations
           held == ts - Interval(c)
<1>1. /\ O \subseteq Observations
      /\ \A o, q \in O : o.at = q.at => o = q
      /\ \A o \in O : o.at \in Nat /\ o.at \in Stamps(file) /\ o # Nothing
  BY FileFacts, TimeAssumption DEF Observations
<1>2. /\ Interval(c) \in Nat /\ held \in Int /\ \A o \in O : KnowableAt(c, o.at) = o.at + Interval(c)
      /\ \A o \in O : o.at <= held <=> KnowableAt(c, o.at) <= ts
      /\ \A o \in O : o.at <= held => o.at <= ts
  <2>1. Interval(c) \in Nat
    BY Intervals
  <2>2. \A o \in O : KnowableAt(c, o.at) = o.at + Interval(c)
    BY <1>1, Intervals
  <2> DEFINE d == Interval(c)
  <2>3. d \in Nat /\ held = ts - d /\ \A o \in O : o.at \in Nat /\ KnowableAt(c, o.at) = o.at + d
    BY <1>1, <2>1, <2>2
  <2> HIDE DEF d, O, held
  <2>4. /\ d \in Nat /\ held \in Int /\ \A o \in O : KnowableAt(c, o.at) = o.at + d
        /\ \A o \in O : o.at <= held <=> KnowableAt(c, o.at) <= ts
        /\ \A o \in O : o.at <= held => o.at <= ts
    BY <2>3
  <2> QED
    BY <2>4 DEF d
<1>3. /\ known \subseteq O /\ \A o \in O : o \in known <=> o.at <= held /\ Defined(c, file, o)
  BY <1>2
<1> DEFINE late == AtOrBefore(O, held)
<1>4. \/ late = Nothing /\ \A o \in O : ~(o.at <= held)
      \/ /\ late \in O /\ late.at <= held /\ \A q \in O : q.at <= held => q.at <= late.at
  BY <1>1, <1>2, Latest
<1>5. Accessor(c, file, ts) = IF late # Nothing /\ ~Defined(c, file, late) THEN Nothing ELSE late
  <2>1. CASE c = "funding"
    <3>1. Interval(c) = 0 /\ held = ts /\ Defined(c, file, late)
      BY <2>1, Intervals DEF Defined
    <3> QED
      BY <2>1, <3>1 DEF Accessor, RateAt
  <2>2. CASE c = "coinbase"
    <3>1. Interval(c) = Hour /\ Defined(c, file, late)
      BY <2>2, Intervals DEF Defined
    <3> QED
      BY <2>2, <3>1 DEF Accessor, CloseAt
  <2>3. CASE c = "btc"
    <3>1. Interval(c) = Hour
      BY <2>3, Intervals
    <3> QED
      BY <2>3, <3>1 DEF Accessor, ThrustAt
  <2> QED
    BY <2>1, <2>2, <2>3 DEF Sound
<1> DEFINE first == Min(Stamps(file)) + Hour
<1>6. \A o \in O : Defined(c, file, o) <=> (c = "btc" => o.at >= first)
  BY DEF Defined
<1>7. O # {} => first \in Int
  <2> SUFFICES ASSUME O # {} PROVE first \in Int
    OBVIOUS
  <2>1. file.to \in Nat /\ file.from \in Nat /\ Stamps(file) \subseteq {t \in file.from..file.to : t % Spacing(c) = 0}
    BY FileFacts DEF FileOf, Grid
  <2>2. Stamps(file) \subseteq Nat /\ Stamps(file) # {} /\ \A x \in Stamps(file) : x <= file.to
    BY <1>1, <2>1
  <2>3. Min(Stamps(file)) \in Nat
    BY <2>1, <2>2, Extremes
  <2> QED
    BY <2>3, TimeAssumption
<1> HIDE DEF late, O, held, first
\* The latest that is over: when it is not defined, nothing earlier is.
<1>8. AtOrBefore(known, ts) = IF late # Nothing /\ ~Defined(c, file, late) THEN Nothing ELSE late
  <2>1. known \subseteq Observations /\ \A o, q \in known : o.at = q.at => o = q
    BY <1>1, <1>3
  <2>2. CASE late = Nothing /\ \A o \in O : ~(o.at <= held)
    <3>1. known = {}
      BY <1>3, <2>2
    <3> QED
      BY <2>2, <3>1, NothingInEmpty
  <2>3. CASE late \in O /\ late.at <= held /\ \A q \in O : q.at <= held => q.at <= late.at
    <3>1. CASE Defined(c, file, late)
      <4>1. late \in known /\ late.at <= ts /\ \A q \in known : q.at <= ts => q.at <= late.at
        BY <1>2, <1>3, <2>3, <3>1
      <4> QED
        BY <2>1, <3>1, <4>1, LatestIs
    <3>2. CASE ~Defined(c, file, late)
      <4>1. late # Nothing /\ c = "btc" /\ ~(late.at >= first) /\ first \in Int
        BY <1>1, <1>6, <1>7, <2>3, <3>2
      <4>2. ASSUME NEW q \in known PROVE FALSE
        <5>1. q \in O /\ q.at <= late.at /\ q.at >= first /\ q.at \in Nat /\ late.at \in Nat
          BY <1>1, <1>3, <1>6, <2>3, <4>1
        <5> QED
          BY <4>1, <5>1
      <4>3. known = {}
        BY <4>2
      <4> QED
        BY <3>2, <4>1, <4>3, NothingInEmpty
    <3> QED
      BY <3>1, <3>2
  <2> QED
    BY <1>4, <2>2, <2>3
<1>9. AsOf(c, file, ts) # Nothing => AsOf(c, file, ts) = Accessor(c, file, ts)
  <2> DEFINE o == AtOrBefore(O, ts)
  <2>1. AsOf(c, file, ts) = (LET r == IF o # Nothing /\ ~Defined(c, file, o) THEN Nothing ELSE o
                             IN  IF r = Nothing \/ KnowableAt(c, r.at) > ts THEN Nothing ELSE r)
    BY DEF AsOf, Resolved, O
  <2>2. \/ o = Nothing
        \/ /\ o \in O /\ o.at <= ts /\ \A q \in O : q.at <= ts => q.at <= o.at
    BY <1>1, Latest
  <2> HIDE DEF o
  <2> SUFFICES ASSUME AsOf(c, file, ts) # Nothing PROVE AsOf(c, file, ts) = Accessor(c, file, ts)
    OBVIOUS
  <2>3. /\ o # Nothing /\ Defined(c, file, o) /\ AsOf(c, file, ts) = o /\ ~(KnowableAt(c, o.at) > ts)
    BY <2>1
  <2>4. o \in O /\ o.at <= held /\ \A q \in O : q.at <= held => q.at <= o.at
    <3>1. o \in O /\ \A q \in O : q.at <= ts => q.at <= o.at
      BY <2>2, <2>3
    <3>2. o.at + Interval(c) \in Nat /\ KnowableAt(c, o.at) = o.at + Interval(c)
      BY <1>1, <1>2, <3>1
    <3>3. KnowableAt(c, o.at) <= ts
      BY <2>3, <3>2
    <3> QED
      BY <1>2, <3>1, <3>3
  <2>5. late = o
    BY <1>1, <1>2, <2>4, LatestIs DEF late
  <2> QED
    BY <1>5, <2>3, <2>5
<1> QED
  BY <1>4, <1>5, <1>8, <1>9 DEF O

\* A generator that replays any instant of any window is told the latest
\* observation of its cache that was over by then, whichever caches were kept
\* and whenever they were fetched; nothing that was due is missing but for the
\* bars at the seams of Coinbase's pages, the feature store does not contradict
\* it, and only the last bar of a cache may not be final.
THEOREM NothingIsKnownEarly == TimeSpec => []NothingBeforeItsTime
<1>1. TimeInv => NothingBeforeItsTime
  <2> SUFFICES ASSUME TimeInv, answer # Nothing, channel \in Sound PROVE
        LET ts == answer.ts
            known == {o \in cached.observations :
                         KnowableAt(channel, o.at) <= ts /\ Defined(channel, cached, o)}
            due == {t \in window.from..ts : t % Spacing(channel) = 0 /\ KnowableAt(channel, t) <= ts}
        IN /\ answer.used = AtOrBefore(known, ts)
           /\ \A t \in due : t \in Stamps(cached) \/ (channel = "coinbase" /\ AtSeam(cached, t))
           /\ answer.stored # Nothing => answer.stored = answer.used
           /\ answer.used # Nothing =>
                  \/ answer.used.taken >= KnowableAt(channel, answer.used.at)
                  \/ answer.used.at = Max(Stamps(cached))
    BY DEF NothingBeforeItsTime, Sound
  <2> DEFINE ts == answer.ts
             known == {o \in cached.observations :
                         KnowableAt(channel, o.at) <= ts /\ Defined(channel, cached, o)}
             due == {t \in window.from..ts : t % Spacing(channel) = 0 /\ KnowableAt(channel, t) <= ts}
  <2>1. /\ window.from \in Nat /\ window.to \in Nat /\ ts \in window.from..window.to
        /\ Serves(channel, cached, window) /\ answer.used = Accessor(channel, cached, ts)
        /\ answer.stored = AsOf(channel, cached, ts)
    BY DEF TimeInv
  <2>2. PICK moment \in Nat : FileOf(channel, cached, moment)
    BY DEF TimeInv
  <2>3. ts \in Nat /\ ts <= window.to
    BY <2>1
  <2> HIDE DEF ts
  <2>4. /\ answer.used = AtOrBefore(known, ts)
        /\ answer.stored # Nothing => answer.stored = answer.used
        /\ answer.used # Nothing => answer.used \in cached.observations
    <3>1. known = {o \in cached.observations : KnowableAt(channel, o.at) <= ts /\ Defined(channel, cached, o)}
      OBVIOUS
    <3> HIDE DEF known
    <3> QED
      BY <2>1, <2>2, <2>3, <3>1, AnswersAreSound
  <2>5. \A t \in due : t \in Stamps(cached) \/ (channel = "coinbase" /\ AtSeam(cached, t))
    <3> SUFFICES ASSUME NEW t \in due PROVE t \in Stamps(cached) \/ Missed(channel, cached, t)
      BY DEF Missed
    <3>1. t \in Nat /\ t \in window.from..window.to /\ t % Spacing(channel) = 0 /\ KnowableAt(channel, t) <= ts
      BY <2>1, <2>3
    <3>2. KnowableAt(channel, t) = t + Interval(channel) /\ Interval(channel) \in Nat
      BY <3>1, Intervals DEF Sound
    <3>3. t + Interval(channel) <= window.to
      BY <2>1, <2>3, <3>1, <3>2
    <3> QED
      BY <2>1, <3>1, <3>3 DEF Serves
  <2>6. answer.used # Nothing =>
                  \/ answer.used.taken >= KnowableAt(channel, answer.used.at)
                  \/ answer.used.at = Max(Stamps(cached))
    <3> SUFFICES ASSUME answer.used # Nothing
                 PROVE  answer.used.taken >= KnowableAt(channel, answer.used.at)
                        \/ answer.used.at = Max(Stamps(cached))
      OBVIOUS
    <3> DEFINE o == answer.used
               S == Stamps(cached)
               last == Max(S)
    <3>1. /\ o \in cached.observations /\ o.taken = moment /\ o.at <= moment /\ o.at \in S /\ o.at \in Nat
          /\ S \subseteq {t \in cached.from..cached.to : t % Spacing(channel) = 0}
      BY <2>2, <2>4, FileFacts DEF Observations, Grid
    <3>2. cached.from \in Nat /\ cached.to \in Nat /\ cached.to <= moment
      BY <2>2 DEF FileOf
    <3>3. /\ KnowableAt(channel, o.at) = o.at + Interval(channel)
          /\ channel = "funding" => Interval(channel) = 0
          /\ channel # "funding" => Interval(channel) = Hour /\ Spacing(channel) = Hour
          /\ Hour \in Nat \ {0}
      BY <3>1, Intervals
    <3>4. S \subseteq Nat /\ S # {} /\ \A x \in S : x <= cached.to
      BY <3>1, <3>2
    <3> HIDE DEF S
    <3>5. last \in S /\ o.at <= last
      BY <3>1, <3>2, <3>4, Extremes
    <3> HIDE DEF last
    <3>6. CASE channel = "funding"
      BY <3>1, <3>3, <3>6
    <3>7. CASE channel # "funding" /\ o.at # last
      <4>1. last \in Nat /\ last % Hour = 0 /\ o.at % Hour = 0 /\ o.at < last /\ last <= moment
        BY <3>1, <3>2, <3>3, <3>4, <3>5, <3>7
      <4>2. o.at + Hour <= last
        BY <3>1, <3>3, <4>1, Spaced
      <4>3. o.at + Hour <= moment
        BY <3>1, <3>3, <4>1, <4>2
      <4> QED
        BY <3>1, <3>3, <3>7, <4>3
    <3> QED
      BY <3>6, <3>7 DEF last, S
  <2> QED
    BY <2>4, <2>5, <2>6 DEF ts
<1> QED
  BY <1>1, TimeInitial, TimeStep, PTL DEF TimeSpec

(***************************************************************************)
(* That the report and the gate are of one mind, for any number of         *)
(* sessions and trades.  Of the verdicts there is only arithmetic to know, *)
(* of the alerts GateInv: while a tier waits, what was told of it is       *)
(* flagged, and once it trades nothing more is told until the process      *)
(* ends.                                                                   *)
(***************************************************************************)
Kinds == {"degraded", "unready", "start"}

AlertTypes ==
    /\ alerts \in [Kinds -> Nat]
    /\ runner \in {"down", "waiting", "checked"}

ToldAreFlagged ==
    /\ alerts["degraded"] > 0 => "degradation" \in alerted
    /\ alerts["unready"] > 0 => "promotion" \in alerted
    /\ alerts["start"] > 0 => {"degradation", "promotion"} \subseteq alerted

GateInv ==
    /\ records \in Seq(Seq(Outcomes))
    /\ AlertTypes
    /\ runner = "down" => alerted = {} /\ \A kind \in Kinds : alerts[kind] = 0
    /\ runner = "checked" => ~tierActive
    /\ ~tierActive => ToldAreFlagged
    /\ \A kind \in Kinds : alerts[kind] <= 1
    /\ alerts["start"] > 0 => alerts["degraded"] = 0 /\ alerts["unready"] = 0

LEMMA GateInitial == PromInit => GateInv
<1> SUFFICES ASSUME PromInit PROVE GateInv
  OBVIOUS
<1>1. records \in Seq(Seq(Outcomes)) /\ runner = "down" /\ ~tierActive
  BY DEF PromInit
<1>2. /\ alerts \in [Kinds -> Nat] /\ alerted = {}
      /\ alerts["degraded"] = 0 /\ alerts["unready"] = 0 /\ alerts["start"] = 0
  BY DEF PromInit, Kinds
<1> QED
  BY <1>1, <1>2 DEF GateInv, AlertTypes, ToldAreFlagged, Kinds

LEMMA AlertStep ==
    ASSUME GateInv, ~tierActive, runner # "down", records' = records, runner' = "waiting",
           Alert("degraded", "degradation") \/ Alert("unready", "promotion")
    PROVE  GateInv'
<1>1. PICK kind \in {"degraded", "unready"}, flag \in {"degradation", "promotion"} :
        /\ kind = "degraded" <=> flag = "degradation"
        /\ alerts' = [alerts EXCEPT ![kind] = IF flag \in alerted THEN @ ELSE @ + 1]
        /\ alerted' = alerted \cup {flag}
  BY DEF Alert
<1>2. CASE flag \in alerted
  <2>1. alerts' = alerts /\ alerted' = alerted
    BY <1>1, <1>2 DEF GateInv, AlertTypes, Kinds
  <2> QED
    BY <2>1 DEF GateInv, AlertTypes, ToldAreFlagged
<1>3. CASE flag \notin alerted
  <2>1. alerts[kind] = 0 /\ alerts["start"] = 0
    BY <1>1, <1>3 DEF GateInv, AlertTypes, ToldAreFlagged, Kinds
  <2>2. /\ alerts' \in [Kinds -> Nat] /\ alerts'[kind] = 1
        /\ \A other \in Kinds : other # kind => alerts'[other] = alerts[other]
    BY <1>1, <1>3, <2>1 DEF GateInv, AlertTypes, Kinds
  <2> QED
    BY <1>1, <2>1, <2>2 DEF GateInv, AlertTypes, ToldAreFlagged, Kinds
<1> QED
  BY <1>2, <1>3

LEMMA GateStep == GateInv /\ [PromNext]_gateVars => GateInv'
<1> SUFFICES ASSUME GateInv, [PromNext]_gateVars PROVE GateInv'
  OBVIOUS
<1>1. CASE UNCHANGED gateVars
  BY <1>1 DEF gateVars, GateInv, AlertTypes, ToldAreFlagged
<1>2. ASSUME NEW readable \in BOOLEAN, Start(readable) PROVE GateInv'
  <2>1. /\ records' = records /\ runner' = "waiting" /\ tierActive' \in BOOLEAN
        /\ alerted = {} /\ \A kind \in Kinds : alerts[kind] = 0
    BY <1>2 DEF Start, GateInv
  <2>2. CASE primary /\ ~tierActive'
    <3>1. /\ alerted' = {"degradation", "promotion"}
          /\ alerts' = [alerts EXCEPT !.start = 1]
      BY <1>2, <2>2 DEF Start
    <3>2. /\ alerts' \in [Kinds -> Nat]
          /\ alerts'["start"] = 1 /\ alerts'["degraded"] = 0 /\ alerts'["unready"] = 0
      BY <2>1, <3>1 DEF GateInv, AlertTypes, Kinds
    <3> QED
      BY <2>1, <3>1, <3>2 DEF GateInv, AlertTypes, ToldAreFlagged, Kinds
  <2>3. CASE ~(primary /\ ~tierActive')
    <3>1. alerted' = alerted /\ alerts' = alerts
      BY <1>2, <2>3 DEF Start
    <3> QED
      BY <2>1, <3>1 DEF GateInv, AlertTypes, ToldAreFlagged, Kinds
  <2> QED
    BY <2>2, <2>3
<1>3. ASSUME NEW readable \in BOOLEAN, CheckDemotion(readable) PROVE GateInv'
  <2>1. runner = "waiting" /\ ~tierActive /\ records' = records /\ tierActive' = tierActive
    BY <1>3 DEF CheckDemotion
  <2>2. CASE readable /\ IsDegraded
    <3>1. Alert("degraded", "degradation") /\ runner' = runner
      BY <1>3, <2>2 DEF CheckDemotion
    <3> QED
      BY <2>1, <3>1, AlertStep
  <2>3. CASE ~(readable /\ IsDegraded)
    <3>1. runner' = "checked" /\ alerted' = alerted /\ alerts' = alerts
      BY <1>3, <2>3 DEF CheckDemotion
    <3> QED
      BY <2>1, <3>1 DEF GateInv, AlertTypes, ToldAreFlagged
  <2> QED
    BY <2>2, <2>3
<1>4. ASSUME NEW readable \in BOOLEAN, CheckPromotion(readable) PROVE GateInv'
  <2>1. runner = "checked" /\ ~tierActive /\ runner' = "waiting" /\ records' = records
    BY <1>4 DEF CheckPromotion, GateInv
  <2>2. CASE tierActive'
    <3>1. alerts' = alerts
      BY <1>4, <2>2 DEF CheckPromotion
    <3> QED
      BY <2>1, <2>2, <3>1 DEF GateInv, AlertTypes
  <2>3. CASE ~tierActive' /\ readable /\ Blocked
    <3>1. Alert("unready", "promotion")
      BY <1>4, <2>3 DEF CheckPromotion
    <3> QED
      BY <2>1, <3>1, AlertStep
  <2>4. CASE ~tierActive' /\ ~(readable /\ Blocked)
    <3>1. alerts' = alerts /\ alerted' = alerted
      BY <1>4, <2>4 DEF CheckPromotion
    <3> QED
      BY <2>1, <2>4, <3>1 DEF GateInv, AlertTypes, ToldAreFlagged
  <2> QED
    BY <2>2, <2>3, <2>4
<1>5. ASSUME Stops PROVE GateInv'
  <2>1. /\ records' = records /\ runner' = "down" /\ tierActive' = FALSE /\ alerted' = {}
        /\ alerts' = [kind \in DOMAIN alerts |-> 0] /\ DOMAIN alerts = Kinds
    BY <1>5 DEF Stops, GateInv, AlertTypes
  <2>2. alerts' \in [Kinds -> Nat] /\ \A kind \in Kinds : alerts'[kind] = 0
    BY <2>1
  <2> QED
    BY <2>1, <2>2 DEF GateInv, AlertTypes, ToldAreFlagged, Kinds
<1>6. ASSUME OthersMove PROVE GateInv'
  BY <1>6 DEF OthersMove, GateInv, AlertTypes, ToldAreFlagged
<1>7. ASSUME NewSession PROVE GateInv'
  <2>1. records' \in Seq(Seq(Outcomes))
    BY <1>7 DEF NewSession, GateInv
  <2> QED
    BY <1>7, <2>1 DEF NewSession, GateInv, AlertTypes, ToldAreFlagged
<1>8. ASSUME NEW s \in DOMAIN records, NEW t \in Outcomes, LogTrade(s, t) PROVE GateInv'
  <2>1. records' \in Seq(Seq(Outcomes))
    <3>1. records[s] \in Seq(Outcomes)
      BY DEF GateInv
    <3>2. Append(records[s], t) \in Seq(Outcomes)
      BY <3>1
    <3>3. records' = [records EXCEPT ![s] = Append(records[s], t)]
      BY <1>8 DEF LogTrade
    <3> QED
      BY <3>2, <3>3, ReplaceFacts, Zenon DEF GateInv
  <2> QED
    BY <1>8, <2>1 DEF LogTrade, GateInv, AlertTypes, ToldAreFlagged
<1> QED
  BY <1>1, <1>2, <1>3, <1>4, <1>5, <1>6, <1>7, <1>8 DEF PromNext, Poll

(***************************************************************************)
(* The verdicts.                                                           *)
(***************************************************************************)
LEMMA LogsAreFinite ==
    ASSUME GateInv
    PROVE  /\ IsFiniteSet(Pooled)
           /\ \A k \in Pooled : Pnl(k) \in Int
           /\ \A s \in DOMAIN records : LogOf(s) \subseteq Pooled
           /\ Len(records) = 1 => Pooled = LogOf(1)
<1>1. /\ Len(records) \in Nat /\ DOMAIN records = 1..Len(records)
      /\ \A s \in DOMAIN records : records[s] \in Seq(Outcomes)
  BY DEF GateInv
<1>2. ASSUME NEW s \in DOMAIN records PROVE IsFiniteSet(LogOf(s))
  <2>1. PICK n \in Nat : DOMAIN records[s] = 1..n
    BY <1>1
  <2>2. IsFiniteSet(1..n)
    BY FS_Interval
  <2>3. IsFiniteSet({s})
    BY FS_Singleton
  <2> QED
    BY <2>1, <2>2, <2>3, FS_Product DEF LogOf
<1>3. IsFiniteSet(Pooled)
  <2> DEFINE L == [s \in DOMAIN records |-> LogOf(s)]
             Logs == {L[s] : s \in DOMAIN records}
  <2>1. IsFiniteSet(DOMAIN records)
    BY <1>1, FS_Interval
  <2>2. IsFiniteSet(Logs)
    <3> HIDE DEF L
    <3> QED
      BY <2>1, FiniteImage
  <2>3. \A S \in Logs : IsFiniteSet(S)
    BY <1>2
  <2>4. Pooled = UNION Logs
    BY DEF Pooled
  <2> HIDE DEF Logs
  <2> QED
    BY <2>2, <2>3, <2>4, FS_UNION
<1>4. ASSUME NEW k \in Pooled PROVE Pnl(k) \in Int
  <2>1. PICK s \in DOMAIN records : k \in LogOf(s)
    BY DEF Pooled
  <2>2. PICK i \in DOMAIN records[s] : k = <<s, i>>
    BY <2>1 DEF LogOf
  <2>3. records[s][i] \in Outcomes
    BY <1>1
  <2> QED
    BY <2>2, <2>3, PromotionAssumption DEF Pnl, TradeAt
<1>5. \A s \in DOMAIN records : LogOf(s) \subseteq Pooled
  BY DEF Pooled
<1>6. ASSUME Len(records) = 1 PROVE Pooled = LogOf(1)
  <2>1. DOMAIN records = {1}
    BY <1>1, <1>6
  <2> QED
    BY <2>1 DEF Pooled
<1> QED
  BY <1>3, <1>4, <1>5, <1>6

\* Wins and losses are no negative numbers.
LEMMA StatisticsTypes ==
    ASSUME GateInv, NEW log, log \subseteq Pooled
    PROVE  Cardinality(log) \in Nat /\ WinsSum(log) \in Nat /\ LossesSum(log) \in Nat
<1>1. IsFiniteSet(log) /\ \A k \in log : Pnl(k) \in Int
  BY LogsAreFinite, FS_Subset
<1>2. Cardinality(log) \in Nat
  BY <1>1, FS_CardinalityType
<1>3. WinsSum(log) \in Nat
  <2> DEFINE S == {k \in log : Pnl(k) > 0}
             f == [k \in S |-> Pnl(k)]
  <2>1. IsFiniteSet(S) /\ DOMAIN f = S /\ \A k \in S : f[k] \in Nat
    BY <1>1, FS_Subset
  <2>2. WinsSum(log) = SumFunctionOnSet(f, S)
    BY DEF WinsSum, Total, SumFunction
  <2> HIDE DEF S, f
  <2> QED
    BY <2>1, <2>2, SumNatural
<1>4. LossesSum(log) \in Nat
  <2> DEFINE S == {k \in log : Pnl(k) <= 0}
             f == [k \in S |-> Pnl(k)]
  <2>1. IsFiniteSet(S) /\ DOMAIN f = S /\ \A k \in S : f[k] \in Int /\ f[k] <= 0
    BY <1>1, FS_Subset
  <2>2. LossesSum(log) = -SumFunctionOnSet(f, S)
    BY DEF LossesSum, Total, SumFunction
  <2> HIDE DEF S, f
  <2>3. SumFunctionOnSet(f, S) \in Int /\ SumFunctionOnSet(f, S) <= 0
    BY <2>1, SumOfLosses
  <2> QED
    BY <2>2, <2>3
<1> QED
  BY <1>2, <1>3, <1>4

LEMMA NoDeficit ==
    ASSUME NEW w \in Nat, NEW l \in Nat, NEW pf, pf = [wins |-> w, losses |-> l]
    PROVE  PfDeficit(pf) = 0 <=> AtLeast(pf, 135)
<1>1. CASE AtLeast(pf, 135)
  BY <1>1 DEF PfDeficit
<1>2. CASE ~AtLeast(pf, 135) /\ l = 0
  BY <1>2 DEF PfDeficit
<1>3. CASE ~AtLeast(pf, 135) /\ l # 0
  <2>1. 100 * w < 135 * l /\ 100 * w \in Nat /\ l \in Nat \ {0}
    BY <1>3 DEF AtLeast, Infinite
  <2> DEFINE q == (100 * w) \div l
  <2>2. q \in Nat /\ l * q \in Nat /\ l * q <= 100 * w
    BY <2>1, Quotients
  <2>3. PfDeficit(pf) = 135 - q
    BY <1>3 DEF PfDeficit
  <2> HIDE DEF q
  <2>4. q < 135
    <3> SUFFICES ASSUME 135 <= q PROVE FALSE
      BY <2>2
    <3>1. PICK d \in Nat : q = 135 + d
      <4>1. q - 135 \in Nat /\ q = 135 + (q - 135)
        BY <2>2
      <4> QED
        BY <4>1
    <3>2. l * q = 135 * l + l * d /\ l * d \in Nat /\ 135 * l \in Nat
      BY <3>1
    <3> QED
      BY <2>1, <2>2, <3>2
  <2> QED
    BY <1>3, <2>2, <2>3, <2>4
<1> QED
  BY <1>1, <1>2, <1>3

LEMMA ReadyIsReady ==
    \A log, capital : Classify(log, capital) = "READY_FOR_LIVE" <=> IsReady(log, capital)
  BY DEF Classify

\* A log lacks nothing exactly when it is READY.
LEMMA NothingIsReady ==
    ASSUME GateInv, NEW log, log \subseteq Pooled
    PROVE  NothingNeeded(log) <=> IsReady(Genuine(log), Capital)
<1> DEFINE g == Genuine(log)
           n == Cardinality(g)
           pf == ProfitFactor(g)
           D == PromotionDistance(log)
<1>1. g \subseteq Pooled
  BY DEF Genuine
<1>2. n \in Nat /\ WinsSum(g) \in Nat /\ LossesSum(g) \in Nat /\ ReadyMinTrades \in Nat
  BY <1>1, StatisticsTypes, PromotionAssumption
<1>3. PfDeficit(pf) = 0 <=> AtLeast(pf, 135)
  BY <1>2, NoDeficit DEF ProfitFactor
<1>4. /\ DOMAIN D = {"trades_needed", "pf_deficit", "sharpe_deficit", "dd_overage"}
      /\ D["trades_needed"] = IF n >= ReadyMinTrades THEN 0 ELSE ReadyMinTrades - n
      /\ D["pf_deficit"] = PfDeficit(pf)
      /\ D["sharpe_deficit"] = IF SharpeIsOne(g) THEN 0 ELSE 1
      /\ D["dd_overage"] = IF DrawdownTooDeep(g, Capital) THEN 1 ELSE 0
  BY DEF PromotionDistance
<1>5. NothingNeeded(log) <=> \A gap \in DOMAIN D : D[gap] = 0
  BY DEF NothingNeeded
<1>6. IsReady(g, Capital) <=> /\ n >= ReadyMinTrades /\ AtLeast(pf, 135)
                              /\ SharpeIsOne(g) /\ ~DrawdownTooDeep(g, Capital)
  BY DEF IsReady
<1> HIDE DEF D, g, n, pf
<1>7. (\A gap \in DOMAIN D : D[gap] = 0) <=>
          /\ D["trades_needed"] = 0 /\ D["pf_deficit"] = 0
          /\ D["sharpe_deficit"] = 0 /\ D["dd_overage"] = 0
  BY <1>4
<1>8. D["trades_needed"] = 0 <=> n >= ReadyMinTrades
  <2>1. n \in Nat
    BY <1>2 DEF n
  <2> QED
    BY <1>2, <1>4, <2>1
<1>9. /\ D["sharpe_deficit"] = 0 <=> SharpeIsOne(g)
      /\ D["dd_overage"] = 0 <=> ~DrawdownTooDeep(g, Capital)
  BY <1>4
<1>10. D["pf_deficit"] = 0 <=> AtLeast(pf, 135)
  BY <1>3, <1>4
<1>11. NothingNeeded(log) <=> IsReady(g, Capital)
  BY <1>5, <1>6, <1>7, <1>8, <1>9, <1>10
<1> QED
  BY <1>11 DEF g

\* What is READY is not degraded, unless over the corrupt trades.
LEMMA ReadyIsNotDegraded ==
    ASSUME GateInv, ~Blocked, Spotless
    PROVE  ~IsDegraded
<1>1. Genuine(Pooled) = Pooled
  BY DEF Genuine, Spotless
<1>2. AtLeast(ProfitFactor(Pooled), 135)
  BY <1>1, ReadyIsReady DEF Blocked, Classification, IsReady
<1>3. PICK w \in Nat, l \in Nat : ProfitFactor(Pooled) = [wins |-> w, losses |-> l]
  BY StatisticsTypes DEF ProfitFactor
<1>4. l > 0 => 100 * w >= 135 * l
  BY <1>2, <1>3 DEF AtLeast, Infinite
<1>5. l > 0 => 100 * w >= 80 * l
  BY <1>4
<1> QED
  BY <1>3, <1>5 DEF IsDegraded, AtLeast

LEMMA GateAgrees == GateInv => VerdictsAgree
<1> SUFFICES ASSUME GateInv PROVE VerdictsAgree
  OBVIOUS
<1>1. ASSUME NEW s \in DOMAIN records PROVE s \in Pending <=> ~NothingNeeded(LogOf(s))
  <2>1. NothingNeeded(LogOf(s)) <=> IsReady(Genuine(LogOf(s)), Capital)
    BY LogsAreFinite, NothingIsReady
  <2>2. s \in Pending <=> Classify(Genuine(LogOf(s)), Capital) # "READY_FOR_LIVE"
    BY DEF Pending, SessionsAt, Reported
  <2> QED
    BY <2>1, <2>2, ReadyIsReady
<1>2. ASSUME Len(records) = 1 PROVE Classification = Reported(LogOf(1))
  <2>1. Len(records) * Capital = Capital /\ Pooled = LogOf(1)
    BY <1>2, LogsAreFinite, PromotionAssumption
  <2> QED
    BY <2>1 DEF Classification, Reported
<1>3. ~Blocked /\ Spotless => ~IsDegraded
  BY ReadyIsNotDegraded
<1>4. /\ alerts.degraded <= 1 /\ alerts.unready <= 1
      /\ alerts.start = 1 => alerts.degraded = 0 /\ alerts.unready = 0
  BY DEF GateInv, AlertTypes, Kinds
<1>5. Pending \subseteq DOMAIN records
  BY DEF Pending
<1>6. Pending = {s \in DOMAIN records : ~NothingNeeded(LogOf(s))}
  BY <1>1, <1>5
<1> QED
  BY <1>2, <1>3, <1>4, <1>6 DEF VerdictsAgree

\* The report, its lists and the gate agree on every template, whatever its
\* sessions have logged, and an obstacle is told once per run of the process.
THEOREM OneMind == PromInit /\ [][PromNext]_gateVars => []VerdictsAgree
<1>1. PromInit /\ [][PromNext]_gateVars => []GateInv
  BY GateInitial, GateStep, PTL
<1> QED
  BY <1>1, GateAgrees, PTL
=============================================================================
