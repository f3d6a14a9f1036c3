------------------------ MODULE OrderLifecycleProofs -----------------------
(***************************************************************************)
(* What OrderLifecycle guarantees for any set of orders, any number of     *)
(* concurrent reconciliation runs and any bound on failures and restarts.  *)
(***************************************************************************)
EXTENDS OrderLifecycle, TLAPS

(***************************************************************************)
(* Every step changes the variables within their types.                    *)
(***************************************************************************)

LEMMA TranslateType ==
    ASSUME NEW raw \in Live \cup Closed
    PROVE  Translate(raw) \in RowStatuses
  BY DEF Live, Closed, Translate, RowStatuses

LEMMA FaultType == faults \in 0..MaxFaults /\ Fault => faults' \in 0..MaxFaults
  BY BoundsAssumption DEF BoundsAssumption, Fault

LEMMA RestartType ==
    restarts \in 0..MaxRestarts /\ restarts < MaxRestarts /\ restarts' = restarts + 1
        => restarts' \in 0..MaxRestarts
  BY BoundsAssumption DEF BoundsAssumption

LEMMA HandlersContain ==
    "submit" \in Handlers /\ "monitor" \in Handlers /\ Reconcilers \subseteq Handlers
  BY DEF Handlers

LEMMA ValidNextType == ASSUME NEW s PROVE ValidNext(s) \subseteq RowStatuses
  BY DEF ValidNext, Transitions, RowStatuses

LEMMA TypeInit == Init => TypeOK
<1>1. 0 \in 0..MaxFaults /\ 0 \in 0..MaxRestarts
  BY BoundsAssumption DEF BoundsAssumption
<1>2. Init => loopOn \in BOOLEAN
  BY Zenon DEF Init
<1> QED
  BY <1>1, <1>2 DEF Init, TypeOK, FillSteps, SubSteps

LEMMA TypeNext == TypeOK /\ [Next]_vars => TypeOK'
<1>0. SUFFICES ASSUME TypeOK, [Next]_vars PROVE TypeOK'
  OBVIOUS
<1> USE DEF worldVars, rowVars, ledgerVars, monVars, recVars,
            fillVars, bounds
<1>fill. fill \in [Handlers -> [Orders -> FillSteps]]
  BY <1>0 DEF TypeOK
<1>trades. trades \in [Handlers -> [Orders -> Nat]]
  BY <1>0 DEF TypeOK
<1>booked. booked \in [Handlers -> [Orders -> Nat]]
  BY <1>0 DEF TypeOK
<1>status. status \in [Orders -> RowStatuses \cup {"none"}]
  BY <1>0 DEF TypeOK
<1>sub. sub \in [Orders -> SubSteps]
  BY <1>0 DEF TypeOK
<1>reply. reply \in [Handlers -> [Orders -> RowStatuses \cup {"none"}]]
  BY <1>0 DEF TypeOK
<1>exch. exch \in [Orders -> Live \cup Closed \cup {"none"}]
  BY <1>0 DEF TypeOK
<1>rec. rec \in [Reconcilers -> [Orders -> {"none", "queued", "filling", "mark"}]]
  BY <1>0 DEF TypeOK
<1>faults. faults \in 0..MaxFaults
  BY <1>0 DEF TypeOK
<1>1. ASSUME NEW o \in Orders, ExchangeMoves(o) PROVE TypeOK'
  BY <1>0, <1>1
     DEF TypeOK, SubSteps, FillSteps, ExchangeMoves, Live, Closed
<1>2. ASSUME NEW o \in Orders, SubmitVetoed(o) PROVE TypeOK'
  BY <1>0, <1>2
     DEF TypeOK, SubSteps, FillSteps, SubmitVetoed, RowStatuses
<1>3. ASSUME NEW o \in Orders, SubmitPersist(o) PROVE TypeOK'
  BY <1>0, <1>3, FaultType
     DEF TypeOK, SubSteps, FillSteps, SubmitPersist, SubmitFails, RowStatuses
<1>4. ASSUME NEW o \in Orders, SubmitSend(o) PROVE TypeOK'
  <2>1. reply' \in [Handlers -> [Orders -> RowStatuses \cup {"none"}]]
    BY <1>reply, <1>4, HandlersContain, TranslateType DEF SubmitSend, PlacementOutcomes, Live, Closed
  <2>2. exch' \in [Orders -> Live \cup Closed \cup {"none"}]
    BY <1>exch, <1>4 DEF SubmitSend, PlacementOutcomes, Live, Closed
  <2>3. faults' \in 0..MaxFaults
    BY <1>faults, <1>4, FaultType DEF SubmitSend
  <2>4. sub' \in [Orders -> SubSteps]
    BY <1>sub, <1>4 DEF SubSteps, SubmitSend
  <2> QED
    BY <1>0, <1>4, <2>1, <2>2, <2>3, <2>4 DEF TypeOK, SubmitSend
<1>5. ASSUME NEW o \in Orders, SubmitMarkRejected(o) PROVE TypeOK'
  BY <1>0, <1>5, FaultType
     DEF TypeOK, SubSteps, FillSteps, SubmitMarkRejected, SubmitFails, RowStatuses
<1>6. ASSUME NEW o \in Orders, SubmitMarkSubmitted(o) PROVE TypeOK'
  <2>1. extId' \subseteq Orders
    BY <1>0, <1>6 DEF TypeOK, SubmitMarkSubmitted, RowSubmitted
  <2>2. status' \in [Orders -> RowStatuses \cup {"none"}]
    BY <1>status, <1>6 DEF SubmitMarkSubmitted, RowSubmitted, RowStatuses
  <2>3. fill' \in [Handlers -> [Orders -> FillSteps]]
    BY <1>fill, <1>6, HandlersContain DEF FillSteps, SubmitMarkSubmitted, FirstFillStep
  <2>4. sub' \in [Orders -> SubSteps]
    BY <1>sub, <1>6 DEF SubSteps, SubmitMarkSubmitted, SubmitFails
  <2>5. faults' \in 0..MaxFaults
    BY <1>faults, <1>6, FaultType DEF SubmitMarkSubmitted, SubmitFails
  <2> QED
    BY <1>0, <1>6, <2>1, <2>2, <2>3, <2>4, <2>5 DEF TypeOK, SubmitMarkSubmitted
<1>7. ASSUME NEW o \in Orders, SubmitFillDone(o) PROVE TypeOK'
  BY <1>0, <1>7
     DEF TypeOK, SubSteps, FillSteps, SubmitFillDone
<1>8. ASSUME NEW o \in Orders, SubmitWatch(o) PROVE TypeOK'
  BY <1>0, <1>8
     DEF TypeOK, SubSteps, FillSteps, SubmitWatch
<1>9. ASSUME NEW o \in Orders, MonitorBegin(o) PROVE TypeOK'
  BY <1>0, <1>9, FaultType
     DEF TypeOK, SubSteps, FillSteps, MonitorBegin
<1>10. ASSUME NEW o \in Orders, MonitorPoll(o) PROVE TypeOK'
  BY <1>0, <1>10
     DEF TypeOK, SubSteps, FillSteps, MonitorPoll, FirstFillStep, Terminal, RowStatuses
<1>11. ASSUME NEW o \in Orders, MonitorTimesOut(o) PROVE TypeOK'
  BY <1>0, <1>11
     DEF TypeOK, SubSteps, FillSteps, MonitorTimesOut, MonitorEnds
<1>12. ASSUME NEW o \in Orders, MonitorMark(o) PROVE TypeOK'
  <2>1. reply["monitor"][o] \in RowStatuses \cup {"none"}
    BY <1>reply, HandlersContain
  <2>2. status' \in [Orders -> RowStatuses \cup {"none"}]
    BY <1>status, <1>12, <2>1 DEF MonitorMark
  <2> QED
    BY <1>0, <1>12, <2>2, FaultType DEF TypeOK, MonitorMark, MonitorEnds
<1>13. ASSUME NEW o \in Orders, MonitorPartial(o) PROVE TypeOK'
  BY <1>0, <1>13, FaultType
     DEF TypeOK, SubSteps, FillSteps, MonitorPartial, MonitorEnds, RowStatuses
<1>14. ASSUME NEW o \in Orders, MonitorFillDone(o) PROVE TypeOK'
  BY <1>0, <1>14
     DEF TypeOK, SubSteps, FillSteps, MonitorFillDone, MonitorEnds
<1>15. ASSUME NEW o \in Orders, MonitorStopped(o) PROVE TypeOK'
  BY <1>0, <1>15
     DEF TypeOK, SubSteps, FillSteps, MonitorStopped, MonitorEnds
<1>16. ASSUME NEW o \in Orders, CancelRead(o) PROVE TypeOK'
  BY <1>0, <1>16
     DEF TypeOK, SubSteps, FillSteps, CancelRead
<1>17. ASSUME NEW o \in Orders, CancelAtExchange(o) PROVE TypeOK'
  BY <1>0, <1>17, FaultType
     DEF TypeOK, SubSteps, FillSteps, CancelAtExchange, Closed
<1>18. ASSUME NEW o \in Orders, CancelStopMonitoring(o) PROVE TypeOK'
  BY <1>0, <1>18
     DEF TypeOK, SubSteps, FillSteps, CancelStopMonitoring, StopTasks
<1>19. ASSUME NEW o \in Orders, CancelMark(o) PROVE TypeOK'
  BY <1>0, <1>19, FaultType
     DEF TypeOK, SubSteps, FillSteps, CancelMark, RowStatuses
<1>20. ASSUME NEW h \in Handlers, NEW o \in Orders, FillSaveTrade(h, o) PROVE TypeOK'
  <2>1. fill' \in [Handlers -> [Orders -> FillSteps]]
    BY <1>fill, <1>20 DEF FillSteps, FillSaveTrade, FillAdvance, Interrupted, FillRaises
  <2>2. trades' \in [Handlers -> [Orders -> Nat]]
    BY <1>trades, <1>20 DEF FillSaveTrade
  <2>3. faults' \in 0..MaxFaults
    BY <1>faults, <1>20, FaultType DEF FillSaveTrade, FillRaises
  <2> QED
    BY <1>0, <1>20, <2>1, <2>2, <2>3 DEF TypeOK, FillSaveTrade
<1>21. ASSUME NEW h \in Handlers, NEW o \in Orders, FillMarkFilled(h, o) PROVE TypeOK'
  <2>1. fill' \in [Handlers -> [Orders -> FillSteps]]
    BY <1>fill, <1>21 DEF FillSteps, FillMarkFilled, FillAdvance, Interrupted, FillRaises
  <2>2. status' \in [Orders -> RowStatuses \cup {"none"}]
    BY <1>status, <1>21 DEF FillMarkFilled, RowStatuses
  <2>3. faults' \in 0..MaxFaults
    BY <1>faults, <1>21, FaultType DEF FillMarkFilled, FillRaises
  <2> QED
    BY <1>0, <1>21, <2>1, <2>2, <2>3 DEF TypeOK, FillMarkFilled
<1>22. ASSUME NEW h \in Handlers, NEW o \in Orders, FillBook(h, o) PROVE TypeOK'
  <2>1. fill' \in [Handlers -> [Orders -> FillSteps]]
    BY <1>fill, <1>22 DEF FillSteps, FillBook, FillAdvance, Interrupted
  <2>2. booked' \in [Handlers -> [Orders -> Nat]]
    BY <1>booked, <1>22 DEF FillBook
  <2>3. faults' \in 0..MaxFaults
    BY <1>faults, <1>22, FaultType DEF FillBook
  <2> QED
    BY <1>0, <1>22, <2>1, <2>2, <2>3 DEF TypeOK, FillBook
<1>23. ASSUME NEW r \in Reconcilers, RecSnapshot(r) PROVE TypeOK'
  BY <1>0, <1>23
     DEF TypeOK, SubSteps, FillSteps, RecSnapshot, Reconcilable
<1>24. ASSUME NEW r \in Reconcilers, NEW o \in Orders, RecCheck(r, o) PROVE TypeOK'
  <2>a. r \in Handlers
    BY HandlersContain
  <2>b. ASSUME NEW a \in RowStatuses
        PROVE  [reply EXCEPT ![r][o] = a]
                    \in [Handlers -> [Orders -> RowStatuses \cup {"none"}]]
    BY <1>reply, <2>a
  <2>c. [fill EXCEPT ![r][o] = "trade"] \in [Handlers -> [Orders -> FillSteps]]
    BY <1>fill, <2>a DEF FillSteps
  <2>1. reply' \in [Handlers -> [Orders -> RowStatuses \cup {"none"}]]
    <3>1. CASE reply' = reply
      BY <3>1, <1>reply
    <3>2. CASE reply' = [reply EXCEPT ![r][o] = Translate(exch[o])]
               /\ Translate(exch[o]) \in RowStatuses
      BY <3>2, <2>b
    <3>3. NeedsFill(Translate(exch[o])) => Translate(exch[o]) \in RowStatuses
      BY DEF NeedsFill, RowStatuses
    <3>4. ValidNext(seen[r][o]) \subseteq RowStatuses
      BY ValidNextType
    <3> QED
      BY <1>24, <3>1, <3>2, <3>3, <3>4 DEF RecCheck
  <2>2. fill' \in [Handlers -> [Orders -> FillSteps]]
    BY <1>fill, <1>24, <2>c DEF RecCheck, FirstFillStep
  <2>3. rec' \in [Reconcilers -> [Orders -> {"none", "queued", "filling", "mark"}]]
    BY <1>rec, <1>24 DEF RecCheck
  <2>4. faults' \in 0..MaxFaults
    BY <1>faults, <1>24, FaultType DEF RecCheck
  <2>5. UNCHANGED <<worldVars, sub, monVars, can, seen, loopOn, restarts>>
    BY <1>24 DEF RecCheck
  <2> QED
    BY <1>0, <2>1, <2>2, <2>3, <2>4, <2>5 DEF TypeOK
<1>25. ASSUME NEW r \in Reconcilers, NEW o \in Orders, RecFillDone(r, o) PROVE TypeOK'
  BY <1>0, <1>25
     DEF TypeOK, SubSteps, FillSteps, RecFillDone
<1>26. ASSUME NEW r \in Reconcilers, NEW o \in Orders, RecMark(r, o) PROVE TypeOK'
  <2>1. reply[r][o] \in RowStatuses \cup {"none"}
    BY <1>reply, HandlersContain
  <2>2. status' \in [Orders -> RowStatuses \cup {"none"}]
    BY <1>status, <1>26, <2>1 DEF RecMark
  <2> QED
    BY <1>0, <1>26, <2>2, FaultType DEF TypeOK, RecMark
<1>27. CASE StartLoop
  BY <1>0, <1>27
     DEF TypeOK, SubSteps, FillSteps, StartLoop
<1>28. CASE LoopStopped
  BY <1>0, <1>28
     DEF TypeOK, SubSteps, FillSteps, LoopStopped
<1>29. CASE Shutdown
  BY <1>0, <1>29, RestartType
     DEF TypeOK, SubSteps, FillSteps, Shutdown, StopTasks
<1>30. CASE Crash
  BY <1>0, <1>30, RestartType
     DEF TypeOK, SubSteps, FillSteps, Crash
<1>31. CASE UNCHANGED vars
  BY <1>0, <1>31 DEF vars, TypeOK
<1> QED
  BY <1>0, <1>1, <1>2, <1>3, <1>4, <1>5, <1>6, <1>7, <1>8, <1>9, <1>10, <1>11,
     <1>12, <1>13, <1>14, <1>15, <1>16, <1>17, <1>18, <1>19, <1>20, <1>21, <1>22,
     <1>23, <1>24, <1>25, <1>26, <1>27, <1>28, <1>29, <1>30, <1>31
     DEF Next, Submit, Monitor, Cancel, Reconcile, HandleFill

\* Every variable keeps its type: a row has one of the statuses of the
\* model, and no coroutine is ever at a step the code does not have.
THEOREM TypeCorrect == Spec => []TypeOK
  BY TypeInit, TypeNext, PTL DEF Spec

(***************************************************************************)
(* The inductive invariant.  The safety properties do not follow from      *)
(* their own truth one step earlier: what a coroutine may still write      *)
(* depends on where it is, and on nobody else having written in between.   *)
(***************************************************************************)

(* Until submit_order has recorded the identifier it is the only writer of *)
(* the row, and before it sends nothing is at the exchange.                *)
RowOK(o) ==
    /\ sub[o] = "idle" => status[o] = "none"
    /\ sub[o] \in {"idle", "send"} => exch[o] = "none"
    /\ sub[o] \in {"send", "markRejected", "markSubmitted"} =>
          status[o] = "pending" /\ o \notin extId
    /\ sub[o] \in {"filling", "watch"} => o \in extId
    /\ o \in extId => status[o] \notin {"none", "pending"}
    /\ status[o] \notin {"none", "pending", "rejected"} => o \in extId
    /\ exch[o] # "none" => status[o] # "none"
    /\ o \in extId \/ sub[o] = "markSubmitted" => exch[o] # "none"

(* Every other coroutine works on rows that have the identifier.           *)
TaskOK(o) ==
    /\ mon[o] # "idle" \/ o \in monitors \/ can[o] # "idle" => o \in extId
    /\ \A r \in Reconcilers :
          rec[r][o] # "none" => o \in extId /\ seen[r][o] = "submitted"
    /\ \A h \in Handlers : fill[h][o] # "none" => o \in extId

(* A handler inside _handle_fill has an order the exchange has filled, and *)
(* is ahead of its bookings by the trade it has just written.              *)
FillOK(h, o) ==
    /\ fill[h][o] # "none" => exch[o] = "FILLED"
    /\ fill[h][o] \in {"mark", "book"} => booked[h][o] < trades[h][o]
    /\ fill[h][o] = "returned" => trades[h][o] > 0
    /\ trades[h][o] > 0 => exch[o] = "FILLED"
    /\ booked[h][o] <= trades[h][o]

(* What a coroutine is about to write is an answer that still holds.       *)
ReplyOK(o) ==
    /\ sub[o] = "markSubmitted" /\ reply["submit"][o] = "filled" => exch[o] = "FILLED"
    /\ mon[o] = "mark" => reply["monitor"][o] \in {"cancelled", "rejected", "expired"}
    /\ \A r \in Reconcilers :
          rec[r][o] = "mark" =>
              /\ reply[r][o] \in {"partially_filled", "filled", "cancelled", "expired"}
              /\ reply[r][o] = "filled" => trades[r][o] > 0

RowInv == \A o \in Orders : RowOK(o)
TaskInv == \A o \in Orders : TaskOK(o)
FillInv == \A o \in Orders, h \in Handlers : FillOK(h, o)
ReplyInv == \A o \in Orders : ReplyOK(o)

IInv == TypeOK /\ RowInv /\ TaskInv /\ FillInv /\ ReplyInv /\ FilledHasTrade

LEMMA TranslateFilled ==
    ASSUME NEW raw \in Live \cup Closed, Translate(raw) = "filled"
    PROVE  raw = "FILLED"
  BY DEF Live, Closed, Translate

LEMMA FillAdvances ==
    ASSUME fill \in [Handlers -> [Orders -> FillSteps]],
           NEW h \in Handlers, NEW o \in Orders, NEW g \in Handlers, NEW p \in Orders,
           NEW next \in FillSteps, FillAdvance(h, o, next) \/ FillRaises(h, o)
    PROVE  IF g = h /\ p = o THEN fill'[g][p] \in {next, "raised"}
                             ELSE fill'[g][p] = fill[g][p]
  BY DEF FillAdvance, FillRaises

LEMMA FillStepNames == {"trade", "mark", "book", "returned", "raised"} \subseteq FillSteps
  BY DEF FillSteps

LEMMA InvInit == Init => IInv
<1> SUFFICES ASSUME Init PROVE IInv
  OBVIOUS
<1>1. TypeOK
  BY TypeInit
<1>2. RowInv
  BY DEF Init, RowInv, RowOK
<1>3. TaskInv
  BY DEF Init, TaskInv, TaskOK
<1>4. FillInv
  BY DEF Init, FillInv, FillOK
<1>5. ReplyInv
  BY DEF Init, ReplyInv, ReplyOK
<1>6. FilledHasTrade
  BY DEF Init, FilledHasTrade
<1> QED
  BY <1>1, <1>2, <1>3, <1>4, <1>5, <1>6 DEF IInv


LEMMA RowNext ==
    ASSUME TypeOK, RowInv, TaskInv, ReplyInv, NEW p \in Orders, [Next]_vars
    PROVE  RowOK(p)'
<1> USE DEF worldVars, rowVars, ledgerVars, monVars, recVars,
            fillVars, bounds
<1>old. RowOK(p)
  BY DEF RowInv
<1>task. \A o \in Orders : TaskOK(o)
  BY DEF TaskInv
<1>reply. \A o \in Orders : ReplyOK(o)
  BY DEF ReplyInv
<1>status. status \in [Orders -> RowStatuses \cup {"none"}]
  BY DEF TypeOK
<1>sub. sub \in [Orders -> SubSteps]
  BY DEF TypeOK
<1>exch. exch \in [Orders -> Live \cup Closed \cup {"none"}]
  BY DEF TypeOK
<1>frame. ASSUME UNCHANGED <<status, extId, exch, sub>> PROVE RowOK(p)'
  BY <1>frame, <1>old DEF RowOK
<1>1. ASSUME NEW o \in Orders, ExchangeMoves(o) PROVE RowOK(p)'
  BY <1>1, <1>old, <1>status, <1>sub, <1>exch
     DEF RowOK, ExchangeMoves, Live
<1>2. ASSUME NEW o \in Orders, SubmitVetoed(o) PROVE RowOK(p)'
  BY <1>2, <1>old, <1>status, <1>sub, <1>exch
     DEF RowOK, SubmitVetoed
<1>3. ASSUME NEW o \in Orders, SubmitPersist(o) PROVE RowOK(p)'
  BY <1>3, <1>old, <1>status, <1>sub, <1>exch
     DEF RowOK, SubmitPersist, SubmitFails
<1>4. ASSUME NEW o \in Orders, SubmitSend(o) PROVE RowOK(p)'
  BY <1>4, <1>old, <1>status, <1>sub, <1>exch
     DEF RowOK, SubmitSend, PlacementOutcomes, Live
<1>5. ASSUME NEW o \in Orders, SubmitMarkRejected(o) PROVE RowOK(p)'
  BY <1>5, <1>old, <1>status, <1>sub, <1>exch
     DEF RowOK, SubmitMarkRejected, SubmitFails
<1>6. ASSUME NEW o \in Orders, SubmitMarkSubmitted(o) PROVE RowOK(p)'
  BY <1>6, <1>old, <1>status, <1>sub, <1>exch
     DEF RowOK, SubmitMarkSubmitted, SubmitFails, RowSubmitted, NeedsFill, FirstFillStep
<1>7. ASSUME NEW o \in Orders, SubmitFillDone(o) PROVE RowOK(p)'
  BY <1>7, <1>old, <1>status, <1>sub, <1>exch
     DEF RowOK, SubmitFillDone
<1>8. ASSUME NEW o \in Orders, SubmitWatch(o) PROVE RowOK(p)'
  BY <1>8, <1>old, <1>status, <1>sub, <1>exch
     DEF RowOK, SubmitWatch
<1>9. ASSUME NEW o \in Orders, MonitorBegin(o) PROVE RowOK(p)'
  BY <1>9, <1>frame DEF MonitorBegin
<1>10. ASSUME NEW o \in Orders, MonitorPoll(o) PROVE RowOK(p)'
  BY <1>10, <1>frame DEF MonitorPoll
<1>11. ASSUME NEW o \in Orders, MonitorTimesOut(o) PROVE RowOK(p)'
  BY <1>11, <1>frame DEF MonitorTimesOut
<1>12. ASSUME NEW o \in Orders, MonitorMark(o) PROVE RowOK(p)'
  BY <1>12, <1>old, <1>status, <1>sub, <1>exch, <1>task, <1>reply
     DEF RowOK, TaskOK, ReplyOK, MonitorMark
<1>13. ASSUME NEW o \in Orders, MonitorPartial(o) PROVE RowOK(p)'
  BY <1>13, <1>old, <1>status, <1>sub, <1>exch, <1>task, <1>reply
     DEF RowOK, TaskOK, ReplyOK, MonitorPartial
<1>14. ASSUME NEW o \in Orders, MonitorFillDone(o) PROVE RowOK(p)'
  BY <1>14, <1>frame DEF MonitorFillDone
<1>15. ASSUME NEW o \in Orders, MonitorStopped(o) PROVE RowOK(p)'
  BY <1>15, <1>frame DEF MonitorStopped
<1>16. ASSUME NEW o \in Orders, CancelRead(o) PROVE RowOK(p)'
  BY <1>16, <1>frame DEF CancelRead
<1>17. ASSUME NEW o \in Orders, CancelAtExchange(o) PROVE RowOK(p)'
  BY <1>17, <1>old, <1>status, <1>sub, <1>exch
     DEF RowOK, CancelAtExchange, Live
<1>18. ASSUME NEW o \in Orders, CancelStopMonitoring(o) PROVE RowOK(p)'
  BY <1>18, <1>frame DEF CancelStopMonitoring
<1>19. ASSUME NEW o \in Orders, CancelMark(o) PROVE RowOK(p)'
  BY <1>19, <1>old, <1>status, <1>sub, <1>exch, <1>task, <1>reply
     DEF RowOK, TaskOK, ReplyOK, CancelMark
<1>20. ASSUME NEW h \in Handlers, NEW o \in Orders, FillSaveTrade(h, o) PROVE RowOK(p)'
  BY <1>20, <1>frame DEF FillSaveTrade
<1>21. ASSUME NEW h \in Handlers, NEW o \in Orders, FillMarkFilled(h, o) PROVE RowOK(p)'
  BY <1>21, <1>old, <1>status, <1>sub, <1>exch, <1>task, <1>reply
     DEF RowOK, TaskOK, ReplyOK, FillMarkFilled
<1>22. ASSUME NEW h \in Handlers, NEW o \in Orders, FillBook(h, o) PROVE RowOK(p)'
  BY <1>22, <1>frame DEF FillBook
<1>23. ASSUME NEW r \in Reconcilers, RecSnapshot(r) PROVE RowOK(p)'
  BY <1>23, <1>frame DEF RecSnapshot
<1>24. ASSUME NEW r \in Reconcilers, NEW o \in Orders, RecCheck(r, o) PROVE RowOK(p)'
  BY <1>24, <1>frame DEF RecCheck
<1>25. ASSUME NEW r \in Reconcilers, NEW o \in Orders, RecFillDone(r, o) PROVE RowOK(p)'
  BY <1>25, <1>frame DEF RecFillDone
<1>26. ASSUME NEW r \in Reconcilers, NEW o \in Orders, RecMark(r, o) PROVE RowOK(p)'
  BY <1>26, <1>old, <1>status, <1>sub, <1>exch, <1>task, <1>reply
     DEF RowOK, TaskOK, ReplyOK, RecMark
<1>27. CASE StartLoop
  BY <1>27, <1>frame DEF StartLoop
<1>28. CASE LoopStopped
  BY <1>28, <1>frame DEF LoopStopped
<1>29. CASE Shutdown
  BY <1>29, <1>frame DEF Shutdown
<1>30. CASE Crash
  BY <1>30, <1>old, <1>status, <1>sub, <1>exch
     DEF RowOK, Crash
<1>31. CASE UNCHANGED vars
  BY <1>31, <1>frame DEF vars
<1> QED
  BY <1>1, <1>2, <1>3, <1>4, <1>5, <1>6, <1>7, <1>8, <1>9, <1>10, <1>11,
     <1>12, <1>13, <1>14, <1>15, <1>16, <1>17, <1>18, <1>19, <1>20, <1>21,
     <1>22, <1>23, <1>24, <1>25, <1>26, <1>27, <1>28, <1>29, <1>30, <1>31
     DEF Next, Submit, Monitor, Cancel, Reconcile, HandleFill

LEMMA TaskNext ==
    ASSUME TypeOK, RowInv, TaskInv, NEW p \in Orders, [Next]_vars
    PROVE  TaskOK(p)'
<1> USE DEF worldVars, rowVars, ledgerVars, monVars, recVars,
            fillVars, bounds
<1>row. \A o \in Orders : RowOK(o)
  BY DEF RowInv
<1>task. \A o \in Orders : TaskOK(o)
  BY DEF TaskInv
<1>mon. mon \in [Orders -> {"idle", "start", "poll", "mark", "partial", "filling"}]
  BY DEF TypeOK
<1>can. can \in [Orders -> {"idle", "exchange", "stop", "mark"}]
  BY DEF TypeOK
<1>rec. rec \in [Reconcilers ->
                [Orders -> {"none", "queued", "filling", "mark"}]]
  BY DEF TypeOK
<1>seen. seen \in [Reconcilers -> [Orders -> RowStatuses \cup {"none"}]]
  BY DEF TypeOK
<1>fill. fill \in [Handlers -> [Orders -> FillSteps]]
  BY DEF TypeOK
<1>frame. ASSUME UNCHANGED <<extId, mon, monitors, can, rec, seen, fill>> PROVE TaskOK(p)'
  BY <1>frame, <1>task DEF TaskOK
<1>1. ASSUME NEW o \in Orders, ExchangeMoves(o) PROVE TaskOK(p)'
  BY <1>1, <1>frame DEF ExchangeMoves
<1>2. ASSUME NEW o \in Orders, SubmitVetoed(o) PROVE TaskOK(p)'
  BY <1>2, <1>frame DEF SubmitVetoed
<1>3. ASSUME NEW o \in Orders, SubmitPersist(o) PROVE TaskOK(p)'
  BY <1>3, <1>frame DEF SubmitPersist
<1>4. ASSUME NEW o \in Orders, SubmitSend(o) PROVE TaskOK(p)'
  BY <1>4, <1>frame DEF SubmitSend
<1>5. ASSUME NEW o \in Orders, SubmitMarkRejected(o) PROVE TaskOK(p)'
  BY <1>5, <1>frame DEF SubmitMarkRejected
<1>6. ASSUME NEW o \in Orders, SubmitMarkSubmitted(o) PROVE TaskOK(p)'
  <2>1. extId \subseteq extId'
    BY <1>6 DEF SubmitMarkSubmitted, RowSubmitted
  <2>2. \A h \in Handlers : fill'[h][p] # "none" => fill[h][p] # "none" \/ p \in extId'
    BY <1>6, <1>fill DEF SubmitMarkSubmitted, RowSubmitted
  <2>3. UNCHANGED <<mon, monitors, can, rec, seen>>
    BY <1>6 DEF SubmitMarkSubmitted
  <2> QED
    BY <1>task, <2>1, <2>2, <2>3 DEF TaskOK
<1>7. ASSUME NEW o \in Orders, SubmitFillDone(o) PROVE TaskOK(p)'
  BY <1>7, <1>row, <1>task, <1>mon, <1>can, <1>rec, <1>seen, <1>fill, HandlersContain
     DEF RowOK, TaskOK, SubmitFillDone
<1>8. ASSUME NEW o \in Orders, SubmitWatch(o) PROVE TaskOK(p)'
  BY <1>8, <1>row, <1>task, <1>mon, <1>can, <1>rec, <1>seen, <1>fill, HandlersContain
     DEF RowOK, TaskOK, SubmitWatch
<1>9. ASSUME NEW o \in Orders, MonitorBegin(o) PROVE TaskOK(p)'
  BY <1>9, <1>row, <1>task, <1>mon, <1>can, <1>rec, <1>seen, <1>fill, HandlersContain
     DEF RowOK, TaskOK, MonitorBegin
<1>10. ASSUME NEW o \in Orders, MonitorPoll(o) PROVE TaskOK(p)'
  BY <1>10, <1>row, <1>task, <1>mon, <1>can, <1>rec, <1>seen, <1>fill, HandlersContain
     DEF RowOK, TaskOK, MonitorPoll, FirstFillStep
<1>11. ASSUME NEW o \in Orders, MonitorTimesOut(o) PROVE TaskOK(p)'
  BY <1>11, <1>row, <1>task, <1>mon, <1>can, <1>rec, <1>seen, <1>fill, HandlersContain
     DEF RowOK, TaskOK, MonitorTimesOut, MonitorEnds
<1>12. ASSUME NEW o \in Orders, MonitorMark(o) PROVE TaskOK(p)'
  BY <1>12, <1>row, <1>task, <1>mon, <1>can, <1>rec, <1>seen, <1>fill, HandlersContain
     DEF RowOK, TaskOK, MonitorMark, MonitorEnds
<1>13. ASSUME NEW o \in Orders, MonitorPartial(o) PROVE TaskOK(p)'
  BY <1>13, <1>row, <1>task, <1>mon, <1>can, <1>rec, <1>seen, <1>fill, HandlersContain
     DEF RowOK, TaskOK, MonitorPartial, MonitorEnds
<1>14. ASSUME NEW o \in Orders, MonitorFillDone(o) PROVE TaskOK(p)'
  BY <1>14, <1>row, <1>task, <1>mon, <1>can, <1>rec, <1>seen, <1>fill, HandlersContain
     DEF RowOK, TaskOK, MonitorFillDone, MonitorEnds
<1>15. ASSUME NEW o \in Orders, MonitorStopped(o) PROVE TaskOK(p)'
  BY <1>15, <1>row, <1>task, <1>mon, <1>can, <1>rec, <1>seen, <1>fill, HandlersContain
     DEF RowOK, TaskOK, MonitorStopped, MonitorEnds
<1>16. ASSUME NEW o \in Orders, CancelRead(o) PROVE TaskOK(p)'
  <2>1. status[o] \in {"submitted", "partially_filled"}
    BY <1>16 DEF CancelRead, ValidNext, Transitions
  <2>2. o \in extId
    BY <2>1, <1>row DEF RowOK
  <2> QED
    BY <1>16, <2>2, <1>task, <1>can DEF TaskOK, CancelRead
<1>17. ASSUME NEW o \in Orders, CancelAtExchange(o) PROVE TaskOK(p)'
  BY <1>17, <1>row, <1>task, <1>mon, <1>can, <1>rec, <1>seen, <1>fill, HandlersContain
     DEF RowOK, TaskOK, CancelAtExchange
<1>18. ASSUME NEW o \in Orders, CancelStopMonitoring(o) PROVE TaskOK(p)'
  BY <1>18, <1>row, <1>task, <1>mon, <1>can, <1>rec, <1>seen, <1>fill, HandlersContain
     DEF RowOK, TaskOK, CancelStopMonitoring, StopTasks
<1>19. ASSUME NEW o \in Orders, CancelMark(o) PROVE TaskOK(p)'
  BY <1>19, <1>row, <1>task, <1>mon, <1>can, <1>rec, <1>seen, <1>fill, HandlersContain
     DEF RowOK, TaskOK, CancelMark
<1>20. ASSUME NEW h \in Handlers, NEW o \in Orders, FillSaveTrade(h, o) PROVE TaskOK(p)'
  <2>1. \A g \in Handlers : fill'[g][p] # "none" => fill[g][p] # "none"
    BY <1>20, <1>fill, FillAdvances, FillStepNames DEF FillSaveTrade
  <2> QED
    BY <1>20, <2>1, <1>task DEF TaskOK, FillSaveTrade
<1>21. ASSUME NEW h \in Handlers, NEW o \in Orders, FillMarkFilled(h, o) PROVE TaskOK(p)'
  <2>1. \A g \in Handlers : fill'[g][p] # "none" => fill[g][p] # "none"
    BY <1>21, <1>fill, FillAdvances, FillStepNames DEF FillMarkFilled
  <2> QED
    BY <1>21, <2>1, <1>task DEF TaskOK, FillMarkFilled
<1>22. ASSUME NEW h \in Handlers, NEW o \in Orders, FillBook(h, o) PROVE TaskOK(p)'
  <2>1. \A g \in Handlers : fill'[g][p] # "none" => fill[g][p] # "none"
    BY <1>22, <1>fill, FillAdvances, FillStepNames DEF FillBook
  <2> QED
    BY <1>22, <2>1, <1>task DEF TaskOK, FillBook
<1>23. ASSUME NEW r \in Reconcilers, RecSnapshot(r) PROVE TaskOK(p)'
  BY <1>23, <1>row, <1>task, <1>mon, <1>can, <1>rec, <1>seen, <1>fill, HandlersContain
     DEF RowOK, TaskOK, RecSnapshot, Reconcilable
<1>24. ASSUME NEW r \in Reconcilers, NEW o \in Orders, RecCheck(r, o) PROVE TaskOK(p)'
  <2>1. o \in extId
    BY <1>24, <1>task DEF TaskOK, RecCheck
  <2>2. \A g \in Handlers : fill'[g][p] # "none" => fill[g][p] # "none" \/ p = o
    BY <1>24, <1>fill DEF RecCheck
  <2>3. \A q \in Reconcilers : rec'[q][p] # "none" => rec[q][p] # "none"
    BY <1>24, <1>rec DEF RecCheck
  <2>4. UNCHANGED <<extId, mon, monitors, can, seen>>
    BY <1>24 DEF RecCheck
  <2> QED
    BY <2>1, <2>2, <2>3, <2>4, <1>task DEF TaskOK
<1>25. ASSUME NEW r \in Reconcilers, NEW o \in Orders, RecFillDone(r, o) PROVE TaskOK(p)'
  BY <1>25, <1>row, <1>task, <1>mon, <1>can, <1>rec, <1>seen, <1>fill, HandlersContain
     DEF RowOK, TaskOK, RecFillDone
<1>26. ASSUME NEW r \in Reconcilers, NEW o \in Orders, RecMark(r, o) PROVE TaskOK(p)'
  BY <1>26, <1>row, <1>task, <1>mon, <1>can, <1>rec, <1>seen, <1>fill, HandlersContain
     DEF RowOK, TaskOK, RecMark
<1>27. CASE StartLoop
  BY <1>27, <1>frame DEF StartLoop
<1>28. CASE LoopStopped
  BY <1>28, <1>row, <1>task, <1>mon, <1>can, <1>rec, <1>seen, <1>fill, HandlersContain
     DEF RowOK, TaskOK, LoopStopped
<1>29. CASE Shutdown
  BY <1>29, <1>row, <1>task, <1>mon, <1>can, <1>rec, <1>seen, <1>fill, HandlersContain
     DEF RowOK, TaskOK, Shutdown, StopTasks
<1>30. CASE Crash
  BY <1>30, <1>row, <1>task, <1>mon, <1>can, <1>rec, <1>seen, <1>fill, HandlersContain
     DEF RowOK, TaskOK, Crash
<1>31. CASE UNCHANGED vars
  BY <1>31, <1>frame DEF vars
<1> QED
  BY <1>1, <1>2, <1>3, <1>4, <1>5, <1>6, <1>7, <1>8, <1>9, <1>10, <1>11,
     <1>12, <1>13, <1>14, <1>15, <1>16, <1>17, <1>18, <1>19, <1>20, <1>21,
     <1>22, <1>23, <1>24, <1>25, <1>26, <1>27, <1>28, <1>29, <1>30, <1>31
     DEF Next, Submit, Monitor, Cancel, Reconcile, HandleFill

LEMMA FillNext ==
    ASSUME TypeOK, RowInv, TaskInv, FillInv, ReplyInv, NEW p \in Orders, NEW g \in Handlers, [Next]_vars
    PROVE  FillOK(g, p)'
<1> USE DEF worldVars, rowVars, ledgerVars, monVars, recVars,
            fillVars, bounds
<1>row. \A o \in Orders : RowOK(o)
  BY DEF RowInv
<1>task. \A o \in Orders : TaskOK(o)
  BY DEF TaskInv
<1>fills. \A o \in Orders, h \in Handlers : FillOK(h, o)
  BY DEF FillInv
<1>answers. \A o \in Orders : ReplyOK(o)
  BY DEF ReplyInv
<1>exch. exch \in [Orders -> Live \cup Closed \cup {"none"}]
  BY DEF TypeOK
<1>fill. fill \in [Handlers -> [Orders -> FillSteps]]
  BY DEF TypeOK
<1>trades. trades \in [Handlers -> [Orders -> Nat]]
  BY DEF TypeOK
<1>booked. booked \in [Handlers -> [Orders -> Nat]]
  BY DEF TypeOK
<1>frame. ASSUME UNCHANGED <<exch, fill, trades, booked>> PROVE FillOK(g, p)'
  BY <1>frame, <1>fills DEF FillOK
<1>1. ASSUME NEW o \in Orders, ExchangeMoves(o) PROVE FillOK(g, p)'
  BY <1>1, <1>row, <1>fills, <1>exch
     DEF RowOK, FillOK, ExchangeMoves, Live
<1>2. ASSUME NEW o \in Orders, SubmitVetoed(o) PROVE FillOK(g, p)'
  BY <1>2, <1>frame DEF SubmitVetoed
<1>3. ASSUME NEW o \in Orders, SubmitPersist(o) PROVE FillOK(g, p)'
  BY <1>3, <1>frame DEF SubmitPersist
<1>4. ASSUME NEW o \in Orders, SubmitSend(o) PROVE FillOK(g, p)'
  BY <1>4, <1>row, <1>fills, <1>exch
     DEF RowOK, FillOK, SubmitSend, Live
<1>5. ASSUME NEW o \in Orders, SubmitMarkRejected(o) PROVE FillOK(g, p)'
  BY <1>5, <1>frame DEF SubmitMarkRejected
<1>6. ASSUME NEW o \in Orders, SubmitMarkSubmitted(o) PROVE FillOK(g, p)'
  BY <1>6, <1>fills, <1>answers, <1>fill
     DEF FillOK, ReplyOK, SubmitMarkSubmitted, SubmitFails, RowSubmitted, NeedsFill, FirstFillStep, NeedsFill, Translate
<1>7. ASSUME NEW o \in Orders, SubmitFillDone(o) PROVE FillOK(g, p)'
  BY <1>7, <1>fills, <1>fill
     DEF FillOK, SubmitFillDone
<1>8. ASSUME NEW o \in Orders, SubmitWatch(o) PROVE FillOK(g, p)'
  BY <1>8, <1>frame DEF SubmitWatch
<1>9. ASSUME NEW o \in Orders, MonitorBegin(o) PROVE FillOK(g, p)'
  BY <1>9, <1>frame DEF MonitorBegin
<1>10. ASSUME NEW o \in Orders, MonitorPoll(o) PROVE FillOK(g, p)'
  <2>1. o \in extId
    BY <1>10, <1>task DEF TaskOK, MonitorPoll
  <2>2. exch[o] \in Live \cup Closed
    BY <2>1, <1>row, <1>exch DEF RowOK
  <2>3. fill'[g][p] # "none" =>
            \/ fill'[g][p] = fill[g][p]
            \/ fill'[g][p] = "trade" /\ p = o /\ Translate(exch[o]) = "filled"
    BY <1>10, <1>fill DEF MonitorPoll, FirstFillStep, NeedsFill
  <2>4. UNCHANGED <<exch, trades, booked>>
    BY <1>10 DEF MonitorPoll
  <2> QED
    BY <2>2, <2>3, <2>4, <1>fills, TranslateFilled DEF FillOK
<1>11. ASSUME NEW o \in Orders, MonitorTimesOut(o) PROVE FillOK(g, p)'
  BY <1>11, <1>frame DEF MonitorTimesOut
<1>12. ASSUME NEW o \in Orders, MonitorMark(o) PROVE FillOK(g, p)'
  BY <1>12, <1>frame DEF MonitorMark
<1>13. ASSUME NEW o \in Orders, MonitorPartial(o) PROVE FillOK(g, p)'
  BY <1>13, <1>frame DEF MonitorPartial
<1>14. ASSUME NEW o \in Orders, MonitorFillDone(o) PROVE FillOK(g, p)'
  BY <1>14, <1>fills, <1>fill
     DEF FillOK, MonitorFillDone
<1>15. ASSUME NEW o \in Orders, MonitorStopped(o) PROVE FillOK(g, p)'
  BY <1>15, <1>fills, <1>fill
     DEF FillOK, MonitorStopped
<1>16. ASSUME NEW o \in Orders, CancelRead(o) PROVE FillOK(g, p)'
  BY <1>16, <1>frame DEF CancelRead
<1>17. ASSUME NEW o \in Orders, CancelAtExchange(o) PROVE FillOK(g, p)'
  BY <1>17, <1>row, <1>fills, <1>exch
     DEF RowOK, FillOK, CancelAtExchange, Live
<1>18. ASSUME NEW o \in Orders, CancelStopMonitoring(o) PROVE FillOK(g, p)'
  BY <1>18, <1>frame DEF CancelStopMonitoring
<1>19. ASSUME NEW o \in Orders, CancelMark(o) PROVE FillOK(g, p)'
  BY <1>19, <1>frame DEF CancelMark
<1>20. ASSUME NEW h \in Handlers, NEW o \in Orders, FillSaveTrade(h, o) PROVE FillOK(g, p)'
  <2>1. \/ trades'[g][p] = trades[g][p] /\ fill'[g][p] = fill[g][p]
        \/ /\ fill[g][p] = "trade"
           /\ trades'[g][p] = trades[g][p] + 1 /\ fill'[g][p] \in {"mark", "raised"}
        \/ /\ fill[g][p] = "trade"
           /\ trades'[g][p] = trades[g][p] /\ fill'[g][p] = "raised"
    BY <1>20, <1>fill, <1>trades, FillAdvances, FillStepNames
       DEF FillSaveTrade, FillRaises
  <2>2. UNCHANGED <<exch, booked>>
    BY <1>20 DEF FillSaveTrade
  <2>3. trades[g][p] \in Nat /\ booked[g][p] \in Nat
    BY <1>trades, <1>booked
  <2> QED
    BY <2>1, <2>2, <2>3, <1>fills DEF FillOK
<1>21. ASSUME NEW h \in Handlers, NEW o \in Orders, FillMarkFilled(h, o) PROVE FillOK(g, p)'
  <2>1. \/ fill'[g][p] = fill[g][p]
        \/ fill[g][p] = "mark" /\ fill'[g][p] \in {"book", "raised"}
    BY <1>21, <1>fill, FillAdvances, FillStepNames DEF FillMarkFilled
  <2>2. UNCHANGED <<exch, trades, booked>>
    BY <1>21 DEF FillMarkFilled
  <2> QED
    BY <2>1, <2>2, <1>fills DEF FillOK
<1>22. ASSUME NEW h \in Handlers, NEW o \in Orders, FillBook(h, o) PROVE FillOK(g, p)'
  <2>1. \/ booked'[g][p] = booked[g][p] /\ fill'[g][p] = fill[g][p]
        \/ /\ fill[g][p] = "book"
           /\ booked'[g][p] \in {booked[g][p], booked[g][p] + 1}
           /\ fill'[g][p] \in {"returned", "raised"}
    BY <1>22, <1>fill, <1>booked, FillAdvances, FillStepNames DEF FillBook
  <2>2. UNCHANGED <<exch, trades>>
    BY <1>22 DEF FillBook
  <2>3. trades[g][p] \in Nat /\ booked[g][p] \in Nat
    BY <1>trades, <1>booked
  <2> QED
    BY <2>1, <2>2, <2>3, <1>fills DEF FillOK
<1>23. ASSUME NEW r \in Reconcilers, RecSnapshot(r) PROVE FillOK(g, p)'
  BY <1>23, <1>frame DEF RecSnapshot
<1>24. ASSUME NEW r \in Reconcilers, NEW o \in Orders, RecCheck(r, o) PROVE FillOK(g, p)'
  <2>1. o \in extId
    BY <1>24, <1>task DEF TaskOK, RecCheck
  <2>2. exch[o] \in Live \cup Closed
    BY <2>1, <1>row, <1>exch DEF RowOK
  <2>3. fill'[g][p] # "none" =>
            \/ fill'[g][p] = fill[g][p]
            \/ fill'[g][p] = "trade" /\ p = o /\ Translate(exch[o]) = "filled"
    BY <1>24, <1>fill DEF RecCheck, FirstFillStep, NeedsFill
  <2>4. UNCHANGED <<exch, trades, booked>>
    BY <1>24 DEF RecCheck
  <2> QED
    BY <2>2, <2>3, <2>4, <1>fills, TranslateFilled DEF FillOK
<1>25. ASSUME NEW r \in Reconcilers, NEW o \in Orders, RecFillDone(r, o) PROVE FillOK(g, p)'
  BY <1>25, <1>fills, <1>fill
     DEF FillOK, RecFillDone
<1>26. ASSUME NEW r \in Reconcilers, NEW o \in Orders, RecMark(r, o) PROVE FillOK(g, p)'
  BY <1>26, <1>frame DEF RecMark
<1>27. CASE StartLoop
  BY <1>27, <1>frame DEF StartLoop
<1>28. CASE LoopStopped
  BY <1>28, <1>fills, <1>fill
     DEF FillOK, LoopStopped
<1>29. CASE Shutdown
  BY <1>29, <1>frame DEF Shutdown
<1>30. CASE Crash
  BY <1>30, <1>fills, <1>fill
     DEF FillOK, Crash
<1>31. CASE UNCHANGED vars
  BY <1>31, <1>frame DEF vars
<1> QED
  BY <1>1, <1>2, <1>3, <1>4, <1>5, <1>6, <1>7, <1>8, <1>9, <1>10, <1>11,
     <1>12, <1>13, <1>14, <1>15, <1>16, <1>17, <1>18, <1>19, <1>20, <1>21,
     <1>22, <1>23, <1>24, <1>25, <1>26, <1>27, <1>28, <1>29, <1>30, <1>31
     DEF Next, Submit, Monitor, Cancel, Reconcile, HandleFill

LEMMA ReplyNext ==
    ASSUME TypeOK, TaskInv, FillInv, ReplyInv, NEW p \in Orders, [Next]_vars
    PROVE  ReplyOK(p)'
<1> USE DEF worldVars, rowVars, ledgerVars, monVars, recVars,
            fillVars, bounds
<1>task. \A o \in Orders : TaskOK(o)
  BY DEF TaskInv
<1>fills. \A o \in Orders, h \in Handlers : FillOK(h, o)
  BY DEF FillInv
<1>answers. \A o \in Orders : ReplyOK(o)
  BY DEF ReplyInv
<1>exch. exch \in [Orders -> Live \cup Closed \cup {"none"}]
  BY DEF TypeOK
<1>sub. sub \in [Orders -> SubSteps]
  BY DEF TypeOK
<1>mon. mon \in [Orders -> {"idle", "start", "poll", "mark", "partial", "filling"}]
  BY DEF TypeOK
<1>rec. rec \in [Reconcilers ->
                [Orders -> {"none", "queued", "filling", "mark"}]]
  BY DEF TypeOK
<1>reply. reply \in [Handlers -> [Orders -> RowStatuses \cup {"none"}]]
  BY DEF TypeOK
<1>trades. trades \in [Handlers -> [Orders -> Nat]]
  BY DEF TypeOK
<1>frame. ASSUME UNCHANGED <<exch, sub, mon, rec, reply, trades>> PROVE ReplyOK(p)'
  BY <1>frame, <1>answers DEF ReplyOK
<1>1. ASSUME NEW o \in Orders, ExchangeMoves(o) PROVE ReplyOK(p)'
  BY <1>1, <1>answers, <1>exch
     DEF ReplyOK, ExchangeMoves, Live
<1>2. ASSUME NEW o \in Orders, SubmitVetoed(o) PROVE ReplyOK(p)'
  BY <1>2, <1>answers, <1>sub, <1>mon
     DEF ReplyOK, SubmitVetoed
<1>3. ASSUME NEW o \in Orders, SubmitPersist(o) PROVE ReplyOK(p)'
  BY <1>3, <1>answers, <1>sub, <1>mon
     DEF ReplyOK, SubmitPersist, SubmitFails
<1>4. ASSUME NEW o \in Orders, SubmitSend(o) PROVE ReplyOK(p)'
  <2>1. UNCHANGED <<mon, rec, trades>>
    BY <1>4 DEF SubmitSend
  <2>2. \A r \in Reconcilers : reply'[r][p] = reply[r][p]
    BY <1>4, <1>reply, HandlersContain, ReconcilersAssumption
       DEF SubmitSend, ReconcilersAssumption
  <2>3. reply'["monitor"][p] = reply["monitor"][p]
    BY <1>4, <1>reply, HandlersContain DEF SubmitSend
  <2>4. CASE p # o
    BY <1>4, <2>4, <2>1, <2>2, <2>3, <1>answers, <1>reply, <1>sub, <1>exch, HandlersContain
       DEF ReplyOK, SubmitSend
  <2>5. CASE p = o
    <3>1. sub'[o] = "markSubmitted" /\ reply'["submit"][o] = "filled" =>
             exch'[o] = "FILLED"
      BY <1>4, <1>reply, <1>sub, <1>exch, HandlersContain, TranslateFilled
         DEF SubmitSend, PlacementOutcomes, Live, Closed
    <3> QED
      BY <3>1, <2>5, <2>1, <2>2, <2>3, <1>answers DEF ReplyOK
  <2> QED
    BY <2>4, <2>5
<1>5. ASSUME NEW o \in Orders, SubmitMarkRejected(o) PROVE ReplyOK(p)'
  BY <1>5, <1>answers, <1>sub, <1>mon
     DEF ReplyOK, SubmitMarkRejected, SubmitFails
<1>6. ASSUME NEW o \in Orders, SubmitMarkSubmitted(o) PROVE ReplyOK(p)'
  BY <1>6, <1>answers, <1>sub, <1>mon
     DEF ReplyOK, SubmitMarkSubmitted, SubmitFails
<1>7. ASSUME NEW o \in Orders, SubmitFillDone(o) PROVE ReplyOK(p)'
  BY <1>7, <1>answers, <1>sub, <1>mon
     DEF ReplyOK, SubmitFillDone
<1>8. ASSUME NEW o \in Orders, SubmitWatch(o) PROVE ReplyOK(p)'
  BY <1>8, <1>answers, <1>sub, <1>mon
     DEF ReplyOK, SubmitWatch
<1>9. ASSUME NEW o \in Orders, MonitorBegin(o) PROVE ReplyOK(p)'
  BY <1>9, <1>answers, <1>mon, <1>rec, <1>sub
     DEF ReplyOK, MonitorBegin
<1>10. ASSUME NEW o \in Orders, MonitorPoll(o) PROVE ReplyOK(p)'
  <2>1. UNCHANGED <<sub, exch, rec, trades>>
    BY <1>10 DEF MonitorPoll
  <2>2. \A r \in Reconcilers : reply'[r][p] = reply[r][p]
    BY <1>10, <1>reply, HandlersContain, ReconcilersAssumption
       DEF MonitorPoll, ReconcilersAssumption
  <2>3. reply'["submit"][p] = reply["submit"][p]
    BY <1>10, <1>reply, HandlersContain DEF MonitorPoll
  <2>4. mon'[p] = "mark" =>
           reply'["monitor"][p] \in {"cancelled", "rejected", "expired"}
    BY <1>10, <1>reply, <1>mon, <1>answers, HandlersContain
       DEF ReplyOK, MonitorPoll, Terminal, NeedsFill
  <2> QED
    BY <2>1, <2>2, <2>3, <2>4, <1>answers DEF ReplyOK
<1>11. ASSUME NEW o \in Orders, MonitorTimesOut(o) PROVE ReplyOK(p)'
  BY <1>11, <1>answers, <1>mon, <1>rec, <1>sub
     DEF ReplyOK, MonitorTimesOut, MonitorEnds
<1>12. ASSUME NEW o \in Orders, MonitorMark(o) PROVE ReplyOK(p)'
  BY <1>12, <1>answers, <1>mon, <1>rec, <1>sub
     DEF ReplyOK, MonitorMark, MonitorEnds
<1>13. ASSUME NEW o \in Orders, MonitorPartial(o) PROVE ReplyOK(p)'
  BY <1>13, <1>answers, <1>mon, <1>rec, <1>sub
     DEF ReplyOK, MonitorPartial, MonitorEnds
<1>14. ASSUME NEW o \in Orders, MonitorFillDone(o) PROVE ReplyOK(p)'
  BY <1>14, <1>answers, <1>mon, <1>rec, <1>sub
     DEF ReplyOK, MonitorFillDone, MonitorEnds
<1>15. ASSUME NEW o \in Orders, MonitorStopped(o) PROVE ReplyOK(p)'
  BY <1>15, <1>answers, <1>mon, <1>rec, <1>sub
     DEF ReplyOK, MonitorStopped, MonitorEnds
<1>16. ASSUME NEW o \in Orders, CancelRead(o) PROVE ReplyOK(p)'
  BY <1>16, <1>frame DEF CancelRead
<1>17. ASSUME NEW o \in Orders, CancelAtExchange(o) PROVE ReplyOK(p)'
  BY <1>17, <1>answers, <1>exch
     DEF ReplyOK, CancelAtExchange, Live
<1>18. ASSUME NEW o \in Orders, CancelStopMonitoring(o) PROVE ReplyOK(p)'
  BY <1>18, <1>frame DEF CancelStopMonitoring, StopTasks
<1>19. ASSUME NEW o \in Orders, CancelMark(o) PROVE ReplyOK(p)'
  BY <1>19, <1>frame DEF CancelMark
<1>20. ASSUME NEW h \in Handlers, NEW o \in Orders, FillSaveTrade(h, o) PROVE ReplyOK(p)'
  BY <1>20, <1>answers, <1>trades, HandlersContain
     DEF ReplyOK, FillSaveTrade
<1>21. ASSUME NEW h \in Handlers, NEW o \in Orders, FillMarkFilled(h, o) PROVE ReplyOK(p)'
  BY <1>21, <1>frame DEF FillMarkFilled
<1>22. ASSUME NEW h \in Handlers, NEW o \in Orders, FillBook(h, o) PROVE ReplyOK(p)'
  BY <1>22, <1>frame DEF FillBook
<1>23. ASSUME NEW r \in Reconcilers, RecSnapshot(r) PROVE ReplyOK(p)'
  BY <1>23, <1>answers, <1>rec
     DEF ReplyOK, RecSnapshot
<1>24. ASSUME NEW r \in Reconcilers, NEW o \in Orders, RecCheck(r, o) PROVE ReplyOK(p)'
  <2>1. UNCHANGED <<sub, mon, exch, trades>>
    BY <1>24 DEF RecCheck
  <2>2. reply'["submit"][p] = reply["submit"][p] /\ reply'["monitor"][p] = reply["monitor"][p]
    BY <1>24, <1>reply, HandlersContain, ReconcilersAssumption
       DEF RecCheck, ReconcilersAssumption
  <2>3. seen[r][o] = "submitted"
    BY <1>24, <1>task DEF TaskOK, RecCheck
  <2>4. ASSUME NEW q \in Reconcilers, rec'[q][p] = "mark"
        PROVE  \/ rec[q][p] = "mark" /\ reply'[q][p] = reply[q][p]
               \/ reply'[q][p] \in ValidNext("submitted") \ {"filled"}
    BY <1>24, <2>3, <2>4, <1>reply, <1>rec, HandlersContain DEF RecCheck, NeedsFill
  <2> QED
    BY <2>1, <2>2, <2>4, <1>answers DEF ReplyOK, ValidNext, Transitions
<1>25. ASSUME NEW r \in Reconcilers, NEW o \in Orders, RecFillDone(r, o) PROVE ReplyOK(p)'
  <2>1. UNCHANGED <<sub, mon, exch, trades, reply>>
    BY <1>25 DEF RecFillDone
  <2>2. seen[r][o] = "submitted"
    BY <1>25, <1>task DEF TaskOK, RecFillDone
  <2>3. fill[r][o] = "returned" => trades[r][o] > 0
    BY <1>fills, HandlersContain DEF FillOK
  <2>4. ASSUME NEW q \in Reconcilers, rec'[q][p] = "mark"
        PROVE  \/ rec[q][p] = "mark"
               \/ trades[q][p] > 0 /\ reply[q][p] \in ValidNext("submitted")
    BY <1>25, <2>2, <2>3, <2>4, <1>rec DEF RecFillDone
  <2> QED
    BY <2>1, <2>4, <1>answers DEF ReplyOK, ValidNext, Transitions
<1>26. ASSUME NEW r \in Reconcilers, NEW o \in Orders, RecMark(r, o) PROVE ReplyOK(p)'
  BY <1>26, <1>answers, <1>mon, <1>rec, <1>sub
     DEF ReplyOK, RecMark
<1>27. CASE StartLoop
  BY <1>27, <1>frame DEF StartLoop
<1>28. CASE LoopStopped
  BY <1>28, <1>answers, <1>mon, <1>rec, <1>sub
     DEF ReplyOK, LoopStopped
<1>29. CASE Shutdown
  BY <1>29, <1>frame DEF Shutdown, StopTasks
<1>30. CASE Crash
  BY <1>30, <1>answers, <1>mon, <1>rec, <1>sub
     DEF ReplyOK, Crash
<1>31. CASE UNCHANGED vars
  BY <1>31, <1>frame DEF vars
<1> QED
  BY <1>1, <1>2, <1>3, <1>4, <1>5, <1>6, <1>7, <1>8, <1>9, <1>10, <1>11,
     <1>12, <1>13, <1>14, <1>15, <1>16, <1>17, <1>18, <1>19, <1>20, <1>21,
     <1>22, <1>23, <1>24, <1>25, <1>26, <1>27, <1>28, <1>29, <1>30, <1>31
     DEF Next, Submit, Monitor, Cancel, Reconcile, HandleFill

LEMMA FilledNext ==
    ASSUME TypeOK, FillInv, ReplyInv, FilledHasTrade, NEW p \in Orders, [Next]_vars
    PROVE  (status[p] = "filled" => HasTrade(p))'
<1> USE DEF worldVars, rowVars, ledgerVars, monVars, recVars,
            fillVars, bounds
<1>old. status[p] = "filled" => HasTrade(p)
  BY DEF FilledHasTrade
<1>fills. \A o \in Orders, h \in Handlers : FillOK(h, o)
  BY DEF FillInv
<1>answers. \A o \in Orders : ReplyOK(o)
  BY DEF ReplyInv
<1>status. status \in [Orders -> RowStatuses \cup {"none"}]
  BY DEF TypeOK
<1>trades. trades \in [Handlers -> [Orders -> Nat]]
  BY DEF TypeOK
<1>booked. booked \in [Handlers -> [Orders -> Nat]]
  BY DEF TypeOK
<1>frame. ASSUME UNCHANGED <<status, trades>> PROVE (status[p] = "filled" => HasTrade(p))'
  BY <1>frame, <1>old DEF HasTrade
<1>1. ASSUME NEW o \in Orders, ExchangeMoves(o) PROVE (status[p] = "filled" => HasTrade(p))'
  BY <1>1, <1>frame DEF ExchangeMoves
<1>2. ASSUME NEW o \in Orders, SubmitVetoed(o) PROVE (status[p] = "filled" => HasTrade(p))'
  BY <1>2, <1>old, <1>status
     DEF HasTrade, SubmitVetoed
<1>3. ASSUME NEW o \in Orders, SubmitPersist(o) PROVE (status[p] = "filled" => HasTrade(p))'
  BY <1>3, <1>old, <1>status
     DEF HasTrade, SubmitPersist, SubmitFails
<1>4. ASSUME NEW o \in Orders, SubmitSend(o) PROVE (status[p] = "filled" => HasTrade(p))'
  BY <1>4, <1>frame DEF SubmitSend
<1>5. ASSUME NEW o \in Orders, SubmitMarkRejected(o) PROVE (status[p] = "filled" => HasTrade(p))'
  BY <1>5, <1>old, <1>status
     DEF HasTrade, SubmitMarkRejected, SubmitFails
<1>6. ASSUME NEW o \in Orders, SubmitMarkSubmitted(o) PROVE (status[p] = "filled" => HasTrade(p))'
  BY <1>6, <1>old, <1>status
     DEF HasTrade, SubmitMarkSubmitted, SubmitFails, RowSubmitted
<1>7. ASSUME NEW o \in Orders, SubmitFillDone(o) PROVE (status[p] = "filled" => HasTrade(p))'
  BY <1>7, <1>frame DEF SubmitFillDone
<1>8. ASSUME NEW o \in Orders, SubmitWatch(o) PROVE (status[p] = "filled" => HasTrade(p))'
  BY <1>8, <1>frame DEF SubmitWatch
<1>9. ASSUME NEW o \in Orders, MonitorBegin(o) PROVE (status[p] = "filled" => HasTrade(p))'
  BY <1>9, <1>frame DEF MonitorBegin
<1>10. ASSUME NEW o \in Orders, MonitorPoll(o) PROVE (status[p] = "filled" => HasTrade(p))'
  BY <1>10, <1>frame DEF MonitorPoll
<1>11. ASSUME NEW o \in Orders, MonitorTimesOut(o) PROVE (status[p] = "filled" => HasTrade(p))'
  BY <1>11, <1>frame DEF MonitorTimesOut
<1>12. ASSUME NEW o \in Orders, MonitorMark(o) PROVE (status[p] = "filled" => HasTrade(p))'
  BY <1>12, <1>old, <1>status, <1>answers
     DEF HasTrade, ReplyOK, MonitorMark
<1>13. ASSUME NEW o \in Orders, MonitorPartial(o) PROVE (status[p] = "filled" => HasTrade(p))'
  BY <1>13, <1>old, <1>status
     DEF HasTrade, MonitorPartial
<1>14. ASSUME NEW o \in Orders, MonitorFillDone(o) PROVE (status[p] = "filled" => HasTrade(p))'
  BY <1>14, <1>frame DEF MonitorFillDone
<1>15. ASSUME NEW o \in Orders, MonitorStopped(o) PROVE (status[p] = "filled" => HasTrade(p))'
  BY <1>15, <1>frame DEF MonitorStopped
<1>16. ASSUME NEW o \in Orders, CancelRead(o) PROVE (status[p] = "filled" => HasTrade(p))'
  BY <1>16, <1>frame DEF CancelRead
<1>17. ASSUME NEW o \in Orders, CancelAtExchange(o) PROVE (status[p] = "filled" => HasTrade(p))'
  BY <1>17, <1>frame DEF CancelAtExchange
<1>18. ASSUME NEW o \in Orders, CancelStopMonitoring(o) PROVE (status[p] = "filled" => HasTrade(p))'
  BY <1>18, <1>frame DEF CancelStopMonitoring
<1>19. ASSUME NEW o \in Orders, CancelMark(o) PROVE (status[p] = "filled" => HasTrade(p))'
  BY <1>19, <1>old, <1>status
     DEF HasTrade, CancelMark
<1>20. ASSUME NEW h \in Handlers, NEW o \in Orders, FillSaveTrade(h, o) PROVE (status[p] = "filled" => HasTrade(p))'
  <2>1. \A g \in Handlers : trades[g][p] > 0 => trades'[g][p] > 0
    BY <1>20, <1>trades DEF FillSaveTrade
  <2> QED
    BY <1>20, <2>1, <1>old DEF HasTrade, FillSaveTrade
<1>21. ASSUME NEW h \in Handlers, NEW o \in Orders, FillMarkFilled(h, o) PROVE (status[p] = "filled" => HasTrade(p))'
  <2>1. trades[h][o] > 0
    BY <1>21, <1>fills, <1>trades, <1>booked DEF FillOK, FillMarkFilled
  <2> QED
    BY <1>21, <2>1, <1>old, <1>status DEF HasTrade, FillMarkFilled
<1>22. ASSUME NEW h \in Handlers, NEW o \in Orders, FillBook(h, o) PROVE (status[p] = "filled" => HasTrade(p))'
  BY <1>22, <1>frame DEF FillBook
<1>23. ASSUME NEW r \in Reconcilers, RecSnapshot(r) PROVE (status[p] = "filled" => HasTrade(p))'
  BY <1>23, <1>frame DEF RecSnapshot
<1>24. ASSUME NEW r \in Reconcilers, NEW o \in Orders, RecCheck(r, o) PROVE (status[p] = "filled" => HasTrade(p))'
  BY <1>24, <1>frame DEF RecCheck
<1>25. ASSUME NEW r \in Reconcilers, NEW o \in Orders, RecFillDone(r, o) PROVE (status[p] = "filled" => HasTrade(p))'
  BY <1>25, <1>frame DEF RecFillDone
<1>26. ASSUME NEW r \in Reconcilers, NEW o \in Orders, RecMark(r, o) PROVE (status[p] = "filled" => HasTrade(p))'
  BY <1>26, <1>old, <1>status, <1>answers, HandlersContain
     DEF HasTrade, ReplyOK, RecMark
<1>27. CASE StartLoop
  BY <1>27, <1>frame DEF StartLoop
<1>28. CASE LoopStopped
  BY <1>28, <1>frame DEF LoopStopped
<1>29. CASE Shutdown
  BY <1>29, <1>frame DEF Shutdown
<1>30. CASE Crash
  BY <1>30, <1>frame DEF Crash
<1>31. CASE UNCHANGED vars
  BY <1>31, <1>frame DEF vars
<1> QED
  BY <1>1, <1>2, <1>3, <1>4, <1>5, <1>6, <1>7, <1>8, <1>9, <1>10, <1>11,
     <1>12, <1>13, <1>14, <1>15, <1>16, <1>17, <1>18, <1>19, <1>20, <1>21,
     <1>22, <1>23, <1>24, <1>25, <1>26, <1>27, <1>28, <1>29, <1>30, <1>31
     DEF Next, Submit, Monitor, Cancel, Reconcile, HandleFill

LEMMA InvNext == IInv /\ [Next]_vars => IInv'
<1> SUFFICES ASSUME IInv, [Next]_vars PROVE IInv'
  OBVIOUS
<1>0. TypeOK /\ RowInv /\ TaskInv /\ FillInv /\ ReplyInv /\ FilledHasTrade
  BY DEF IInv
<1>1. TypeOK'
  BY <1>0, TypeNext
<1>2. RowInv'
  BY <1>0, RowNext DEF RowInv
<1>3. TaskInv'
  BY <1>0, TaskNext DEF TaskInv
<1>4. FillInv'
  BY <1>0, FillNext DEF FillInv
<1>5. ReplyInv'
  BY <1>0, ReplyNext DEF ReplyInv
<1>6. FilledHasTrade'
  BY <1>0, FilledNext DEF FilledHasTrade
<1> QED
  BY <1>1, <1>2, <1>3, <1>4, <1>5, <1>6 DEF IInv

THEOREM Invariant == Spec => []IInv
  BY InvInit, InvNext, PTL DEF Spec

(***************************************************************************)
(* The safety properties.                                                  *)
(***************************************************************************)

\* The pipeline's order: no request reaches the exchange without a row,
\* whatever the callers, the failures and the restarts are.
THEOREM PersistenceFirst == Spec => []PersistedFirst
<1>1. IInv => PersistedFirst
  BY DEF IInv, RowInv, RowOK, PersistedFirst
<1> QED
  BY <1>1, Invariant, PTL

\* However many coroutines handle the fills of an order, none of them writes
\* a trade before the exchange has filled it.
THEOREM TradesExecuted == Spec => []TradesAreExecuted
<1>1. IInv => TradesAreExecuted
  BY DEF IInv, FillInv, FillOK, TradesAreExecuted, HasTrade
<1> QED
  BY <1>1, Invariant, PTL

(***************************************************************************)
(* The pipeline's own handlers.  A submission hands its order over to the  *)
(* task or handles the fill itself: that they never both write a trade     *)
(* follows from where the two coroutines are, without a look at the row.   *)
(***************************************************************************)
OwnOK(o) ==
    /\ sub[o] # "done" => mon[o] = "idle" /\ trades["monitor"][o] = 0
    /\ sub[o] \notin {"filling", "done"} => trades["submit"][o] = 0
    /\ fill["submit"][o] # "none" => sub[o] = "filling"
    /\ fill["submit"][o] = "trade" => trades["submit"][o] = 0
    /\ fill["monitor"][o] # "none" => mon[o] = "filling"
    /\ fill["monitor"][o] = "trade" => trades["monitor"][o] = 0
    /\ mon[o] # "idle" => trades["submit"][o] = 0
    /\ mon[o] \notin {"idle", "filling"} => trades["monitor"][o] = 0
    /\ trades["submit"][o] + trades["monitor"][o] <= 1

OwnInv == \A o \in Orders : OwnOK(o)

LEMMA OwnInit == Init => OwnInv
  BY HandlersContain DEF Init, OwnInv, OwnOK

LEMMA OwnNext ==
    ASSUME TypeOK, OwnInv, NEW p \in Orders, [Next]_vars
    PROVE  OwnOK(p)'
<1> USE DEF worldVars, rowVars, ledgerVars, monVars, recVars,
            fillVars, bounds
<1>old. OwnOK(p)
  BY DEF OwnInv
<1>sub. sub \in [Orders -> SubSteps]
  BY DEF TypeOK
<1>mon. mon \in [Orders -> {"idle", "start", "poll", "mark", "partial", "filling"}]
  BY DEF TypeOK
<1>fill. fill \in [Handlers -> [Orders -> FillSteps]]
  BY DEF TypeOK
<1>trades. trades \in [Handlers -> [Orders -> Nat]]
  BY DEF TypeOK
<1>frame. ASSUME UNCHANGED <<sub, mon, fill, trades>> PROVE OwnOK(p)'
  BY <1>frame, <1>old DEF OwnOK
<1>1. ASSUME NEW o \in Orders, ExchangeMoves(o) PROVE OwnOK(p)'
  BY <1>1, <1>frame DEF ExchangeMoves
<1>2. ASSUME NEW o \in Orders, SubmitVetoed(o) PROVE OwnOK(p)'
  BY <1>2, <1>old, <1>sub, <1>mon, <1>fill, <1>trades, HandlersContain
     DEF OwnOK, SubmitVetoed
<1>3. ASSUME NEW o \in Orders, SubmitPersist(o) PROVE OwnOK(p)'
  BY <1>3, <1>old, <1>sub, <1>mon, <1>fill, <1>trades, HandlersContain
     DEF OwnOK, SubmitPersist, SubmitFails
<1>4. ASSUME NEW o \in Orders, SubmitSend(o) PROVE OwnOK(p)'
  BY <1>4, <1>old, <1>sub, <1>mon, <1>fill, <1>trades, HandlersContain
     DEF OwnOK, SubmitSend
<1>5. ASSUME NEW o \in Orders, SubmitMarkRejected(o) PROVE OwnOK(p)'
  BY <1>5, <1>old, <1>sub, <1>mon, <1>fill, <1>trades, HandlersContain
     DEF OwnOK, SubmitMarkRejected, SubmitFails
<1>6. ASSUME NEW o \in Orders, SubmitMarkSubmitted(o) PROVE OwnOK(p)'
  BY <1>6, <1>old, <1>sub, <1>mon, <1>fill, <1>trades, HandlersContain
     DEF OwnOK, SubmitMarkSubmitted, SubmitFails, FirstFillStep, NeedsFill
<1>7. ASSUME NEW o \in Orders, SubmitFillDone(o) PROVE OwnOK(p)'
  BY <1>7, <1>old, <1>sub, <1>mon, <1>fill, <1>trades, HandlersContain
     DEF OwnOK, SubmitFillDone
<1>8. ASSUME NEW o \in Orders, SubmitWatch(o) PROVE OwnOK(p)'
  BY <1>8, <1>old, <1>sub, <1>mon, <1>fill, <1>trades, HandlersContain
     DEF OwnOK, SubmitWatch
<1>9. ASSUME NEW o \in Orders, MonitorBegin(o) PROVE OwnOK(p)'
  BY <1>9, <1>old, <1>sub, <1>mon, <1>fill, <1>trades, HandlersContain
     DEF OwnOK, MonitorBegin
<1>10. ASSUME NEW o \in Orders, MonitorPoll(o) PROVE OwnOK(p)'
  BY <1>10, <1>old, <1>sub, <1>mon, <1>fill, <1>trades, HandlersContain
     DEF OwnOK, MonitorPoll, FirstFillStep, NeedsFill
<1>11. ASSUME NEW o \in Orders, MonitorTimesOut(o) PROVE OwnOK(p)'
  BY <1>11, <1>old, <1>sub, <1>mon, <1>fill, <1>trades, HandlersContain
     DEF OwnOK, MonitorTimesOut, MonitorEnds
<1>12. ASSUME NEW o \in Orders, MonitorMark(o) PROVE OwnOK(p)'
  BY <1>12, <1>old, <1>sub, <1>mon, <1>fill, <1>trades, HandlersContain
     DEF OwnOK, MonitorMark, MonitorEnds
<1>13. ASSUME NEW o \in Orders, MonitorPartial(o) PROVE OwnOK(p)'
  BY <1>13, <1>old, <1>sub, <1>mon, <1>fill, <1>trades, HandlersContain
     DEF OwnOK, MonitorPartial, MonitorEnds
<1>14. ASSUME NEW o \in Orders, MonitorFillDone(o) PROVE OwnOK(p)'
  BY <1>14, <1>old, <1>sub, <1>mon, <1>fill, <1>trades, HandlersContain
     DEF OwnOK, MonitorFillDone, MonitorEnds
<1>15. ASSUME NEW o \in Orders, MonitorStopped(o) PROVE OwnOK(p)'
  BY <1>15, <1>old, <1>sub, <1>mon, <1>fill, <1>trades, HandlersContain
     DEF OwnOK, MonitorStopped, MonitorEnds
<1>16. ASSUME NEW o \in Orders, CancelRead(o) PROVE OwnOK(p)'
  BY <1>16, <1>frame DEF CancelRead
<1>17. ASSUME NEW o \in Orders, CancelAtExchange(o) PROVE OwnOK(p)'
  BY <1>17, <1>frame DEF CancelAtExchange
<1>18. ASSUME NEW o \in Orders, CancelStopMonitoring(o) PROVE OwnOK(p)'
  BY <1>18, <1>frame DEF CancelStopMonitoring, StopTasks
<1>19. ASSUME NEW o \in Orders, CancelMark(o) PROVE OwnOK(p)'
  BY <1>19, <1>frame DEF CancelMark
<1>20. ASSUME NEW h \in Handlers, NEW o \in Orders, FillSaveTrade(h, o) PROVE OwnOK(p)'
  <2>0. fill[h][o] = "trade"
    BY <1>20 DEF FillSaveTrade
  <2>1. ASSUME NEW g \in Handlers
        PROVE  IF g = h /\ p = o
               THEN /\ fill'[g][p] \in {"mark", "raised"}
                    /\ trades'[g][p] \in {trades[g][p], trades[g][p] + 1}
               ELSE trades'[g][p] = trades[g][p] /\ fill'[g][p] = fill[g][p]
    BY <1>20, <1>fill, <1>trades, FillAdvances, FillStepNames
       DEF FillSaveTrade, FillRaises
  <2>2. trades["submit"][p] \in Nat /\ trades["monitor"][p] \in Nat
    BY <1>trades, HandlersContain
  <2>3. UNCHANGED <<sub, mon>>
    BY <1>20 DEF FillSaveTrade
  <2>4. CASE h = "submit" /\ p = o
    <3>1. /\ sub[p] = "filling" /\ trades["submit"][p] = 0
          /\ mon[p] = "idle" /\ trades["monitor"][p] = 0
          /\ fill["monitor"][p] = "none"
      BY <2>0, <2>4, <1>old DEF OwnOK
    <3>2. fill'["monitor"][p] = "none" /\ trades'["monitor"][p] = 0
      BY <2>1, <2>4, <3>1, HandlersContain
    <3>3. /\ fill'["submit"][p] \in {"mark", "raised"}
          /\ trades'["submit"][p] \in {0, 1}
      BY <2>1, <2>4, <3>1, HandlersContain
    <3>4. sub'[p] = "filling" /\ mon'[p] = "idle"
      BY <2>3, <3>1
    <3> QED
      BY <3>2, <3>3, <3>4 DEF OwnOK
  <2>5. CASE h = "monitor" /\ p = o
    <3>1. /\ sub[p] = "done" /\ trades["submit"][p] = 0
          /\ mon[p] = "filling" /\ trades["monitor"][p] = 0
          /\ fill["submit"][p] = "none"
      BY <2>0, <2>5, <1>old DEF OwnOK
    <3>2. fill'["submit"][p] = "none" /\ trades'["submit"][p] = 0
      BY <2>1, <2>5, <3>1, HandlersContain
    <3>3. /\ fill'["monitor"][p] \in {"mark", "raised"}
          /\ trades'["monitor"][p] \in {0, 1}
      BY <2>1, <2>5, <3>1, HandlersContain
    <3>4. sub'[p] = "done" /\ mon'[p] = "filling"
      BY <2>3, <3>1
    <3> QED
      BY <3>2, <3>3, <3>4 DEF OwnOK
  <2>6. CASE h \notin {"submit", "monitor"} \/ p # o
    BY <2>1, <2>3, <2>6, <1>old, HandlersContain DEF OwnOK
  <2> QED
    BY <2>4, <2>5, <2>6
<1>21. ASSUME NEW h \in Handlers, NEW o \in Orders, FillMarkFilled(h, o) PROVE OwnOK(p)'
  BY <1>21, <1>old, <1>sub, <1>mon, <1>fill, <1>trades, HandlersContain, ReconcilersAssumption
     DEF OwnOK, FillMarkFilled, FillAdvance, FillRaises
<1>22. ASSUME NEW h \in Handlers, NEW o \in Orders, FillBook(h, o) PROVE OwnOK(p)'
  BY <1>22, <1>old, <1>sub, <1>mon, <1>fill, <1>trades, HandlersContain, ReconcilersAssumption
     DEF OwnOK, FillBook, FillAdvance
<1>23. ASSUME NEW r \in Reconcilers, RecSnapshot(r) PROVE OwnOK(p)'
  BY <1>23, <1>frame DEF RecSnapshot
<1>24. ASSUME NEW r \in Reconcilers, NEW o \in Orders, RecCheck(r, o) PROVE OwnOK(p)'
  BY <1>24, <1>old, <1>sub, <1>mon, <1>fill, <1>trades, HandlersContain, ReconcilersAssumption
     DEF OwnOK, RecCheck, FirstFillStep
<1>25. ASSUME NEW r \in Reconcilers, NEW o \in Orders, RecFillDone(r, o) PROVE OwnOK(p)'
  BY <1>25, <1>old, <1>sub, <1>mon, <1>fill, <1>trades, HandlersContain, ReconcilersAssumption
     DEF OwnOK, RecFillDone
<1>26. ASSUME NEW r \in Reconcilers, NEW o \in Orders, RecMark(r, o) PROVE OwnOK(p)'
  BY <1>26, <1>frame DEF RecMark
<1>27. CASE StartLoop
  BY <1>27, <1>frame DEF StartLoop
<1>28. CASE LoopStopped
  BY <1>28, <1>old, <1>sub, <1>mon, <1>fill, <1>trades, HandlersContain
     DEF OwnOK, LoopStopped
<1>29. CASE Shutdown
  BY <1>29, <1>frame DEF Shutdown, StopTasks
<1>30. CASE Crash
  BY <1>30, <1>old, <1>sub, <1>mon, <1>fill, <1>trades, HandlersContain
     DEF OwnOK, Crash
<1>31. CASE UNCHANGED vars
  BY <1>31, <1>frame DEF vars
<1> QED
  BY <1>1, <1>2, <1>3, <1>4, <1>5, <1>6, <1>7, <1>8, <1>9, <1>10, <1>11,
     <1>12, <1>13, <1>14, <1>15, <1>16, <1>17, <1>18, <1>19, <1>20, <1>21,
     <1>22, <1>23, <1>24, <1>25, <1>26, <1>27, <1>28, <1>29, <1>30, <1>31
     DEF Next, Submit, Monitor, Cancel, Reconcile, HandleFill

LEMMA OwnInvariant == Spec => [](TypeOK /\ OwnInv)
<1>1. Init => TypeOK /\ OwnInv
  BY TypeInit, OwnInit
<1>2. (TypeOK /\ OwnInv) /\ [Next]_vars => (TypeOK /\ OwnInv)'
  BY TypeNext, OwnNext DEF OwnInv
<1> QED
  BY <1>1, <1>2, PTL DEF Spec

\* _handle_fill's order of writes survives every interruption, and the
\* submission and the task never both handle the fill: a FILLED row always
\* has its trade, and at most one from the two of them.
THEOREM TradesMatched == Spec => []TradesMatchFills
<1>1. IInv => FilledHasTrade
  BY DEF IInv
<1>2. OwnInv => OneOwnTrade
  BY DEF OwnInv, OwnOK, OneOwnTrade
<1> QED
  BY <1>1, <1>2, Invariant, OwnInvariant, PTL DEF TradesMatchFills

\* No handler moves a position more often than it wrote trades.
THEOREM BookedTraded == Spec => []BookedHasTrade
<1>1. IInv => BookedHasTrade
  BY DEF IInv, FillInv, FillOK, BookedHasTrade
<1> QED
  BY <1>1, Invariant, PTL

\* A monitoring task always has an order to ask the exchange about.
THEOREM WatchedTraceable == Spec => []WatchedIsTraceable
<1>1. IInv => WatchedIsTraceable
  BY DEF IInv, TypeOK, TaskInv, TaskOK, WatchedIsTraceable
<1> QED
  BY <1>1, Invariant, PTL

(* As long as nothing has failed: what the exchange has accepted is in its *)
(* row already, or the submission holds the answer it is about to write.   *)
Untroubled == faults = 0 /\ restarts = 0

Traced(o) == exch[o] # "none" => o \in extId \/ sub[o] = "markSubmitted"

TracedInv == Untroubled => \A o \in Orders : Traced(o)

LEMMA TracedNext == ASSUME TypeOK, TracedInv, [Next]_vars PROVE TracedInv'
<1> USE DEF worldVars, rowVars, ledgerVars, monVars, recVars, fillVars, bounds
<1> SUFFICES ASSUME Untroubled', NEW p \in Orders PROVE Traced(p)'
  BY DEF TracedInv
<1>types. /\ exch \in [Orders -> Live \cup Closed \cup {"none"}]
          /\ sub \in [Orders -> SubSteps]
          /\ faults \in Nat /\ restarts \in Nat
  BY BoundsAssumption DEF TypeOK
<1>calm. ~Fault /\ restarts' # restarts + 1
  BY <1>types DEF Fault, Untroubled
<1>old. ASSUME UNCHANGED <<faults, restarts>> PROVE Traced(p)
  BY <1>old DEF Untroubled, TracedInv
<1>frame. ASSUME UNCHANGED <<exch, sub, extId, faults, restarts>> PROVE Traced(p)'
  BY <1>frame, <1>old DEF Traced
<1>1. ASSUME NEW o \in Orders, ExchangeMoves(o) PROVE Traced(p)'
  BY <1>1, <1>old, <1>types DEF ExchangeMoves, Traced, Live
<1>2. ASSUME NEW o \in Orders, SubmitVetoed(o) PROVE Traced(p)'
  BY <1>2, <1>old, <1>types DEF SubmitVetoed, Traced
<1>3. ASSUME NEW o \in Orders, SubmitPersist(o) PROVE Traced(p)'
  BY <1>3, <1>old, <1>types, <1>calm DEF SubmitPersist, SubmitFails, Traced
<1>4. ASSUME NEW o \in Orders, SubmitSend(o) PROVE Traced(p)'
  BY <1>4, <1>old, <1>types, <1>calm DEF SubmitSend, Traced
<1>5. ASSUME NEW o \in Orders, SubmitMarkRejected(o) PROVE Traced(p)'
  BY <1>5, <1>old, <1>types, <1>calm DEF SubmitMarkRejected, SubmitFails, Traced
<1>6. ASSUME NEW o \in Orders, SubmitMarkSubmitted(o) PROVE Traced(p)'
  BY <1>6, <1>old, <1>types, <1>calm DEF SubmitMarkSubmitted, SubmitFails, RowSubmitted, Traced
<1>7. ASSUME NEW o \in Orders, SubmitFillDone(o) \/ SubmitWatch(o) PROVE Traced(p)'
  BY <1>7, <1>old, <1>types DEF SubmitFillDone, SubmitWatch, Traced
<1>8. ASSUME NEW o \in Orders, NEW h \in Handlers, HandleFill(h, o) PROVE Traced(p)'
  BY <1>8, <1>frame, <1>calm DEF HandleFill, FillSaveTrade, FillMarkFilled, FillBook, FillRaises
<1>9. ASSUME NEW o \in Orders, Monitor(o) PROVE Traced(p)'
  BY <1>9, <1>frame, <1>calm DEF Monitor, MonitorBegin, MonitorPoll, MonitorTimesOut, MonitorMark,
     MonitorPartial, MonitorFillDone, MonitorStopped
<1>10. ASSUME NEW o \in Orders, CancelAtExchange(o) PROVE Traced(p)'
  BY <1>10, <1>old, <1>types, <1>calm DEF CancelAtExchange, Traced, Live
<1>11. ASSUME NEW o \in Orders, CancelRead(o) \/ CancelStopMonitoring(o) \/ CancelMark(o)
       PROVE Traced(p)'
  BY <1>11, <1>frame, <1>calm DEF CancelRead, CancelStopMonitoring, CancelMark
<1>12. ASSUME NEW r \in Reconcilers, Reconcile(r) PROVE Traced(p)'
  BY <1>12, <1>frame, <1>calm DEF Reconcile, RecSnapshot, RecCheck, RecFillDone, RecMark
<1>13. CASE StartLoop \/ LoopStopped \/ UNCHANGED vars
  BY <1>13, <1>frame DEF StartLoop, LoopStopped, vars
<1>14. CASE Shutdown \/ Crash
  BY <1>14, <1>calm DEF Shutdown, Crash
<1> QED
  BY <1>1, <1>2, <1>3, <1>4, <1>5, <1>6, <1>7, <1>8, <1>9, <1>10, <1>11, <1>12, <1>13, <1>14
     DEF Next, Submit, Cancel

\* As long as no call has failed and the process has not stopped, a submission
\* that is over has left the exchange's identifier in the row of every order
\* the exchange has accepted, so that reconciliation can find it.
THEOREM TracedUnlessFault == Spec => []TraceableUnlessFault
<1>1. Init => TypeOK /\ TracedInv
  BY TypeInit DEF Init, TracedInv, Traced
<1>2. (TypeOK /\ TracedInv) /\ [Next]_vars => (TypeOK /\ TracedInv)'
  BY TypeNext, TracedNext
<1>3. TracedInv => TraceableUnlessFault
  BY DEF TracedInv, Traced, Untroubled, TraceableUnlessFault
<1> QED
  BY <1>1, <1>2, <1>3, PTL DEF Spec

(* All that a step can do to a row.                                        *)
RowStep(o) ==
    \/ status'[o] = status[o]
    \/ status[o] = "none" /\ status'[o] \in {"pending", "rejected"}
    \/ status[o] = "pending" /\ status'[o] \in {"submitted", "rejected"}
    \/ /\ o \in extId
       /\ status'[o] \in {"partially_filled", "filled", "cancelled", "rejected", "expired"}


LEMMA RowSteps ==
    ASSUME TypeOK, RowInv, TaskInv, ReplyInv, NEW p \in Orders, [Next]_vars
    PROVE  RowStep(p)
<1> USE DEF worldVars, rowVars, ledgerVars, monVars, recVars,
            fillVars, bounds
<1>old. RowOK(p)
  BY DEF RowInv
<1>task. \A o \in Orders : TaskOK(o)
  BY DEF TaskInv
<1>answers. \A o \in Orders : ReplyOK(o)
  BY DEF ReplyInv
<1>status. status \in [Orders -> RowStatuses \cup {"none"}]
  BY DEF TypeOK
<1>frame. ASSUME UNCHANGED <<status>> PROVE RowStep(p)
  BY <1>frame DEF RowStep
<1>1. ASSUME NEW o \in Orders, ExchangeMoves(o) PROVE RowStep(p)
  BY <1>1, <1>frame DEF ExchangeMoves
<1>2. ASSUME NEW o \in Orders, SubmitVetoed(o) PROVE RowStep(p)
  BY <1>2, <1>old, <1>status
     DEF RowOK, RowStep, SubmitVetoed
<1>3. ASSUME NEW o \in Orders, SubmitPersist(o) PROVE RowStep(p)
  BY <1>3, <1>old, <1>status
     DEF RowOK, RowStep, SubmitPersist, SubmitFails
<1>4. ASSUME NEW o \in Orders, SubmitSend(o) PROVE RowStep(p)
  BY <1>4, <1>frame DEF SubmitSend
<1>5. ASSUME NEW o \in Orders, SubmitMarkRejected(o) PROVE RowStep(p)
  BY <1>5, <1>old, <1>status
     DEF RowOK, RowStep, SubmitMarkRejected, SubmitFails
<1>6. ASSUME NEW o \in Orders, SubmitMarkSubmitted(o) PROVE RowStep(p)
  BY <1>6, <1>old, <1>status
     DEF RowOK, RowStep, SubmitMarkSubmitted, SubmitFails, RowSubmitted
<1>7. ASSUME NEW o \in Orders, SubmitFillDone(o) PROVE RowStep(p)
  BY <1>7, <1>frame DEF SubmitFillDone
<1>8. ASSUME NEW o \in Orders, SubmitWatch(o) PROVE RowStep(p)
  BY <1>8, <1>frame DEF SubmitWatch
<1>9. ASSUME NEW o \in Orders, MonitorBegin(o) PROVE RowStep(p)
  BY <1>9, <1>frame DEF MonitorBegin
<1>10. ASSUME NEW o \in Orders, MonitorPoll(o) PROVE RowStep(p)
  BY <1>10, <1>frame DEF MonitorPoll
<1>11. ASSUME NEW o \in Orders, MonitorTimesOut(o) PROVE RowStep(p)
  BY <1>11, <1>frame DEF MonitorTimesOut
<1>12. ASSUME NEW o \in Orders, MonitorMark(o) PROVE RowStep(p)
  BY <1>12, <1>task, <1>answers, <1>status
     DEF TaskOK, ReplyOK, RowStep, MonitorMark
<1>13. ASSUME NEW o \in Orders, MonitorPartial(o) PROVE RowStep(p)
  BY <1>13, <1>task, <1>answers, <1>status
     DEF TaskOK, ReplyOK, RowStep, MonitorPartial
<1>14. ASSUME NEW o \in Orders, MonitorFillDone(o) PROVE RowStep(p)
  BY <1>14, <1>frame DEF MonitorFillDone
<1>15. ASSUME NEW o \in Orders, MonitorStopped(o) PROVE RowStep(p)
  BY <1>15, <1>frame DEF MonitorStopped
<1>16. ASSUME NEW o \in Orders, CancelRead(o) PROVE RowStep(p)
  BY <1>16, <1>frame DEF CancelRead
<1>17. ASSUME NEW o \in Orders, CancelAtExchange(o) PROVE RowStep(p)
  BY <1>17, <1>frame DEF CancelAtExchange
<1>18. ASSUME NEW o \in Orders, CancelStopMonitoring(o) PROVE RowStep(p)
  BY <1>18, <1>frame DEF CancelStopMonitoring
<1>19. ASSUME NEW o \in Orders, CancelMark(o) PROVE RowStep(p)
  BY <1>19, <1>task, <1>answers, <1>status
     DEF TaskOK, ReplyOK, RowStep, CancelMark
<1>20. ASSUME NEW h \in Handlers, NEW o \in Orders, FillSaveTrade(h, o) PROVE RowStep(p)
  BY <1>20, <1>frame DEF FillSaveTrade
<1>21. ASSUME NEW h \in Handlers, NEW o \in Orders, FillMarkFilled(h, o) PROVE RowStep(p)
  BY <1>21, <1>task, <1>answers, <1>status
     DEF TaskOK, ReplyOK, RowStep, FillMarkFilled
<1>22. ASSUME NEW h \in Handlers, NEW o \in Orders, FillBook(h, o) PROVE RowStep(p)
  BY <1>22, <1>frame DEF FillBook
<1>23. ASSUME NEW r \in Reconcilers, RecSnapshot(r) PROVE RowStep(p)
  BY <1>23, <1>frame DEF RecSnapshot
<1>24. ASSUME NEW r \in Reconcilers, NEW o \in Orders, RecCheck(r, o) PROVE RowStep(p)
  BY <1>24, <1>frame DEF RecCheck
<1>25. ASSUME NEW r \in Reconcilers, NEW o \in Orders, RecFillDone(r, o) PROVE RowStep(p)
  BY <1>25, <1>frame DEF RecFillDone
<1>26. ASSUME NEW r \in Reconcilers, NEW o \in Orders, RecMark(r, o) PROVE RowStep(p)
  BY <1>26, <1>task, <1>answers, <1>status
     DEF TaskOK, ReplyOK, RowStep, RecMark
<1>27. CASE StartLoop
  BY <1>27, <1>frame DEF StartLoop
<1>28. CASE LoopStopped
  BY <1>28, <1>frame DEF LoopStopped
<1>29. CASE Shutdown
  BY <1>29, <1>frame DEF Shutdown
<1>30. CASE Crash
  BY <1>30, <1>frame DEF Crash
<1>31. CASE UNCHANGED vars
  BY <1>31, <1>frame DEF vars
<1> QED
  BY <1>1, <1>2, <1>3, <1>4, <1>5, <1>6, <1>7, <1>8, <1>9, <1>10, <1>11,
     <1>12, <1>13, <1>14, <1>15, <1>16, <1>17, <1>18, <1>19, <1>20, <1>21,
     <1>22, <1>23, <1>24, <1>25, <1>26, <1>27, <1>28, <1>29, <1>30, <1>31
     DEF Next, Submit, Monitor, Cancel, Reconcile, HandleFill

\* No coroutine takes a row back to PENDING or reopens a finished one.
THEOREM RowsNeverReopen == Spec => NeverReopens
<1>1. IInv /\ [Next]_vars => \A o \in Orders : RowOK(o) /\ RowStep(o)
  BY RowSteps DEF IInv, RowInv
<1>2. IInv /\ [Next]_vars =>
        [\A o \in Orders :
            /\ status[o] # "none" => status'[o] # "none"
            /\ status[o] \notin {"none", "pending", "submitted"} =>
                  status'[o] # "submitted"
            /\ status'[o] = "pending" => status[o] \in {"none", "pending"}]_vars
  BY <1>1 DEF RowOK, RowStep
<1> QED
  BY <1>2, Invariant, PTL DEF Spec, NeverReopens

(***************************************************************************)
(* The refinement.                                                         *)
(***************************************************************************)
LEMMA ContractInit == Init => Contract!Init
  BY DEF Init, Contract!Init

(* The contract sees a row only as recorded or not.                        *)
LEMMA RowStepRecorded ==
    ASSUME NEW p \in Orders, RowOK(p), RowStep(p)
    PROVE  status[p] # "none" => status'[p] # "none"
  BY DEF RowOK, RowStep

LEMMA ContractRecord ==
    ASSUME status \in [Orders -> RowStatuses \cup {"none"}],
           NEW o \in Orders, status[o] = "none",
           NEW s \in RowStatuses, status' = [status EXCEPT ![o] = s],
           UNCHANGED <<exch, trades, booked>>
    PROVE  Contract!Next
<1>1. s # "none"
  BY DEF RowStatuses
<1>2. Contract!Record(o)
  BY <1>1 DEF Contract!Record
<1> QED
  BY <1>2 DEF Contract!Next

LEMMA ContractRowKept ==
    ASSUME status \in [Orders -> RowStatuses \cup {"none"}],
           \A p \in Orders : status'[p] # status[p] => status[p] # "none" /\ status'[p] # "none",
           UNCHANGED <<exch, trades, booked>>
    PROVE  UNCHANGED Contract!vars
<1>1. {p \in Orders : status'[p] # "none"} = {p \in Orders : status[p] # "none"}
  OBVIOUS
<1> QED
  BY <1>1 DEF Contract!vars

LEMMA ContractPlace ==
    ASSUME exch \in [Orders -> Live \cup Closed \cup {"none"}],
           NEW o \in Orders, status[o] # "none", exch[o] = "none",
           NEW s \in Live \cup Closed, exch' = [exch EXCEPT ![o] = s],
           UNCHANGED <<status, trades, booked>>
    PROVE  Contract!Next
<1>1. s # "none"
  BY DEF Live, Closed
<1>2. {p \in Orders : exch'[p] # "none"} = {p \in Orders : exch[p] # "none"} \cup {o}
  BY <1>1
<1>3. {p \in Orders : exch'[p] = "FILLED"} =
        IF s = "FILLED" THEN {p \in Orders : exch[p] = "FILLED"} \cup {o}
                        ELSE {p \in Orders : exch[p] = "FILLED"}
  OBVIOUS
<1>4. Contract!Place(o)
  BY <1>2, <1>3 DEF Contract!Place
<1> QED
  BY <1>4 DEF Contract!Next

LEMMA ContractMove ==
    ASSUME exch \in [Orders -> Live \cup Closed \cup {"none"}],
           NEW o \in Orders, exch[o] \in Live,
           NEW s \in Live \cup Closed, exch' = [exch EXCEPT ![o] = s],
           UNCHANGED <<status, trades, booked>>
    PROVE  [Contract!Next]_(Contract!vars)
<1>1. s # "none" /\ exch[o] # "none" /\ exch[o] # "FILLED"
  BY DEF Live, Closed
<1>2. {p \in Orders : exch'[p] # "none"} = {p \in Orders : exch[p] # "none"}
  BY <1>1
<1>3. {p \in Orders : exch'[p] = "FILLED"} =
        IF s = "FILLED" THEN {p \in Orders : exch[p] = "FILLED"} \cup {o}
                        ELSE {p \in Orders : exch[p] = "FILLED"}
  BY <1>1
<1>4. CASE s = "FILLED"
  <2>1. Contract!Complete(o)
    BY <1>1, <1>2, <1>3, <1>4 DEF Contract!Complete
  <2> QED
    BY <2>1 DEF Contract!Next
<1>5. CASE s # "FILLED"
  BY <1>2, <1>3, <1>5 DEF Contract!vars
<1> QED
  BY <1>4, <1>5

LEMMA ContractStep ==
    ASSUME TypeOK, RowInv, TaskInv, FillInv, ReplyInv, [Next]_vars
    PROVE  [Contract!Next]_(Contract!vars)
<1> USE DEF worldVars, rowVars, ledgerVars, monVars, recVars,
            fillVars, bounds
<1>row. \A o \in Orders : RowOK(o)
  BY DEF RowInv
<1>task. \A o \in Orders : TaskOK(o)
  BY DEF TaskInv
<1>fills. \A o \in Orders, h \in Handlers : FillOK(h, o)
  BY DEF FillInv
<1>answers. \A o \in Orders : ReplyOK(o)
  BY DEF ReplyInv
<1>status. status \in [Orders -> RowStatuses \cup {"none"}]
  BY DEF TypeOK
<1>exch. exch \in [Orders -> Live \cup Closed \cup {"none"}]
  BY DEF TypeOK
<1>frame. ASSUME UNCHANGED <<status, exch, trades, booked>> PROVE [Contract!Next]_(Contract!vars)
  BY <1>frame DEF Contract!vars
<1>1. ASSUME NEW o \in Orders, ExchangeMoves(o) PROVE [Contract!Next]_(Contract!vars)
  <2>1. exch[o] \in Live /\ UNCHANGED <<status, trades, booked>>
    BY <1>1 DEF ExchangeMoves
  <2>2. PICK s \in Live \cup Closed : exch' = [exch EXCEPT ![o] = s]
    BY <1>1 DEF ExchangeMoves, Live, Closed
  <2> QED
    BY <2>1, <2>2, <1>exch, ContractMove
<1>2. ASSUME NEW o \in Orders, SubmitVetoed(o) PROVE [Contract!Next]_(Contract!vars)
  <2>1. status[o] = "none"
    BY <1>2, <1>row DEF RowOK, SubmitVetoed
  <2> QED
    BY <1>2, <2>1, <1>status, ContractRecord DEF SubmitVetoed, RowStatuses
<1>3. ASSUME NEW o \in Orders, SubmitPersist(o) PROVE [Contract!Next]_(Contract!vars)
  <2>1. status[o] = "none"
    BY <1>3, <1>row DEF RowOK, SubmitPersist
  <2>2. UNCHANGED <<exch, trades, booked>>
    BY <1>3 DEF SubmitPersist
  <2>3. CASE status' = [status EXCEPT ![o] = "pending"]
    BY <2>1, <2>2, <2>3, <1>status, ContractRecord DEF RowStatuses
  <2>4. CASE status' = status
    BY <2>2, <2>4, <1>frame
  <2> QED
    BY <1>3, <2>3, <2>4 DEF SubmitPersist
<1>4. ASSUME NEW o \in Orders, SubmitSend(o) PROVE [Contract!Next]_(Contract!vars)
  <2>1. status[o] # "none" /\ exch[o] = "none"
    BY <1>4, <1>row DEF RowOK, SubmitSend
  <2>2. UNCHANGED <<status, trades, booked>>
    BY <1>4 DEF SubmitSend
  <2>3. CASE exch' = exch
    BY <2>2, <2>3, <1>frame
  <2>4. ASSUME NEW s \in PlacementOutcomes, exch' = [exch EXCEPT ![o] = s]
        PROVE  Contract!Next
    <3>1. s \in Live \cup Closed
      BY DEF PlacementOutcomes, Live, Closed
    <3> QED
      BY <3>1, <2>1, <2>2, <2>4, <1>exch, ContractPlace
  <2> QED
    BY <1>4, <2>3, <2>4 DEF SubmitSend
<1>5. ASSUME NEW o \in Orders, SubmitMarkRejected(o) PROVE [Contract!Next]_(Contract!vars)
  <2>1. status[o] = "pending" /\ UNCHANGED <<exch, trades, booked>>
    BY <1>5, <1>row DEF RowOK, SubmitMarkRejected
  <2>2. \A p \in Orders : status'[p] # status[p] =>
            status[p] # "none" /\ status'[p] # "none"
    BY <1>5, <2>1, <1>status DEF SubmitMarkRejected, SubmitFails
  <2> QED
    BY <2>1, <2>2, <1>status, ContractRowKept
<1>6. ASSUME NEW o \in Orders, SubmitMarkSubmitted(o) PROVE [Contract!Next]_(Contract!vars)
  <2>1. status[o] = "pending" /\ UNCHANGED <<exch, trades, booked>>
    BY <1>6, <1>row DEF RowOK, SubmitMarkSubmitted
  <2>2. \A p \in Orders : status'[p] # status[p] =>
            status[p] # "none" /\ status'[p] # "none"
    BY <1>6, <2>1, <1>status DEF SubmitMarkSubmitted, SubmitFails, RowSubmitted
  <2> QED
    BY <2>1, <2>2, <1>status, ContractRowKept
<1>7. ASSUME NEW o \in Orders, SubmitFillDone(o) PROVE [Contract!Next]_(Contract!vars)
  BY <1>7, <1>frame DEF SubmitFillDone
<1>8. ASSUME NEW o \in Orders, SubmitWatch(o) PROVE [Contract!Next]_(Contract!vars)
  BY <1>8, <1>frame DEF SubmitWatch
<1>9. ASSUME NEW o \in Orders, MonitorBegin(o) PROVE [Contract!Next]_(Contract!vars)
  BY <1>9, <1>frame DEF MonitorBegin
<1>10. ASSUME NEW o \in Orders, MonitorPoll(o) PROVE [Contract!Next]_(Contract!vars)
  BY <1>10, <1>frame DEF MonitorPoll
<1>11. ASSUME NEW o \in Orders, MonitorTimesOut(o) PROVE [Contract!Next]_(Contract!vars)
  BY <1>11, <1>frame DEF MonitorTimesOut
<1>12. ASSUME NEW o \in Orders, MonitorMark(o) PROVE [Contract!Next]_(Contract!vars)
  <2>1. status[o] # "none" /\ UNCHANGED <<exch, trades, booked>>
    BY <1>12, <1>row, <1>task DEF RowOK, TaskOK, MonitorMark
  <2>2. \A p \in Orders : status'[p] # status[p] =>
            status[p] # "none" /\ status'[p] # "none"
    BY <1>12, <2>1, <1>status, <1>answers DEF MonitorMark, ReplyOK
  <2> QED
    BY <2>1, <2>2, <1>status, ContractRowKept
<1>13. ASSUME NEW o \in Orders, MonitorPartial(o) PROVE [Contract!Next]_(Contract!vars)
  <2>1. status[o] # "none" /\ UNCHANGED <<exch, trades, booked>>
    BY <1>13, <1>row, <1>task DEF RowOK, TaskOK, MonitorPartial
  <2>2. \A p \in Orders : status'[p] # status[p] =>
            status[p] # "none" /\ status'[p] # "none"
    BY <1>13, <2>1, <1>status, <1>answers DEF MonitorPartial
  <2> QED
    BY <2>1, <2>2, <1>status, ContractRowKept
<1>14. ASSUME NEW o \in Orders, MonitorFillDone(o) PROVE [Contract!Next]_(Contract!vars)
  BY <1>14, <1>frame DEF MonitorFillDone
<1>15. ASSUME NEW o \in Orders, MonitorStopped(o) PROVE [Contract!Next]_(Contract!vars)
  BY <1>15, <1>frame DEF MonitorStopped
<1>16. ASSUME NEW o \in Orders, CancelRead(o) PROVE [Contract!Next]_(Contract!vars)
  BY <1>16, <1>frame DEF CancelRead
<1>17. ASSUME NEW o \in Orders, CancelAtExchange(o) PROVE [Contract!Next]_(Contract!vars)
  <2>1. UNCHANGED <<status, trades, booked>>
    BY <1>17 DEF CancelAtExchange
  <2>2. CASE exch' = exch
    BY <2>1, <2>2, <1>frame
  <2>3. CASE exch[o] \in Live /\ exch' = [exch EXCEPT ![o] = "CANCELED"]
    <3>1. "CANCELED" \in Live \cup Closed
      BY DEF Closed
    <3> QED
      BY <3>1, <2>1, <2>3, <1>exch, ContractMove
  <2> QED
    BY <1>17, <2>2, <2>3 DEF CancelAtExchange
<1>18. ASSUME NEW o \in Orders, CancelStopMonitoring(o) PROVE [Contract!Next]_(Contract!vars)
  BY <1>18, <1>frame DEF CancelStopMonitoring
<1>19. ASSUME NEW o \in Orders, CancelMark(o) PROVE [Contract!Next]_(Contract!vars)
  <2>1. status[o] # "none" /\ UNCHANGED <<exch, trades, booked>>
    BY <1>19, <1>row, <1>task DEF RowOK, TaskOK, CancelMark
  <2>2. \A p \in Orders : status'[p] # status[p] =>
            status[p] # "none" /\ status'[p] # "none"
    BY <1>19, <2>1, <1>status, <1>answers DEF CancelMark
  <2> QED
    BY <2>1, <2>2, <1>status, ContractRowKept
<1>20. ASSUME NEW h \in Handlers, NEW o \in Orders, FillSaveTrade(h, o) PROVE [Contract!Next]_(Contract!vars)
  <2>1. exch[o] = "FILLED"
    BY <1>20, <1>fills DEF FillOK, FillSaveTrade
  <2>2. UNCHANGED <<status, exch, booked>>
    BY <1>20 DEF FillSaveTrade
  <2>3. CASE trades' = trades
    BY <2>2, <2>3, <1>frame
  <2>4. CASE trades' = [trades EXCEPT ![h][o] = @ + 1]
    <3>1. Contract!WriteTrade(h, o)
      BY <2>1, <2>2, <2>4 DEF Contract!WriteTrade
    <3> QED
      BY <3>1 DEF Contract!Next
  <2> QED
    BY <1>20, <2>3, <2>4 DEF FillSaveTrade
<1>21. ASSUME NEW h \in Handlers, NEW o \in Orders, FillMarkFilled(h, o) PROVE [Contract!Next]_(Contract!vars)
  <2>1. status[o] # "none" /\ UNCHANGED <<exch, trades, booked>>
    BY <1>21, <1>row, <1>task DEF RowOK, TaskOK, FillMarkFilled
  <2>2. \A p \in Orders : status'[p] # status[p] =>
            status[p] # "none" /\ status'[p] # "none"
    BY <1>21, <2>1, <1>status, <1>answers DEF FillMarkFilled
  <2> QED
    BY <2>1, <2>2, <1>status, ContractRowKept
<1>22. ASSUME NEW h \in Handlers, NEW o \in Orders, FillBook(h, o) PROVE [Contract!Next]_(Contract!vars)
  <2>1. booked[h][o] < trades[h][o]
    BY <1>22, <1>fills DEF FillOK, FillBook
  <2>2. UNCHANGED <<status, exch, trades>>
    BY <1>22 DEF FillBook
  <2>3. CASE booked' = booked
    BY <2>2, <2>3, <1>frame
  <2>4. CASE booked' = [booked EXCEPT ![h][o] = @ + 1]
    <3>1. Contract!BookFill(h, o)
      BY <2>1, <2>2, <2>4 DEF Contract!BookFill
    <3> QED
      BY <3>1 DEF Contract!Next
  <2> QED
    BY <1>22, <2>3, <2>4 DEF FillBook
<1>23. ASSUME NEW r \in Reconcilers, RecSnapshot(r) PROVE [Contract!Next]_(Contract!vars)
  BY <1>23, <1>frame DEF RecSnapshot
<1>24. ASSUME NEW r \in Reconcilers, NEW o \in Orders, RecCheck(r, o) PROVE [Contract!Next]_(Contract!vars)
  BY <1>24, <1>frame DEF RecCheck
<1>25. ASSUME NEW r \in Reconcilers, NEW o \in Orders, RecFillDone(r, o) PROVE [Contract!Next]_(Contract!vars)
  BY <1>25, <1>frame DEF RecFillDone
<1>26. ASSUME NEW r \in Reconcilers, NEW o \in Orders, RecMark(r, o) PROVE [Contract!Next]_(Contract!vars)
  <2>1. status[o] # "none" /\ UNCHANGED <<exch, trades, booked>>
    BY <1>26, <1>row, <1>task DEF RowOK, TaskOK, RecMark
  <2>2. \A p \in Orders : status'[p] # status[p] =>
            status[p] # "none" /\ status'[p] # "none"
    BY <1>26, <2>1, <1>status, <1>answers DEF RecMark, ReplyOK
  <2> QED
    BY <2>1, <2>2, <1>status, ContractRowKept
<1>27. CASE StartLoop
  BY <1>27, <1>frame DEF StartLoop
<1>28. CASE LoopStopped
  BY <1>28, <1>frame DEF LoopStopped
<1>29. CASE Shutdown
  BY <1>29, <1>frame DEF Shutdown
<1>30. CASE Crash
  BY <1>30, <1>frame DEF Crash
<1>31. CASE UNCHANGED vars
  BY <1>31, <1>frame DEF vars
<1> QED
  BY <1>1, <1>2, <1>3, <1>4, <1>5, <1>6, <1>7, <1>8, <1>9, <1>10, <1>11,
     <1>12, <1>13, <1>14, <1>15, <1>16, <1>17, <1>18, <1>19, <1>20, <1>21,
     <1>22, <1>23, <1>24, <1>25, <1>26, <1>27, <1>28, <1>29, <1>30, <1>31
     DEF Next, Submit, Monitor, Cancel, Reconcile, HandleFill

\* The coroutines, their failures and the restarts implement the contract:
\* what it allows to orders, trades and bookings is all that can happen.
THEOREM Refinement == Spec => ImplementsContract
<1>1. IInv /\ [Next]_vars => [Contract!Next]_(Contract!vars)
  BY ContractStep DEF IInv
<1> QED
  BY <1>1, ContractInit, Invariant, PTL DEF Spec, ImplementsContract, Contract!Spec

=============================================================================
