-------------------------- MODULE OrderLifecycle ---------------------------
(***************************************************************************)
(* The order manager (src/src/core/execution/order_manager.py): submission *)
(* through the fixed pipeline, the monitoring task of each order,          *)
(* cancellation, reconciliation runs, fill handling and shutdown, over the *)
(* orders table and an exchange that moves on its own.                     *)
(*                                                                         *)
(* Every database call is awaited in a worker thread and every exchange    *)
(* call over the network, so each await is the end of an action: the other *)
(* coroutines run in between.  The process may die between any two actions *)
(* and be started again with nothing but the tables.                       *)
(***************************************************************************)
EXTENDS Naturals, FiniteSets

CONSTANTS Orders,        \* orders that callers may submit
          Cancellable,   \* those among them that callers may cancel
          Reconcilers,   \* concurrent runs of reconcile_orders
          Loop,          \* the run that is the background loop
          MaxFaults,     \* bound: database or exchange calls that fail
          MaxRestarts    \* bound: crashes and shutdowns of the process

ASSUME ReconcilersAssumption ==
    "submit" \notin Reconcilers /\ "monitor" \notin Reconcilers
ASSUME BoundsAssumption == MaxFaults \in Nat /\ MaxRestarts \in Nat

(* The coroutines that call _handle_fill, each with its own stack.         *)
Handlers == {"submit", "monitor"} \cup Reconcilers

RowStatuses == {"pending", "submitted", "partially_filled", "filled",
                "cancelled", "rejected", "expired"}
Terminal == {"filled", "cancelled", "rejected", "expired"}

(* The exchange's own states.                                              *)
Live == {"NEW", "PARTIALLY_FILLED"}
Closed == {"FILLED", "CANCELED", "REJECTED", "EXPIRED"}

(* A bug of Translate: the exchange's spelling is only put in lower case.  *)
TranslateLower(raw) ==
    [NEW |-> "new", PARTIALLY_FILLED |-> "partially_filled", FILLED |-> "filled",
     CANCELED |-> "canceled", REJECTED |-> "rejected", EXPIRED |-> "expired"][raw]

(* The status of an OrderResult, as the adapter translates it.             *)
Translate(raw) ==
    [NEW |-> "submitted", PARTIALLY_FILLED |-> "partially_filled", FILLED |-> "filled",
     CANCELED |-> "cancelled", REJECTED |-> "rejected", EXPIRED |-> "expired"][raw]

(* A bug of NeedsFill: every execution is taken for the complete fill.     *)
NeedsFillPartial(s) == s \in {"filled", "partially_filled"}

(* The answers that make a handler call _handle_fill.                      *)
NeedsFill(s) == s = "filled"

(* VALID_TRANSITIONS; a status without an entry is final.                  *)
Transitions ==
    [pending          |-> {"submitted", "rejected"},
     submitted        |-> {"partially_filled", "filled", "cancelled", "expired"},
     partially_filled |-> {"filled", "cancelled"}]

ValidNext(s) == IF s \in DOMAIN Transitions THEN Transitions[s] ELSE {}

VARIABLES
    \* the orders table; "none" is a missing row
    status,     \* status[o]
    extId,      \* the rows that carry the exchange's order identifier
    \* the trades table and the position tracker
    trades,     \* trades[h][o]: trade rows written by h for o
    booked,     \* booked[h][o]: fills of o that h got through process_fill
    \* the exchange
    exch,       \* exch[o]: "none" until a request for o is accepted
    \* the manager's coroutines
    sub,        \* sub[o]: where submit_order is
    mon,        \* mon[o]: where the monitoring task is
    monitors,   \* the keys of _monitoring_tasks
    stopped,    \* monitoring tasks that task.cancel() was called on
    can,        \* can[o]: where cancel_order is
    rec,        \* rec[r][o]: what run r still has to do for o
    seen,       \* seen[r][o]: the row's status in r's snapshot
    loopOn,     \* the background reconciliation loop is running
    fill,       \* fill[h][o]: where _handle_fill is on h's stack
    reply,      \* reply[h][o]: the OrderResult status h holds
    \* bounds
    faults,
    restarts

rowVars    == <<status, extId>>
ledgerVars == <<trades, booked>>
worldVars  == <<rowVars, ledgerVars, exch>>
monVars    == <<mon, monitors, stopped>>
recVars    == <<rec, seen, loopOn>>
fillVars   == <<fill, reply>>
bounds     == <<faults, restarts>>
vars == <<worldVars, sub, monVars, can, recVars, fillVars, bounds>>

SubSteps == {"idle", "send", "markRejected", "markSubmitted", "filling", "watch", "done"}
FillSteps == {"none", "trade", "mark", "book", "returned", "raised"}

TypeOK ==
    /\ status \in [Orders -> RowStatuses \cup {"none"}]
    /\ extId \subseteq Orders
    /\ trades \in [Handlers -> [Orders -> Nat]]
    /\ booked \in [Handlers -> [Orders -> Nat]]
    /\ exch \in [Orders -> Live \cup Closed \cup {"none"}]
    /\ sub \in [Orders -> SubSteps]
    /\ mon \in [Orders -> {"idle", "start", "poll", "mark", "partial", "filling"}]
    /\ monitors \subseteq Orders
    /\ stopped \subseteq Orders
    /\ can \in [Orders -> {"idle", "exchange", "stop", "mark"}]
    /\ rec \in [Reconcilers -> [Orders -> {"none", "queued", "filling", "mark"}]]
    /\ seen \in [Reconcilers -> [Orders -> RowStatuses \cup {"none"}]]
    /\ loopOn \in BOOLEAN
    /\ fill \in [Handlers -> [Orders -> FillSteps]]
    /\ reply \in [Handlers -> [Orders -> RowStatuses \cup {"none"}]]
    /\ faults \in 0..MaxFaults
    /\ restarts \in 0..MaxRestarts

Init ==
    /\ status = [o \in Orders |-> "none"]
    /\ extId = {}
    /\ trades = [h \in Handlers |-> [o \in Orders |-> 0]]
    /\ booked = [h \in Handlers |-> [o \in Orders |-> 0]]
    /\ exch = [o \in Orders |-> "none"]
    /\ sub = [o \in Orders |-> "idle"]
    /\ mon = [o \in Orders |-> "idle"]
    /\ monitors = {}
    /\ stopped = {}
    /\ can = [o \in Orders |-> "idle"]
    /\ rec = [r \in Reconcilers |-> [o \in Orders |-> "none"]]
    /\ seen = [r \in Reconcilers |-> [o \in Orders |-> "none"]]
    /\ loopOn = FALSE
    /\ fill = [h \in Handlers |-> [o \in Orders |-> "none"]]
    /\ reply = [h \in Handlers |-> [o \in Orders |-> "none"]]
    /\ faults = 0
    /\ restarts = 0

(* A call that raises: the only kind of failure is a failed call.          *)
Fault == faults < MaxFaults /\ faults' = faults + 1

(***************************************************************************)
(* The exchange.                                                           *)
(***************************************************************************)

\* The outcomes of a request that the exchange accepts.
PlacementOutcomes == Live \cup {"FILLED", "EXPIRED", "REJECTED"}

\* The matching engine, or an operator on the exchange's site, moves a live
\* order on.
ExchangeMoves(o) ==
    /\ exch[o] \in Live
    /\ \E s \in {"PARTIALLY_FILLED", "FILLED", "CANCELED", "EXPIRED"} \ {exch[o]} :
          exch' = [exch EXCEPT ![o] = s]
    /\ UNCHANGED <<rowVars, ledgerVars, sub, monVars, can, recVars, fillVars,
                   bounds>>

(***************************************************************************)
(* submit_order.                                                           *)
(***************************************************************************)

(* Risk veto: the row is written as REJECTED and nothing else happens.     *)
SubmitVetoed(o) ==
    /\ sub[o] = "idle"
    /\ status' = [status EXCEPT ![o] = "rejected"]
    /\ sub' = [sub EXCEPT ![o] = "done"]
    /\ UNCHANGED <<extId, ledgerVars, exch, monVars, can, recVars,
                   fillVars, bounds>>

(* A database call of submit_order raises to the caller.                   *)
SubmitFails(o) == Fault /\ sub' = [sub EXCEPT ![o] = "done"]

(* Approved: the row is saved as PENDING before the exchange is called.    *)
SubmitPersist(o) ==
    /\ sub[o] = "idle"
    /\ \/ /\ status' = [status EXCEPT ![o] = "pending"]
          /\ sub' = [sub EXCEPT ![o] = "send"]
          /\ UNCHANGED faults
       \/ SubmitFails(o) /\ UNCHANGED status
    /\ UNCHANGED <<extId, ledgerVars, exch, monVars, can, recVars, fillVars,
                   restarts>>

(* The exchange accepts the request, refuses it, or accepts it and the     *)
(* answer is lost; the last two look the same to the manager.              *)
SubmitSend(o) ==
    /\ sub[o] = "send"
    /\ \/ /\ \E s \in PlacementOutcomes :
                /\ exch' = [exch EXCEPT ![o] = s]
                /\ reply' = [reply EXCEPT !["submit"][o] = Translate(s)]
          /\ sub' = [sub EXCEPT ![o] = "markSubmitted"]
          /\ UNCHANGED faults
       \/ /\ sub' = [sub EXCEPT ![o] = "markRejected"]
          /\ UNCHANGED <<exch, reply, faults>>
       \/ /\ Fault
          /\ \E s \in PlacementOutcomes : exch' = [exch EXCEPT ![o] = s]
          /\ sub' = [sub EXCEPT ![o] = "markRejected"]
          /\ UNCHANGED reply
    /\ UNCHANGED <<rowVars, ledgerVars, monVars, can, recVars, fill, restarts>>

(* The except branch: REJECTED, and OrderSubmissionError to the caller.    *)
SubmitMarkRejected(o) ==
    /\ sub[o] = "markRejected"
    /\ \/ /\ status' = [status EXCEPT ![o] = "rejected"]
          /\ sub' = [sub EXCEPT ![o] = "done"]
          /\ UNCHANGED faults
       \/ SubmitFails(o) /\ UNCHANGED status
    /\ UNCHANGED <<extId, ledgerVars, exch, monVars, can, recVars, fillVars,
                   restarts>>

(* A bug of RowSubmitted: the identifier is left out of the update.        *)
RowSubmittedWithoutId(o) ==
    status' = [status EXCEPT ![o] = "submitted"] /\ UNCHANGED extId

RowSubmitted(o) ==
    /\ status' = [status EXCEPT ![o] = "submitted"]
    /\ extId' = extId \cup {o}

(* A bug of FirstFillStep: the order is marked FILLED without a trade.     *)
FirstFillStepNoTrade == "mark"

(* _handle_fill begins with the trade row.                                 *)
FirstFillStep == "trade"

(* SUBMITTED with the exchange's identifier; then what the answer asks for.*)
SubmitMarkSubmitted(o) ==
    LET answer == reply["submit"][o] IN
    /\ sub[o] = "markSubmitted"
    /\ \/ /\ RowSubmitted(o)
          /\ sub' = [sub EXCEPT ![o] =
                IF NeedsFill(answer) THEN "filling"
                ELSE IF answer \in {"submitted", "partially_filled"} THEN "watch" ELSE "done"]
          /\ fill' = [fill EXCEPT !["submit"][o] =
                IF NeedsFill(answer) THEN FirstFillStep ELSE "none"]
          /\ UNCHANGED faults
       \/ SubmitFails(o) /\ UNCHANGED <<rowVars, fill>>
    /\ UNCHANGED <<ledgerVars, exch, monVars, can, recVars, reply, restarts>>

(* A bug of SubmitFillDone: the filled order is monitored as well.         *)
SubmitFillDoneThenWatch(o) ==
    /\ sub[o] = "filling"
    /\ fill["submit"][o] \in {"returned", "raised"}
    /\ fill' = [fill EXCEPT !["submit"][o] = "none"]
    /\ sub' = [sub EXCEPT ![o] = "watch"]
    /\ UNCHANGED <<worldVars, monVars, can, recVars, reply, bounds>>

(* The immediate fill has been handled, or raised to the caller.           *)
SubmitFillDone(o) ==
    /\ sub[o] = "filling"
    /\ fill["submit"][o] \in {"returned", "raised"}
    /\ fill' = [fill EXCEPT !["submit"][o] = "none"]
    /\ sub' = [sub EXCEPT ![o] = "done"]
    /\ UNCHANGED <<worldVars, monVars, can, recVars, reply, bounds>>

(* _start_monitoring: at most one task for each order.                     *)
SubmitWatch(o) ==
    /\ sub[o] = "watch"
    /\ mon' = [mon EXCEPT ![o] = IF o \in monitors THEN @ ELSE "start"]
    /\ monitors' = monitors \cup {o}
    /\ sub' = [sub EXCEPT ![o] = "done"]
    /\ UNCHANGED <<worldVars, stopped, can, recVars, fillVars, bounds>>

(***************************************************************************)
(* _handle_fill, on the stack of handler h.  task.cancel() interrupts a    *)
(* task at its await while the worker thread that does the write may still *)
(* go on: an interrupted handler's pending write lands (and the handler    *)
(* ends) or never happens (MonitorStopped, LoopStopped).                   *)
(***************************************************************************)
Interrupted(h, o) ==
    \/ h = "monitor" /\ o \in stopped
    \/ h = Loop /\ h \in Reconcilers /\ ~loopOn

FillAdvance(h, o, next) ==
    fill' = [fill EXCEPT ![h][o] = IF Interrupted(h, o) THEN "raised" ELSE next]

FillRaises(h, o) == Fault /\ fill' = [fill EXCEPT ![h][o] = "raised"]

FillSaveTrade(h, o) ==
    /\ fill[h][o] = "trade"
    /\ \/ /\ trades' = [trades EXCEPT ![h][o] = @ + 1]
          /\ FillAdvance(h, o, "mark")
          /\ UNCHANGED faults
       \/ FillRaises(h, o) /\ UNCHANGED trades
    /\ UNCHANGED <<rowVars, booked, exch, sub, monVars, can, recVars,
                   reply, restarts>>

FillMarkFilled(h, o) ==
    /\ fill[h][o] = "mark"
    /\ \/ /\ status' = [status EXCEPT ![o] = "filled"]
          /\ FillAdvance(h, o, "book")
          /\ UNCHANGED faults
       \/ FillRaises(h, o) /\ UNCHANGED status
    /\ UNCHANGED <<extId, ledgerVars, exch, sub, monVars, can, recVars,
                   reply, restarts>>

(* process_fill; an exception in it is logged and swallowed.               *)
FillBook(h, o) ==
    /\ fill[h][o] = "book"
    /\ \/ booked' = [booked EXCEPT ![h][o] = @ + 1] /\ UNCHANGED faults
       \/ Fault /\ UNCHANGED booked
    /\ FillAdvance(h, o, "returned")
    /\ UNCHANGED <<rowVars, trades, exch, sub, monVars, can, recVars,
                   reply, restarts>>

(***************************************************************************)
(* _monitor_order.                                                         *)
(***************************************************************************)

(* The task ends: its finally clause pops the dictionary entry.            *)
MonitorEnds(o) ==
    /\ mon' = [mon EXCEPT ![o] = "idle"]
    /\ monitors' = monitors \ {o}
    /\ stopped' = stopped \ {o}

(* The first read is outside the try: a failure there leaves the entry.    *)
MonitorBegin(o) ==
    /\ mon[o] = "start"
    /\ o \notin stopped
    /\ \/ /\ mon' = [mon EXCEPT ![o] = IF o \in extId THEN "poll" ELSE "idle"]
          /\ monitors' = IF o \in extId THEN monitors ELSE monitors \ {o}
          /\ UNCHANGED faults
       \/ Fault /\ mon' = [mon EXCEPT ![o] = "idle"] /\ UNCHANGED monitors
    /\ UNCHANGED <<worldVars, sub, stopped, can, recVars, fillVars, restarts>>

(* One poll that finds something to do; a failed poll, and one that finds  *)
(* the order still open, leave the task where it is.                       *)
MonitorPoll(o) ==
    LET answer == Translate(exch[o]) IN
    /\ mon[o] = "poll"
    /\ o \notin stopped
    /\ answer \in Terminal \cup {"partially_filled"}
    /\ reply' = [reply EXCEPT !["monitor"][o] = answer]
    /\ mon' = [mon EXCEPT ![o] =
          IF NeedsFill(answer) THEN "filling"
          ELSE IF answer = "partially_filled" THEN "partial" ELSE "mark"]
    /\ fill' = [fill EXCEPT !["monitor"][o] =
          IF NeedsFill(answer) THEN FirstFillStep ELSE "none"]
    /\ UNCHANGED <<worldVars, sub, monitors, stopped, can, recVars, bounds>>

(* monitoring_timeout: logged, the order is left to itself.                *)
MonitorTimesOut(o) ==
    /\ mon[o] = "poll"
    /\ o \notin stopped
    /\ MonitorEnds(o)
    /\ UNCHANGED <<worldVars, sub, can, recVars, fillVars, bounds>>

(* cancelled, expired or rejected at the exchange: written as it is.       *)
MonitorMark(o) ==
    /\ mon[o] = "mark"
    /\ \/ status' = [status EXCEPT ![o] = reply["monitor"][o]] /\ UNCHANGED faults
       \/ Fault /\ UNCHANGED status
    /\ MonitorEnds(o)
    /\ UNCHANGED <<extId, ledgerVars, exch, sub, can, recVars, fillVars,
                   restarts>>

MonitorPartial(o) ==
    /\ mon[o] = "partial"
    /\ \/ /\ status' = [status EXCEPT ![o] = "partially_filled"]
          /\ IF o \in stopped
             THEN MonitorEnds(o)
             ELSE mon' = [mon EXCEPT ![o] = "poll"] /\ UNCHANGED <<monitors, stopped>>
          /\ UNCHANGED faults
       \/ Fault /\ MonitorEnds(o) /\ UNCHANGED status
    /\ UNCHANGED <<extId, ledgerVars, exch, sub, can, recVars, fillVars,
                   restarts>>

MonitorFillDone(o) ==
    /\ mon[o] = "filling"
    /\ fill["monitor"][o] \in {"returned", "raised"}
    /\ fill' = [fill EXCEPT !["monitor"][o] = "none"]
    /\ MonitorEnds(o)
    /\ UNCHANGED <<worldVars, sub, can, recVars, reply, bounds>>

(* CancelledError at the await, the pending write (if any) dropped.        *)
MonitorStopped(o) ==
    /\ o \in stopped
    /\ fill' = [fill EXCEPT !["monitor"][o] = "none"]
    /\ MonitorEnds(o)
    /\ UNCHANGED <<worldVars, sub, can, recVars, reply, bounds>>

(***************************************************************************)
(* cancel_order.                                                           *)
(***************************************************************************)

(* The row is read and the transition checked; a refusal only raises.      *)
CancelRead(o) ==
    /\ o \in Cancellable
    /\ can[o] = "idle"
    /\ "cancelled" \in ValidNext(status[o])
    /\ can' = [can EXCEPT ![o] = IF o \in extId THEN "exchange" ELSE "stop"]
    /\ UNCHANGED <<worldVars, sub, monVars, recVars, fillVars, bounds>>

(* The exchange cancels a live order, refuses a finished one, or the call  *)
(* fails; an exception is logged and the local cancellation goes on.       *)
CancelAtExchange(o) ==
    /\ can[o] = "exchange"
    /\ \/ /\ exch[o] \in Live
          /\ exch' = [exch EXCEPT ![o] = "CANCELED"]
          /\ UNCHANGED faults
       \/ exch[o] \notin Live /\ UNCHANGED <<exch, faults>>
       \/ Fault /\ UNCHANGED exch
    /\ can' = [can EXCEPT ![o] = "stop"]
    /\ UNCHANGED <<rowVars, ledgerVars, sub, monVars, recVars,
                   fillVars, restarts>>

(* Interrupts the tasks whose entries are in keys and drops the entries.   *)
StopTasks(keys) ==
    /\ monitors' = monitors \ keys
    /\ stopped' = stopped \cup {o \in keys \cap monitors : mon[o] # "idle"}
    /\ UNCHANGED mon

CancelStopMonitoring(o) ==
    /\ can[o] = "stop"
    /\ StopTasks({o})
    /\ can' = [can EXCEPT ![o] = "mark"]
    /\ UNCHANGED <<worldVars, sub, recVars, fillVars, bounds>>

CancelMark(o) ==
    /\ can[o] = "mark"
    /\ \/ status' = [status EXCEPT ![o] = "cancelled"] /\ UNCHANGED faults
       \/ Fault /\ UNCHANGED status
    /\ can' = [can EXCEPT ![o] = "idle"]
    /\ UNCHANGED <<extId, ledgerVars, exch, sub, monVars, recVars,
                   fillVars, restarts>>

(***************************************************************************)
(* reconcile_orders: the background loop and calls of the API endpoint.    *)
(***************************************************************************)

(* A bug of Reconcilable: the filter on the status misses SUBMITTED rows.  *)
ReconcilablePending == {o \in Orders : status[o] = "pending" /\ o \in extId}

(* get_pending_orders, and the filter on the external identifier.          *)
Reconcilable == {o \in Orders : status[o] \in {"pending", "submitted"} /\ o \in extId}

StartLoop ==
    /\ Loop \in Reconcilers
    /\ ~loopOn
    /\ \A o \in Orders : rec[Loop][o] = "none"
    /\ loopOn' = TRUE
    /\ UNCHANGED <<worldVars, sub, monVars, can, rec, seen, fillVars, bounds>>

RecSnapshot(r) ==
    /\ r = Loop => loopOn
    /\ \A o \in Orders : rec[r][o] = "none"
    /\ Reconcilable # {}
    /\ rec' = [rec EXCEPT ![r] =
          [o \in Orders |-> IF o \in Reconcilable THEN "queued" ELSE "none"]]
    /\ seen' = [seen EXCEPT ![r] = status]
    /\ UNCHANGED <<worldVars, sub, monVars, can, loopOn, fillVars, bounds>>

(* The next order of the snapshot is compared with the exchange.           *)
RecCheck(r, o) ==
    LET answer == Translate(exch[o]) IN
    /\ r = Loop => loopOn
    /\ rec[r][o] = "queued"
    /\ \A p \in Orders : rec[r][p] \in {"none", "queued"}
    /\ \/ /\ answer # seen[r][o]
          /\ NeedsFill(answer)
          /\ rec' = [rec EXCEPT ![r][o] = "filling"]
          /\ fill' = [fill EXCEPT ![r][o] = FirstFillStep]
          /\ reply' = [reply EXCEPT ![r][o] = answer]
          /\ UNCHANGED faults
       \/ /\ ~NeedsFill(answer)
          /\ answer \in ValidNext(seen[r][o])
          /\ rec' = [rec EXCEPT ![r][o] = "mark"]
          /\ reply' = [reply EXCEPT ![r][o] = answer]
          /\ UNCHANGED <<fill, faults>>
       \/ \* no mismatch, or a transition that is only logged
          /\ answer = seen[r][o] \/ ~NeedsFill(answer)
          /\ answer \notin ValidNext(seen[r][o])
          /\ rec' = [rec EXCEPT ![r][o] = "none"]
          /\ UNCHANGED <<fillVars, faults>>
       \/ \* the status query raised: logged, next order
          /\ Fault
          /\ rec' = [rec EXCEPT ![r][o] = "none"]
          /\ UNCHANGED fillVars
    /\ UNCHANGED <<worldVars, sub, monVars, can, seen, loopOn, restarts>>

RecFillDone(r, o) ==
    /\ rec[r][o] = "filling"
    /\ fill[r][o] \in {"returned", "raised"}
    /\ fill' = [fill EXCEPT ![r][o] = "none"]
    /\ rec' = [rec EXCEPT ![r][o] =
          IF fill[r][o] = "returned" /\ reply[r][o] \in ValidNext(seen[r][o])
          THEN "mark" ELSE "none"]
    /\ UNCHANGED <<worldVars, sub, monVars, can, seen, loopOn, reply, bounds>>

RecMark(r, o) ==
    /\ rec[r][o] = "mark"
    /\ \/ status' = [status EXCEPT ![o] = reply[r][o]] /\ UNCHANGED faults
       \/ Fault /\ UNCHANGED status
    /\ rec' = [rec EXCEPT ![r][o] = "none"]
    /\ UNCHANGED <<extId, ledgerVars, exch, sub, monVars, can, seen,
                   loopOn, fillVars, restarts>>

(* The loop's task is cancelled: whatever it still had to do is dropped.   *)
LoopStopped ==
    /\ Loop \in Reconcilers
    /\ ~loopOn
    /\ \E o \in Orders : rec[Loop][o] # "none"
    /\ rec' = [rec EXCEPT ![Loop] = [o \in Orders |-> "none"]]
    /\ fill' = [fill EXCEPT ![Loop] = [o \in Orders |-> "none"]]
    /\ UNCHANGED <<worldVars, sub, monVars, can, seen, loopOn, reply, bounds>>

(***************************************************************************)
(* shutdown, and the end of the process.                                   *)
(***************************************************************************)
Shutdown ==
    /\ restarts < MaxRestarts
    /\ restarts' = restarts + 1
    /\ StopTasks(Orders)
    /\ loopOn' = FALSE
    /\ UNCHANGED <<worldVars, sub, can, rec, seen, fillVars, faults>>

(* The memory is lost; the tables and the exchange are not.  Nothing at    *)
(* start-up takes the monitoring of open orders up again.                  *)
Crash ==
    /\ restarts < MaxRestarts
    /\ restarts' = restarts + 1
    /\ sub' = [o \in Orders |-> IF sub[o] = "idle" THEN "idle" ELSE "done"]
    /\ mon' = [o \in Orders |-> "idle"]
    /\ monitors' = {}
    /\ stopped' = {}
    /\ can' = [o \in Orders |-> "idle"]
    /\ rec' = [r \in Reconcilers |-> [o \in Orders |-> "none"]]
    /\ fill' = [h \in Handlers |-> [o \in Orders |-> "none"]]
    /\ loopOn' = FALSE
    /\ UNCHANGED <<worldVars, seen, reply, faults>>

(***************************************************************************)
(* The specification.                                                      *)
(***************************************************************************)
Submit(o) ==
    \/ SubmitVetoed(o) \/ SubmitPersist(o) \/ SubmitSend(o) \/ SubmitMarkRejected(o)
    \/ SubmitMarkSubmitted(o) \/ SubmitFillDone(o) \/ SubmitWatch(o)

Monitor(o) ==
    \/ MonitorBegin(o) \/ MonitorPoll(o) \/ MonitorTimesOut(o) \/ MonitorMark(o)
    \/ MonitorPartial(o) \/ MonitorFillDone(o) \/ MonitorStopped(o)

Cancel(o) ==
    \/ CancelRead(o) \/ CancelAtExchange(o) \/ CancelStopMonitoring(o) \/ CancelMark(o)

Reconcile(r) ==
    \/ RecSnapshot(r)
    \/ \E o \in Orders : RecCheck(r, o) \/ RecFillDone(r, o) \/ RecMark(r, o)

HandleFill(h, o) == FillSaveTrade(h, o) \/ FillMarkFilled(h, o) \/ FillBook(h, o)

Next ==
    \/ \E o \in Orders :
          \/ ExchangeMoves(o) \/ Submit(o) \/ Monitor(o) \/ Cancel(o)
          \/ \E h \in Handlers : HandleFill(h, o)
    \/ \E r \in Reconcilers : Reconcile(r)
    \/ StartLoop \/ LoopStopped \/ Shutdown \/ Crash

Spec == Init /\ [][Next]_vars

(* What the event loop guarantees: a runnable coroutine is resumed, and    *)
(* the operator starts the reconciliation loop after each start.  Nobody   *)
(* is obliged to submit, to cancel or to call the reconcile endpoint, and  *)
(* the exchange need not execute anything.                                 *)
InFlight(o) == sub[o] # "idle" /\ Submit(o)
Fairness ==
    /\ \A o \in Orders :
          /\ WF_vars(InFlight(o))
          /\ WF_vars(MonitorBegin(o) \/ MonitorPoll(o) \/ MonitorMark(o)
                     \/ MonitorPartial(o) \/ MonitorFillDone(o))
          /\ WF_vars(CancelAtExchange(o) \/ CancelStopMonitoring(o) \/ CancelMark(o))
          /\ \A h \in Handlers : WF_vars(HandleFill(h, o))
    /\ \A r \in Reconcilers : WF_vars(Reconcile(r))
    /\ WF_vars(StartLoop)
    /\ WF_vars(LoopStopped)

FairSpec == Spec /\ Fairness

(***************************************************************************)
(* Safety.                                                                 *)
(***************************************************************************)

HasTrade(o) == \E h \in Handlers : trades[h][o] > 0

\* Whatever the exchange has been asked for, the orders table knows of it,
\* whichever call fails and whenever the process dies: "The order MUST be
\* persisted to DB BEFORE submitting to the exchange".
PersistedFirst == \A o \in Orders : exch[o] # "none" => status[o] # "none"

\* A trade row stands for a fill the exchange reported: no handler, however
\* stale its snapshot, writes a trade for an order that is not filled.
TradesAreExecuted == \A o \in Orders : HasTrade(o) => exch[o] = "FILLED"

\* FILLED is never recorded before the trade: a crash, a fault or an
\* interrupted task inside _handle_fill leaves a trade without a FILLED row,
\* never the reverse.
FilledHasTrade == \A o \in Orders : status[o] = "filled" => HasTrade(o)

\* No fill moves a position unless a trade row of the same handler exists
\* for it, so positions can be rebuilt from the trades table.
BookedHasTrade ==
    \A h \in Handlers, o \in Orders : booked[h][o] <= trades[h][o]

\* The polling task exists only for a row that names the exchange's order:
\* the monitor_missing_external_id branch is dead, even when the row has
\* been cancelled or filled by another coroutine in the meantime.
WatchedIsTraceable == monitors \subseteq extId

\* A submission that is over leaves a row reconciliation can trace to the
\* exchange's order, unless a call failed or the process stopped under it.
TraceableUnlessFault ==
    faults = 0 /\ restarts = 0 =>
        \A o \in Orders : sub[o] = "done" /\ exch[o] # "none" => o \in extId

\* The submission and the polling task never handle the same fill: over both
\* an order gets at most one trade, whatever cancellations, reconciliation
\* runs, faults and restarts come in between.
OneOwnTrade == \A o \in Orders : trades["submit"][o] + trades["monitor"][o] <= 1

\* Between them: a filled row has its trade, and the handlers of the order's
\* own pipeline have written no second one.
TradesMatchFills == FilledHasTrade /\ OneOwnTrade

\* "Create Trade record for each fill": an order has one trade for its one
\* fill.  OneOwnTrade is what is left of it: a reconciliation run handles the
\* fill from its snapshot while the submission or the task is handling it.
OneTradePerFill ==
    \A o \in Orders :
        /\ \A h \in Handlers : trades[h][o] <= 1
        /\ \A g, h \in Handlers : trades[g][o] > 0 /\ trades[h][o] > 0 => g = h

\* A row that left PENDING never comes back to it, and no coroutine reopens
\* a finished row as SUBMITTED: neither a cancellation during submission nor
\* a stale reconciliation makes a dead order look new.
NeverReopens ==
    [][\A o \in Orders :
          /\ status[o] # "none" => status'[o] # "none"
          /\ status[o] \notin {"none", "pending", "submitted"} =>
                status'[o] # "submitted"
          /\ status'[o] = "pending" => status[o] \in {"none", "pending"}
      ]_vars

(***************************************************************************)
(* The contract this machinery implements.                                 *)
(***************************************************************************)
Contract == INSTANCE OrderContract WITH
    recorded <- {o \in Orders : status[o] # "none"},
    placed   <- {o \in Orders : exch[o] # "none"},
    complete <- {o \in Orders : exch[o] = "FILLED"}

\* Every step of the coroutines, the exchange and the crashes is a step of
\* the contract or leaves what the contract speaks about alone.
ImplementsContract == Contract!Spec

(***************************************************************************)
(* Liveness.                                                               *)
(***************************************************************************)

\* With the reconciliation loop started after each restart, an order that
\* is recorded as SUBMITTED and has ended at the exchange does not stay
\* SUBMITTED, although its monitoring task may have timed out, been shut
\* down or died with the process. The exception is an order the exchange
\* rejects in its answer: the row is marked SUBMITTED all the same (228), no
\* task watches it (255), VALID_TRANSITIONS has no way from submitted to
\* rejected (52), and reconciliation logs it for ever (425).
SubmittedSettles ==
    \A o \in Orders :
        status[o] = "submitted" /\ exch[o] \in Closed
            ~> status[o] # "submitted" \/ exch[o] = "REJECTED"
=============================================================================
