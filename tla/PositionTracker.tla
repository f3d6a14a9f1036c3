--------------------------- MODULE PositionTracker -------------------------
(***************************************************************************)
(* The position tracker (src/src/core/execution/position_tracker.py):      *)
(* fills booked against a cache of positions and the positions table,      *)
(* synchronisation with the exchange's balances, and restarts.             *)
(*                                                                         *)
(* process_fill decides on the cached position, awaits the write in a      *)
(* worker thread and stores what the thread read back; the fills of other  *)
(* orders are processed in between.  Prices are abstracted: what is left   *)
(* of the money are the commissions, one unit for each fill.               *)
(***************************************************************************)
EXTENDS Integers, FiniteSets, Functions

CONSTANTS Symbols,
          Fills,          \* trades that may be executed; also names of rows
          MaxQty,         \* bound: quantity of a fill
          Inventory,      \* what the account holds of each asset at first
          NoPosition,     \* no row, no cache entry
          MaxFaults,      \* bound: database calls that fail
          MaxSyncs,       \* bound: runs of sync_positions
          MaxRestarts     \* bound: restarts of the process

ASSUME QuantitiesAssumption == MaxQty \in Nat /\ Inventory \in Nat
ASSUME FillsAssumption == IsFiniteSet(Fills) /\ NoPosition \notin Fills

Sides == {"LONG", "SHORT"}

(* A Position as SQLAlchemy detaches it: fees is commission_paid, and id    *)
(* the fill that opened it.                                                *)
PositionOf(f, side, size, fees, open) ==
    [id |-> f, side |-> side, size |-> size, fees |-> fees, open |-> open]

Trades == [symbol : Symbols, side : Sides, qty : 1..MaxQty]
Positions ==
    [id : Fills, side : Sides, size : Nat, fees : Nat, open : BOOLEAN]
Plans ==
    [kind : {"open", "add", "reduce", "close"}, id : Fills, size : Nat, fees : Nat,
     closed : Nat]
ASSUME NoPositionAssumption == NoPosition \notin Trades \cup Positions \cup Plans

VARIABLES
    trade,      \* trade[f]: symbol, side and quantity
    hold,       \* hold[s]: the account's balance at the exchange
    row,        \* row[f]: the row of the position f opened
    cache,      \* cache[s]: the cached position
    call,       \* call[f]: where process_fill(f) is
    plan,       \* plan[f]: the write it has decided on
    saved,      \* saved[f]: the row its worker thread read back
    sync,       \* sync: where sync_positions is
    balance,    \* the balances it has fetched
    todo,       \* todo[s]: the cached position it is about to correct
    fixing,     \* the symbols whose correction is written but not yet cached
    faults, syncs, restarts,
    overlapped, \* history: the symbols two of whose fills were booked at once,
                \* or whose position a synchronisation has corrected
    excess      \* history: excess[s]: what closing fills had over the position

bookVars == <<row, cache>>
callVars == <<call, plan, saved>>
syncVars == <<sync, balance, todo, fixing, syncs>>
exchVars == <<trade, hold>>
histVars == <<overlapped, excess>>
vars == <<exchVars, bookVars, callVars, syncVars, faults, restarts, histVars>>

Signed(f) == IF trade[f].side = "LONG" THEN trade[f].qty ELSE -trade[f].qty

(* What a closing fill has over the position is not booked anywhere.       *)
Excess(f) ==
    IF plan[f].kind # "close" THEN 0
    ELSE IF trade[f].side = "LONG" THEN trade[f].qty - plan[f].closed
    ELSE plan[f].closed - trade[f].qty

Cached == {s \in Symbols : cache[s] # NoPosition}
InFlight(f) == call[f] \in {"write", "resume"}

Init ==
    /\ trade = [f \in Fills |-> NoPosition]
    /\ hold = [s \in Symbols |-> Inventory]
    /\ row = [f \in Fills |-> NoPosition]
    /\ cache = [s \in Symbols |-> NoPosition]
    /\ call = [f \in Fills |-> "none"]
    /\ plan = [f \in Fills |-> NoPosition]
    /\ saved = [f \in Fills |-> NoPosition]
    /\ sync = "idle"
    /\ balance = [s \in Symbols |-> 0]
    /\ todo = [s \in Symbols |-> NoPosition]
    /\ fixing = {}
    /\ faults = 0 /\ syncs = 0 /\ restarts = 0
    /\ overlapped = {}
    /\ excess = [s \in Symbols |-> 0]

Fault == faults < MaxFaults /\ faults' = faults + 1

(* The exchange fills an order; it sells only what the account holds.      *)
Execute(f) ==
    /\ trade[f] = NoPosition
    /\ \E s \in Symbols, side \in Sides, q \in 1..MaxQty :
          /\ side = "SHORT" => q <= hold[s]
          /\ trade' = [trade EXCEPT ![f] = [symbol |-> s, side |-> side, qty |-> q]]
          /\ hold' = [hold EXCEPT ![s] = IF side = "LONG" THEN @ + q ELSE @ - q]
    /\ UNCHANGED <<bookVars, callVars, syncVars, faults, restarts, histVars>>

(***************************************************************************)
(* process_fill.                                                           *)
(***************************************************************************)
OpenPlan(f) ==
    [kind |-> "open", id |-> f, size |-> trade[f].qty, fees |-> 1, closed |-> 0]

(* A bug of AddPlan: the commission of an added fill is forgotten.         *)
AddPlanFeeless(p, q) ==
    [kind |-> "add", id |-> p.id, size |-> p.size + q, fees |-> p.fees, closed |-> 0]

AddPlan(p, q) ==
    [kind |-> "add", id |-> p.id, size |-> p.size + q, fees |-> p.fees + 1, closed |-> 0]

(* The lesser of the fill and the position is closed.                      *)
ReducePlan(p, q) ==
    [kind |-> IF p.size <= q THEN "close" ELSE "reduce", id |-> p.id,
     size |-> IF p.size <= q THEN 0 ELSE p.size - q, fees |-> p.fees + 1,
     closed |-> IF p.size <= q THEN p.size ELSE q]

(* A bug of PlanOf: the side of the fill is not compared.                  *)
PlanOfAnySide(f) ==
    LET p == cache[trade[f].symbol] IN
    IF p = NoPosition THEN OpenPlan(f) ELSE AddPlan(p, trade[f].qty)

PlanOf(f) ==
    LET p == cache[trade[f].symbol] IN
    IF p = NoPosition THEN OpenPlan(f)
    ELSE IF p.side = trade[f].side THEN AddPlan(p, trade[f].qty)
    ELSE ReducePlan(p, trade[f].qty)

(* The synchronous part: the decision, up to the first await.              *)
Begin(f) ==
    /\ trade[f] # NoPosition
    /\ call[f] = "none"
    /\ plan' = [plan EXCEPT ![f] = PlanOf(f)]
    /\ call' = [call EXCEPT ![f] = "write"]
    /\ overlapped' = overlapped \cup {trade[g].symbol : g \in {h \in Fills :
                        InFlight(h) /\ trade[h].symbol = trade[f].symbol}}
    /\ UNCHANGED <<exchVars, bookVars, saved, syncVars, faults, restarts, excess>>

(* save_position and update_position write the named columns only, and     *)
(* whatever state the row is in by now.                                    *)
Written(f, p) ==
    IF p.kind = "open" THEN PositionOf(f, trade[f].side, p.size, 1, TRUE)
    ELSE [row[p.id] EXCEPT !.size = p.size, !.fees = p.fees,
             !.open = @ /\ p.kind # "close"]

(* The worker thread commits, or the call raises PositionStorageError,     *)
(* which _handle_fill logs: the fill stays out of the books.               *)
Write(f) ==
    /\ call[f] = "write"
    /\ \/ /\ row' = [row EXCEPT ![plan[f].id] = Written(f, plan[f])]
          /\ saved' = [saved EXCEPT ![f] = Written(f, plan[f])]
          /\ call' = [call EXCEPT ![f] = "resume"]
          /\ excess' = [excess EXCEPT ![trade[f].symbol] = @ + Excess(f)]
          /\ UNCHANGED faults
       \/ /\ Fault
          /\ call' = [call EXCEPT ![f] = "failed"]
          /\ UNCHANGED <<row, saved, excess>>
    /\ UNCHANGED <<exchVars, cache, plan, syncVars, restarts, overlapped>>

(* A bug of CachedAfter: a closed position stays in the cache.             *)
CachedAfterKept(f) == saved[f]

CachedAfter(f) == IF plan[f].kind = "close" THEN NoPosition ELSE saved[f]

(* The coroutine resumes and stores the position it was handed.            *)
Resume(f) ==
    /\ call[f] = "resume"
    /\ cache' = [cache EXCEPT ![trade[f].symbol] = CachedAfter(f)]
    /\ call' = [call EXCEPT ![f] = "done"]
    /\ plan' = [plan EXCEPT ![f] = NoPosition]
    /\ saved' = [saved EXCEPT ![f] = NoPosition]
    /\ UNCHANGED <<exchVars, row, syncVars, faults, restarts, histVars>>

(***************************************************************************)
(* sync_positions.                                                         *)
(***************************************************************************)
SyncFetch ==
    /\ sync = "idle"
    /\ syncs < MaxSyncs
    /\ syncs' = syncs + 1
    /\ \/ balance' = hold /\ sync' = "list" /\ UNCHANGED faults
       \/ Fault /\ UNCHANGED <<balance, sync>>
    /\ UNCHANGED <<exchVars, bookVars, callVars, todo, fixing, restarts, histVars>>

(* list(self._positions.items()), and the comparison of each entry.        *)
SyncCompare ==
    /\ sync = "list"
    /\ todo' = [s \in Symbols |->
          IF s \in Cached /\ cache[s].size # balance[s] THEN cache[s] ELSE NoPosition]
    /\ sync' = "write"
    /\ overlapped' = overlapped \cup {s \in Symbols : todo'[s] # NoPosition}
    /\ UNCHANGED <<exchVars, bookVars, callVars, balance, fixing, syncs, faults, restarts,
                   excess>>

(* One correction: the row's size becomes the balance, its status is kept. *)
SyncWrite(s) ==
    LET fixed == [row[todo[s].id] EXCEPT !.size = balance[s]] IN
    /\ sync = "write"
    /\ fixing = {} /\ todo[s] # NoPosition
    /\ \/ /\ row' = [row EXCEPT ![todo[s].id] = fixed]
          /\ todo' = [todo EXCEPT ![s] = fixed]
          /\ fixing' = {s}
          /\ UNCHANGED faults
       \/ /\ Fault
          /\ todo' = [todo EXCEPT ![s] = NoPosition]
          /\ UNCHANGED <<row, fixing>>
    /\ UNCHANGED <<exchVars, cache, callVars, sync, balance, syncs, restarts, histVars>>

SyncResume(s) ==
    /\ s \in fixing
    /\ cache' = [cache EXCEPT ![s] = todo[s]]
    /\ todo' = [todo EXCEPT ![s] = NoPosition]
    /\ fixing' = {}
    /\ UNCHANGED <<exchVars, row, callVars, sync, balance, syncs, faults,
                   restarts, histVars>>

SyncDone ==
    /\ sync = "write"
    /\ \A s \in Symbols : todo[s] = NoPosition
    /\ sync' = "idle"
    /\ UNCHANGED <<exchVars, bookVars, callVars, balance, todo, fixing, syncs,
                   faults, restarts, histVars>>

(***************************************************************************)
(* The process dies and starts again; initialize loads the open rows into  *)
(* the cache, one of them for each symbol.                                 *)
(***************************************************************************)
OpenRows(s) ==
    {f \in Fills : row[f] # NoPosition /\ trade[f].symbol = s /\ row[f].open}

Restart ==
    /\ restarts < MaxRestarts
    /\ restarts' = restarts + 1
    /\ \E last \in [Symbols -> Fills \cup {NoPosition}] :
          /\ \A s \in Symbols :
                IF OpenRows(s) = {} THEN last[s] = NoPosition ELSE last[s] \in OpenRows(s)
          /\ cache' = [s \in Symbols |->
                IF last[s] = NoPosition THEN NoPosition ELSE row[last[s]]]
    /\ call' = [f \in Fills |->
          CASE call[f] = "write" -> "failed" [] call[f] = "resume" -> "done"
            [] OTHER -> call[f]]
    /\ sync' = "idle"
    /\ todo' = [s \in Symbols |-> NoPosition]
    /\ fixing' = {}
    /\ plan' = [f \in Fills |-> NoPosition]
    /\ saved' = [f \in Fills |-> NoPosition]
    /\ UNCHANGED <<exchVars, row, balance, syncs, faults, histVars>>

ProcessFill(f) == Begin(f) \/ Write(f) \/ Resume(f)
SyncPositions ==
    SyncFetch \/ SyncCompare \/ SyncDone \/ \E s \in Symbols : SyncWrite(s) \/ SyncResume(s)

Next ==
    \/ \E f \in Fills : Execute(f) \/ ProcessFill(f)
    \/ SyncPositions
    \/ Restart

Spec == Init /\ [][Next]_vars

(***************************************************************************)
(* Safety.                                                                 *)
(***************************************************************************)
\* Whatever overlaps, is corrected or is restarted: an update is always made
\* to an existing row of the fill's own symbol, so "Position not found" is
\* never raised and no fill moves another symbol's position.
RowOf(id, s) == row[id] # NoPosition /\ trade[id].symbol = s
UpdatesFindTheirRow ==
    /\ \A f \in Fills :
          call[f] = "write" /\ plan[f].kind # "open" => RowOf(plan[f].id, trade[f].symbol)
    /\ \A s \in Symbols : todo[s] # NoPosition => RowOf(todo[s].id, s)
    /\ \A s \in Cached : RowOf(cache[s].id, s)

Booked == {f \in Fills : call[f] \in {"resume", "done"}}
Traded(s) == {f \in Fills : trade[f] # NoPosition /\ trade[f].symbol = s}
SignedSize(p) == IF p.side = "LONG" THEN p.size ELSE -p.size

Untouched == Symbols \ overlapped
Net(s) == SumFunctionOnSet([f \in OpenRows(s) |-> SignedSize(row[f])], OpenRows(s))

\* As long as the fills of a symbol are booked one at a time, the table has
\* at most one open row of it and the cache holds exactly that row, through
\* failed writes, restarts and whatever happens to the other symbols.
CacheMirrorsRows ==
    \A s \in Untouched :
        (\A f \in Traded(s) : call[f] # "resume") =>
            IF s \in Cached
            THEN OpenRows(s) = {cache[s].id} /\ cache[s] = row[cache[s].id]
            ELSE OpenRows(s) = {}

\* Rows and cache are two views of one book.
BookIsOne == UpdatesFindTheirRow /\ CacheMirrorsRows

\* Positions and balances agree: what the account has gained of an asset is
\* what the open position says, plus the fills not booked yet, plus what
\* closing fills had over the position they closed, and the rows of a symbol
\* carry the commissions of all its booked fills; nothing is dropped when a
\* fill closes one position and the next opens another.
BooksAddUp ==
    \A s \in Untouched :
        LET rows == {f \in Traded(s) : row[f] # NoPosition} IN
        /\ SumFunctionOnSet([f \in rows |-> row[f].fees], rows) = Cardinality(Traded(s) \cap Booked)
        /\ (\A f \in Traded(s) : call[f] # "failed") =>
             hold[s] = Inventory + Net(s) + excess[s]
                 + SumFunctionOnSet([f \in Traded(s) |-> Signed(f)], Traded(s) \ Booked)

\* The rows, the cache and the account agree with each other.
BooksAgree == BookIsOne /\ BooksAddUp

(***************************************************************************)
(* process_fill as the atomic update it is documented to be.               *)
(***************************************************************************)
Ledger == INSTANCE PositionLedger WITH booked <- Booked, net <- [s \in Symbols |-> Net(s)]

\* Where the fills of a symbol are booked one at a time, a position changes
\* only by the ledger's update for one fill that is booked in that step:
\* in any order, with over-closing fills, failed writes and restarts.
BookedAtomically ==
    [][\A s \in Symbols \ overlapped' :
          LET fresh == {f \in Traded(s) : f \in Booked' \ Booked} IN
          \/ fresh = {} /\ Net(s)' = Net(s)
          \/ \E f \in fresh : fresh = {f} /\ Net(s)' = Ledger!Netted(Net(s), trade[f])
      ]_vars
=============================================================================
