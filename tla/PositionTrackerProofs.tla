----------------------- MODULE PositionTrackerProofs -----------------------
(***************************************************************************)
(* Proofs about the position tracker: rows, cache and account agree, and   *)
(* every fill is booked by one update of the ledger, for any symbols,      *)
(* fills and bounds.                                                       *)
(***************************************************************************)
EXTENDS PositionTracker, Sums

TrackerTypes ==
    /\ trade \in [Fills -> Trades \cup {NoPosition}]
    /\ hold \in [Symbols -> Nat]
    /\ row \in [Fills -> Positions \cup {NoPosition}]
    /\ cache \in [Symbols -> Positions \cup {NoPosition}]
    /\ call \in [Fills -> {"none", "write", "resume", "done", "failed"}]
    /\ plan \in [Fills -> Plans \cup {NoPosition}]
    /\ saved \in [Fills -> Positions \cup {NoPosition}]
    /\ balance \in [Symbols -> Nat]
    /\ todo \in [Symbols -> Positions \cup {NoPosition}]
    /\ excess \in [Symbols -> Int]

\* A position is the row of the fill that opened it, and has its side.
IsRowOf(p, s) ==
    p # NoPosition => RowOf(p.id, s) /\ p.side = trade[p.id].side

\* A row is written by the booked fill it is named after.
RowsAreNamed ==
    \A f \in Fills : row[f] # NoPosition =>
        /\ f \in Booked
        /\ row[f].id = f
        /\ row[f].side = trade[f].side

\* What a call or a synchronisation holds is a row of its own symbol.
CallOK(f) ==
    /\ call[f] # "none" => trade[f] # NoPosition
    /\ call[f] = "write" =>
         /\ plan[f] # NoPosition
         /\ IF plan[f].kind = "open" THEN plan[f].id = f
            ELSE RowOf(plan[f].id, trade[f].symbol)
    /\ call[f] = "resume" =>
         plan[f] # NoPosition /\ saved[f] # NoPosition /\ IsRowOf(saved[f], trade[f].symbol)
CallsHoldRows == \A f \in Fills : CallOK(f)
SymbolsHoldRows ==
    \A s \in Symbols : IsRowOf(cache[s], s) /\ IsRowOf(todo[s], s)

\* Only a symbol in overlapped is being corrected, and only while
\* sync_positions writes.
CorrectedAreTouched ==
    /\ sync # "write" => \A s \in Symbols : todo[s] = NoPosition
    /\ fixing \subseteq {s \in Symbols : todo[s] # NoPosition}
    /\ \A s \in Symbols : todo[s] # NoPosition => s \in overlapped

BookFacts ==
    TrackerTypes /\ RowsAreNamed /\ CallsHoldRows /\ SymbolsHoldRows /\ CorrectedAreTouched

(***************************************************************************)
(* The books of one symbol whose fills are booked one at a time.           *)
(***************************************************************************)
OneAtATime(s) == \A f, g \in Traded(s) : InFlight(f) /\ InFlight(g) => f = g
Mirrored(s) ==
    IF cache[s] # NoPosition
    THEN OpenRows(s) = {cache[s].id} /\ cache[s] = row[cache[s].id]
    ELSE OpenRows(s) = {}
\* While a fill waits for its write, what it decided is still right ...
Writing(s) == \A f \in Traded(s) : call[f] = "write" => plan[f] = PlanOf(f)
\* ... and after it, the table is what the cache is about to be.
Resuming(s) ==
    \A f \in Traded(s) : call[f] = "resume" =>
        /\ plan[f].kind = "close" => OpenRows(s) = {}
        /\ plan[f].kind # "close" =>
             OpenRows(s) = {saved[f].id} /\ saved[f] = row[saved[f].id]
Settled(s) == (\A f \in Traded(s) : call[f] # "resume") => Mirrored(s)
OpenAreHeld(s) == \A f \in OpenRows(s) : row[f].size > 0

Rows(s) == {f \in Traded(s) : row[f] # NoPosition}
Fees(s) == SumFunctionOnSet([f \in Rows(s) |-> row[f].fees], Rows(s))
Waiting(s) == SumFunctionOnSet([f \in Traded(s) |-> Signed(f)], Traded(s) \ Booked)
FeesAddUp(s) == Fees(s) = Cardinality(Traded(s) \cap Booked)
BalanceAddsUp(s) ==
    (\A f \in Traded(s) : call[f] # "failed") =>
        hold[s] = Inventory + Net(s) + excess[s] + Waiting(s)

BookOf(s) == OneAtATime(s) /\ Writing(s) /\ Resuming(s) /\ Settled(s) /\ OpenAreHeld(s)
SumsOf(s) == FeesAddUp(s) /\ BalanceAddsUp(s)
BooksInv == \A s \in Untouched : BookOf(s) /\ SumsOf(s)

TrackerInv == BookFacts /\ BooksInv

(***************************************************************************)
(* The facts about every symbol.                                           *)
(***************************************************************************)
\* NoPosition is none of the records.
LEMMA Absent ==
    /\ \A t \in Trades : t # NoPosition
    /\ \A p \in Positions : p # NoPosition
    /\ \A p \in Plans : p # NoPosition
  BY NoPositionAssumption

\* A plan is made for an existing row of the fill's symbol, or for its own.
LEMMA PlanFits ==
    ASSUME BookFacts, NEW f \in Fills, trade[f] # NoPosition
    PROVE  /\ PlanOf(f) \in Plans
           /\ IF PlanOf(f).kind = "open" THEN PlanOf(f).id = f
              ELSE RowOf(PlanOf(f).id, trade[f].symbol)
<1>1. trade[f] \in Trades
  BY DEF BookFacts, TrackerTypes
<1>2. trade[f].symbol \in Symbols /\ trade[f].qty \in Nat /\ trade[f].side \in Sides
  BY <1>1, QuantitiesAssumption DEF Trades
<1> DEFINE p == cache[trade[f].symbol]
<1>3. CASE p = NoPosition
  <2>1. PlanOf(f) = OpenPlan(f)
    BY <1>3 DEF PlanOf
  <2> QED
    BY <2>1, <1>2 DEF OpenPlan, Plans
<1>4. CASE p # NoPosition
  <2>1. p \in Positions /\ RowOf(p.id, trade[f].symbol)
    BY <1>2, <1>4 DEF BookFacts, TrackerTypes, SymbolsHoldRows, IsRowOf
  <2>2. p.size \in Nat /\ p.fees \in Nat /\ p.id \in Fills
    BY <2>1 DEF Positions
  <2> HIDE DEF p
  <2>3. AddPlan(p, trade[f].qty) \in Plans /\ AddPlan(p, trade[f].qty).kind # "open"
        /\ AddPlan(p, trade[f].qty).id = p.id
    BY <2>2, <1>2 DEF AddPlan, Plans
  <2>4. ReducePlan(p, trade[f].qty) \in Plans /\ ReducePlan(p, trade[f].qty).kind # "open"
        /\ ReducePlan(p, trade[f].qty).id = p.id
    BY <2>2, <1>2 DEF ReducePlan, Plans
  <2>5. PlanOf(f) \in {AddPlan(p, trade[f].qty), ReducePlan(p, trade[f].qty)}
    BY <1>4 DEF PlanOf, p
  <2> QED
    BY <2>1, <2>3, <2>4, <2>5
<1> QED
  BY <1>3, <1>4

LEMMA FactsInitial == Init => BookFacts
<1> SUFFICES ASSUME Init PROVE BookFacts
  OBVIOUS
<1>1. TrackerTypes
  BY QuantitiesAssumption DEF Init, TrackerTypes
<1> QED
  BY <1>1 DEF Init, BookFacts, RowsAreNamed, CallsHoldRows, CallOK, SymbolsHoldRows,
              IsRowOf, CorrectedAreTouched

\* A step that drops no row and changes no trade of a row leaves whatever
\* refers to a row with its row.
RowsKept ==
    \A g \in Fills : row[g] # NoPosition => row'[g] # NoPosition /\ trade'[g] = trade[g]

LEMMA RowsStay ==
    ASSUME RowsKept, NEW s, NEW i \in Fills, RowOf(i, s)
    PROVE  RowOf(i, s)' /\ trade'[i] = trade[i]
  BY DEF RowsKept, RowOf

LEMMA PositionStays ==
    ASSUME RowsKept, NEW s, NEW p \in Positions \cup {NoPosition}, IsRowOf(p, s)
    PROVE  p # NoPosition => RowOf(p.id, s)' /\ p.side = trade'[p.id].side
<1> SUFFICES ASSUME p # NoPosition PROVE RowOf(p.id, s)' /\ p.side = trade'[p.id].side
  OBVIOUS
<1>1. p.id \in Fills
  BY DEF Positions
<1>2. RowOf(p.id, s) /\ p.side = trade[p.id].side
  BY DEF IsRowOf
<1> QED
  BY <1>1, <1>2, RowsStay

\* A call that a step leaves alone.
LEMMA CallStays ==
    ASSUME TrackerTypes, RowsKept, NEW g \in Fills, CallOK(g),
           call'[g] = call[g], plan'[g] = plan[g], saved'[g] = saved[g], trade'[g] = trade[g]
    PROVE  CallOK(g)'
<1>1. plan[g] # NoPosition => plan[g].id \in Fills
  BY DEF TrackerTypes, Plans
<1>2. saved[g] \in Positions \cup {NoPosition}
  BY DEF TrackerTypes
<1>3. IsRowOf(saved[g], trade[g].symbol) => IsRowOf(saved[g], trade[g].symbol)'
  BY <1>2, PositionStays DEF IsRowOf
<1> QED
  BY <1>1, <1>3, RowsStay DEF CallOK

LEMMA SymbolsStay ==
    ASSUME TrackerTypes, RowsKept, SymbolsHoldRows, NEW t \in Symbols
    PROVE  /\ cache'[t] = cache[t] => IsRowOf(cache[t], t)'
           /\ todo'[t] = todo[t] => IsRowOf(todo[t], t)'
<1>1. /\ cache[t] \in Positions \cup {NoPosition} /\ IsRowOf(cache[t], t)
      /\ todo[t] \in Positions \cup {NoPosition} /\ IsRowOf(todo[t], t)
  BY DEF TrackerTypes, SymbolsHoldRows
<1> QED
  BY <1>1, PositionStays DEF IsRowOf

LEMMA FactsExecute ==
    ASSUME BookFacts, NEW f \in Fills, Execute(f) PROVE BookFacts'
<1> USE DEF BookFacts
<1>1. PICK s \in Symbols, side \in Sides, q \in 1..MaxQty :
        /\ side = "SHORT" => q <= hold[s]
        /\ trade' = [trade EXCEPT ![f] = [symbol |-> s, side |-> side, qty |-> q]]
        /\ hold' = [hold EXCEPT ![s] = IF side = "LONG" THEN @ + q ELSE @ - q]
  BY DEF Execute
<1>2. UNCHANGED <<row, cache, call, plan, saved, sync, balance, todo, fixing, overlapped, excess>>
  BY DEF Execute, bookVars, callVars, syncVars, histVars
<1>3. trade[f] = NoPosition /\ row[f] = NoPosition /\ call[f] = "none"
  BY DEF Execute, CallsHoldRows, CallOK, RowsAreNamed, Booked, TrackerTypes
<1>4. \A g \in Fills : g # f => trade'[g] = trade[g]
  BY <1>1 DEF TrackerTypes
<1>5. TrackerTypes'
  <2>1. [symbol |-> s, side |-> side, qty |-> q] \in Trades
    BY DEF Trades
  <2>2. hold' \in [Symbols -> Nat]
    <3>1. q \in Nat /\ hold[s] \in Nat /\ (side # "LONG" => q <= hold[s])
      BY <1>1, QuantitiesAssumption DEF TrackerTypes, Sides
    <3>2. (IF side = "LONG" THEN hold[s] + q ELSE hold[s] - q) \in Nat
      BY <3>1
    <3> QED
      BY <1>1, <3>2 DEF TrackerTypes
  <2> QED
    BY <1>1, <1>2, <2>1, <2>2 DEF TrackerTypes
<1>6. RowsAreNamed'
  BY <1>2, <1>3, <1>4 DEF RowsAreNamed, Booked
<1>7. RowsKept
  BY <1>2, <1>3, <1>4 DEF RowsKept
<1>8. ASSUME NEW g \in Fills PROVE CallOK(g)'
  <2>1. CASE g = f
    BY <2>1, <1>2, <1>3 DEF CallOK
  <2>2. CASE g # f
    BY <2>2, <1>2, <1>4, <1>7, CallStays DEF CallsHoldRows
  <2> QED
    BY <2>1, <2>2
<1>9. SymbolsHoldRows'
  BY <1>2, <1>7, SymbolsStay DEF SymbolsHoldRows
<1>10. CorrectedAreTouched'
  BY <1>2 DEF CorrectedAreTouched
<1> QED
  BY <1>5, <1>6, <1>8, <1>9, <1>10 DEF CallsHoldRows

LEMMA FactsBegin ==
    ASSUME BookFacts, NEW f \in Fills, Begin(f) PROVE BookFacts'
<1> USE DEF BookFacts
<1>1. /\ trade[f] # NoPosition /\ call[f] = "none"
      /\ plan' = [plan EXCEPT ![f] = PlanOf(f)]
      /\ call' = [call EXCEPT ![f] = "write"]
      /\ overlapped \subseteq overlapped'
      /\ UNCHANGED <<trade, hold, row, cache, saved, sync, balance, todo, fixing, excess>>
  BY DEF Begin, bookVars, syncVars, exchVars
<1>2. /\ PlanOf(f) \in Plans
      /\ IF PlanOf(f).kind = "open" THEN PlanOf(f).id = f
         ELSE RowOf(PlanOf(f).id, trade[f].symbol)
  BY <1>1, PlanFits
<1>3. TrackerTypes'
  BY <1>1, <1>2 DEF TrackerTypes
<1>4. \A g \in Fills : g # f => call'[g] = call[g] /\ plan'[g] = plan[g]
  BY <1>1 DEF TrackerTypes
<1>5. call'[f] = "write" /\ plan'[f] = PlanOf(f)
  BY <1>1 DEF TrackerTypes
<1>6. RowsAreNamed'
  BY <1>1, <1>4 DEF RowsAreNamed, Booked
<1>7. RowsKept
  BY <1>1 DEF RowsKept
<1>8. ASSUME NEW g \in Fills PROVE CallOK(g)'
  <2>1. CASE g = f
    BY <2>1, <1>1, <1>2, <1>5, Absent DEF CallOK, RowOf
  <2>2. CASE g # f
    BY <2>2, <1>1, <1>4, <1>7, CallStays DEF CallsHoldRows
  <2> QED
    BY <2>1, <2>2
<1>9. SymbolsHoldRows'
  BY <1>1, <1>7, SymbolsStay DEF SymbolsHoldRows
<1>10. CorrectedAreTouched'
  BY <1>1 DEF CorrectedAreTouched
<1> QED
  BY <1>3, <1>6, <1>8, <1>9, <1>10 DEF CallsHoldRows

\* What a write leaves: a row of the fill's symbol, with the side it had.
LEMMA WrittenFits ==
    ASSUME BookFacts, NEW f \in Fills, call[f] = "write"
    PROVE  /\ plan[f] \in Plans /\ plan[f].id \in Fills
           /\ Written(f, plan[f]) \in Positions
           /\ Written(f, plan[f]).id = plan[f].id
           /\ trade[f] # NoPosition
           /\ trade[plan[f].id] # NoPosition
           /\ trade[plan[f].id].symbol = trade[f].symbol
           /\ Written(f, plan[f]).side = trade[plan[f].id].side
           /\ IF plan[f].kind = "open" THEN plan[f].id = f /\ row[f] = NoPosition
              ELSE /\ row[plan[f].id] \in Positions /\ plan[f].id # f
                   /\ plan[f].id \in Booked
<1>1. trade[f] # NoPosition /\ plan[f] # NoPosition
      /\ IF plan[f].kind = "open" THEN plan[f].id = f
         ELSE RowOf(plan[f].id, trade[f].symbol)
  BY DEF BookFacts, CallsHoldRows, CallOK
<1>2. plan[f] \in Plans /\ trade[f] \in Trades
  BY <1>1 DEF BookFacts, TrackerTypes
<1>3. plan[f].id \in Fills /\ plan[f].size \in Nat /\ plan[f].fees \in Nat /\ trade[f].side \in Sides
  BY <1>2 DEF Plans, Trades
<1>4. f \notin Booked /\ row[f] = NoPosition
  BY DEF BookFacts, RowsAreNamed, Booked
<1>5. CASE plan[f].kind = "open"
  BY <1>1, <1>2, <1>3, <1>4, <1>5 DEF Written, PositionOf, Positions
<1>6. CASE plan[f].kind # "open"
  <2> DEFINE i == plan[f].id
  <2>1. i \in Fills /\ row[i] # NoPosition /\ trade[i].symbol = trade[f].symbol
    BY <1>1, <1>3, <1>6 DEF RowOf
  <2>2. row[i] \in Positions /\ row[i].id = i /\ row[i].side = trade[i].side /\ i \in Booked
        /\ trade[i] # NoPosition /\ i # f
    BY <2>1, <1>4 DEF BookFacts, TrackerTypes, RowsAreNamed, CallsHoldRows, CallOK, Booked
  <2>3. row[i].open \in BOOLEAN
    BY <2>2 DEF Positions
  <2>4. Written(f, plan[f]) = [row[i] EXCEPT !.size = plan[f].size, !.fees = plan[f].fees,
                                 !.open = @ /\ plan[f].kind # "close"]
    BY <1>6 DEF Written
  <2>5. (row[i].open /\ plan[f].kind # "close") \in BOOLEAN
    BY <2>3
  <2>6. Written(f, plan[f]) \in Positions
    BY <2>2, <2>4, <2>5, <1>3 DEF Positions
  <2>7. Written(f, plan[f]).id = i /\ Written(f, plan[f]).side = row[i].side
    BY <2>2, <2>4 DEF Positions
  <2> QED
    BY <2>1, <2>2, <2>6, <2>7, <1>1, <1>2, <1>6
<1> QED
  BY <1>5, <1>6

LEMMA FactsWrite ==
    ASSUME BookFacts, NEW f \in Fills, Write(f) PROVE BookFacts'
<1> USE DEF BookFacts
<1>1. /\ call[f] = "write"
      /\ UNCHANGED <<trade, hold, cache, plan, sync, balance, todo, fixing, overlapped>>
  BY DEF Write, exchVars, syncVars
<1>2. CASE row' = row
           /\ saved' = saved /\ excess' = excess /\ call' = [call EXCEPT ![f] = "failed"]
  <2>1. TrackerTypes'
    BY <1>1, <1>2 DEF TrackerTypes
  <2>2. RowsAreNamed'
    BY <1>1, <1>2 DEF RowsAreNamed, Booked, TrackerTypes
  <2>3. RowsKept
    BY <1>1, <1>2 DEF RowsKept
  <2>4. ASSUME NEW g \in Fills PROVE CallOK(g)'
    <3>1. CASE g = f
      BY <3>1, <1>1, <1>2 DEF CallOK, CallsHoldRows, TrackerTypes
    <3>2. CASE g # f
      BY <3>2, <1>1, <1>2, <2>3, CallStays DEF CallsHoldRows, TrackerTypes
    <3> QED
      BY <3>1, <3>2
  <2>5. SymbolsHoldRows'
    BY <1>1, <2>3, SymbolsStay DEF SymbolsHoldRows
  <2>6. CorrectedAreTouched'
    BY <1>1 DEF CorrectedAreTouched
  <2> QED
    BY <2>1, <2>2, <2>4, <2>5, <2>6 DEF CallsHoldRows
<1>3. CASE /\ row' = [row EXCEPT ![plan[f].id] = Written(f, plan[f])]
           /\ saved' = [saved EXCEPT ![f] = Written(f, plan[f])]
           /\ call' = [call EXCEPT ![f] = "resume"]
           /\ excess' = [excess EXCEPT ![trade[f].symbol] = @ + Excess(f)]
  <2> DEFINE i == plan[f].id
             new == Written(f, plan[f])
  <2>1. /\ plan[f] \in Plans /\ i \in Fills /\ new \in Positions /\ new.id = i
        /\ trade[f] # NoPosition /\ trade[i] # NoPosition
        /\ trade[i].symbol = trade[f].symbol /\ new.side = trade[i].side
        /\ i = f \/ i \in Booked
    BY <1>1, WrittenFits
  <2> HIDE DEF i, new
  <2>2. row' = [row EXCEPT ![i] = new] /\ saved' = [saved EXCEPT ![f] = new]
    BY <1>3 DEF i, new
  <2>3. Excess(f) \in Int
    <3>1. trade[f] \in Trades /\ plan[f].closed \in Nat
      BY <2>1 DEF TrackerTypes, Plans
    <3> QED
      BY <3>1, QuantitiesAssumption DEF Excess, Trades
  <2>4. TrackerTypes'
    <3>1. trade[f].symbol \in Symbols
      BY <2>1 DEF TrackerTypes, Trades
    <3>2. excess' \in [Symbols -> Int]
      BY <1>3, <2>3, <3>1 DEF TrackerTypes
    <3>3. row' \in [Fills -> Positions \cup {NoPosition}]
      BY <2>1, <2>2 DEF TrackerTypes
    <3>4. saved' \in [Fills -> Positions \cup {NoPosition}]
      BY <2>1, <2>2 DEF TrackerTypes
    <3>5. call' \in [Fills -> {"none", "write", "resume", "done", "failed"}]
      BY <1>3 DEF TrackerTypes
    <3> QED
      BY <1>1, <3>2, <3>3, <3>4, <3>5 DEF TrackerTypes
  <2>5. \A g \in Fills : g # f => call'[g] = call[g] /\ saved'[g] = saved[g]
    BY <1>3 DEF TrackerTypes
  <2>6. call'[f] = "resume" /\ saved'[f] = new
    BY <1>3, <2>2 DEF TrackerTypes
  <2>7. row'[i] = new /\ \A g \in Fills : g # i => row'[g] = row[g]
    BY <2>1, <2>2 DEF TrackerTypes
  <2>8. RowsAreNamed'
    <3> SUFFICES ASSUME NEW g \in Fills, row'[g] # NoPosition
                 PROVE  /\ g \in Booked'
                        /\ row'[g].id = g /\ row'[g].side = trade[g].side
      BY <1>1 DEF RowsAreNamed
    <3>1. CASE g = i
      BY <3>1, <2>1, <2>5, <2>6, <2>7 DEF Booked
    <3>2. CASE g # i
      BY <3>2, <2>5, <2>6, <2>7 DEF Booked, RowsAreNamed
    <3> QED
      BY <3>1, <3>2
  <2>9. RowsKept
    BY <1>1, <2>1, <2>7, Absent DEF RowsKept
  <2>10. ASSUME NEW g \in Fills PROVE CallOK(g)'
    <3>1. CASE g = f
      BY <3>1, <1>1, <2>1, <2>6, <2>7, Absent DEF CallOK, IsRowOf, RowOf
    <3>2. CASE g # f
      BY <3>2, <1>1, <2>5, <2>9, CallStays DEF CallsHoldRows
    <3> QED
      BY <3>1, <3>2
  <2>11. SymbolsHoldRows'
    BY <1>1, <2>9, SymbolsStay DEF SymbolsHoldRows
  <2>12. CorrectedAreTouched'
    BY <1>1 DEF CorrectedAreTouched
  <2> QED
    BY <2>4, <2>8, <2>10, <2>11, <2>12 DEF CallsHoldRows
<1> QED
  BY <1>2, <1>3 DEF Write

LEMMA FactsResume ==
    ASSUME BookFacts, NEW f \in Fills, Resume(f) PROVE BookFacts'
<1> USE DEF BookFacts
<1>1. /\ call[f] = "resume"
      /\ cache' = [cache EXCEPT ![trade[f].symbol] = CachedAfter(f)]
      /\ call' = [call EXCEPT ![f] = "done"]
      /\ plan' = [plan EXCEPT ![f] = NoPosition]
      /\ saved' = [saved EXCEPT ![f] = NoPosition]
      /\ UNCHANGED <<trade, hold, row, sync, balance, todo, fixing, overlapped, excess>>
  BY DEF Resume, exchVars, syncVars, histVars
<1>2. trade[f] # NoPosition /\ saved[f] \in Positions \cup {NoPosition}
      /\ IsRowOf(saved[f], trade[f].symbol)
  BY <1>1 DEF CallsHoldRows, CallOK, TrackerTypes
<1>3. trade[f].symbol \in Symbols
  BY <1>2 DEF TrackerTypes, Trades
<1>4. CachedAfter(f) \in Positions \cup {NoPosition} /\ IsRowOf(CachedAfter(f), trade[f].symbol)
  BY <1>2 DEF CachedAfter, IsRowOf
<1>5. TrackerTypes'
  BY <1>1, <1>4 DEF TrackerTypes
<1>6. \A g \in Fills : g # f => call'[g] = call[g] /\ plan'[g] = plan[g] /\ saved'[g] = saved[g]
  BY <1>1 DEF TrackerTypes
<1>7. call'[f] = "done"
  BY <1>1 DEF TrackerTypes
<1>8. RowsAreNamed'
  BY <1>1, <1>6, <1>7 DEF RowsAreNamed, Booked
<1>9. RowsKept
  BY <1>1 DEF RowsKept
<1>10. ASSUME NEW g \in Fills PROVE CallOK(g)'
  <2>1. CASE g = f
    BY <2>1, <1>1, <1>2, <1>7 DEF CallOK
  <2>2. CASE g # f
    BY <2>2, <1>1, <1>6, <1>9, CallStays DEF CallsHoldRows
  <2> QED
    BY <2>1, <2>2
<1>11. ASSUME NEW t \in Symbols PROVE IsRowOf(cache[t], t)' /\ IsRowOf(todo[t], t)'
  <2>1. IsRowOf(todo[t], t)'
    BY <1>1, <1>9, SymbolsStay
  <2>2. CASE t = trade[f].symbol
    BY <2>1, <2>2, <1>1, <1>3, <1>4, <1>9, PositionStays DEF IsRowOf, TrackerTypes
  <2>3. CASE t # trade[f].symbol
    BY <2>1, <2>3, <1>1, <1>9, SymbolsStay DEF TrackerTypes
  <2> QED
    BY <2>2, <2>3
<1>12. CorrectedAreTouched'
  BY <1>1 DEF CorrectedAreTouched
<1> QED
  BY <1>5, <1>8, <1>10, <1>11, <1>12 DEF CallsHoldRows, SymbolsHoldRows

LEMMA FactsFetch ==
    ASSUME BookFacts, SyncFetch PROVE BookFacts'
<1> USE DEF BookFacts
<1>1. /\ UNCHANGED <<trade, hold, row, cache, call, plan, saved, todo, fixing, overlapped, excess>>
      /\ balance' = hold \/ balance' = balance
      /\ sync = "idle"
  BY DEF SyncFetch, exchVars, bookVars, callVars, histVars
<1>2. TrackerTypes'
  BY <1>1 DEF TrackerTypes
<1> QED
  BY <1>1, <1>2 DEF RowsAreNamed, Booked, CallsHoldRows, CallOK, SymbolsHoldRows, IsRowOf,
       RowOf, CorrectedAreTouched

LEMMA FactsCompare ==
    ASSUME BookFacts, SyncCompare PROVE BookFacts'
<1> USE DEF BookFacts
<1>1. /\ todo' = [s \in Symbols |->
            IF s \in Cached /\ cache[s].size # balance[s] THEN cache[s] ELSE NoPosition]
      /\ overlapped' = overlapped \cup {s \in Symbols : todo'[s] # NoPosition}
      /\ UNCHANGED <<trade, hold, row, cache, call, plan, saved, balance, fixing, excess>>
      /\ fixing = {} /\ sync' = "write"
  BY DEF SyncCompare, exchVars, bookVars, callVars, CorrectedAreTouched
<1>2. TrackerTypes'
  BY <1>1 DEF TrackerTypes
<1>3. RowsAreNamed' /\ CallsHoldRows'
  BY <1>1 DEF RowsAreNamed, Booked, CallsHoldRows, CallOK, IsRowOf, RowOf
<1>4. SymbolsHoldRows'
  BY <1>1 DEF SymbolsHoldRows, IsRowOf, RowOf
<1>5. CorrectedAreTouched'
  BY <1>1 DEF CorrectedAreTouched
<1> QED
  BY <1>2, <1>3, <1>4, <1>5

LEMMA FactsSyncWrite ==
    ASSUME BookFacts, NEW s \in Symbols, SyncWrite(s) PROVE BookFacts'
<1> USE DEF BookFacts
<1> DEFINE i == todo[s].id
           fixed == [row[i] EXCEPT !.size = balance[s]]
<1>1. /\ UNCHANGED <<trade, hold, cache, call, plan, saved, sync, balance, overlapped, excess>>
      /\ sync = "write"
      /\ fixing = {} /\ todo[s] # NoPosition
  BY DEF SyncWrite, exchVars, callVars, histVars
<1>2. RowOf(i, s) /\ i \in Fills
  BY <1>1 DEF SymbolsHoldRows, IsRowOf, TrackerTypes, Positions
<1>3. row[i] \in Positions /\ row[i].id = i /\ row[i].side = trade[i].side
  BY <1>2 DEF TrackerTypes, RowsAreNamed, RowOf
<1>4. balance[s] \in Nat
  BY DEF TrackerTypes
<1>5. fixed \in Positions /\ fixed.id = i /\ fixed.side = trade[i].side
  BY <1>3, <1>4 DEF Positions
<1>6. CASE /\ row' = [row EXCEPT ![i] = fixed]
           /\ todo' = [todo EXCEPT ![s] = fixed]
           /\ fixing' = {s}
  <2> HIDE DEF fixed, i
  <2>1. TrackerTypes'
    <3>1. row' \in [Fills -> Positions \cup {NoPosition}]
      BY <1>2, <1>5, <1>6 DEF TrackerTypes
    <3>2. todo' \in [Symbols -> Positions \cup {NoPosition}]
      BY <1>5, <1>6 DEF TrackerTypes
    <3> QED
      BY <1>1, <3>1, <3>2 DEF TrackerTypes
  <2>2. row'[i] = fixed /\ \A g \in Fills : g # i => row'[g] = row[g]
    BY <1>2, <1>6 DEF TrackerTypes
  <2>3. todo'[s] = fixed /\ \A t \in Symbols : t # s => todo'[t] = todo[t]
    BY <1>6 DEF TrackerTypes
  <2>4. RowsKept
    BY <1>1, <1>5, <2>2, Absent DEF RowsKept
  <2>5. RowsAreNamed'
    BY <1>1, <1>2, <1>5, <2>2 DEF RowsAreNamed, Booked, RowOf
  <2>6. CallsHoldRows'
    BY <1>1, <2>4, CallStays DEF CallsHoldRows
  <2>7. ASSUME NEW t \in Symbols PROVE IsRowOf(cache[t], t)' /\ IsRowOf(todo[t], t)'
    <3>1. IsRowOf(cache[t], t)'
      BY <1>1, <2>4, SymbolsStay
    <3>2. CASE t = s
      BY <3>1, <3>2, <1>1, <1>2, <1>5, <2>2, <2>3, Absent DEF IsRowOf, RowOf
    <3>3. CASE t # s
      BY <3>1, <3>3, <2>3, <2>4, SymbolsStay
    <3> QED
      BY <3>2, <3>3
  <2>8. CorrectedAreTouched'
    BY <1>1, <1>5, <1>6, <2>3, Absent DEF CorrectedAreTouched
  <2> QED
    BY <2>1, <2>5, <2>6, <2>7, <2>8 DEF SymbolsHoldRows
<1>7. CASE todo' = [todo EXCEPT ![s] = NoPosition] /\ row' = row /\ fixing' = fixing
  <2>1. TrackerTypes'
    BY <1>1, <1>7 DEF TrackerTypes
  <2>2. RowsAreNamed' /\ CallsHoldRows' /\ SymbolsHoldRows'
    BY <1>1, <1>7 DEF RowsAreNamed, Booked, CallsHoldRows, CallOK, SymbolsHoldRows, IsRowOf,
         RowOf, TrackerTypes
  <2>3. CorrectedAreTouched'
    BY <1>1, <1>7 DEF CorrectedAreTouched, TrackerTypes
  <2> QED
    BY <2>1, <2>2, <2>3
<1> QED
  BY <1>6, <1>7 DEF SyncWrite

LEMMA FactsSyncResume ==
    ASSUME BookFacts, NEW s \in Symbols, SyncResume(s) PROVE BookFacts'
<1> USE DEF BookFacts
<1>1. /\ cache' = [cache EXCEPT ![s] = todo[s]]
      /\ todo' = [todo EXCEPT ![s] = NoPosition]
      /\ fixing' = {}
      /\ UNCHANGED <<trade, hold, row, call, plan, saved, sync, balance, overlapped, excess>>
  BY DEF SyncResume, exchVars, callVars, histVars
<1>2. TrackerTypes'
  BY <1>1 DEF TrackerTypes
<1>3. RowsAreNamed' /\ CallsHoldRows'
  BY <1>1 DEF RowsAreNamed, Booked, CallsHoldRows, CallOK, IsRowOf, RowOf
<1>4. SymbolsHoldRows'
  BY <1>1 DEF SymbolsHoldRows, IsRowOf, RowOf, TrackerTypes
<1>5. CorrectedAreTouched'
  BY <1>1 DEF CorrectedAreTouched, TrackerTypes
<1> QED
  BY <1>2, <1>3, <1>4, <1>5

LEMMA FactsDone ==
    ASSUME BookFacts, SyncDone PROVE BookFacts'
<1> USE DEF BookFacts
<1>1. /\ UNCHANGED <<trade, hold, row, cache, call, plan, saved, balance, todo, fixing,
                     overlapped, excess>>
      /\ \A s \in Symbols : todo[s] = NoPosition
  BY DEF SyncDone, exchVars, bookVars, callVars, histVars
<1> QED
  BY <1>1 DEF TrackerTypes, RowsAreNamed, Booked, CallsHoldRows, CallOK, SymbolsHoldRows,
       IsRowOf, RowOf, CorrectedAreTouched

LEMMA RestartLoads ==
    ASSUME BookFacts, Restart
    PROVE  /\ cache' \in [Symbols -> Positions \cup {NoPosition}]
           /\ \A s \in Symbols :
                IF OpenRows(s) = {} THEN cache'[s] = NoPosition
                ELSE \E f \in OpenRows(s) : cache'[s] = row[f]
<1>1. PICK last \in [Symbols -> Fills \cup {NoPosition}] :
        /\ \A s \in Symbols :
              IF OpenRows(s) = {} THEN last[s] = NoPosition ELSE last[s] \in OpenRows(s)
        /\ cache' = [s \in Symbols |->
              IF last[s] = NoPosition THEN NoPosition ELSE row[last[s]]]
  BY DEF Restart
<1>2. \A s \in Symbols : OpenRows(s) \subseteq Fills
  BY DEF OpenRows
<1>3. \A s \in Symbols : last[s] # NoPosition => last[s] \in OpenRows(s)
  BY <1>1
<1>4. \A s \in Symbols : cache'[s] = IF last[s] = NoPosition THEN NoPosition ELSE row[last[s]]
  BY <1>1
<1>5. \A f \in Fills : row[f] \in Positions \cup {NoPosition}
  BY DEF BookFacts, TrackerTypes
<1>6. \A s \in Symbols : OpenRows(s) # {} => last[s] # NoPosition
  BY <1>1, <1>2, FillsAssumption
<1> QED
  BY <1>1, <1>2, <1>3, <1>4, <1>5, <1>6

LEMMA FactsRestart ==
    ASSUME BookFacts, Restart PROVE BookFacts'
<1> USE DEF BookFacts
<1>1. /\ call' = [f \in Fills |->
            CASE call[f] = "write" -> "failed" [] call[f] = "resume" -> "done"
              [] OTHER -> call[f]]
      /\ todo' = [s \in Symbols |-> NoPosition]
      /\ fixing' = {}
      /\ plan' = [f \in Fills |-> NoPosition]
      /\ saved' = [f \in Fills |-> NoPosition]
      /\ UNCHANGED <<trade, hold, row, balance, overlapped, excess>>
  BY DEF Restart, exchVars, histVars
<1>2. /\ cache' \in [Symbols -> Positions \cup {NoPosition}]
      /\ \A s \in Symbols : cache'[s] # NoPosition =>
            \E f \in OpenRows(s) : cache'[s] = row[f]
  BY RestartLoads
<1>3. TrackerTypes'
  <2>1. call' \in [Fills -> {"none", "write", "resume", "done", "failed"}]
    BY <1>1 DEF TrackerTypes
  <2> QED
    BY <1>1, <1>2, <2>1 DEF TrackerTypes
<1>4. \A f \in Fills : call'[f] = (CASE call[f] = "write" -> "failed"
            [] call[f] = "resume" -> "done" [] OTHER -> call[f])
  BY <1>1
<1>5. RowsAreNamed'
  BY <1>1, <1>4 DEF RowsAreNamed, Booked
<1>6. CallsHoldRows'
  BY <1>1, <1>4 DEF CallsHoldRows, CallOK
<1>7. SymbolsHoldRows'
  <2> SUFFICES ASSUME NEW s \in Symbols PROVE IsRowOf(cache[s], s)' /\ IsRowOf(todo[s], s)'
    BY DEF SymbolsHoldRows
  <2>1. IsRowOf(todo[s], s)'
    BY <1>1 DEF IsRowOf
  <2>2. IsRowOf(cache[s], s)'
    <3> SUFFICES ASSUME cache'[s] # NoPosition PROVE IsRowOf(cache[s], s)'
      BY DEF IsRowOf
    <3>1. PICK f \in OpenRows(s) : cache'[s] = row[f]
      BY <1>2
    <3>2. row[f].id = f /\ row[f].side = trade[f].side /\ RowOf(f, s)
      BY DEF OpenRows, RowsAreNamed, RowOf
    <3> QED
      BY <1>1, <3>1, <3>2 DEF IsRowOf, RowOf
  <2> QED
    BY <2>1, <2>2
<1>8. CorrectedAreTouched'
  BY <1>1 DEF CorrectedAreTouched
<1> QED
  BY <1>3, <1>5, <1>6, <1>7, <1>8

LEMMA FactsStep == BookFacts /\ [Next]_vars => BookFacts'
<1> SUFFICES ASSUME BookFacts, [Next]_vars PROVE BookFacts'
  OBVIOUS
<1>1. CASE UNCHANGED vars
  BY <1>1 DEF vars, exchVars, bookVars, callVars, syncVars, histVars, BookFacts, TrackerTypes,
       RowsAreNamed, Booked, CallsHoldRows, CallOK, SymbolsHoldRows, IsRowOf, RowOf,
       CorrectedAreTouched
<1>2. CASE \E f \in Fills : Execute(f) \/ ProcessFill(f)
  BY <1>2, FactsExecute, FactsBegin, FactsWrite, FactsResume DEF ProcessFill
<1>3. CASE SyncPositions
  BY <1>3, FactsFetch, FactsCompare, FactsSyncWrite, FactsSyncResume, FactsDone
     DEF SyncPositions
<1>4. CASE Restart
  BY <1>4, FactsRestart
<1> QED
  BY <1>1, <1>2, <1>3, <1>4 DEF Next

(***************************************************************************)
(* The books of a symbol that a step leaves alone.                         *)
(***************************************************************************)
Alone(s) ==
    /\ Traded(s)' = Traded(s)
    /\ \A f \in Traded(s) :
          /\ trade'[f] = trade[f] /\ row'[f] = row[f] /\ call'[f] = call[f]
          /\ plan'[f] = plan[f] /\ saved'[f] = saved[f]
    /\ cache'[s] = cache[s] /\ hold'[s] = hold[s] /\ excess'[s] = excess[s]

LEMMA RowIsTraded ==
    ASSUME BookFacts, NEW s \in Symbols, NEW i \in Fills, RowOf(i, s)
    PROVE  i \in Traded(s)
  BY DEF BookFacts, RowOf, RowsAreNamed, Booked, CallsHoldRows, CallOK, Traded

LEMMA OpenAreTraded ==
    ASSUME BookFacts, NEW s \in Symbols
    PROVE  /\ OpenRows(s) \subseteq Rows(s) /\ Rows(s) \subseteq Traded(s)
           /\ OpenRows(s) = {f \in Traded(s) : row[f] # NoPosition /\ row[f].open}
           /\ IsFiniteSet(Traded(s)) /\ IsFiniteSet(Rows(s)) /\ IsFiniteSet(OpenRows(s))
<1>1. \A f \in OpenRows(s) : f \in Traded(s) /\ row[f] # NoPosition /\ row[f].open
  BY RowIsTraded DEF OpenRows, RowOf
<1>2. Rows(s) \subseteq Traded(s) /\ OpenRows(s) \subseteq Rows(s) /\ Traded(s) \subseteq Fills
  BY <1>1 DEF Rows, Traded
<1>3. OpenRows(s) = {f \in Traded(s) : row[f] # NoPosition /\ row[f].open}
  BY <1>1 DEF OpenRows, Traded
<1> QED
  BY <1>2, <1>3, FillsAssumption, FS_Subset

\* What the sums depend on.
LEMMA SumsStay ==
    ASSUME BookFacts, BookFacts', NEW s \in Symbols, Traded(s)' = Traded(s),
           \A f \in Traded(s) : trade'[f] = trade[f] /\ row'[f] = row[f]
    PROVE  /\ OpenRows(s)' = OpenRows(s) /\ Net(s)' = Net(s)
           /\ Rows(s)' = Rows(s) /\ Fees(s)' = Fees(s)
           /\ Booked' \cap Traded(s) = Booked \cap Traded(s) => Waiting(s)' = Waiting(s)
<1>1. OpenRows(s)' = {f \in Traded(s)' : row'[f] # NoPosition /\ row'[f].open}
  <2>1. \A f \in OpenRows(s)' : f \in Traded(s)'
    BY DEF BookFacts, OpenRows, RowsAreNamed, Booked, CallsHoldRows, CallOK, Traded
  <2> QED
    BY <2>1 DEF OpenRows, Traded
<1>2. OpenRows(s)' = OpenRows(s)
  BY <1>1, OpenAreTraded
<1>3. Rows(s)' = Rows(s)
  BY DEF Rows
<1>4. Net(s)' = Net(s)
  <2>1. [f \in OpenRows(s) |-> SignedSize(row[f])]' = [f \in OpenRows(s) |-> SignedSize(row[f])]
    BY <1>2, OpenAreTraded DEF SignedSize
  <2> QED
    BY <1>2, <2>1 DEF Net
<1>5. Fees(s)' = Fees(s)
  <2>1. [f \in Rows(s) |-> row[f].fees]' = [f \in Rows(s) |-> row[f].fees]
    BY <1>3, OpenAreTraded
  <2> QED
    BY <1>3, <2>1 DEF Fees
<1>6. ASSUME Booked' \cap Traded(s) = Booked \cap Traded(s) PROVE Waiting(s)' = Waiting(s)
  <2>1. [f \in Traded(s) |-> Signed(f)]' = [f \in Traded(s) |-> Signed(f)]
    BY DEF Signed
  <2>2. Traded(s)' \ Booked' = Traded(s) \ Booked
    BY <1>6
  <2> QED
    BY <2>1, <2>2 DEF Waiting
<1> QED
  BY <1>2, <1>3, <1>4, <1>5, <1>6

LEMMA BookStays ==
    ASSUME BookFacts, BookFacts', NEW s \in Symbols, Alone(s), BookOf(s), SumsOf(s)
    PROVE  BookOf(s)' /\ SumsOf(s)'
<1> DEFINE T == Traded(s)
<1>1. T' = T /\ \A f \in T : trade'[f] = trade[f] /\ row'[f] = row[f] /\ call'[f] = call[f]
                              /\ plan'[f] = plan[f] /\ saved'[f] = saved[f]
  BY DEF Alone
<1>2. Booked' \cap T = Booked \cap T
  BY <1>1 DEF Booked, Traded
<1>3. OpenRows(s)' = OpenRows(s) /\ Net(s)' = Net(s) /\ Fees(s)' = Fees(s)
      /\ Waiting(s)' = Waiting(s)
  BY <1>1, <1>2, SumsStay
<1>4. OneAtATime(s)'
  BY <1>1 DEF BookOf, OneAtATime, InFlight
<1>5. Writing(s)'
  <2> SUFFICES ASSUME NEW f \in T, call[f] = "write" PROVE plan'[f] = PlanOf(f)'
    BY <1>1 DEF Writing
  <2>1. trade[f].symbol = s /\ trade'[f] = trade[f] /\ cache'[s] = cache[s]
    BY DEF Alone, Traded
  <2>2. PlanOf(f)' = PlanOf(f)
    BY <2>1 DEF PlanOf, OpenPlan, AddPlan, ReducePlan
  <2> QED
    BY <1>1, <2>2 DEF BookOf, Writing
<1>6. Resuming(s)'
  <2> SUFFICES ASSUME NEW f \in T, call[f] = "resume"
               PROVE  /\ plan'[f].kind = "close" => OpenRows(s)' = {}
                      /\ plan'[f].kind # "close" =>
                           OpenRows(s)' = {saved'[f].id} /\ saved'[f] = row'[saved'[f].id]
    BY <1>1 DEF Resuming
  <2>1. CASE plan[f].kind = "close"
    BY <2>1, <1>1, <1>3 DEF BookOf, Resuming
  <2>2. CASE plan[f].kind # "close"
    <3>1. OpenRows(s) = {saved[f].id} /\ saved[f] = row[saved[f].id]
      BY <2>2 DEF BookOf, Resuming
    <3>2. saved[f].id \in T
      BY <3>1, OpenAreTraded
    <3> QED
      BY <3>1, <3>2, <1>1, <1>3, <2>2
  <2> QED
    BY <2>1, <2>2
<1>7. Settled(s)'
  <2> SUFFICES ASSUME \A f \in T : call[f] # "resume" PROVE Mirrored(s)'
    BY <1>1 DEF Settled
  <2>1. Mirrored(s) /\ cache'[s] = cache[s]
    BY DEF BookOf, Settled, Alone
  <2>2. cache[s] # NoPosition => cache[s].id \in T
    BY <2>1, OpenAreTraded DEF Mirrored
  <2> QED
    BY <2>1, <2>2, <1>1, <1>3 DEF Mirrored
<1>8. OpenAreHeld(s)'
  BY <1>1, <1>3, OpenAreTraded DEF BookOf, OpenAreHeld
<1>9. SumsOf(s)'
  BY <1>1, <1>2, <1>3 DEF SumsOf, FeesAddUp, BalanceAddsUp, Alone
<1> QED
  BY <1>4, <1>5, <1>6, <1>7, <1>8, <1>9 DEF BookOf

\* A trade is worth a number of its asset.
LEMMA SignedType ==
    ASSUME TrackerTypes, NEW s, NEW f \in Traded(s)
    PROVE  Signed(f) \in Int /\ trade[f].qty \in Nat /\ trade[f].qty > 0 /\ trade[f] \in Trades
<1>1. trade[f] \in Trades
  BY DEF TrackerTypes, Traded
<1> QED
  BY <1>1, QuantitiesAssumption DEF Trades, Signed

LEMMA WaitingType ==
    ASSUME BookFacts, NEW s \in Symbols PROVE Waiting(s) \in Int
<1> DEFINE g == [f \in Traded(s) |-> Signed(f)]
           W == Traded(s) \ Booked
<1>1. IsFiniteSet(W) /\ Integral(g, W)
  BY OpenAreTraded, SignedType, FS_Subset DEF Integral, BookFacts
<1> HIDE DEF g, W
<1>2. SumFunctionOnSet(g, W) \in Int
  BY <1>1, SumType
<1> QED
  BY <1>2 DEF g, W, Waiting

LEMMA NetType ==
    ASSUME BookFacts, NEW s \in Symbols PROVE Net(s) \in Int
<1> DEFINE g == [f \in OpenRows(s) |-> SignedSize(row[f])]
<1>1. \A f \in OpenRows(s) : row[f] \in Positions
  BY DEF BookFacts, TrackerTypes, OpenRows
<1>2. IsFiniteSet(OpenRows(s)) /\ Integral(g, OpenRows(s))
  BY <1>1, OpenAreTraded DEF Integral, SignedSize, Positions
<1> HIDE DEF g
<1>3. SumFunctionOnSet(g, OpenRows(s)) \in Int
  BY <1>2, SumType
<1> QED
  BY <1>3 DEF g, Net

LEMMA FeesType ==
    ASSUME BookFacts, NEW s \in Symbols PROVE Fees(s) \in Int
<1> DEFINE g == [f \in Rows(s) |-> row[f].fees]
<1>1. \A f \in Rows(s) : row[f] \in Positions
  BY DEF BookFacts, TrackerTypes, Rows, Traded
<1>2. IsFiniteSet(Rows(s)) /\ Integral(g, Rows(s))
  BY <1>1, OpenAreTraded DEF Integral, Positions
<1> HIDE DEF g
<1>3. SumFunctionOnSet(g, Rows(s)) \in Int
  BY <1>2, SumType
<1> QED
  BY <1>3 DEF g, Fees

LEMMA BooksInitial == Init => BooksInv
<1> SUFFICES ASSUME Init, NEW s \in Untouched PROVE BookOf(s) /\ SumsOf(s)
  BY DEF BooksInv
<1>1. s \in Symbols /\ Traded(s) = {} /\ OpenRows(s) = {} /\ Rows(s) = {}
  BY DEF Untouched, Init, Traded, OpenRows, Rows
<1>2. BookOf(s)
  BY <1>1 DEF BookOf, OneAtATime, Writing, Resuming, Settled, Mirrored, OpenAreHeld, Init
<1>3. Fees(s) = 0 /\ Net(s) = 0 /\ Waiting(s) = 0
  BY <1>1, SumEmpty DEF Fees, Net, Waiting
<1>4. Cardinality(Traded(s) \cap Booked) = 0
  BY <1>1, FS_EmptySet
<1>5. hold[s] = Inventory /\ excess[s] = 0 /\ Inventory \in Nat
  BY <1>1, QuantitiesAssumption DEF Init
<1> QED
  BY <1>2, <1>3, <1>4, <1>5 DEF SumsOf, FeesAddUp, BalanceAddsUp

LEMMA BooksExecute ==
    ASSUME BookFacts, BookFacts', BooksInv, NEW f \in Fills, Execute(f) PROVE BooksInv'
<1>1. PICK s \in Symbols, side \in Sides, q \in 1..MaxQty :
        /\ trade' = [trade EXCEPT ![f] = [symbol |-> s, side |-> side, qty |-> q]]
        /\ hold' = [hold EXCEPT ![s] = IF side = "LONG" THEN @ + q ELSE @ - q]
  BY DEF Execute
<1>2. UNCHANGED <<row, cache, call, plan, saved, sync, balance, todo, fixing, overlapped, excess>>
  BY DEF Execute, bookVars, callVars, syncVars, histVars
<1>3. trade[f] = NoPosition /\ call[f] = "none"
  BY DEF Execute, BookFacts, CallsHoldRows, CallOK
<1>4. trade'[f] = [symbol |-> s, side |-> side, qty |-> q]
      /\ \A g \in Fills : g # f => trade'[g] = trade[g]
  BY <1>1 DEF BookFacts, TrackerTypes
<1>5. trade'[f] # NoPosition
  <2>1. trade'[f] \in Trades
    BY <1>4 DEF Trades
  <2> QED
    BY <2>1, Absent
<1> SUFFICES ASSUME NEW t \in Untouched PROVE BookOf(t)' /\ SumsOf(t)'
  BY <1>2 DEF BooksInv, Untouched
<1>6. t \in Symbols /\ BookOf(t) /\ SumsOf(t)
  BY DEF Untouched, BooksInv
<1>7. CASE t # s
  <2>1. Traded(t)' = Traded(t) /\ f \notin Traded(t)
    BY <1>3, <1>4, <1>7 DEF Traded
  <2>2. Alone(t)
    BY <2>1, <1>1, <1>2, <1>4, <1>6, <1>7 DEF Alone, BookFacts, TrackerTypes, Traded
  <2> QED
    BY <2>2, <1>6, BookStays
<1>8. CASE t = s
  <2>1. Traded(s)' = Traded(s) \cup {f} /\ f \notin Traded(s) /\ \A g \in Traded(s) : g # f
    BY <1>3, <1>4, <1>5 DEF Traded
  <2>2. \A g \in Traded(s) : trade'[g] = trade[g]
    BY <2>1, <1>4 DEF Traded
  <2>3. row[f] = NoPosition /\ f \notin Booked
    BY <1>3 DEF BookFacts, RowsAreNamed, Booked
  <2>4. OpenRows(s)' = OpenRows(s) /\ Rows(s)' = Rows(s)
    BY <2>1, <2>2, <2>3, <1>2, <1>4 DEF OpenRows, Rows
  <2>5. BookOf(s)'
    <3>1. OneAtATime(s)'
      BY <2>1, <1>2, <1>3, <1>6, <1>8 DEF BookOf, OneAtATime, InFlight
    <3>2. Writing(s)'
      <4> SUFFICES ASSUME NEW g \in Traded(s)', call[g] = "write" PROVE plan[g] = PlanOf(g)'
        BY <1>2 DEF Writing
      <4>1. g \in Traded(s) /\ trade'[g] = trade[g]
        BY <2>1, <2>2, <1>3
      <4>2. PlanOf(g)' = PlanOf(g)
        BY <4>1, <1>2 DEF PlanOf, OpenPlan, AddPlan, ReducePlan
      <4> QED
        BY <4>1, <4>2, <1>6, <1>8 DEF BookOf, Writing
    <3>3. Resuming(s)'
      BY <2>1, <2>4, <1>2, <1>3, <1>6, <1>8 DEF BookOf, Resuming
    <3>4. Settled(s)'
      BY <2>1, <2>4, <1>2, <1>6, <1>8 DEF BookOf, Settled, Mirrored
    <3>5. OpenAreHeld(s)'
      BY <2>4, <1>2, <1>6, <1>8 DEF BookOf, OpenAreHeld
    <3> QED
      BY <3>1, <3>2, <3>3, <3>4, <3>5 DEF BookOf
  <2>6. Fees(s)' = Fees(s) /\ Net(s)' = Net(s)
    BY <2>4, <1>2 DEF Fees, Net, SignedSize
  <2>7. FeesAddUp(s)'
    <3>1. Traded(s)' \cap Booked' = Traded(s) \cap Booked
      BY <2>1, <2>3, <1>2 DEF Booked
    <3> QED
      BY <2>6, <3>1, <1>6, <1>8 DEF SumsOf, FeesAddUp
  <2>8. Waiting(s)' = Waiting(s) + Signed(f)' /\ Signed(f)' \in Int
    <3> DEFINE W == Traded(s) \ Booked
               V == Traded(s)' \ Booked'
               g == [x \in Traded(s) |-> Signed(x)]
               h == [x \in Traded(s)' |-> Signed(x)']
    <3>1. V = W \cup {f} /\ f \notin W
      BY <2>1, <2>3, <1>2 DEF Booked
    <3>2. IsFiniteSet(W)
      BY <1>6, OpenAreTraded, FS_Subset
    <3>3. \A x \in W : g[x] = h[x]
      BY <2>1, <2>2 DEF Signed
    <3>4. Integral(h, V)
      <4>1. ASSUME NEW x \in Traded(s)' PROVE Signed(x)' \in Int
        <5>1. trade'[x] \in Trades
          BY <4>1 DEF BookFacts, TrackerTypes, Traded
        <5> QED
          BY <5>1, QuantitiesAssumption DEF Trades, Signed
      <4> QED
        BY <2>1, <4>1 DEF Integral
    <3>5. h[f] = Signed(f)' /\ h[f] \in Int
      <4>1. f \in V
        BY <3>1
      <4> QED
        BY <2>1, <3>4, <4>1 DEF Integral
    <3> HIDE DEF W, V, g, h
    <3>6. SumFunctionOnSet(h, V) = SumFunctionOnSet(g, W) + h[f]
      BY <3>1, <3>2, <3>3, <3>4, SumGrows
    <3>7. Waiting(s)' = SumFunctionOnSet(h, V) /\ Waiting(s) = SumFunctionOnSet(g, W)
      BY DEF Waiting, W, V, g, h
    <3> QED
      BY <3>5, <3>6, <3>7
  <2>9. BalanceAddsUp(s)'
    <3> SUFFICES ASSUME \A g \in Traded(s)' : call'[g] # "failed"
                 PROVE  hold'[s] = Inventory + Net(s)' + excess'[s] + Waiting(s)'
      BY DEF BalanceAddsUp
    <3>1. hold[s] = Inventory + Net(s) + excess[s] + Waiting(s)
      BY <2>1, <1>2, <1>6, <1>8 DEF SumsOf, BalanceAddsUp
    <3>2. hold[s] \in Nat /\ excess[s] \in Int /\ Waiting(s) \in Int /\ Net(s) \in Int
          /\ Inventory \in Int /\ q \in Int
      BY WaitingType, NetType, QuantitiesAssumption DEF BookFacts, TrackerTypes
    <3>3. hold'[s] = hold[s] + Signed(f)'
      BY <1>1, <1>4, <3>2 DEF BookFacts, TrackerTypes, Signed, Sides
    <3>4. excess'[s] = excess[s]
      BY <1>2
    <3> QED
      BY <2>6, <2>8, <3>1, <3>2, <3>3, <3>4
  <2> QED
    BY <2>5, <2>7, <2>9, <1>8 DEF SumsOf
<1> QED
  BY <1>7, <1>8

LEMMA BooksBegin ==
    ASSUME BookFacts, BookFacts', BooksInv, NEW f \in Fills, Begin(f) PROVE BooksInv'
<1>1. /\ trade[f] # NoPosition /\ call[f] = "none"
      /\ plan' = [plan EXCEPT ![f] = PlanOf(f)]
      /\ call' = [call EXCEPT ![f] = "write"]
      /\ overlapped' = overlapped \cup {trade[g].symbol : g \in {h \in Fills :
                        InFlight(h) /\ trade[h].symbol = trade[f].symbol}}
      /\ UNCHANGED <<trade, hold, row, cache, saved, sync, balance, todo, fixing, excess>>
  BY DEF Begin, bookVars, syncVars, exchVars
<1>2. /\ call'[f] = "write" /\ plan'[f] = PlanOf(f)
      /\ \A g \in Fills : g # f => call'[g] = call[g] /\ plan'[g] = plan[g]
  BY <1>1 DEF BookFacts, TrackerTypes
<1> SUFFICES ASSUME NEW t \in Untouched' PROVE BookOf(t)' /\ SumsOf(t)'
  BY DEF BooksInv
<1>3. t \in Symbols /\ BookOf(t) /\ SumsOf(t)
  BY <1>1 DEF Untouched, BooksInv
<1>4. Traded(t)' = Traded(t)
  BY <1>1 DEF Traded
<1>5. CASE t # trade[f].symbol
  <2>1. f \notin Traded(t)
    BY <1>5 DEF Traded
  <2>2. Alone(t)
    BY <2>1, <1>1, <1>2, <1>4 DEF Alone, Traded
  <2> QED
    BY <2>2, <1>3, BookStays
<1>6. CASE t = trade[f].symbol
  <2>1. \A g \in Traded(t) : ~InFlight(g)
    BY <1>1, <1>6 DEF Untouched, Traded
  <2>2. OpenRows(t)' = OpenRows(t) /\ Net(t)' = Net(t) /\ Fees(t)' = Fees(t)
        /\ Booked' = Booked /\ Waiting(t)' = Waiting(t)
    <3>1. Booked' = Booked
      BY <1>1, <1>2 DEF Booked
    <3> QED
      BY <3>1, <1>1, <1>3, <1>4, SumsStay
  <2>3. OneAtATime(t)'
    BY <2>1, <1>2, <1>4 DEF OneAtATime, InFlight, Traded
  <2>4. Writing(t)'
    <3>1. PlanOf(f)' = PlanOf(f)
      BY <1>1 DEF PlanOf, OpenPlan, AddPlan, ReducePlan
    <3>2. \A g \in Traded(t)' : call'[g] = "write" => g = f
      BY <2>1, <1>2, <1>4 DEF InFlight, Traded
    <3> QED
      BY <3>1, <3>2, <1>2 DEF Writing
  <2>5. Resuming(t)'
    BY <2>1, <1>2, <1>4 DEF Resuming, InFlight, Traded
  <2>6. Settled(t)'
    <3>1. Mirrored(t)
      BY <2>1, <1>3 DEF BookOf, Settled, InFlight
    <3> QED
      BY <3>1, <2>2, <1>1 DEF Settled, Mirrored
  <2>7. OpenAreHeld(t)'
    BY <2>2, <1>1, <1>3 DEF BookOf, OpenAreHeld
  <2>8. SumsOf(t)'
    BY <2>2, <1>1, <1>2, <1>3, <1>4 DEF SumsOf, FeesAddUp, BalanceAddsUp, Traded
  <2> QED
    BY <2>3, <2>4, <2>5, <2>6, <2>7, <2>8 DEF BookOf
<1> QED
  BY <1>5, <1>6

(***************************************************************************)
(* The write that books a fill.                                            *)
(***************************************************************************)
Writes(f) ==
    /\ call[f] = "write"
    /\ row' = [row EXCEPT ![plan[f].id] = Written(f, plan[f])]
    /\ saved' = [saved EXCEPT ![f] = Written(f, plan[f])]
    /\ call' = [call EXCEPT ![f] = "resume"]
    /\ excess' = [excess EXCEPT ![trade[f].symbol] = @ + Excess(f)]
    /\ UNCHANGED <<trade, hold, cache, plan, sync, balance, todo, fixing, overlapped>>

\* The position is the sum of what is open, at most one row.
LEMMA NetOfOne ==
    ASSUME BookFacts, NEW s \in Symbols
    PROVE  /\ OpenRows(s) = {} => Net(s) = 0
           /\ \A i \in Fills : OpenRows(s) = {i} => Net(s) = SignedSize(row[i])
<1>1. OpenRows(s) = {} => Net(s) = 0
  BY SumEmpty DEF Net
<1>2. ASSUME NEW i \in Fills, OpenRows(s) = {i} PROVE Net(s) = SignedSize(row[i])
  <2> DEFINE g == [f \in OpenRows(s) |-> SignedSize(row[f])]
  <2>1. row[i] \in Positions
    BY <1>2 DEF BookFacts, TrackerTypes, OpenRows
  <2>2. g[i] = SignedSize(row[i]) /\ g[i] \in Int
    BY <2>1, <1>2 DEF SignedSize, Positions
  <2>3. Net(s) = SumFunctionOnSet(g, {i})
    BY <1>2 DEF Net
  <2> HIDE DEF g
  <2> QED
    BY <2>2, <2>3, SumOne
<1> QED
  BY <1>1, <1>2

LEMMA NetOfOneAfter ==
    ASSUME BookFacts', NEW s \in Symbols
    PROVE  /\ OpenRows(s)' = {} => Net(s)' = 0
           /\ \A i \in Fills : OpenRows(s)' = {i} => Net(s)' = SignedSize(row'[i])
<1>1. OpenRows(s)' = {} => Net(s)' = 0
  BY SumEmpty DEF Net
<1>2. ASSUME NEW i \in Fills, OpenRows(s)' = {i} PROVE Net(s)' = SignedSize(row'[i])
  <2> DEFINE g == [f \in OpenRows(s)' |-> SignedSize(row'[f])]
  <2>1. row'[i] \in Positions
    BY <1>2 DEF BookFacts, TrackerTypes, OpenRows
  <2>2. g[i] = SignedSize(row'[i]) /\ g[i] \in Int
    BY <2>1, <1>2 DEF SignedSize, Positions
  <2>3. Net(s)' = SumFunctionOnSet(g, {i})
    BY <1>2 DEF Net
  <2> HIDE DEF g
  <2> QED
    BY <2>2, <2>3, SumOne
<1> QED
  BY <1>1, <1>2

\* When a fill of an untouched symbol writes, the cache is the table.
LEMMA WriteSees ==
    ASSUME BookFacts, BooksInv, NEW f \in Fills, call[f] = "write",
           NEW s \in Untouched, s = trade[f].symbol
    PROVE  f \in Traded(s) /\ plan[f] = PlanOf(f) /\ Mirrored(s)
<1>1. f \in Traded(s) /\ s \in Symbols
  BY DEF BookFacts, CallsHoldRows, CallOK, Traded, Untouched
<1>2. BookOf(s)
  BY DEF BooksInv
<1>3. \A g \in Traded(s) : call[g] # "resume"
  BY <1>1, <1>2 DEF BookOf, OneAtATime, InFlight
<1> QED
  BY <1>1, <1>2, <1>3 DEF BookOf, Writing, Settled

\* The position moves by the fill, or to nothing; what is over is in excess.
LEMMA WriteMoves ==
    ASSUME BookFacts, BookFacts', BooksInv, NEW f \in Fills, Writes(f),
           NEW s \in Untouched, s = trade[f].symbol
    PROVE  /\ OpenRows(s)' = IF plan[f].kind = "close" THEN {} ELSE {plan[f].id}
           /\ plan[f].kind # "close" => Written(f, plan[f]).size > 0
           /\ Net(s)' = Net(s) + Signed(f) - Excess(f)
           /\ Net(s)' = Ledger!Netted(Net(s), trade[f])
<1> DEFINE i == plan[f].id
           new == Written(f, plan[f])
           q == trade[f].qty
           p == cache[s]
<1>1. f \in Traded(s) /\ plan[f] = PlanOf(f) /\ Mirrored(s) /\ s \in Symbols
  BY WriteSees DEF Writes, Untouched
<1>2. /\ plan[f] \in Plans /\ i \in Fills /\ new \in Positions
      /\ trade[i].symbol = s /\ trade[i] # NoPosition
  BY WrittenFits DEF Writes
<1>3. trade[f] \in Trades /\ q \in Nat /\ q > 0 /\ trade[f].side \in Sides
  BY <1>1, SignedType DEF BookFacts, Trades
<1>4. row'[i] = new /\ \A g \in Fills : g # i => row'[g] = row[g]
  BY <1>2 DEF Writes, BookFacts, TrackerTypes
<1>5. new # NoPosition
  BY <1>2, Absent
<1>6. OpenRows(s)' = (OpenRows(s) \ {i}) \cup (IF new.open THEN {i} ELSE {})
  BY <1>2, <1>4, <1>5 DEF OpenRows, Writes
<1>7. CASE p = NoPosition
  <2>1. plan[f] = OpenPlan(f) /\ OpenRows(s) = {}
    BY <1>1, <1>7 DEF PlanOf, Mirrored
  <2>2. plan[f].kind = "open" /\ i = f /\ plan[f].size = q
    BY <2>1 DEF OpenPlan
  <2>3. new = PositionOf(f, trade[f].side, q, 1, TRUE)
    BY <2>2 DEF Written
  <2>4. new.size = q /\ new.side = trade[f].side /\ new.open
    BY <2>3 DEF PositionOf
  <2>5. OpenRows(s)' = {f}
    BY <2>1, <2>2, <2>4, <1>6
  <2>6. Net(s) = 0 /\ Net(s)' = SignedSize(row'[f])
    BY <2>1, <2>5, <1>1, NetOfOne, NetOfOneAfter
  <2>7. SignedSize(row'[f]) = Signed(f)
    BY <2>2, <2>4, <1>4 DEF SignedSize, Signed
  <2>8. Excess(f) = 0 /\ Signed(f) \in Int
    BY <2>2, <1>1, SignedType DEF Excess, BookFacts
  <2>9. Net(s)' = Signed(f)
    BY <2>6, <2>7
  <2>10. Ledger!Netted(Net(s), trade[f]) = Signed(f)
    BY <2>6, <1>3 DEF Ledger!Netted, Signed
  <2> QED
    BY <2>2, <2>4, <2>5, <2>6, <2>8, <2>9, <2>10, <1>3
<1>8. CASE p # NoPosition
  <2>1. OpenRows(s) = {p.id} /\ p = row[p.id]
    BY <1>1, <1>8 DEF Mirrored
  <2>2. p \in Positions /\ p.id \in Fills
    BY <1>1, <1>8 DEF BookFacts, TrackerTypes, Positions
  <2>3. p.open /\ p.size \in Nat /\ p.size > 0 /\ p.fees \in Nat /\ p.side \in Sides
    BY <2>1, <2>2 DEF OpenRows, BooksInv, BookOf, OpenAreHeld, Positions
  <2> HIDE DEF p
  <2>4. plan[f] = IF p.side = trade[f].side THEN AddPlan(p, q) ELSE ReducePlan(p, q)
    BY <1>1, <1>8 DEF PlanOf, p
  <2>5. i = p.id /\ plan[f].kind # "open"
    BY <2>4 DEF AddPlan, ReducePlan
  <2>6. /\ plan[f].kind = "close" <=> p.side # trade[f].side /\ p.size <= q
        /\ plan[f].size = IF p.side = trade[f].side THEN p.size + q
                          ELSE IF p.size <= q THEN 0 ELSE p.size - q
        /\ plan[f].kind = "close" => plan[f].closed = p.size
    BY <2>4 DEF AddPlan, ReducePlan
  <2>7. new = [p EXCEPT !.size = plan[f].size, !.fees = plan[f].fees,
                 !.open = @ /\ plan[f].kind # "close"]
    BY <2>1, <2>5 DEF Written
  <2>8. new.size = plan[f].size /\ new.side = p.side /\ (new.open <=> plan[f].kind # "close")
    BY <2>2, <2>3, <2>7 DEF Positions
  <2>9. OpenRows(s)' = IF plan[f].kind = "close" THEN {} ELSE {i}
    BY <2>1, <2>5, <2>8, <1>6
  <2>10. Net(s) = SignedSize(p)
    BY <2>1, <2>2, <1>1, NetOfOne
  <2>11. Net(s)' = IF plan[f].kind = "close" THEN 0 ELSE SignedSize(new)
    <3>1. SignedSize(row'[i]) = SignedSize(new)
      BY <1>4 DEF SignedSize
    <3> QED
      BY <2>9, <3>1, <1>1, <1>2, NetOfOneAfter
  <2> HIDE DEF new, i, q
  <2>12. plan[f].kind # "close" => new.size > 0
    BY <2>3, <2>6, <2>8, <1>3
  <2>13. Net(s)' = Net(s) + Signed(f) - Excess(f)
    BY <2>3, <2>6, <2>8, <2>10, <2>11, <1>3 DEF SignedSize, Signed, Excess, Sides, q
  <2>14. Net(s)' = Ledger!Netted(Net(s), trade[f])
    BY <2>3, <2>6, <2>8, <2>10, <2>11, <1>3 DEF SignedSize, Ledger!Netted, Sides, q
  <2> QED
    BY <2>9, <2>12, <2>13, <2>14 DEF new, i
<1> QED
  BY <1>7, <1>8

\* A booked fill pays one commission, on a row that is there or a new one.
LEMMA WritePays ==
    ASSUME BookFacts, BookFacts', BooksInv, NEW f \in Fills, Writes(f),
           NEW s \in Untouched, s = trade[f].symbol
    PROVE  Fees(s)' = Fees(s) + 1
<1> DEFINE i == plan[f].id
           new == Written(f, plan[f])
           p == cache[s]
           g == [x \in Rows(s) |-> row[x].fees]
           h == [x \in Rows(s)' |-> row'[x].fees]
<1>1. f \in Traded(s) /\ plan[f] = PlanOf(f) /\ Mirrored(s) /\ s \in Symbols
  BY WriteSees DEF Writes, Untouched
<1>2. /\ plan[f] \in Plans /\ i \in Fills /\ new \in Positions
      /\ trade[i].symbol = s /\ trade[i] # NoPosition
      /\ IF plan[f].kind = "open" THEN i = f /\ row[f] = NoPosition ELSE row[i] \in Positions
  BY WrittenFits DEF Writes
<1>3. row'[i] = new /\ (\A x \in Fills : x # i => row'[x] = row[x]) /\ new # NoPosition
  BY <1>2, Absent DEF Writes, BookFacts, TrackerTypes
<1>4. Rows(s)' = Rows(s) \cup {i}
  BY <1>2, <1>3 DEF Rows, Traded, Writes
<1>5. IsFiniteSet(Rows(s)) /\ \A x \in Rows(s) : row[x] \in Positions
  BY <1>1, OpenAreTraded DEF BookFacts, TrackerTypes, Rows, Traded
<1>6. \A x \in Rows(s)' : row'[x] \in Positions
  BY DEF BookFacts, TrackerTypes, Rows, Traded
<1>7. Integral(g, Rows(s)) /\ Integral(h, Rows(s)')
  BY <1>5, <1>6 DEF Integral, Positions
<1>8. Fees(s) = SumFunctionOnSet(g, Rows(s)) /\ Fees(s)' = SumFunctionOnSet(h, Rows(s)')
  BY DEF Fees
<1>9. h[i] = new.fees
  BY <1>3, <1>4
<1>10. \A x \in Rows(s) : x # i => g[x] = h[x]
  BY <1>3, <1>4 DEF Rows, Traded
<1>11. CASE p = NoPosition
  <2>1. plan[f].kind = "open" /\ i = f /\ new = PositionOf(f, trade[f].side, plan[f].size, 1, TRUE)
    BY <1>1, <1>11 DEF PlanOf, OpenPlan, Written
  <2>2. new.fees = 1 /\ i \notin Rows(s)
    BY <2>1, <1>2 DEF PositionOf, Rows
  <2> DEFINE R == Rows(s)
             V == Rows(s)'
  <2>3. V = R \cup {i} /\ IsFiniteSet(R) /\ i \notin R /\ Integral(h, V) /\ \A x \in R : g[x] = h[x]
    BY <2>2, <1>4, <1>5, <1>7, <1>10
  <2>4. Fees(s) = SumFunctionOnSet(g, R) /\ Fees(s)' = SumFunctionOnSet(h, V) /\ h[i] = 1
    BY <2>2, <1>8, <1>9
  <2> HIDE DEF R, V, g, h, i
  <2>5. SumFunctionOnSet(h, V) = SumFunctionOnSet(g, R) + h[i]
    BY <2>3, SumGrows
  <2> QED
    BY <2>4, <2>5
<1>12. CASE p # NoPosition
  <2>1. OpenRows(s) = {p.id} /\ p = row[p.id] /\ p \in Positions
    BY <1>1, <1>12 DEF Mirrored, BookFacts, TrackerTypes
  <2> HIDE DEF p
  <2>2. plan[f] \in {AddPlan(p, trade[f].qty), ReducePlan(p, trade[f].qty)}
    BY <1>1, <1>12 DEF PlanOf, p
  <2>3. i = p.id /\ plan[f].kind # "open" /\ plan[f].fees = p.fees + 1
    BY <2>2 DEF AddPlan, ReducePlan
  <2>4. new = [p EXCEPT !.size = plan[f].size, !.fees = plan[f].fees,
                 !.open = @ /\ plan[f].kind # "close"]
    BY <2>1, <2>3 DEF Written
  <2>5. new.fees = p.fees + 1 /\ p.fees \in Nat
    BY <2>1, <2>3, <2>4 DEF Positions
  <2>6. i \in Rows(s) /\ g[i] = p.fees
    BY <2>1, <2>3, <1>1, OpenAreTraded
  <2> DEFINE R == Rows(s)
  <2>7. Rows(s)' = R
    BY <2>6, <1>4
  <2>8. IsFiniteSet(R) /\ Integral(g, R) /\ Integral(h, R) /\ i \in R
        /\ \A x \in R \ {i} : g[x] = h[x]
    BY <2>6, <2>7, <1>5, <1>7, <1>10
  <2>9. Fees(s) = SumFunctionOnSet(g, R) /\ Fees(s)' = SumFunctionOnSet(h, R)
        /\ g[i] = p.fees /\ h[i] = p.fees + 1
    BY <2>5, <2>6, <2>7, <1>8, <1>9
  <2> HIDE DEF R, g, h, i
  <2>10. SumFunctionOnSet(h, R) = SumFunctionOnSet(g, R) - g[i] + h[i]
    BY <2>8, SumAt
  <2>11. SumFunctionOnSet(g, R) \in Int
    BY <2>8, SumType
  <2> QED
    BY <2>5, <2>9, <2>10, <2>11
<1> QED
  BY <1>11, <1>12

\* What is booked no longer waits.
LEMMA WriteBooks ==
    ASSUME BookFacts, NEW f \in Fills, Writes(f), NEW s \in Symbols, f \in Traded(s)
    PROVE  /\ Traded(s)' = Traded(s) /\ Booked' = Booked \cup {f} /\ f \notin Booked
           /\ Waiting(s) = Waiting(s)' + Signed(f)
           /\ Waiting(s)' \in Int
           /\ Cardinality(Traded(s)' \cap Booked') = Cardinality(Traded(s) \cap Booked) + 1
<1> DEFINE W == Traded(s) \ Booked
           B == Traded(s) \cap Booked
           g == [x \in Traded(s) |-> Signed(x)]
<1>1. Traded(s)' = Traded(s)
  BY DEF Traded, Writes
<1>2. call'[f] = "resume" /\ \A x \in Fills : x # f => call'[x] = call[x]
  BY DEF Writes, BookFacts, TrackerTypes
<1>3. Booked' = Booked \cup {f} /\ f \notin Booked
  BY <1>2 DEF Booked, Writes
<1>4. IsFiniteSet(Traded(s))
  BY OpenAreTraded
<1>5. IsFiniteSet(W) /\ IsFiniteSet(B)
  BY <1>4, FS_Subset
<1>6. f \in W /\ f \notin B /\ Traded(s)' \ Booked' = W \ {f} /\ Traded(s)' \cap Booked' = B \cup {f}
  BY <1>1, <1>3
<1>7. Integral(g, W)
  BY SignedType DEF Integral, BookFacts
<1>8. Waiting(s) = SumFunctionOnSet(g, W) /\ Waiting(s)' = SumFunctionOnSet(g, W \ {f})
  <2>1. [x \in Traded(s) |-> Signed(x)]' = g
    BY <1>1 DEF Signed, Writes
  <2> QED
    BY <1>6, <2>1 DEF Waiting
<1>9. g[f] = Signed(f)
  OBVIOUS
<1>10. Cardinality(B \cup {f}) = Cardinality(B) + 1
  <2> HIDE DEF B
  <2> QED
    BY <1>5, <1>6, FS_AddElement
<1> HIDE DEF W, g
<1>11. SumFunctionOnSet(g, W) = g[f] + SumFunctionOnSet(g, W \ {f})
  BY <1>5, <1>6, <1>7, SumTakesOut
<1>12. SumFunctionOnSet(g, W \ {f}) \in Int /\ g[f] \in Int
  <2>1. IsFiniteSet(W \ {f}) /\ Integral(g, W \ {f})
    BY <1>5, <1>7, FS_RemoveElement DEF Integral
  <2> QED
    BY <2>1, <1>6, <1>7, SumType DEF Integral
<1>13. Waiting(s) = Waiting(s)' + Signed(f) /\ Waiting(s)' \in Int
  BY <1>8, <1>9, <1>11, <1>12
<1> QED
  BY <1>1, <1>3, <1>6, <1>10, <1>13

LEMMA BooksWrites ==
    ASSUME BookFacts, BookFacts', BooksInv, NEW f \in Fills, Writes(f) PROVE BooksInv'
<1> DEFINE i == plan[f].id
           new == Written(f, plan[f])
<1>1. /\ call[f] = "write"
      /\ UNCHANGED <<trade, hold, cache, plan, sync, balance, todo, fixing, overlapped>>
  BY DEF Writes
<1>2. /\ plan[f] \in Plans /\ i \in Fills /\ new \in Positions /\ new.id = i
      /\ trade[i].symbol = trade[f].symbol /\ trade[i] # NoPosition /\ trade[f] # NoPosition
  BY <1>1, WrittenFits
<1>3. row'[i] = new /\ \A g \in Fills : g # i => row'[g] = row[g]
  BY <1>2 DEF Writes, BookFacts, TrackerTypes
<1>4. saved'[f] = new /\ call'[f] = "resume"
      /\ \A g \in Fills : g # f => saved'[g] = saved[g] /\ call'[g] = call[g]
  BY <1>2 DEF Writes, BookFacts, TrackerTypes
<1> SUFFICES ASSUME NEW t \in Untouched PROVE BookOf(t)' /\ SumsOf(t)'
  BY <1>1 DEF BooksInv, Untouched
<1>5. t \in Symbols /\ BookOf(t) /\ SumsOf(t)
  BY DEF Untouched, BooksInv
<1>6. CASE t # trade[f].symbol
  <2>1. Traded(t)' = Traded(t) /\ f \notin Traded(t) /\ i \notin Traded(t)
    BY <1>1, <1>2, <1>6 DEF Traded
  <2>2. excess'[t] = excess[t]
    BY <1>5, <1>6 DEF Writes, BookFacts, TrackerTypes
  <2>3. Alone(t)
    BY <2>1, <2>2, <1>1, <1>3, <1>4 DEF Alone, Traded
  <2> QED
    BY <2>3, <1>5, BookStays
<1>7. CASE t = trade[f].symbol
  <2>1. f \in Traded(t)
    BY <1>2, <1>7 DEF Traded
  <2>2. /\ Traded(t)' = Traded(t) /\ Booked' = Booked \cup {f} /\ f \notin Booked
        /\ Waiting(t) = Waiting(t)' + Signed(f) /\ Waiting(t)' \in Int
        /\ Cardinality(Traded(t)' \cap Booked') = Cardinality(Traded(t) \cap Booked) + 1
    BY <2>1, <1>5, WriteBooks
  <2>3. /\ OpenRows(t)' = IF plan[f].kind = "close" THEN {} ELSE {i}
        /\ plan[f].kind # "close" => new.size > 0
        /\ Net(t)' = Net(t) + Signed(f) - Excess(f)
    BY <1>7, WriteMoves
  <2>4. Fees(t)' = Fees(t) + 1
    BY <1>7, WritePays
  <2>5. \A g \in Traded(t) : g # f => ~InFlight(g)
    BY <2>1, <1>1, <1>5 DEF BookOf, OneAtATime, InFlight
  <2>6. OneAtATime(t)'
    BY <2>2, <2>5, <1>4 DEF OneAtATime, InFlight, Traded
  <2>7. Writing(t)'
    BY <2>2, <2>5, <1>4 DEF Writing, InFlight, Traded
  <2>8. Resuming(t)'
    <3> SUFFICES ASSUME NEW g \in Traded(t), call'[g] = "resume"
                 PROVE  /\ plan'[g].kind = "close" => OpenRows(t)' = {}
                        /\ plan'[g].kind # "close" =>
                             OpenRows(t)' = {saved'[g].id} /\ saved'[g] = row'[saved'[g].id]
      BY <2>2 DEF Resuming
    <3>1. g = f
      BY <2>5, <1>4 DEF InFlight, Traded
    <3> QED
      BY <3>1, <2>3, <1>1, <1>2, <1>3, <1>4
  <2>9. Settled(t)'
    BY <2>1, <2>2, <1>4 DEF Settled
  <2>10. OpenAreHeld(t)'
    BY <2>3, <1>3 DEF OpenAreHeld
  <2>11. FeesAddUp(t)'
    BY <2>2, <2>4, <1>5 DEF SumsOf, FeesAddUp
  <2>12. BalanceAddsUp(t)'
    <3> SUFFICES ASSUME \A g \in Traded(t) : call'[g] # "failed"
                 PROVE  hold'[t] = Inventory + Net(t)' + excess'[t] + Waiting(t)'
      BY <2>2 DEF BalanceAddsUp
    <3>1. \A g \in Traded(t) : call[g] # "failed"
      BY <1>1, <1>4 DEF Traded
    <3>2. hold[t] = Inventory + Net(t) + excess[t] + Waiting(t)
      BY <3>1, <1>5 DEF SumsOf, BalanceAddsUp
    <3>3. excess'[t] = excess[t] + Excess(f) /\ hold'[t] = hold[t]
      BY <1>1, <1>5, <1>7 DEF Writes, BookFacts, TrackerTypes
    <3>4. excess[t] \in Int /\ Net(t) \in Int /\ Inventory \in Int /\ hold[t] \in Int
      BY <1>5, NetType, QuantitiesAssumption DEF BookFacts, TrackerTypes
    <3>5. Signed(f) \in Int
      BY <2>1, SignedType DEF BookFacts
    <3>6. Excess(f) \in Int
      <4>1. plan[f].closed \in Nat /\ trade[f].qty \in Nat
        BY <2>1, <1>2, SignedType DEF Plans, BookFacts
      <4> QED
        BY <4>1 DEF Excess
    <3> QED
      BY <2>2, <2>3, <3>2, <3>3, <3>4, <3>5, <3>6
  <2> QED
    BY <2>6, <2>7, <2>8, <2>9, <2>10, <2>11, <2>12 DEF BookOf, SumsOf
<1> QED
  BY <1>6, <1>7

\* A write that raises leaves its fill out of the books.
LEMMA BooksFails ==
    ASSUME BookFacts, BookFacts', BooksInv, NEW f \in Fills, call[f] = "write",
           call' = [call EXCEPT ![f] = "failed"],
           UNCHANGED <<trade, hold, row, cache, plan, saved, overlapped, excess>>
    PROVE  BooksInv'
<1>1. call'[f] = "failed" /\ \A g \in Fills : g # f => call'[g] = call[g]
  BY DEF BookFacts, TrackerTypes
<1> SUFFICES ASSUME NEW t \in Untouched PROVE BookOf(t)' /\ SumsOf(t)'
  BY DEF BooksInv, Untouched
<1>2. t \in Symbols /\ BookOf(t) /\ SumsOf(t)
  BY DEF Untouched, BooksInv
<1>3. Traded(t)' = Traded(t) /\ Booked' = Booked
  BY <1>1 DEF Traded, Booked
<1>4. OpenRows(t)' = OpenRows(t) /\ Net(t)' = Net(t) /\ Fees(t)' = Fees(t) /\ Waiting(t)' = Waiting(t)
  BY <1>2, <1>3, SumsStay
<1>5. OneAtATime(t)' /\ Writing(t)'
  <2>1. \A g \in Traded(t) : PlanOf(g)' = PlanOf(g)
    BY DEF PlanOf, OpenPlan, AddPlan, ReducePlan
  <2> QED
    BY <2>1, <1>1, <1>2, <1>3 DEF BookOf, OneAtATime, Writing, InFlight, Traded
<1>6. Resuming(t)'
  BY <1>1, <1>2, <1>3, <1>4 DEF BookOf, Resuming, Traded
<1>7. Settled(t)'
  BY <1>1, <1>2, <1>3, <1>4 DEF BookOf, Settled, Mirrored, Traded
<1>8. OpenAreHeld(t)'
  BY <1>2, <1>4 DEF BookOf, OpenAreHeld
<1>9. SumsOf(t)'
  BY <1>1, <1>2, <1>3, <1>4 DEF SumsOf, FeesAddUp, BalanceAddsUp, Traded
<1> QED
  BY <1>5, <1>6, <1>7, <1>8, <1>9 DEF BookOf

LEMMA BooksWrite ==
    ASSUME BookFacts, BookFacts', BooksInv, NEW f \in Fills, Write(f) PROVE BooksInv'
<1>1. CASE /\ row' = row /\ saved' = saved /\ excess' = excess
           /\ call' = [call EXCEPT ![f] = "failed"]
  BY <1>1, BooksFails DEF Write, exchVars
<1>2. CASE Writes(f)
  BY <1>2, BooksWrites
<1> QED
  BY <1>1, <1>2 DEF Write, Writes, exchVars, syncVars

LEMMA BooksResume ==
    ASSUME BookFacts, BookFacts', BooksInv, NEW f \in Fills, Resume(f) PROVE BooksInv'
<1>1. /\ call[f] = "resume"
      /\ cache' = [cache EXCEPT ![trade[f].symbol] = CachedAfter(f)]
      /\ call' = [call EXCEPT ![f] = "done"]
      /\ plan' = [plan EXCEPT ![f] = NoPosition]
      /\ saved' = [saved EXCEPT ![f] = NoPosition]
      /\ UNCHANGED <<trade, hold, row, overlapped, excess>>
  BY DEF Resume, exchVars, histVars
<1>2. /\ call'[f] = "done"
      /\ \A g \in Fills : g # f => call'[g] = call[g] /\ plan'[g] = plan[g] /\ saved'[g] = saved[g]
  BY <1>1 DEF BookFacts, TrackerTypes
<1>3. trade[f] # NoPosition /\ saved[f] # NoPosition
  BY <1>1 DEF BookFacts, CallsHoldRows, CallOK
<1> SUFFICES ASSUME NEW t \in Untouched PROVE BookOf(t)' /\ SumsOf(t)'
  BY <1>1 DEF BooksInv, Untouched
<1>4. t \in Symbols /\ BookOf(t) /\ SumsOf(t)
  BY DEF Untouched, BooksInv
<1>5. Traded(t)' = Traded(t) /\ Booked' = Booked
  BY <1>1, <1>2 DEF Traded, Booked
<1>6. CASE t # trade[f].symbol
  <2>1. f \notin Traded(t)
    BY <1>6 DEF Traded
  <2>2. cache'[t] = cache[t]
    BY <1>1, <1>4, <1>6 DEF BookFacts, TrackerTypes
  <2>3. Alone(t)
    BY <2>1, <2>2, <1>1, <1>2, <1>5 DEF Alone, Traded
  <2> QED
    BY <2>3, <1>4, BookStays
<1>7. CASE t = trade[f].symbol
  <2>1. f \in Traded(t) /\ cache'[t] = CachedAfter(f)
    BY <1>1, <1>3, <1>4, <1>7 DEF Traded, BookFacts, TrackerTypes
  <2>2. \A g \in Traded(t) : g # f => ~InFlight(g)
    BY <2>1, <1>1, <1>4 DEF BookOf, OneAtATime, InFlight
  <2>3. OpenRows(t)' = OpenRows(t) /\ Net(t)' = Net(t) /\ Fees(t)' = Fees(t)
        /\ Waiting(t)' = Waiting(t)
    BY <1>1, <1>4, <1>5, SumsStay
  <2>4. \A g \in Traded(t)' : ~InFlight(g)'
    BY <2>2, <1>2, <1>5 DEF InFlight, Traded
  <2>5. Mirrored(t)'
    <3>1. CASE plan[f].kind = "close"
      BY <3>1, <2>1, <2>3, <1>1, <1>4 DEF BookOf, Resuming, CachedAfter, Mirrored
    <3>2. CASE plan[f].kind # "close"
      BY <3>2, <2>1, <2>3, <1>1, <1>3, <1>4 DEF BookOf, Resuming, CachedAfter, Mirrored
    <3> QED
      BY <3>1, <3>2
  <2>6. BookOf(t)'
    BY <2>3, <2>4, <2>5, <1>1, <1>4
       DEF BookOf, OneAtATime, Writing, Resuming, Settled, OpenAreHeld, InFlight
  <2>7. SumsOf(t)'
    BY <2>1, <2>3, <1>1, <1>2, <1>4, <1>5 DEF SumsOf, FeesAddUp, BalanceAddsUp, Traded
  <2> QED
    BY <2>6, <2>7
<1> QED
  BY <1>6, <1>7

\* A synchronisation corrects the positions of the symbols in overlapped only.
LEMMA BooksSync ==
    ASSUME BookFacts, BookFacts', BooksInv, SyncPositions PROVE BooksInv'
<1> SUFFICES ASSUME NEW t \in Untouched' PROVE BookOf(t)' /\ SumsOf(t)'
  BY DEF BooksInv
<1>1. overlapped \subseteq overlapped'
  BY DEF SyncPositions, SyncFetch, SyncCompare, SyncDone, SyncWrite, SyncResume, histVars
<1>2. t \in Symbols /\ BookOf(t) /\ SumsOf(t) /\ t \notin overlapped'
  BY <1>1 DEF Untouched, BooksInv
<1>3. todo[t] = NoPosition /\ todo'[t] = NoPosition /\ t \notin fixing
  BY <1>1, <1>2 DEF BookFacts, CorrectedAreTouched
<1>4. CASE UNCHANGED <<trade, hold, row, cache, call, plan, saved, excess>>
  <2>1. Alone(t)
    BY <1>4 DEF Alone, Traded
  <2> QED
    BY <2>1, <1>2, BookStays
<1>5. ASSUME NEW s \in Symbols, SyncWrite(s) PROVE Alone(t)
  <2>1. todo[s] # NoPosition /\ UNCHANGED <<trade, hold, cache, call, plan, saved, excess>>
    BY <1>5 DEF SyncWrite, exchVars, callVars, histVars
  <2>2. RowOf(todo[s].id, s)
    BY <2>1 DEF BookFacts, SymbolsHoldRows, IsRowOf
  <2>3. s # t /\ todo[s].id \notin Traded(t)
    BY <2>1, <2>2, <1>3 DEF RowOf, Traded
  <2>4. \A g \in Traded(t) : row'[g] = row[g]
    BY <1>5, <2>3 DEF SyncWrite, BookFacts, TrackerTypes, Traded
  <2> QED
    BY <2>1, <2>4 DEF Alone, Traded
<1>6. ASSUME NEW s \in Symbols, SyncResume(s) PROVE Alone(t)
  <2>1. s # t /\ UNCHANGED <<trade, hold, row, call, plan, saved, excess>>
    BY <1>6, <1>3 DEF SyncResume, exchVars, callVars, histVars
  <2>2. cache'[t] = cache[t]
    BY <1>2, <1>6, <2>1 DEF SyncResume, BookFacts, TrackerTypes
  <2> QED
    BY <2>1, <2>2 DEF Alone, Traded
<1>7. CASE SyncFetch \/ SyncCompare \/ SyncDone
  BY <1>4, <1>7 DEF SyncFetch, SyncCompare, SyncDone, exchVars, bookVars, callVars, histVars
<1> QED
  BY <1>2, <1>5, <1>6, <1>7, BookStays DEF SyncPositions

LEMMA BooksRestart ==
    ASSUME BookFacts, BookFacts', BooksInv, Restart PROVE BooksInv'
<1>1. /\ call' = [f \in Fills |->
            CASE call[f] = "write" -> "failed" [] call[f] = "resume" -> "done"
              [] OTHER -> call[f]]
      /\ UNCHANGED <<trade, hold, row, overlapped, excess>>
  BY DEF Restart, exchVars, histVars
<1>2. \A f \in Fills : call'[f] = (CASE call[f] = "write" -> "failed"
            [] call[f] = "resume" -> "done" [] OTHER -> call[f])
  BY <1>1
<1>3. /\ \A f \in Fills : ~InFlight(f)'
      /\ \A f \in Fills : call[f] = "failed" => call'[f] = "failed"
      /\ Booked' = Booked
  BY <1>2 DEF InFlight, Booked
<1> SUFFICES ASSUME NEW t \in Untouched PROVE BookOf(t)' /\ SumsOf(t)'
  BY <1>1 DEF BooksInv, Untouched
<1>4. t \in Symbols /\ BookOf(t) /\ SumsOf(t)
  BY DEF Untouched, BooksInv
<1>5. Traded(t)' = Traded(t) /\ Traded(t) \subseteq Fills
  BY <1>1 DEF Traded
<1>6. OpenRows(t)' = OpenRows(t) /\ Net(t)' = Net(t) /\ Fees(t)' = Fees(t)
      /\ Waiting(t)' = Waiting(t)
  BY <1>1, <1>3, <1>4, <1>5, SumsStay
<1>7. \/ OpenRows(t) = {}
      \/ \E i \in Fills : OpenRows(t) = {i} /\ row[i].id = i /\ row[i] # NoPosition
  <2>1. CASE \A f \in Traded(t) : call[f] # "resume"
    <3>1. Mirrored(t)
      BY <2>1, <1>4 DEF BookOf, Settled
    <3> QED
      BY <3>1 DEF Mirrored, OpenRows
  <2>2. CASE \E f \in Traded(t) : call[f] = "resume"
    <3>1. PICK f \in Traded(t) : call[f] = "resume"
      BY <2>2
    <3>2. OpenRows(t) = {} \/ (OpenRows(t) = {saved[f].id} /\ saved[f] = row[saved[f].id])
      BY <3>1, <1>4 DEF BookOf, Resuming
    <3> QED
      BY <3>2 DEF OpenRows
  <2> QED
    BY <2>1, <2>2
<1>8. Mirrored(t)'
  <2>1. IF OpenRows(t) = {} THEN cache'[t] = NoPosition
        ELSE \E f \in OpenRows(t) : cache'[t] = row[f]
    BY <1>4, RestartLoads
  <2> QED
    BY <2>1, <1>1, <1>6, <1>7 DEF Mirrored
<1>9. BookOf(t)'
  BY <1>1, <1>3, <1>4, <1>5, <1>6, <1>8
     DEF BookOf, OneAtATime, Writing, Resuming, Settled, OpenAreHeld, InFlight
<1>10. SumsOf(t)'
  BY <1>1, <1>3, <1>4, <1>5, <1>6 DEF SumsOf, FeesAddUp, BalanceAddsUp
<1> QED
  BY <1>9, <1>10

LEMMA TrackerStep == TrackerInv /\ [Next]_vars => TrackerInv'
<1> SUFFICES ASSUME TrackerInv, [Next]_vars PROVE TrackerInv'
  OBVIOUS
<1>1. BookFacts /\ BooksInv /\ BookFacts'
  BY FactsStep DEF TrackerInv
<1>2. CASE UNCHANGED vars
  <2>1. \A s \in Symbols : Alone(s)
    BY <1>2 DEF Alone, Traded, vars, exchVars, bookVars, callVars, histVars
  <2>2. Untouched' = Untouched
    BY <1>2 DEF Untouched, vars, histVars
  <2>3. BooksInv'
    BY <1>1, <2>1, <2>2, BookStays DEF BooksInv, Untouched
  <2> QED
    BY <1>1, <2>3 DEF TrackerInv
<1>3. CASE \E f \in Fills : Execute(f) \/ ProcessFill(f)
  BY <1>1, <1>3, BooksExecute, BooksBegin, BooksWrite, BooksResume DEF ProcessFill, TrackerInv
<1>4. CASE SyncPositions
  BY <1>1, <1>4, BooksSync DEF TrackerInv
<1>5. CASE Restart
  BY <1>1, <1>5, BooksRestart DEF TrackerInv
<1> QED
  BY <1>2, <1>3, <1>4, <1>5 DEF Next

LEMMA TrackerInvariant == Spec => []TrackerInv
<1>1. Init => TrackerInv
  BY FactsInitial, BooksInitial DEF TrackerInv
<1> QED
  BY <1>1, TrackerStep, PTL DEF Spec

\* Rows and cache of the tracker (position_tracker.py) are one book, and for a
\* symbol whose fills are booked one at a time that book explains the account:
\* every commission is on a row and every unit is in the position, waiting to
\* be booked, or what a closing fill had over.
THEOREM BooksDoAgree == Spec => []BooksAgree
<1>1. TrackerInv => BooksAgree
  <2> SUFFICES ASSUME TrackerInv PROVE BooksAgree
    OBVIOUS
  <2>1. UpdatesFindTheirRow
    <3>1. \A f \in Fills : call[f] = "write" /\ plan[f].kind # "open" =>
             RowOf(plan[f].id, trade[f].symbol)
      BY DEF TrackerInv, BookFacts, CallsHoldRows, CallOK
    <3>2. /\ \A s \in Symbols : todo[s] # NoPosition => RowOf(todo[s].id, s)
          /\ \A s \in Cached : RowOf(cache[s].id, s)
      BY DEF TrackerInv, BookFacts, SymbolsHoldRows, IsRowOf, Cached
    <3> QED
      BY <3>1, <3>2 DEF UpdatesFindTheirRow
  <2>2. CacheMirrorsRows
    BY DEF TrackerInv, BooksInv, BookOf, Settled, Mirrored, CacheMirrorsRows, Cached, Untouched
  <2>3. BooksAddUp
    <3> SUFFICES ASSUME NEW s \in Untouched
                 PROVE  /\ Fees(s) = Cardinality(Traded(s) \cap Booked)
                        /\ (\A f \in Traded(s) : call[f] # "failed") =>
                             hold[s] = Inventory + Net(s) + excess[s] + Waiting(s)
      BY DEF BooksAddUp, Fees, Rows, Waiting
    <3> QED
      BY DEF TrackerInv, BooksInv, SumsOf, FeesAddUp, BalanceAddsUp
  <2> QED
    BY <2>1, <2>2, <2>3 DEF BooksAgree, BookIsOne
<1> QED
  BY <1>1, TrackerInvariant, PTL

\* Where the fills of a symbol are booked one at a time, every step moves its
\* position by the ledger's update for one fill, booked in that step, or not at
\* all: process_fill is the atomic update it is documented to be.
THEOREM FillsAreAtomic == Spec => BookedAtomically
<1> DEFINE Fresh(s) == {f \in Traded(s) : f \in Booked' \ Booked}
           Atomic == \A s \in Symbols \ overlapped' :
                        \/ Fresh(s) = {} /\ Net(s)' = Net(s)
                        \/ \E f \in Fresh(s) :
                             Fresh(s) = {f} /\ Net(s)' = Ledger!Netted(Net(s), trade[f])
<1>1. TrackerInv /\ TrackerInv' /\ [Next]_vars => Atomic
  <2> SUFFICES ASSUME TrackerInv, TrackerInv', [Next]_vars, NEW s \in Symbols \ overlapped'
               PROVE  \/ Fresh(s) = {} /\ Net(s)' = Net(s)
                      \/ \E f \in Fresh(s) :
                           Fresh(s) = {f} /\ Net(s)' = Ledger!Netted(Net(s), trade[f])
    OBVIOUS
  <2>1. BookFacts /\ BookFacts' /\ BooksInv
    BY DEF TrackerInv
  <2>2. overlapped \subseteq overlapped'
    BY DEF Next, vars, histVars, ProcessFill, Execute, Begin, Write, Resume, SyncPositions,
           SyncFetch, SyncCompare, SyncDone, SyncWrite, SyncResume, Restart
  <2>3. s \in Untouched /\ s \in Symbols
    BY <2>2 DEF Untouched
  <2>4. ASSUME row' = row, OpenRows(s)' = OpenRows(s), Booked' \subseteq Booked
        PROVE  Fresh(s) = {} /\ Net(s)' = Net(s)
    BY <2>4 DEF Net, SignedSize
  <2>5. ASSUME trade' = trade, row' = row, Booked' \subseteq Booked
        PROVE  Fresh(s) = {} /\ Net(s)' = Net(s)
    BY <2>4, <2>5 DEF OpenRows
  <2>6. CASE UNCHANGED vars
    BY <2>5, <2>6 DEF vars, exchVars, bookVars, callVars, Booked
  <2>7. ASSUME NEW f \in Fills, Execute(f) PROVE Fresh(s) = {} /\ Net(s)' = Net(s)
    <3>1. row' = row /\ call' = call /\ row[f] = NoPosition /\ \A g \in Fills : g # f => trade'[g] = trade[g]
      BY <2>1, <2>7
         DEF Execute, bookVars, callVars, BookFacts, RowsAreNamed, Booked, CallsHoldRows,
             CallOK, TrackerTypes
    <3>2. OpenRows(s)' = OpenRows(s)
      BY <3>1 DEF OpenRows
    <3> QED
      BY <2>4, <3>1, <3>2 DEF Booked
  <2>8. ASSUME NEW f \in Fills, Begin(f) PROVE Fresh(s) = {} /\ Net(s)' = Net(s)
    <3>1. \A g \in Fills : call'[g] = call[g] \/ call'[g] = "write"
      BY <2>1, <2>8 DEF Begin, BookFacts, TrackerTypes
    <3> QED
      BY <2>5, <2>8, <3>1 DEF Begin, exchVars, bookVars, Booked
  <2>9. ASSUME NEW f \in Fills, Resume(f) PROVE Fresh(s) = {} /\ Net(s)' = Net(s)
    <3>1. \A g \in Fills : call'[g] = call[g] \/ call[g] = "resume"
      BY <2>1, <2>9 DEF Resume, BookFacts, TrackerTypes
    <3> QED
      BY <2>5, <2>9, <3>1 DEF Resume, exchVars, Booked
  <2>10. ASSUME NEW f \in Fills, Write(f)
         PROVE  \/ Fresh(s) = {} /\ Net(s)' = Net(s)
                \/ Fresh(s) = {f} /\ Net(s)' = Ledger!Netted(Net(s), trade[f])
    <3>1. CASE /\ row' = row /\ trade' = trade
               /\ call' = [call EXCEPT ![f] = "failed"]
      <4>1. \A g \in Fills : call'[g] = call[g] \/ call'[g] = "failed"
        BY <2>1, <3>1 DEF BookFacts, TrackerTypes
      <4> QED
        BY <2>5, <3>1, <4>1 DEF Booked
    <3>2. CASE Writes(f) /\ s # trade[f].symbol
      <4>1. trade[plan[f].id].symbol # s /\ plan[f].id \in Fills
        BY <2>1, <3>2, WrittenFits DEF Writes
      <4>2. Traded(s)' = Traded(s) /\ \A g \in Traded(s) : trade'[g] = trade[g] /\ row'[g] = row[g]
        BY <2>1, <3>2, <4>1 DEF Writes, Traded, BookFacts, TrackerTypes
      <4>3. Net(s)' = Net(s)
        BY <2>1, <2>3, <4>2, SumsStay
      <4>4. Fresh(s) = {}
        BY <2>1, <3>2 DEF Writes, Booked, Traded, BookFacts, TrackerTypes
      <4> QED
        BY <4>3, <4>4
    <3>3. CASE Writes(f) /\ s = trade[f].symbol
      <4>1. Net(s)' = Ledger!Netted(Net(s), trade[f])
        BY <2>1, <2>3, <3>3, WriteMoves
      <4>2. f \in Traded(s)
        BY <2>1, <2>3, <3>3, WriteSees DEF Writes
      <4>3. Booked' = Booked \cup {f} /\ f \notin Booked
        BY <2>1, <2>3, <3>3, <4>2, WriteBooks
      <4> QED
        BY <4>1, <4>2, <4>3
    <3> QED
      BY <2>10, <3>1, <3>2, <3>3 DEF Write, Writes, exchVars, syncVars
  <2>11. CASE SyncPositions
    <3>1. CASE SyncFetch \/ SyncCompare \/ SyncDone \/ \E t \in Symbols : SyncResume(t)
      BY <2>5, <3>1 DEF SyncFetch, SyncCompare, SyncDone, SyncResume, exchVars, bookVars,
           callVars, Booked
    <3>2. ASSUME NEW t \in Symbols, SyncWrite(t) PROVE Fresh(s) = {} /\ Net(s)' = Net(s)
      <4>1. todo[t] # NoPosition /\ UNCHANGED <<trade, call>>
        BY <3>2 DEF SyncWrite, exchVars, callVars
      <4>2. RowOf(todo[t].id, t) /\ t # s
        BY <2>1, <2>3, <4>1 DEF BookFacts, SymbolsHoldRows, IsRowOf, CorrectedAreTouched, Untouched
      <4>3. Traded(s)' = Traded(s) /\ \A g \in Traded(s) : trade'[g] = trade[g] /\ row'[g] = row[g]
        BY <2>1, <3>2, <4>1, <4>2 DEF SyncWrite, RowOf, Traded, BookFacts, TrackerTypes
      <4>4. Net(s)' = Net(s)
        BY <2>1, <2>3, <4>3, SumsStay
      <4> QED
        BY <4>1, <4>4 DEF Booked
    <3> QED
      BY <2>11, <3>1, <3>2 DEF SyncPositions
  <2>12. CASE Restart
    <3>1. Booked' \subseteq Booked
      BY <2>12 DEF Restart, Booked
    <3> QED
      BY <2>5, <2>12, <3>1 DEF Restart, exchVars
  <2> HIDE DEF Fresh
  <2> QED
    BY <2>6, <2>7, <2>8, <2>9, <2>10, <2>11, <2>12 DEF Next, ProcessFill
<1> QED
  BY <1>1, TrackerInvariant, PTL DEF Spec, BookedAtomically
=============================================================================
