--------------------------- MODULE PositionLedger --------------------------
(***************************************************************************)
(* What process_fill is documented to be: one atomic update of the symbol's*)
(* position for each fill.  A position is a signed size, positive for LONG *)
(* and negative for SHORT.                                                 *)
(***************************************************************************)
EXTENDS Integers

CONSTANTS Symbols, Fills, MaxQty, NoPosition

VARIABLES trade,          \* trade[f]: symbol, side and quantity of an executed fill
          net,            \* net[s]: the open position of s
          booked          \* the fills that have been booked

vars == <<trade, net, booked>>

Init ==
    /\ trade = [f \in Fills |-> NoPosition]
    /\ net = [s \in Symbols |-> 0]
    /\ booked = {}

Execute(f) ==
    /\ trade[f] = NoPosition
    /\ \E s \in Symbols, side \in {"LONG", "SHORT"}, q \in 1..MaxQty :
          trade' = [trade EXCEPT ![f] = [symbol |-> s, side |-> side, qty |-> q]]
    /\ UNCHANGED <<net, booked>>

\* A fill that opposes the position closes at most what is open.
Netted(size, t) ==
    LET sum == IF t.side = "LONG" THEN size + t.qty ELSE size - t.qty
    IN  IF (size > 0 /\ sum < 0) \/ (size < 0 /\ sum > 0) THEN 0 ELSE sum

Book(f) ==
    /\ trade[f] # NoPosition
    /\ f \notin booked
    /\ booked' = booked \cup {f}
    /\ net' = [net EXCEPT ![trade[f].symbol] = Netted(@, trade[f])]
    /\ UNCHANGED trade

Next == \E f \in Fills : Execute(f) \/ Book(f)

Spec == Init /\ [][Next]_vars
=============================================================================
