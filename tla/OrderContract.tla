--------------------------- MODULE OrderContract ---------------------------
(***************************************************************************)
(* What the order manager promises, without any of its machinery: an order *)
(* is recorded before the exchange sees it, a trade is written only for an *)
(* order the exchange has filled, and a fill reaches the positions only    *)
(* after a trade row of the same handler stands for it.  Whoever discovers *)
(* a fill (the submission itself, the monitoring task, a reconciliation    *)
(* run) is a handler; the contract does not say that only one of them will *)
(* act, because the code does not ensure it.                               *)
(***************************************************************************)
EXTENDS Naturals

CONSTANTS Orders,      \* order identifiers
          Handlers     \* the coroutines that may handle a fill

VARIABLES recorded,    \* orders that have a row in the orders table
          placed,      \* orders the exchange has accepted a request for
          complete,    \* orders the exchange has filled
          trades,      \* trades[h][o]: trade rows h has written for o
          booked       \* booked[h][o]: fills of o that h has booked as position

vars == <<recorded, placed, complete, trades, booked>>

Init ==
    /\ recorded = {}
    /\ placed = {}
    /\ complete = {}
    /\ trades = [h \in Handlers |-> [o \in Orders |-> 0]]
    /\ booked = [h \in Handlers |-> [o \in Orders |-> 0]]

Record(o) ==
    /\ o \notin recorded
    /\ recorded' = recorded \cup {o}
    /\ UNCHANGED <<placed, complete, trades, booked>>

\* A market order may be filled by the very request that places it.
Place(o) ==
    /\ o \in recorded \ placed
    /\ placed' = placed \cup {o}
    /\ complete' \in {complete, complete \cup {o}}
    /\ UNCHANGED <<recorded, trades, booked>>

Complete(o) ==
    /\ o \in placed \ complete
    /\ complete' = complete \cup {o}
    /\ UNCHANGED <<recorded, placed, trades, booked>>

WriteTrade(h, o) ==
    /\ o \in complete
    /\ trades' = [trades EXCEPT ![h][o] = @ + 1]
    /\ UNCHANGED <<recorded, placed, complete, booked>>

BookFill(h, o) ==
    /\ booked[h][o] < trades[h][o]
    /\ booked' = [booked EXCEPT ![h][o] = @ + 1]
    /\ UNCHANGED <<recorded, placed, complete, trades>>

Next ==
    \E o \in Orders :
        \/ Record(o) \/ Place(o) \/ Complete(o)
        \/ \E h \in Handlers : WriteTrade(h, o) \/ BookFill(h, o)

Spec == Init /\ [][Next]_vars
=============================================================================
