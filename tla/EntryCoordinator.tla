--------------------------- MODULE EntryCoordinator --------------------------
(***************************************************************************)
(* The EntryCoordinator of src/src/core/orchestrator.py: entries wait in a *)
(* heap ordered by Sharpe ratio and are released one at a time, with an    *)
(* interval between any two, a number for each minute and a cooldown for   *)
(* each symbol.  Time passes in ticks of the interval (30 seconds).        *)
(***************************************************************************)
EXTENDS Naturals, FiniteSets

CONSTANTS Entries,       \* the entries that may be queued
          Symbols,
          SymbolOf,      \* SymbolOf[e]: what e trades
          Sharpe,        \* Sharpe[e]: its priority, higher first
          MinuteTicks,   \* a minute, in ticks
          CooldownTicks, \* SYMBOL_COOLDOWN_SECONDS, in ticks
          MaxPerMinute   \* MAX_ENTRIES_PER_MINUTE

ASSUME EntriesAssumption ==
    SymbolOf \in [Entries -> Symbols] /\ Sharpe \in [Entries -> Nat]
ASSUME TicksAssumption ==
    MinuteTicks \in Nat \ {0} /\ CooldownTicks \in Nat /\ MaxPerMinute \in Nat \ {0}

VARIABLES
    pending,    \* _pending, as a set: the heap's order is Sharpe
    queued,     \* history: the entries that have been added
    released,   \* history: the entries get_next_entry has returned
    recent,     \* _recent_entries, _last_entry_time first: their ages in ticks
    cooling     \* cooling[s]: ticks until the cooldown of s is over

entryVars == <<pending, queued, released, recent, cooling>>

EntryInit ==
    /\ pending = {} /\ queued = {} /\ released = {}
    /\ recent = {}
    /\ cooling = [s \in Symbols |-> 0]

AddEntry(e) ==
    /\ e \notin queued
    /\ pending' = pending \cup {e}
    /\ queued' = queued \cup {e}
    /\ UNCHANGED <<released, recent, cooling>>

Cleaned == {age \in recent : age < MinuteTicks}

CanEnter == 0 \notin recent /\ Cardinality(Cleaned) < MaxPerMinute

(* What the heap may have on top: ties are broken by its inner order.      *)
Heads == {e \in pending : \A o \in pending : Sharpe[e] >= Sharpe[o]}

(* A bug of PutBack: the entry whose symbol cools down is not put back.    *)
PutBackForgotten(e) == pending \ {e}

(* The head is popped, and pushed again when its symbol cools down.        *)
PutBack(e) == pending

GetNextEntry ==
    IF pending = {} THEN UNCHANGED entryVars
    ELSE IF ~CanEnter
    THEN recent' = Cleaned /\ UNCHANGED <<pending, queued, released, cooling>>
    ELSE \E e \in Heads :
        IF cooling[SymbolOf[e]] > 0
        THEN /\ pending' = PutBack(e)
             /\ recent' = Cleaned
             /\ UNCHANGED <<queued, released, cooling>>
        ELSE /\ pending' = pending \ {e}
             /\ released' = released \cup {e}
             /\ recent' = Cleaned \cup {0}
             /\ cooling' = [cooling EXCEPT ![SymbolOf[e]] = CooldownTicks]
             /\ UNCHANGED queued

Cooled(s) == IF cooling[s] = 0 THEN 0 ELSE cooling[s] - 1

EntryTick ==
    /\ recent' = {age + 1 : age \in Cleaned}
    /\ cooling' = [s \in Symbols |-> Cooled(s)]
    /\ UNCHANGED <<pending, queued, released>>
=============================================================================
