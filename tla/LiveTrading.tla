----------------------------- MODULE LiveTrading ----------------------------
(***************************************************************************)
(* The live trading runner (src/scripts/run_live_trading.py): the loop     *)
(* that places real orders.  Each poll refreshes the regime, activates     *)
(* tiers and processes the active ones in turn: stop and target, signal,   *)
(* order, and only then the saved state.                                   *)
(*                                                                         *)
(* A position is one unit of its symbol.  The process may be stopped       *)
(* between two polls, which is where it looks at stop_event, or die        *)
(* between any two steps; kill switch, prices and regime move on their own.*)
(***************************************************************************)
EXTENDS Integers, Sequences, FiniteSets, Functions

CONSTANTS TierSeq,      \* EXPANSION_TIERS, in activation order
          SymbolOf,     \* SymbolOf[t]
          Suits,        \* Suits[t]: the regimes in the tier's regime_tags
          Regimes,      \* the known regimes
          MaxActive,    \* concurrency cap and capital reserve, in tiers
          MaxSame,      \* MAX_CONCURRENT_SAME_DIRECTION
          LossLimit,    \* the daily loss limit, in losing trades
          NoState,      \* a session row or a backup file that is not there
          MaxFaults,    \* bound: failing calls
          MaxCrashes    \* bound: deaths of the process

Tiers == {TierSeq[i] : i \in DOMAIN TierSeq}
Symbols == {SymbolOf[t] : t \in Tiers}

ASSUME TiersAssumption ==
    /\ TierSeq \in Seq(Tiers) /\ TierSeq # <<>>
    /\ \A i, j \in DOMAIN TierSeq : TierSeq[i] = TierSeq[j] => i = j
    /\ SymbolOf \in [Tiers -> Symbols]
    /\ Suits \in [Tiers -> SUBSET Regimes]
ASSUME LimitsAssumption ==
    /\ MaxActive \in Nat \ {0} /\ MaxSame \in Nat \ {0} /\ LossLimit \in Nat \ {0}
    /\ MaxFaults \in Nat /\ MaxCrashes \in Nat
ASSUME NamesAssumption ==
    "UNKNOWN" \notin Regimes /\ NoState \notin [side : {"FLAT", "LONG", "SHORT"}, lost : Nat]

(* A tier's state dict: its position and its net losing trades.            *)
States == [side : {"FLAT", "LONG", "SHORT"}, lost : Nat]
Empty == [side |-> "FLAT", lost |-> 0]

VARIABLES
    at,        \* where the loop is; "down" when the process is not running
    cur,       \* index of the tier the loop is at
    order,     \* the market order the loop waits for
    regime,    \* cached_sub_regime
    active,    \* the tiers with tier.active
    mem,       \* mem[t]: tier.state
    db,        \* db[t]: the session row
    json,      \* json[t]: the backup file
    hold,      \* hold[s]: what the account holds of the symbol's asset
    killed,    \* kill_switch_active in the database
    hit,       \* open positions whose stop or target the price has reached
    late,      \* orders executed since the kill switch was activated
    faults, crashes

loopVars == <<at, cur, order>>
tierVars == <<active, mem>>
diskVars == <<db, json>>
worldVars == <<killed, hit, late>>
bounds == <<faults, crashes>>
vars == <<loopVars, regime, tierVars, diskVars, hold, worldVars, bounds>>

NoOrder == [kind |-> "none", side |-> "none"]

Init ==
    /\ at = "down" /\ cur = 1 /\ order = NoOrder
    /\ regime = "UNKNOWN"
    /\ active = {}
    /\ mem = [t \in Tiers |-> Empty]
    /\ db = [t \in Tiers |-> NoState]
    /\ json = [t \in Tiers |-> NoState]
    /\ hold = [s \in Symbols |-> 0]
    /\ killed = FALSE /\ hit = {} /\ late = 0
    /\ faults = 0 /\ crashes = 0

Fault == faults < MaxFaults /\ faults' = faults + 1

Tier == TierSeq[cur]
Open(t) == mem[t].side # "FLAT"

(* The next tier, or the end of the poll.                                  *)
NextTier ==
    /\ at' = IF cur = Len(TierSeq) THEN "sleep" ELSE "fetch"
    /\ cur' = IF cur = Len(TierSeq) THEN 1 ELSE cur + 1

(***************************************************************************)
(* Start, activation and the end of a poll.                                *)
(***************************************************************************)

(* load_state: the row; without one, or when reading it fails, the backup  *)
(* file; without that, a fresh start.  FromFile is used under a Fault too. *)
FromFile(t) == IF json[t] = NoState THEN Empty ELSE json[t]
Loaded(t) == IF db[t] = NoState THEN FromFile(t) ELSE db[t]

LoadTier(t) ==
    \/ mem' = [mem EXCEPT ![t] = Loaded(t)] /\ UNCHANGED faults
    \/ Fault /\ mem' = [mem EXCEPT ![t] = FromFile(t)]

(* main up to the loop: tier 1 is loaded, and active unless the promotion  *)
(* gate says otherwise (its verdict depends on tables of other programs).  *)
Start ==
    /\ at = "down"
    /\ LoadTier(TierSeq[1])
    /\ active' \in {{}, {TierSeq[1]}}
    /\ regime' = "UNKNOWN"
    /\ at' = "regime" /\ cur' = 1
    /\ UNCHANGED <<order, diskVars, hold, worldVars, crashes>>

(* The hourly regime check: a new regime, the old one (also between two    *)
(* checks), UNKNOWN when the detector fails closed; or the poll raises.    *)
RefreshRegime ==
    /\ at = "regime"
    /\ \/ /\ regime' \in Regimes \cup {"UNKNOWN"}
          /\ at' = "activate"
          /\ UNCHANGED faults
       \/ Fault /\ at' = "sleep" /\ UNCHANGED regime
    /\ UNCHANGED <<cur, order, tierVars, diskVars, hold, worldVars, crashes>>

MayActivate(t) ==
    /\ t \notin active
    /\ regime \in Suits[t]
    /\ Cardinality(active) < MaxActive

(* An eligible tier may still be held back by the equity ladder or by the  *)
(* verdict on its paper sessions: either outcome.                          *)
Activate ==
    /\ at = "activate"
    /\ at' = IF cur = Len(TierSeq) THEN "fetch" ELSE "activate"
    /\ cur' = IF cur = Len(TierSeq) THEN 1 ELSE cur + 1
    /\ \/ MayActivate(Tier) /\ active' = active \cup {Tier} /\ LoadTier(Tier)
       \/ UNCHANGED <<tierVars, faults>>
    /\ UNCHANGED <<order, regime, diskVars, hold, worldVars, crashes>>

Wake ==
    /\ at = "sleep"
    /\ at' = "regime" /\ cur' = 1
    /\ UNCHANGED <<order, regime, tierVars, diskVars, hold, worldVars, bounds>>

Forget ==
    /\ at' = "down" /\ cur' = 1 /\ order' = NoOrder
    /\ regime' = "UNKNOWN"
    /\ active' = {} /\ mem' = [t \in Tiers |-> Empty]
    /\ hit' = {}

(* SIGTERM: the loop ends between two polls.                               *)
Stop ==
    /\ at = "sleep"
    /\ Forget
    /\ UNCHANGED <<diskVars, hold, killed, late, bounds>>

(* The process dies; a backup file being written may be left truncated.    *)
Crash ==
    /\ at # "down"
    /\ crashes < MaxCrashes /\ crashes' = crashes + 1
    /\ Forget
    /\ \/ UNCHANGED json
       \/ at = "backup" /\ json' = [json EXCEPT ![Tier] = NoState]
    /\ UNCHANGED <<db, hold, killed, late, faults>>

(***************************************************************************)
(* _process_tier.                                                          *)
(***************************************************************************)

(* An inactive tier is passed over; a failing fetch ends the poll for the  *)
(* tiers behind it as well; too few bars end it for this tier.             *)
Fetch ==
    /\ at = "fetch"
    /\ \/ Tier \notin active /\ NextTier /\ UNCHANGED faults
       \/ Tier \in active /\ at' = "stops" /\ UNCHANGED <<cur, faults>>
       \/ Tier \in active /\ Fault /\ at' = "sleep" /\ cur' = 1
       \/ Tier \in active /\ Fault /\ NextTier
    /\ UNCHANGED <<order, regime, tierVars, diskVars, hold, worldVars, crashes>>

(* A bug of ExitBlocked: exits are sent without asking the kill switch.    *)
ExitBlockedNever(t) == FALSE

(* A bug of ExitBlocked: every failing guard holds the exit back, so the   *)
(* drawdown of a position at its stop does too.                            *)
ExitBlockedByDrawdown(t) == killed \/ t \in hit

(* Of the risk guards only the kill switch holds an exit back; a read that *)
(* fails need not.                                                         *)
ExitBlocked(t) == killed

ExitApproved(t) == (~ExitBlocked(t) /\ UNCHANGED faults) \/ Fault

(* Every guard holds an entry back, and so does a read that fails.         *)
EntryApproved(t) == ~killed /\ mem[t].lost < LossLimit

Submit(kind, side) ==
    /\ order' = [kind |-> kind, side |-> side]
    /\ at' = "send"
    /\ UNCHANGED cur

ExitSide(t) == IF mem[t].side = "LONG" THEN "sell" ELSE "buy"

(* Step 1: the stop or the target has been reached.  The guard is told     *)
(* apart by the words of its reason, and the text of a read that fails may *)
(* quote kill_switch_active from its statement: then it blocks as well.    *)
CheckStops ==
    /\ at = "stops"
    /\ \/ /\ Tier \in hit /\ ExitApproved(Tier)
          /\ Submit("stop", ExitSide(Tier))
       \/ /\ \/ (Tier \notin hit \/ ExitBlocked(Tier)) /\ UNCHANGED faults
             \/ Tier \in hit /\ Fault
          /\ at' = "signal"
          /\ UNCHANGED <<cur, order>>
    /\ UNCHANGED <<regime, tierVars, diskVars, hold, worldVars, crashes>>

SameDirection(d) == Cardinality({t \in active : mem[t].side = d})

(* Steps 2 to 4: no signal or one that does not apply, CLOSE, an entry, or *)
(* a generator that raises, which ends the poll.                           *)
HandleSignal ==
    /\ at = "signal"
    /\ \/ NextTier /\ UNCHANGED <<order, faults>>
       \/ Fault /\ at' = "sleep" /\ cur' = 1 /\ UNCHANGED order
       \/ /\ Open(Tier) /\ ExitApproved(Tier)
          /\ Submit("close", ExitSide(Tier))
       \/ /\ ~Open(Tier) /\ regime \in Suits[Tier] /\ EntryApproved(Tier)
          /\ \/ SameDirection("LONG") < MaxSame /\ Submit("enter", "buy")
             \/ SameDirection("SHORT") < MaxSame /\ Submit("enter", "sell")
          /\ UNCHANGED faults
    /\ UNCHANGED <<regime, tierVars, diskVars, hold, worldVars, crashes>>

(* After an order: a stop exit is followed by the signal, as the tier is.  *)
Proceed ==
    /\ order' = NoOrder
    /\ IF order.kind = "stop" THEN at' = "signal" /\ UNCHANGED cur ELSE NextTier

(* The exchange sells only what the account holds.                         *)
Executed ==
    LET s == SymbolOf[Tier] IN
    /\ order.side = "sell" => hold[s] > 0
    /\ hold' = [hold EXCEPT ![s] = IF order.side = "buy" THEN @ + 1 ELSE @ - 1]
    /\ late' = IF killed THEN late + 1 ELSE 0

(* submit_market_order: filled; refused; or executed without the answer    *)
(* "filled" (lost, late, or executed in part): the last two look the same. *)
Exchange ==
    /\ at = "send"
    /\ \/ Executed /\ at' = "record" /\ UNCHANGED <<cur, order, faults>>
       \/ /\ order.side = "sell" /\ hold[SymbolOf[Tier]] = 0
          /\ Proceed /\ UNCHANGED <<hold, late, faults>>
       \/ Fault /\ Proceed /\ UNCHANGED <<hold, late>>
       \/ Fault /\ Proceed /\ Executed
    /\ UNCHANGED <<regime, tierVars, diskVars, killed, hit, crashes>>

(* A bug of Closed: the trade is counted and the position kept.            *)
ClosedKept(s) == {[s EXCEPT !.lost = @ + 1]}

(* _record_closed_trade: flat again, with one losing trade more or less.   *)
Closed(s) ==
    {[side |-> "FLAT", lost |-> n] : n \in {s.lost + 1, IF s.lost = 0 THEN 0 ELSE s.lost - 1}}

Opened(s) == {[s EXCEPT !.side = IF order.side = "buy" THEN "LONG" ELSE "SHORT"]}

(* A bug of Save: the row is left to the next save.                        *)
SaveFileOnly(t) == UNCHANGED <<db, faults>>

(* save_state writes the row; a failure is logged.                         *)
Save(t) ==
    \/ db' = [db EXCEPT ![t] = mem'[t]] /\ UNCHANGED faults
    \/ Fault /\ UNCHANGED db

(* The state dict is changed and saved, first to the database ...          *)
Record ==
    /\ at = "record"
    /\ \E s \in IF order.kind = "enter" THEN Opened(mem[Tier]) ELSE Closed(mem[Tier]) :
          mem' = [mem EXCEPT ![Tier] = s]
    /\ hit' = hit \ {Tier}
    /\ Save(Tier)
    /\ at' = "backup"
    /\ UNCHANGED <<cur, order, regime, active, json, hold, killed, late, crashes>>

(* ... and then to the file.                                               *)
Backup ==
    /\ at = "backup"
    /\ \/ json' = [json EXCEPT ![Tier] = mem[Tier]] /\ UNCHANGED faults
       \/ Fault /\ (UNCHANGED json \/ json' = [json EXCEPT ![Tier] = NoState])
    /\ Proceed
    /\ UNCHANGED <<regime, tierVars, db, hold, worldVars, crashes>>

(***************************************************************************)
(* The world, and the specification.                                       *)
(***************************************************************************)

(* The switch is set or cleared from outside: the API, or an operator.     *)
ToggleKillSwitch ==
    /\ killed' = ~killed
    /\ late' = 0
    /\ UNCHANGED <<loopVars, regime, tierVars, diskVars, hold, hit, bounds>>

(* The price reaches the stop or the target of an open position, or leaves.*)
PriceMoves ==
    /\ \E t \in active :
          /\ Open(t)
          /\ hit' = IF t \in hit THEN hit \ {t} ELSE hit \cup {t}
    /\ UNCHANGED <<loopVars, regime, tierVars, diskVars, hold, killed, late, bounds>>

Loop ==
    \/ RefreshRegime \/ Activate \/ Fetch \/ CheckStops \/ HandleSignal
    \/ Exchange \/ Record \/ Backup \/ Wake

Next == Loop \/ Start \/ Stop \/ Crash \/ ToggleKillSwitch \/ PriceMoves

Spec == Init /\ [][Next]_vars

(* The loop is never kept from running: every wait in it is bounded by a   *)
(* timeout of the HTTP client, the rate limiter or the poll interval.      *)
FairSpec == Spec /\ WF_vars(Loop)

(***************************************************************************)
(* Properties.                                                             *)
(***************************************************************************)

(* What the program knows of a tier: its state if active, or what it would *)
(* load.                                                                   *)
Known(t) == IF t \in active THEN mem[t] ELSE Loaded(t)
Units(t) == CASE Known(t).side = "LONG" -> 1 [] Known(t).side = "SHORT" -> -1 [] OTHER -> 0
TiersOf(s) == {t \in Tiers : SymbolOf[t] = s}
Unrecorded(s) ==
    IF at # "record" \/ SymbolOf[Tier] # s THEN 0
    ELSE IF order.side = "buy" THEN 1 ELSE -1

\* Through stops, restarts, tiers that stay inactive and tiers that share a
\* symbol, the account holds what the tiers' states say: no position is
\* opened or closed twice and none is forgotten, as long as no call fails
\* and the process does not die.
HoldingsAddUp ==
    faults = 0 /\ crashes = 0 =>
        \A s \in Symbols :
            hold[s] = Unrecorded(s) + SumFunctionOnSet([t \in Tiers |-> Units(t)], TiersOf(s))

\* What memory holds is in the database whenever the loop is elsewhere: a
\* restart between two polls finds every position, entry or exit, of the
\* active tiers.
SavedIsCurrent ==
    faults = 0 => \A t \in active : mem[t] = Loaded(t) \/ (mem[t] = Empty /\ db[t] = NoState)

\* What the account holds, what the process remembers and what the database
\* would give back after a restart are three views of the same positions.
ViewsAgree == HoldingsAddUp /\ SavedIsCurrent

\* Setting the kill switch stops trading: at most the order that has passed
\* its guard is executed after it, and an exit for each read that failed.
KillSwitchStops == late <= 1 + faults

Covered(t) == mem[t].side = "LONG" => hold[SymbolOf[t]] > 0
Exposed(t) == at # "down" /\ t \in active /\ t \in hit /\ Covered(t) /\ ~killed

\* "Stops always execute": a position at its stop is closed, unless the
\* price returns, the kill switch is set, the process ends, or the account
\* no longer holds what the position says.
StopsEnforced == \A t \in Tiers : Exposed(t) ~> ~Exposed(t)
=============================================================================
