----------------------------- MODULE RiskPipeline ----------------------------
(***************************************************************************)
(* The risk controller of src/src/core/risk: the pipeline of checks every  *)
(* order passes (controller.py, checks.py), the circuit breakers behind it *)
(* (circuit_breakers.py), the volatility cooldown, the calendar filters    *)
(* and the sizing of orders.  Orders are validated in worker threads: what *)
(* one thread has approved is executed later, and nothing is reserved for  *)
(* it.  Values are in units of a fixed share of the total equity; prices   *)
(* stay as they are.  Time passes in ticks.                                *)
(***************************************************************************)
EXTENDS Integers, FiniteSets, FiniteSetsExt, Functions

CONSTANTS Symbols,
          Breakers,          \* a subset of the names below
          BreakerCooldown,          \* of a breaker and of the volatility, in ticks
          MaxOpenPositions, MaxPositionSize, MaxConcentration,
          AssetLimit,        \* AssetLimit[s]: long exposure of the asset of s
          CorrelatedLimit,   \* long exposure of all assets
          MaxApproved        \* bound: orders approved and not yet executed

ASSUME LimitsAssumption ==
    /\ Breakers \subseteq {"daily_loss", "weekly_loss", "drawdown", "correlation"}
    /\ {BreakerCooldown, MaxOpenPositions, MaxPositionSize, MaxConcentration, CorrelatedLimit} \subseteq Nat
    /\ AssetLimit \in [Symbols -> Nat]
    /\ IsFiniteSet(Symbols)

VARIABLES
    pos,        \* the open position of a symbol: long > 0, short < 0
    over,       \* the losses that have reached their limit
    recovered,  \* the drawdown is below 80% of its limit
    killed,     \* kill_switch_active
    barred,     \* what bars trading now: the calendar, a scheduled event
    calm,       \* ticks until the volatility cooldown is over
    tripped,    \* ticks until a tripped breaker may reset itself, Off if it is not tripped
    savedTrips, \* the circuit_breakers column
    approved,   \* orders that have been approved and not executed
    overlapped, \* history: an order was validated while another was in `approved`
    held        \* history: ticks for which a trip in the row must be honoured
riskVars == <<pos, over, recovered, killed, barred, calm, tripped, savedTrips, approved, overlapped, held>>

Off == -1
Losses == {"daily_loss", "weekly_loss", "drawdown"} \cap Breakers
Orders == [symbol : Symbols, side : {"buy", "sell"}, units : 1..MaxPositionSize]

RiskInit ==
    /\ pos = [s \in Symbols |-> 0]
    /\ over = {} /\ recovered = TRUE
    /\ killed = FALSE /\ barred = {} /\ calm = 0
    /\ tripped = [b \in Breakers |-> Off] /\ savedTrips = tripped
    /\ approved = {} /\ overlapped = FALSE
    /\ held = [b \in Breakers |-> 0]

Abs(n) == IF n < 0 THEN -n ELSE n
Long(s) == IF pos[s] > 0 THEN pos[s] ELSE 0
TotalLong == SumFunctionOnSet([s \in Symbols |-> Long(s)], Symbols)

(***************************************************************************)
(* Circuit breakers.                                                       *)
(***************************************************************************)
DailyLossExceeded == "daily_loss" \in over
WeeklyLossExceeded == "weekly_loss" \in over
DrawdownExceeded == "drawdown" \in over
CorrelationExceeded == (\E s \in Symbols : Long(s) > AssetLimit[s]) \/ TotalLong > CorrelatedLimit

Exceeded(b) ==
    CASE b = "daily_loss" -> DailyLossExceeded
      [] b = "weekly_loss" -> WeeklyLossExceeded
      [] b = "drawdown" -> DrawdownExceeded
      [] OTHER -> CorrelationExceeded

Recovers(b) == b = "drawdown" /\ recovered /\ ~DrawdownExceeded

(* check: recovery and cooldown first, then the condition.                 *)
Checked == [b \in Breakers |->
    IF tripped[b] \in {Off, 0} \/ Recovers(b)
    THEN IF Exceeded(b) THEN BreakerCooldown ELSE Off
    ELSE tripped[b]]

(* What a recovery seen by a check takes from the trips to be honoured.    *)
StillHeld == [b \in Breakers |-> IF Recovers(b) THEN 0 ELSE held[b]]

UpdateCircuitBreakers ==
    /\ tripped' = Checked
    /\ \/ savedTrips' = Checked /\ held' = [b \in Breakers |-> IF Checked[b] = Off THEN 0 ELSE Checked[b]]
       \/ UNCHANGED savedTrips /\ held' = StillHeld      \* persist_state logs a failure
    /\ UNCHANGED <<pos, over, recovered, killed, barred, calm, approved, overlapped>>

(* By hand; the row keeps what it has.                                     *)
ResetBreaker(b) ==
    /\ tripped[b] # Off
    /\ tripped' = [tripped EXCEPT ![b] = Off]
    /\ held' = [held EXCEPT ![b] = 0]
    /\ UNCHANGED <<pos, over, recovered, killed, barred, calm, savedTrips, approved, overlapped>>

(* A bug of Restored: the row has the flags and not the nested state.             *)
RestoredNothing == [b \in Breakers |-> Off]

Restored == savedTrips

RiskRestart ==
    /\ tripped' = Restored
    /\ calm' = 0 /\ approved' = {}
    /\ UNCHANGED <<pos, over, recovered, killed, barred, savedTrips, overlapped, held>>

(***************************************************************************)
(* The pipeline.                                                           *)
(***************************************************************************)
KillSwitchOk == ~killed
CircuitBreakersOk == \A b \in Breakers : Checked[b] = Off
TimeFilterOk == "calendar" \notin barred
EventFilterOk == "event" \notin barred
VolatilityOk(extreme) == ~extreme /\ calm = 0

IsClosing(o) == IF o.side = "sell" THEN pos[o.symbol] > 0 ELSE pos[o.symbol] < 0

MaxPositionsOk(o) ==
    IsClosing(o) \/ Cardinality({s \in Symbols : pos[s] # 0}) < MaxOpenPositions

(* Whatever the sides of the order and of the position are.                *)
ConcentrationOk(o) == Abs(pos[o.symbol]) + o.units <= MaxConcentration

PositionSizeOk(o) == o.units <= MaxPositionSize

(* A bug of CorrelationOk: the limits are compared with the exposure       *)
(* before the order.                                                       *)
CorrelationOkBefore(o) ==
    o.side = "buy" => Long(o.symbol) <= AssetLimit[o.symbol] /\ TotalLong <= CorrelatedLimit

CorrelationOk(o) ==
    o.side = "buy" =>
        /\ \A s \in Symbols : Long(s) + (IF s = o.symbol THEN o.units ELSE 0) <= AssetLimit[s]
        /\ TotalLong + o.units <= CorrelatedLimit

PortfolioOk(o) ==
    /\ ~DailyLossExceeded /\ ~WeeklyLossExceeded /\ ~DrawdownExceeded
    /\ MaxPositionsOk(o) /\ ConcentrationOk(o) /\ PositionSizeOk(o) /\ CorrelationOk(o)

(* The kill switch comes before anything that has an effect; the breakers  *)
(* are all checked, the volatility only if the filters before it pass.     *)
ValidateOrder(o, extreme) ==
    /\ Cardinality(approved) < MaxApproved
    /\ KillSwitchOk
    /\ tripped' = Checked
    /\ held' = StillHeld
    /\ LET open == CircuitBreakersOk /\ TimeFilterOk /\ EventFilterOk
       IN /\ calm' = IF open /\ extreme THEN BreakerCooldown ELSE calm
          /\ approved' = IF open /\ VolatilityOk(extreme) /\ PortfolioOk(o)
                         THEN approved \cup {o} ELSE approved
    /\ overlapped' = (overlapped \/ approved # {})
    /\ UNCHANGED <<pos, over, recovered, killed, barred, savedTrips>>

(* The position tracker opens, adds or reduces; what exceeds a position    *)
(* that is reduced is dropped.                                             *)
Filled(p, o) ==
    IF o.side = "buy" THEN IF p < 0 THEN Min({0, p + o.units}) ELSE p + o.units
    ELSE IF p > 0 THEN Max({0, p - o.units}) ELSE p - o.units

Execute(o) ==
    /\ approved' = approved \ {o}
    /\ \/ pos' = [pos EXCEPT ![o.symbol] = Filled(@, o)]
       \/ UNCHANGED pos                             \* the exchange rejects it
    /\ UNCHANGED <<over, recovered, killed, barred, calm, tripped, savedTrips, overlapped, held>>

(***************************************************************************)
(* The account, the operator, the calendar and the clock.                  *)
(***************************************************************************)
AccountChanges ==
    /\ over' \in SUBSET Losses
    /\ recovered' \in (IF "drawdown" \in over' THEN {FALSE} ELSE BOOLEAN)
    /\ UNCHANGED <<pos, killed, barred, calm, tripped, savedTrips, approved, overlapped, held>>

SwitchChanges ==
    /\ \/ killed' = ~killed /\ UNCHANGED barred
       \/ barred' \in SUBSET {"calendar", "event"} /\ UNCHANGED killed
    /\ UNCHANGED <<pos, over, recovered, calm, tripped, savedTrips, approved, overlapped, held>>

Less(n) == IF n > 0 THEN n - 1 ELSE n

RiskTick ==
    /\ tripped' = [b \in Breakers |-> Less(tripped[b])]
    /\ savedTrips' = [b \in Breakers |-> Less(savedTrips[b])]      \* triggered_at is a time
    /\ held' = [b \in Breakers |-> Less(held[b])]
    /\ calm' = Less(calm)
    /\ UNCHANGED <<pos, over, recovered, killed, barred, approved, overlapped>>

RiskNext ==
    \/ UpdateCircuitBreakers \/ RiskRestart
    \/ \E b \in Breakers : ResetBreaker(b)
    \/ \E o \in Orders, extreme \in BOOLEAN : ValidateOrder(o, extreme)
    \/ \E o \in approved : Execute(o)
    \/ AccountChanges \/ SwitchChanges \/ RiskTick

(***************************************************************************)
(* Properties.                                                             *)
(***************************************************************************)
\* As long as no order is validated while another is on its way, what the
\* checks allow one by one keeps the portfolio within all its limits at
\* once; two orders in two threads may pass together and exceed them.
ExposureWithinLimits ==
    overlapped \/ /\ Cardinality({s \in Symbols : pos[s] # 0}) <= MaxOpenPositions
                  /\ \A s \in Symbols : Abs(pos[s]) <= MaxConcentration /\ Long(s) <= AssetLimit[s]
                  /\ TotalLong <= CorrelatedLimit

\* A trip that has been written to the row is honoured to the end of its
\* cooldown, through restarts, recoveries of its condition and further
\* checks: until then only a reset by hand or, for the drawdown breaker, its
\* recovery lets an order pass.
TripsAreHonoured ==
    [][ approved' \ approved # {} => \A b \in Breakers : held'[b] = 0 ]_riskVars
=============================================================================
