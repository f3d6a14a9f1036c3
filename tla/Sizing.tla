------------------------------- MODULE Sizing -------------------------------
(***************************************************************************)
(* The sizing of an order in src/src/core/risk: calculate_position_size    *)
(* (controller.py) with the methods, the regime adjustment and the reserve *)
(* of sizing.py, and the check of the size that follows.  Amounts are      *)
(* whole units of the account's currency, prices too, quantities are in    *)
(* 1/Lot and rounded down; rates are per cent.                             *)
(***************************************************************************)
EXTENDS Integers, FiniteSetsExt

CONSTANTS Requests,     \* what callers may ask for, see below
          Equity,       \* total_equity
          Lot

VARIABLES request, sized
sizeVars == <<request, sized>>

MINIMUM_CASH_RESERVE_PCT == 20
EMERGENCY_BUFFER_PCT == 10

NoRequest == [method |-> "none"]
NotSized == [quantity |-> -1]

(* A request: method, distance of the stop, atr, the chances for kelly, the  *)
(* profile's cap, volatility_multiplier and regime multiplier, the cash and  *)
(* the entry price.  A regime never enlarges a position (RegimeAdjustments), *)
(* and no profile's cap (2, 3 and 5%) is above the reserve.                  *)
ASSUME SizingAssumption ==
    /\ Equity \in Nat /\ Lot \in Nat
    /\ \A r \in Requests :
         /\ {r.stop, r.atr, r.entry, r.gain} \subseteq Nat \ {0}
         /\ {r.cash, r.volatility, r.loss} \subseteq Nat
         /\ r.wins \in 0..100 /\ r.regime \in 0..100
         /\ r.cap \in 0..(MINIMUM_CASH_RESERVE_PCT + EMERGENCY_BUFFER_PCT)

SizeInit == request = NoRequest /\ sized = NotSized

(* A bug of AvailableCapital: nothing is kept in reserve.                    *)
AvailableCapitalAll(cash) == cash

AvailableCapital(cash) ==
    Max({0, cash - (Equity * (MINIMUM_CASH_RESERVE_PCT + EMERGENCY_BUFFER_PCT)) \div 100})

(* The smaller of the position cap and 2%.                                   *)
RiskAmount(r) == (AvailableCapital(r.cash) * Min({r.cap, 2})) \div 100

FixedRiskSize(r) == [risk |-> RiskAmount(r), quantity |-> (RiskAmount(r) * Lot) \div r.stop]

(* The multiplier of the profile; a multiplier of 0 counts as 2.             *)
AtrMultiplier(r) == IF r.volatility = 0 THEN 200 ELSE r.volatility

AtrSize(r) ==
    [risk |-> RiskAmount(r), quantity |-> (RiskAmount(r) * Lot * 100) \div (r.atr * AtrMultiplier(r))]

(* A quarter of the Kelly fraction; nothing without an expected gain.        *)
KellySize(r) ==
    LET edge == r.wins * r.gain - (100 - r.wins) * r.loss
        risk == (AvailableCapital(r.cash) * edge) \div (400 * r.gain)
    IN IF edge <= 0 THEN [risk |-> 0, quantity |-> 0]
       ELSE [risk |-> risk, quantity |-> (risk * Lot) \div r.stop]

RegimeAdjusted(quantity, r) == (quantity * r.regime) \div 100

PositionCap(r) == (Equity * r.cap * Lot) \div (100 * r.entry)

Raw(r) ==
    IF AvailableCapital(r.cash) = 0 THEN [risk |-> 0, quantity |-> 0]
    ELSE CASE r.method = "atr_based" -> AtrSize(r)
           [] r.method = "kelly" -> KellySize(r)
           [] OTHER -> FixedRiskSize(r)

SizeOf(r) == [Raw(r) EXCEPT !.quantity = Min({RegimeAdjusted(@, r), PositionCap(r)})]

CalculatePositionSize(r) ==
    /\ request = NoRequest
    /\ request' = r
    /\ sized' = SizeOf(r)

SizeNext == \E r \in Requests : CalculatePositionSize(r)

(***************************************************************************)
(* Properties.                                                             *)
(***************************************************************************)
Notional == sized.quantity * request.entry
LossAtStop == sized.quantity * request.stop

\* Whatever method and profile size an order, it can be paid for from the
\* cash, it passes the check of its size that follows, and unless the ATR
\* sets another distance than the stop has, its stop costs no more than the
\* amount at risk that the result names.
SizeIsSound ==
    sized # NotSized =>
        /\ Notional <= request.cash * Lot
        /\ Notional * 100 <= Equity * request.cap * Lot
        /\ (request.method = "atr_based" => request.stop * 100 <= request.atr * AtrMultiplier(request))
           => LossAtStop <= sized.risk * Lot
=============================================================================
