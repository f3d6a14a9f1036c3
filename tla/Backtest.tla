------------------------------ MODULE Backtest ------------------------------
(***************************************************************************)
(* The backtest (src/src/core/strategy/backtest): the simulated trader and *)
(* portfolio driven bar by bar, the metrics of its trade log and the       *)
(* validation that lets a strategy go on.  Prices and sizes are integers;  *)
(* the rates are per cent and what they take is rounded down.              *)
(***************************************************************************)
EXTENDS Integers, FiniteSets

CONSTANTS Initial,       \* initial_capital
          Candles,       \* the bars of the series: [open, high, low, close]
          Signals,       \* what the generator may answer, NoSignal apart
          MaxBars,       \* bound: the length of the series
          CommissionRate, Slippage, PositionSize, AllowShorts, AllowFlip,
          MinTrades, MinProfitFactor      \* of the validation, in per cent

VARIABLES
    bar,       \* the current bar, series[i]
    seen,      \* i
    step,     \* of the loop body: "stops", "signal", "closed"
    cash, position,
    wins, losses   \* of the trade log: [count, sum of realized_pnl]
backVars == <<bar, seen, step, cash, position, wins, losses>>

Flat == [direction |-> "flat"]
NoSignal == [direction |-> "none"]
NoLevel == 0     \* a stop_loss or take_profit that is None

\* The slippage never eats up a price.
ASSUME BacktestAssumption ==
    /\ {Initial, CommissionRate, Slippage, PositionSize} \subseteq Nat
    /\ Candles \subseteq [open : Nat, high : Nat, low : Nat, close : Nat]
    /\ \A c \in Candles : c.open > Slippage
    /\ Signals \subseteq [direction : {"close"}] \cup [direction : {"long", "short"}, stop : Nat, target : Nat]

BackInit ==
    /\ bar \in Candles /\ seen = 1
    /\ step = "stops"
    /\ cash = Initial /\ position = Flat
    /\ wins = [count |-> 0, sum |-> 0] /\ losses = [count |-> 0, sum |-> 0]

(***************************************************************************)
(* SimulatedTrader: fills, commissions and sizes.                          *)
(***************************************************************************)
(* _calculate_fill_price: buys slip up, sells slip down.                   *)
FillPrice(base, direction) == IF direction = "long" THEN base + Slippage ELSE base - Slippage

Closing(direction) == IF direction = "long" THEN "short" ELSE "long"

Commission(quantity, price) == (quantity * price * CommissionRate) \div 100

Quantity(purse, price) == (purse * PositionSize) \div (price * (100 + CommissionRate))

Distance(a, b) == IF a > b THEN a - b ELSE b - a

(* A stop without a target trails, by a distance that may be nothing.      *)
StopTrails(p) == p.stop # NoLevel /\ p.target = NoLevel

(* PortfolioState.open_position: the position and what it costs.           *)
Opened(signal, quantity, price) ==
    [direction |-> signal.direction, quantity |-> quantity, entry |-> price,
     commission |-> Commission(quantity, price),
     stop |-> signal.stop, target |-> signal.target,
     trail |-> IF StopTrails(signal) THEN Distance(price, signal.stop) ELSE 0]

Cost(p) == p.quantity * p.entry + p.commission

Gross(p, price) ==
    p.quantity * (IF p.direction = "long" THEN price - p.entry ELSE p.entry - price)

Realized(p, price) == Gross(p, price) - p.commission - Commission(p.quantity, price)

(* A bug of Proceeds: the fill is paid out whatever the direction is.      *)
ProceedsOfSale(p, price) == p.quantity * price - Commission(p.quantity, price)

(* PortfolioState.close_position: the collateral and the realized P&L.     *)
Proceeds(p, price) == Cost(p) + Realized(p, price)

Logged(log, pnl) == [count |-> log.count + 1, sum |-> log.sum + pnl]

(* TradeRecord: a trade that is not a winner counts as a loss.             *)
Book(pnl) ==
    /\ wins' = IF pnl > 0 THEN Logged(wins, pnl) ELSE wins
    /\ losses' = IF pnl > 0 THEN losses ELSE Logged(losses, pnl)

ExitFill(price) == FillPrice(price, Closing(position.direction))

CloseAt(price) ==
    /\ cash' = cash + Proceeds(position, ExitFill(price))
    /\ Book(Realized(position, ExitFill(price)))

(***************************************************************************)
(* check_stop_take_profit.                                                 *)
(***************************************************************************)
(* The bar's own extreme moves a trailing stop before it is tested.        *)
Ratcheted(p) ==
    IF ~StopTrails(p) THEN p
    ELSE LET moved == IF p.direction = "long" THEN bar.high - p.trail ELSE bar.low + p.trail IN
         IF (p.direction = "long" /\ moved > p.stop) \/ (p.direction = "short" /\ moved < p.stop)
         THEN [p EXCEPT !.stop = moved] ELSE p

StopHit(p) == p.stop # NoLevel /\ IF p.direction = "long" THEN bar.low <= p.stop ELSE bar.high >= p.stop

TargetHit(p) ==
    p.target # NoLevel /\ IF p.direction = "long" THEN bar.high >= p.target ELSE bar.low <= p.target

(* A stop hit in the same bar as the target wins.                          *)
CheckStops ==
    /\ step = "stops" /\ seen < MaxBars
    /\ step' = "signal"
    /\ \/ position = Flat /\ UNCHANGED <<cash, position, wins, losses>>
       \/ /\ position # Flat
          /\ LET p == Ratcheted(position) IN
             \/ ~StopHit(p) /\ ~TargetHit(p) /\ position' = p /\ UNCHANGED <<cash, wins, losses>>
             \/ StopHit(p) /\ CloseAt(p.stop) /\ position' = Flat
             \/ ~StopHit(p) /\ TargetHit(p) /\ CloseAt(p.target) /\ position' = Flat
    /\ UNCHANGED <<bar, seen>>

(***************************************************************************)
(* execute_signal, at the open of the next bar.                            *)
(***************************************************************************)
Opens(signal, next, purse) ==
    LET price == FillPrice(next.open, signal.direction)
        quantity == Quantity(purse, price) IN
    IF (signal.direction = "short" /\ ~AllowShorts) \/ quantity <= 0
    THEN position' = Flat /\ cash' = purse
    ELSE position' = Opened(signal, quantity, price) /\ cash' = purse - Cost(position')

(* No signal, or one in the direction of the position.                     *)
Ignored(signal) ==
    \/ signal = NoSignal
    \/ signal.direction = "close" /\ position = Flat
    \/ signal.direction = position.direction

NextBar(next) == bar' = next /\ seen' = seen + 1 /\ step' = "stops"

IgnoreSignal(signal, next) ==
    /\ step = "signal" /\ Ignored(signal)
    /\ NextBar(next) /\ UNCHANGED <<cash, position, wins, losses>>

OpenPosition(signal, next) ==
    /\ step = "signal" /\ ~Ignored(signal) /\ position = Flat
    /\ Opens(signal, next, cash)
    /\ NextBar(next) /\ UNCHANGED <<wins, losses>>

(* Paper trading, with allow_flip off, stays flat; a short is not opened   *)
(* on a spot account.                                                      *)
ClosePosition(signal, next) ==
    /\ step = "signal" /\ ~Ignored(signal) /\ position # Flat
    /\ signal.direction = "close" \/ ~AllowFlip
    /\ CloseAt(next.open) /\ position' = Flat
    /\ NextBar(next)

(* The new position is sized with the proceeds of the old one.             *)
FlipPosition(signal, next) ==
    /\ step = "signal" /\ ~Ignored(signal) /\ position # Flat
    /\ signal.direction # "close" /\ AllowFlip
    /\ Opens(signal, next, cash + Proceeds(position, ExitFill(next.open)))
    /\ Book(Realized(position, ExitFill(next.open)))
    /\ NextBar(next)

(* force_close_at_price, at the close of the last bar, whose stops are not *)
(* checked any more.                                                       *)
ForceCloseAtEnd ==
    /\ step = "stops" /\ seen = MaxBars
    /\ step' = "closed"
    /\ \/ position # Flat /\ CloseAt(bar.close) /\ position' = Flat
       \/ position = Flat /\ UNCHANGED <<cash, position, wins, losses>>
    /\ UNCHANGED <<bar, seen>>

BackNext ==
    \/ CheckStops
    \/ \E signal \in Signals \cup {NoSignal}, next \in Candles :
         \/ IgnoreSignal(signal, next) \/ OpenPosition(signal, next)
         \/ ClosePosition(signal, next) \/ FlipPosition(signal, next)
    \/ ForceCloseAtEnd

(***************************************************************************)
(* BacktestMetricsCalculator and BacktestValidator.                        *)
(***************************************************************************)
Trades == wins.count + losses.count

GrossLoss == -losses.sum

(* gross_profit / gross_loss, infinite without a loss.                     *)
ProfitFactorAtLeast(percent) ==
    IF GrossLoss > 0 THEN wins.sum * 100 >= percent * GrossLoss ELSE wins.sum > 0

(* (win_rate * avg_win) - (loss_rate * avg_loss), times the trades.        *)
Expectancy == wins.sum - GrossLoss

Validated ==
    /\ step = "closed" /\ Trades > 0 /\ Trades >= MinTrades
    /\ ProfitFactorAtLeast(MinProfitFactor)
    /\ Expectancy > 0

(***************************************************************************)
(* Properties.                                                             *)
(***************************************************************************)
\* Through every order of stops, targets, flips, shorts and the forced close
\* the cash is the initial capital plus the results of the trade log, less
\* what the open position has taken; a backtest that passes its validation
\* ends with more than it began with.
LedgerBalances ==
    /\ cash + (IF position = Flat THEN 0 ELSE Cost(position)) = Initial + wins.sum + losses.sum
    /\ Validated => cash > Initial
=============================================================================
