# Paravant: a TLA+ model of the trading system

This directory holds TLA+ models of Paravant, the TLC configurations that check
them, and TLAPS proofs about them. Paths below are relative to the repository
(`src/...`); `PROJECT.json` lists every run, property, mutant, hazard and
theorem and maps each definition to its source lines.

To check a run: `tlc -workers 2 -config <run>.cfg <module>` with the module the
table of section 3 names. To check the proofs: `tlapm <M>.tla` for the eight
modules that hold theorems, `Sums` and the seven whose names end in `Proofs`.

## 1. The system

Paravant is a Python trading system for Binance spot and margin. It exists
twice, in a sense:

* the **live runner**, `src/scripts/run_live_trading.py`, a single synchronous
  loop that polls prices and places real orders; this is the program that
  trades today, as a process supervised by `scripts/run_all.py`;
* the **platform**, `src/src/`, an asyncio system of an orchestrator, an order
  manager, a position tracker, risk controls, alerting, a paper engine and a
  REST API. The API process, the paper process and the live runner share one
  database. No entry point of the repository starts the orchestrator or the
  order manager today, and the repository's README says that the risk package
  is not connected to the live loop: the models of these parts are about the
  code as it would run when it is.

Around both lies **research**, `src/research/` and scripts run by hand, which
decide which strategies are tried on paper and which are retired.

### 1.1 Inventory

| Component | State | Operations | What is hard | What makes it correct |
|---|---|---|---|---|
| Live runner (`scripts/run_live_trading.py`) | per tier: `state` dict, session row, JSON backup, `active`; the cached regime | poll: regime, activation, fetch, stops, signal, order, save | death or lost answer between order and save; tiers that share a symbol; a regime that keeps a restored position out | holdings = recorded positions = saved states; stops execute; the kill switch stops orders |
| Promotion gate (same file, `scripts/validation_report.py`) | paper rows, alerts sent, active tiers | report, readiness and degradation checks, poll | two readers of the same rows, one pooled, one by session; rows that change between two reads | report and gate agree; an earned tier goes live; one alert per obstacle |
| Order manager (`execution/order_manager.py`) | `_monitoring_tasks`; rows of `orders` and `trades` | submit, cancel, reconcile, monitor, fill, shutdown | several coroutines find the same fill; every await is an interleaving point; crash between two writes | persisted before sent; a trade for each FILLED row; a row whose order has ended is settled |
| Position tracker (`execution/position_tracker.py`) | `_positions`, rows of `positions` | fills, synchronisation with balances, initialise | decide on the cache, await the write, cache the result: no lock | cache = table = account; one atomic update per fill |
| Exchange adapter and client (`brokers/binance/`) | none of its own; the exchange's orders | submit, cancel, query | lost answers; two layers of error translation | what a caller is told of an order is and stays true |
| Rate limiter (`brokers/binance/rate_limiter.py`) | three buckets, one lock | `acquire` | sleeps with its lock held; partial draws | calls granted in a window are paid for |
| `system_state` row (`data/store.py`, kill switch, breakers, dead man's switch) | switch, code, breaker JSON, regime | read, update, activate, deactivate, heartbeat | read and merge in two sessions; restarts; failing commits | codes work once; the switch is cleared by deactivations only; a trigger halts |
| Risk pipeline (`risk/`) | breakers in memory and row, cooldowns, approvals on their way | `validate_order`, breaker checks, reset, restore; sizing | approvals that do not see each other; trips lost over a restart | limits hold together; a trip is honoured to its end; a size can be paid for |
| Orchestrator, entry coordinator (`orchestrator.py`, `health.py`) | `_running`, mode, error counts, heap of entries | start, stop, signals, cycle, degradation, watchdog | switch read once per cycle; stop that does not wait; head-of-line blocking | a halt stops entries; trouble that ends leaves no trace |
| Monitoring (`monitoring/service.py`) | daily records, time of the last write | the update in three awaits | midnight between two awaits; restarts; debounce | a day's record has the day's trades |
| Strategy engine (`strategy/engine.py`) | row, history, tracked conditions | create, transition, parameters, hourly check | calls on detached copies beside the check | history explains status; fair demotion |
| Event bus (`event_bus.py`) | queues of subscribers | publish, subscribe, stream | bounded queues, clients that leave | delivered, waiting or refused; never reordered |
| Alerting (`alerting/`) | pending alerts, limiter, summary loops | trigger, send, acknowledge, escalate, summarise | sends that overlap; loops that wake late | no flood; no summary twice |
| Market data (`data/`) | entries with expiry and order of use; pages of history | get or fetch, evict, page | slow answers overwrite newer ones; shared keys | the answer fits the question and its age |
| Signals and indicators (`strategy/generators/`, `indicators/`) | none | `generate`, `calculate` | which side a stop lies on; values that repaint | a stop limits a loss; new bars only extend |
| Backtest (`strategy/backtest/`) | cash, position, trade log | bar by bar, metrics, validation | order of stops, flips, forced close | cash = initial + results |
| Paper trading (`strategy/paper/`, `scripts/run_paper_trading.py`, API routes) | session row, position, cursor; the manager's dictionary; what was announced | poll, replay, save, stop; start/stop/status; look, summarise | failed saves, restarts, a stop that does not wait | nothing missed or opened twice; one engine per strategy; every closed trade told |
| Regime routing (`strategy/regime/`) | two detectors, engines | detect, stop, start | fetches that fail halfway; bars that move in between | a tagged template runs in its regime only |
| Configuration backups (`config/backup.py`) | files | backup, policy, restore | death between write and rename; failing deletion | what the policy keeps can be restored |
| Research: collector, channels, feature store (`research/data`, `research/features`) | buffer, files; caches | collect, flush, reconnect; fetch, read as of | redelivery, kill, refused writes; bars that form | no event lost; nothing known before its time |
| Research: biographies (`research/biographies`, three scripts) | YAML files | verdict, screen, post-mortem | death between or inside two writes; same-day reruns | the history tells the verdict; nothing is lost |
| Supervision, maintenance scripts, frontend | | | | not modelled |

`PROJECT.json` "components" names the files of each and its status, "hazards"
the lines at which each is hard to test, with the properties that watch them.

### 1.2 How they interact

A signal becomes an `Order` (risk pipeline), the order manager writes the row,
calls the exchange, updates the row and either handles the fill or starts a
monitoring task. Whoever sees the fill, that is the submission, the monitoring
task, the background reconciliation or the API's reconcile endpoint, runs
`_handle_fill`: trade row, FILLED, then `PositionTracker.process_fill`. These
are coroutines of one event loop; each database call is awaited in a worker
thread, so between any two of them every other coroutine may run.

The kill switch, the breakers and the regime router share one database row and
no lock. They run in the API's thread pool, in the orchestrator and in the
paper process. The live runner reads `kill_switch_active` from that row before
each order, and the rows of the paper sessions before it activates a tier.

A strategy's way to money is: research (biographies, point-in-time channels) ->
backtest and validation -> paper sessions, routed by the regime -> the report
and the gate -> a tier of the live runner.

## 2. The modules

```
OrderContract  <--implements-- OrderLifecycle    <-- OrderLifecycleProofs
PositionLedger <--implements-- PositionTracker   <-- PositionTrackerProofs
LiveTrading                                      <-- LiveTradingProofs
EntryCoordinator <--extended by-- Orchestrator   <-- SimulationProofs

Sums:             lemmas about sums, least and greatest elements, for the others
LifecycleProofs:  SystemState, StrategyLifecycle, Backups, Monitoring
ControlProofs:    RiskPipeline, ExchangeCalls, Sizing, RateLimiter, EventBus,
                  Alerting, Summaries, MarketData
SimulationProofs: PaperTrading, RegimeRouting, Backtest, Orchestrator, SignalRules
ResearchProofs:   PaperSessions, PaperMonitor, Liquidations, Biographies,
                  PointInTime, Promotion

MCPositionTracker, MCLiveTrading, MCOrchestrator, MCStrategyLifecycle:
              one component each
MCLifecycles: OrderLifecycle, SystemState, StrategyLifecycle, Backups, Monitoring
MCControls:   RiskPipeline, Sizing, RateLimiter, EventBus, Alerting, Summaries,
              MarketData (cache, history), ExchangeCalls
MCSimulation: PaperTrading, RegimeRouting, Backtest, SignalRules, Indicators
MCResearch:   Biographies, PointInTime, Liquidations, PaperSessions,
              PaperMonitor, Promotion
```

The last four put components side by side that share no state. Their variable
`running` picks one in the initial state; it takes its steps and the others stay
as they begin. The states are those of the parts added up, not multiplied, and
each part's properties are checked on its own behaviours.

In comments, "a bug of X" marks an operator that no specification uses: it is a
plausible wrong version of `X`, against which the properties are tried (each
property is violated by at least one of them; `PROJECT.json` "mutants").

### 2.1 OrderLifecycle and OrderContract

State: the columns of the tables (`status`, `extId`, `trades`, `booked`), the
exchange (`exch`), and where each coroutine is (`sub`, `mon`, `can`, `rec`, with
`fill` and `reply` for `_handle_fill` and the answer on its caller's stack).
Every `await` ends an action.

| Actions | Code in `order_manager.py` |
|---|---|
| `SubmitVetoed`, `SubmitPersist`, `SubmitSend`, `SubmitMarkRejected`, `SubmitMarkSubmitted`, `SubmitFillDone`, `SubmitWatch` | `submit_order`: the risk controller's veto, the PENDING row, the request, REJECTED or SUBMITTED, immediate fill, `_start_monitoring` |
| `MonitorBegin`, `MonitorPoll`, `MonitorTimesOut`, `MonitorMark`, `MonitorPartial`, `MonitorFillDone`, `MonitorStopped` | `_monitor_order`, including its `finally` and `CancelledError` |
| `CancelRead`, `CancelAtExchange`, `CancelStopMonitoring`, `CancelMark` | `cancel_order` |
| `StartLoop`, `RecSnapshot`, `RecCheck`, `RecFillDone`, `RecMark`, `LoopStopped` | `reconcile_orders` and its background loop |
| `FillSaveTrade`, `FillMarkFilled`, `FillBook` | `_handle_fill` on the stack of handler `h` |
| `Shutdown`, `Crash` | `shutdown`; the end of the process at any point |
| `ExchangeMoves` | the matching engine (external) |

`Fault` makes any database or exchange call raise. A lost answer is an accepted
request whose call raises: the manager cannot tell it from a refusal.
`task.cancel()` reaches a task at its await while the worker thread may still
commit: an interrupted handler's pending write lands, or does not.

`OrderContract` is what the manager promises without the machinery: recorded
before placed, traded only when complete, booked only after traded. It does
not say that one handler acts; the code does not ensure it.

### 2.2 PositionTracker and PositionLedger

`process_fill` is three actions: `Begin` (the synchronous decision on the cached
position), `Write` (the thread's commit of the named columns of the row as it is
by then) and `Resume` (the result goes to the cache). `sync_positions` is
`SyncFetch`, `SyncCompare`, then for each differing symbol `SyncWrite` and
`SyncResume`, and `SyncDone`. `Restart` loses the cache and every call under
way, and `initialize` reloads one open row for each symbol. `Execute` is the
exchange. `overlapped` remembers the symbols two of whose fills, or a fill and a
synchronisation, were booked at once: the promise of the module's docstring,
which `PositionLedger` states as one atomic, clipped update per fill, is checked
for the others.

### 2.3 LiveTrading

The loop's place is `at` (regime, activate, fetch, stops, signal, send, record,
backup, sleep, down) and `cur`, the tier it is at. `mem`, `db` and `json` are a
tier's state in memory, in the session row and in the backup file; `hold` is
what the account has. `Exchange` has four outcomes: filled; refused because the
account does not hold the asset; failed; executed without an answer "filled",
which stands for a lost answer, a late one and `partially_filled`, since
`submit_market_order` returns None for all. `Record` changes the state dict and
writes the row; `Backup` writes the file, which is where a death can leave a
truncated file. `ExitApproved` and `EntryApproved` are `_check_risk_guards` as
`_process_tier` uses it: only a reason that names the kill switch holds an exit
back, every reason an entry.

### 2.4 SystemState

One row, two parts (kill switch, breaker entries; the regime entry beside them
makes no difference to any property), and callers that go idle -> update ->
commit: `Copy` is the read of `get_system_state` in its own session with what is
to be written set in it, `Commit` writes all of it back. Any calls may overlap.
The kill switch's code, the breaker manager's last saved value and the dead
man's switch are the rest of the state. The histories `during` (what others have
committed during a call) and `lost` (what of it the call has written over) name
what an overlap can undo, and nothing else can.

### 2.5 Orchestrator and EntryCoordinator

`pc` is where `start()` and the loop are: off, checklist, top, health,
strategies, rest, sleep. Cycles are cut where the loop awaits. `stop` is a call
of its own that does not wait for the loop; when it falls into `start()`, before
`_running` is set, it is undone (`undone`). `mode` is the degradation mode,
`Watchdog` the dead man's switch the same loop feeds. The coordinator's heap is
a set with priorities, its times are ages in ticks of the interval.

### 2.6 The other modules

| Module | Code | State and what is abstracted |
|---|---|---|
| `StrategyLifecycle` | `strategy/engine.py` | the row, the API's call and the hourly check under way; conditions are names, their ages days |
| `RiskPipeline` | `risk/controller.py`, `checks.py`, `circuit_breakers.py`, filters, volatility cooldown | approvals that are executed later; values in shares of the equity; breakers with remaining cooldowns in memory and row |
| `Sizing` | `risk/sizing.py` | one request, all methods, in whole numbers with the code's roundings |
| `RateLimiter` | `rate_limiter.py` | tokens in units, one caller served, the others in line |
| `ExchangeCalls` | `client.py`, `execution.py`, `exceptions.py` | a call through both layers, its errors as the code maps them, orders of the exchange |
| `EventBus` | `event_bus.py`, `api/routes/events.py` | queues of numbered events, the streams and where each is |
| `Alerting`, `Summaries` | `alerting/` | the limiter's log, pending alerts, sends under way; the two summary loops and what they collect |
| `MarketData` | `data/cache.py`, `cached.py`, `service.py`, `market_data.py` | entries with ages, requests under way; pages of candles |
| `Monitoring` | `monitoring/service.py` | records by day, an update cut at its awaits, the clock |
| `Backups` | `config/backup.py` | files by the second of their making, the policy's run |
| `PaperTrading` | `strategy/paper/engine.py` | cursor, position, log, the saved row; a bar only says whether stop or target was reached |
| `PaperSessions` | `api/routes/paper_trading.py`, `paper/manager.py` | engines ever made, the dictionary's one, results, the last answer |
| `PaperMonitor` | `scripts/run_paper_trading.py` | what was seen and announced; a look that waits between alerts |
| `RegimeRouting` | `strategy/regime/` | the last two daily bars, each detector's answer, the engines |
| `Backtest` | `strategy/backtest/` | integer cash, position, sums of the log |
| `SignalRules` | `strategy/generators/`, `research/generators/` | a generator's conditions, its way and its levels: all combinations |
| `Indicators` | `indicators/` | each `calculate` as an operator over a series in cents |
| `Biographies` | `research/biographies`, `retrospective_dsr.py`, `regime_dsr.py`, `generate_post_mortem.py` | the files of two folders, a script's place between two writes |
| `PointInTime` | `research/features`, `research/data` | a cache, its window, the accessor's answer and the store's |
| `Liquidations` | `research/data/liquidation_collector.py` and store | buffer, memory of seen events, files, connection |
| `Promotion` | `validation_report.py`, `run_live_trading.py` (gate) | rows of sessions, the gate between its two reads, alerts |

## 3. What is checked

| Run | Module | Verdict | Distinct states | What it shows |
|---|---|---|---|---|
| `lifecycle_core` | `MCLifecycles` | holds | 470,340 | one order through all its coroutines with a failing call and a crash or shutdown, and its refinement of `OrderContract`; the system's row with two updates at a time, a failing commit or a restart; a strategy's lifecycle beside the hourly check; the daily P&L records; the backups |
| `position_core` | `MCPositionTracker` | holds | 735,861 | three fills of two symbols, overlapping each other and a synchronisation, a failing call, a restart: updates find their row, and books that were not overlapped are those of the ledger |
| `live_core` | `MCLiveTrading` | holds | 706,922 | two tiers on one symbol through polls, stops, restarts, a failing call, a death, and a kill switch toggled at will |
| `orchestrator_core` | `MCOrchestrator` | holds | 1,095,604 | three entries on two symbols through cycles, switch, health, signals and a stop at any moment |
| `controls_core` | `MCControls` | holds | 1,090,082 | risk checks, sizing, rate limits, exchange calls, events, alerts, summaries, caches and paging, each alone |
| `simulation_core` | `MCSimulation` | holds | 1,485,236 | paper session, regime routing, backtest, generators, indicators, each alone |
| `research_core` | `MCResearch` | holds | 610,616 | biographies, channels, collector, paper sessions of the API, trade monitor, report and gate, each alone |
| `order_double_fill` | `OrderLifecycle` | violated | | with reconciliation, one fill can get two trades |
| `system_overlap` | `SystemState` | violated | | an overlapping update writes the kill switch back as inactive |
| `orchestrator_sticky` | `MCOrchestrator` | violated | | after one error too many the system stays degraded for ever |
| `strategy_recurrence` | `MCStrategyLifecycle` | violated | | a condition that cleared and recurs demotes at once |
| `monitoring_losses` | `Monitoring` | violated | | the realised profit or loss of a day is recorded as zero |

Deadlock is checked in `live_core` and `system_overlap`, whose programs never
stop. It is not in the others: an order that is settled, fills that are all
booked, a system that has been stopped or a clock at its bound leave nothing to
do.

### 3.1 Properties

Every property is stated in its module with a comment that says what it means.

* **Orders.** `TradesMatchFills` (a FILLED row has a trade; the submission and
  the monitoring task never both write one), `TraceableUnlessFault`,
  `ImplementsContract` (refinement), `SubmittedSettles` (liveness).
* **System row.** `NothingIsUndone` (a code clears once for each thread that may
  hold it; saved breakers stay saved but for calls under way when they were),
  `HaltsHold` (the switch is cleared by a deactivation, or by a call that had
  prepared its update before the switch came on; a watchdog that triggers halts:
  liveness).
* **Strategy.** `HistoryExplainsStatus`; `DemotionIsFair` (never without its
  notice, never put off for good: liveness).
* **Upkeep.** `BackupsSurvive`; `DaysAreTold`.
* **Positions.** `BooksAgree` (rows, cache and account; commissions add up) and
  `BookedAtomically` (each booking is one step of `PositionLedger`).
* **Live runner.** `ViewsAgree` (account, memory and database), `KillSwitchStops`
  (at most the order past its guard and one exit for each failed read),
  `StopsEnforced` (liveness).
* **Orchestrator.** `HaltStopsEntries`; `TroubleEnds` (the queue drains and
  warnings that end lead back to normal: liveness).
* **Controls.** `ExposureWithinLimits`, `TripsAreHonoured`, `SizeIsSound`,
  `CallsArePaidFor`, `AnswersTellTheTruth`, `EventsAreAccountedFor`,
  `FloodsAreBounded`, `SummariesAreSound`, `DataIsWhatWasAsked`.
* **Strategy side.** `SessionsResume`, `FailsClosed`, `LedgerBalances`,
  `EntriesAreSound`, `NewBarsOnlyExtend`.
* **Research and promotion.** `HistoryTellsTheVerdict`, `VerdictsAreNeverLost`,
  `NothingBeforeItsTime`, `EventsAreKept`, `SessionsAreSingle`,
  `NoTradeGoesUntold`, `VerdictsAgree`, `EarnedTiersGoLive` (liveness).
* **Violated.** `OneTradePerFill`, `OnlyDeactivationClears`,
  `RecoversWhenResolved`, `RecurrenceStartsAfresh`, `RealizedIsRecorded`.

### 3.2 Bounds, and why they are enough

* **Orders**: one. Orders never share state in the manager: each variable is
  indexed by the order, and a reconciliation run works through its snapshot one
  order at a time. What interacts are the coroutines of one order, and all are
  present; one fault and one restart hit any call of any of them. The proofs
  lift the safety part to any number of orders, reconcilers, faults and restarts.
* **Positions**: two symbols show independence; three fills of one symbol reach
  open-add-close, open-close-open and over-closing; quantities 1..2 reach
  partial and excess reductions; an `Inventory` of 1 lets the first fill be a
  sale. Symmetry over fills and symbols is used here only: the properties are
  symmetric and not liveness.
* **Live runner**: two tiers on one symbol with different regimes, cap 2,
  same-direction cap 1, a loss limit of one trade: a tier can be halted while
  the other trades, a SHORT can sell what the other holds, a restored position
  can be kept out by the regime.
* **System row**: one API thread, the router, the breaker manager and the
  watchdog, any two of them at their updates at once (`MaxOverlap`): an overlap
  loses what one call writes to what another has read, which takes two. One code
  and a failing commit or a restart, in all. Two API threads in
  `system_overlap`. The theorems have no such bounds.
* **Orchestrator**: three entries on two symbols (a cooldown holds up another
  symbol's entry), a health check every second cycle, one error tolerated.
* **Strategy**: two conditions with thresholds of one and two days, one failing
  call: enough for a condition to clear and recur while the other lasts.
* **Risk**: two assets with different limits, two breakers (the drawdown one
  recovers by itself), two orders under validation, a cooldown of one tick.
  **Sizing**: all products of the listed values, chosen on both sides of each
  clamp. **Limiter**: a caller of each priority, buckets of two or three calls, a
  window of three ticks. **Calls**: two orders, one submission in doubt, with and
  without keys. **Events**: two streams, queues of two, four events.
  **Alerts**: five events of four kinds, two of which share a title, an hour of
  one tick, two ticks.
  **Summaries**: days of two ticks, weeks of two days, loops one tick late, two
  starts. **Caches**: one symbol (an answer of the wrong symbol is excluded by the
  theorem, for any number), two callers who share the series but not its
  validation, two setups that share class and listed parameters and a third that
  does not, room for two entries. **History**: six candles in pages of two, one page more than allowed.
* **Paper**: four bars, a window of two (a gap longer than the window occurs),
  two trades. **Backtest**: four bars over three prices (all candles), five
  signals, so that stop and target, gap and flip meet on one bar.
  **Generators**: every combination of each generator's conditions and of levels
  far below, just below, at, just above and far above the price.
  **Indicators**: series of up to seven bars from three kinds, one bar missing.
* **Research**: two strategies over two days; every channel's windows and
  instants of a short calendar, pages of one bar so that every window has seams;
  three events and four files with two mishaps, each of which may leave a torn
  file;
  three engines; two positions over three regimes; two sessions of up to two
  trades and four outcomes, one corrupt. The thresholds of the gate are scaled
  down with them.
* **Upkeep**: a clock that passes a midnight, an update that takes a tick, a local
  midnight one tick before that of UTC; three
  months of two days, of which the policy keeps two and one day.

### 3.3 Fairness, and why the code justifies it

* `OrderLifecycle`: a runnable coroutine is resumed by the event loop (weak
  fairness of submission in flight, monitoring, cancellation, `_handle_fill` and
  reconciliation). Starting the loop after a restart is an operator's duty
  (`start_reconciliation_loop` is public and nothing in the manager calls it),
  assumed as `WF(StartLoop)`. Nobody is obliged to submit, cancel or call the
  endpoint, and the exchange need not execute.
* `LiveTrading`: the loop takes its next step. Every wait in it is bounded: the
  HTTP timeout, the rate limiter, the poll interval. A restart is not assumed.
* `SystemState`: a call to the store that has begun goes on.
* `Orchestrator`: the event loop resumes the coroutine, time passes.
* `StrategyLifecycle`: the hourly check runs and goes on, a save that has begun
  ends, days pass.
* `Promotion` (in `research_core`): a runner that is up polls.

`MCLifecycles` repeats the fairness of its parts for when they are the one that
runs.

### 3.4 Assumptions of the models

A `merge` and its commit are one step (the row is locked or the last writer
wins; either way the copy was read before). One position of the live runner is
one unit of its symbol; P&L is a count of losing trades; the drawdown guard is
subsumed by the daily loss limit there. The equity ladder and the promotion gate
may decide either way in `LiveTrading`; the gate has its own module. Prices of
the position tracker are abstracted: commissions, one unit for each fill, are
what is left of money. Floats are whole numbers in a fine unit, rounded as the
module says. Time is ticks, and a property that speaks of durations names the
slack a late step may take. The distance of local time from UTC is a constant
(`LocalAhead`), so no change to or from summer time falls into a run. Coinbase
answers a request for more than its cap of bars without one at either end, and a
request that fails ends the fetch, as its exception does in the code. A write
that breaks off leaves a beginning of its file, cut after a line or within one.

What the proofs take for granted about the constants are the named `ASSUME`s of
the modules, which TLC evaluates for the values of the runs. Most say that bounds
are naturals and marks are no data. Those with content, and why the code meets
them:

* `FillsAssumption`, `ThresholdAssumption`: finitely many fills and conditions
  (`strategy/engine.py` declares a handful); a threshold of at least one day.
* `SizingAssumption`: requests have positive stop distances, prices and ATR (the
  sizers raise otherwise), a regime factor of at most 1
  (`RegimeAdjustments`) and a profile's cap below the cash reserve and its buffer
  (2, 3 and 5% in `risk_profiles.yaml`).
* `BacktestAssumption`: the slippage never eats up an opening price.
* `MonitoringAssumption`: the two awaits of an update take less than the cooldown
  between two updates.
* `SummariesAssumption`: a loop wakes less than a day late.
* `RulesAssumption`: ATR and stop percentages are positive; an ATR of zero is
  that of a series that never moved, which fulfils no generator's conditions.
* `MarketAssumption`, `PromotionAssumption`: expiries, page size, thresholds and
  capital are positive, results of trades are numbers.
* `KindsAssumption`, `BucketsAssumption`, `TimeAssumption`,
  `UniverseAssumption`: the kinds of bars and the three buckets are those of the
  code, a day and an hour have a length, a universe lists each strategy once.

## 4. Findings

Each is a run with the verdict "violated"; the quotations are in `PROJECT.json`.

1. `order_double_fill`: `reconcile_orders` handles a fill from the status of
   its snapshot (`order_manager.py:411`), while the submission or the
   monitoring task handles the same one: two Trade rows, two bookings.
2. `system_overlap`: `update_system_state` merges a detached copy
   (`store.py:914`): an update that only names `circuit_breakers` can clear a
   kill switch activated in between.
3. `orchestrator_sticky`: `errors_caught` counts over the whole run, the
   threshold is "per hour" (`orchestrator.py:807`, 986), so that degradation
   never ends.
4. `strategy_recurrence`: the tracking dictionary is changed in place and
   compared with itself (`strategy/engine.py:637`); what has cleared is never
   written.
5. `monitoring_losses`: trades have no `realized_pnl`, so the records' realised
   part is 0 (`monitoring/service.py:149`) and the daily loss limits that read
   it never see a realised loss.

## 5. What is proved

All theorems are for every value of the constants under the named assumptions
of the modules (bounds are naturals, names are distinct, functions have their
domains). The runs show the same properties on small instances.

| Module | Theorem | Statement |
|---|---|---|
| `OrderLifecycleProofs` | `TypeCorrect` | `Spec => []TypeOK` |
| | `PersistenceFirst` | nothing reaches the exchange without a row |
| | `TradesExecuted` | no trade before the exchange has filled the order |
| | `TradesMatched` | `Spec => []TradesMatchFills` |
| | `BookedTraded` | no more bookings than trades |
| | `WatchedTraceable` | a monitored row has the exchange's identifier |
| | `TracedUnlessFault` | `Spec => []TraceableUnlessFault` |
| | `RowsNeverReopen` | no step reopens a row |
| | `Refinement` | `Spec => ImplementsContract` |
| `PositionTrackerProofs` | `BooksDoAgree` | `Spec => []BooksAgree` |
| | `FillsAreAtomic` | `Spec => BookedAtomically` (steps of `PositionLedger`) |
| `LiveTradingProofs` | `SwitchStopsTrading` | `Spec => []KillSwitchStops` |
| | `MemoryIsSaved` | `Spec => []SavedIsCurrent`, a conjunct of `ViewsAgree` |
| | `ViewsDoAgree` | `Spec => []ViewsAgree` |
| `LifecycleProofs` | `LittleIsUndone` | `SystemSpec => []NothingIsUndone` |
| | `HaltHolds` | `SystemSpec => OnlyOverlappedCallsClear`, half of `HaltsHold` |
| | `HistoryHolds` | `StrategySpec => []HistoryExplainsStatus` |
| | `NoticeIsGiven` | `StrategySpec => NoDemotionWithoutNotice`, half of `DemotionIsFair` |
| | `BackupsDoSurvive` | `... => []BackupsSurvive` |
| | `DaysAreRecorded` | `MonitoringSpec => []DaysAreTold` |
| `ControlProofs` | `TripsHonoured` | `... => TripsAreHonoured` |
| | `ExposureStaysWithinLimits` | `... => []ExposureWithinLimits` |
| | `TruthfulAnswers` | `CallSpec => []AnswersTellTheTruth` |
| | `SizesAreSound` | `... => []SizeIsSound` |
| | `GrantsArePaidFor` | `... => []CallsArePaidFor` |
| | `NoEventIsLost` | `... => []EventsAreAccountedFor` |
| | `AlertsNeverFlood` | `... => []FloodsAreBounded` |
| | `SummariesDoNotRepeat` | `... => []SummariesAreSound` |
| | `DataIsAsked` | `... => []DataIsWhatWasAsked` |
| `SimulationProofs` | `SessionsDoResume` | `... => []SessionsResume` |
| | `RoutingFailsClosed` | `... => []FailsClosed` |
| | `LedgersBalance` | `... => []LedgerBalances` |
| | `HaltIsHonoured` | `Spec => []HaltStopsEntries` |
| | `EntriesHold` | `... => []EntriesAreSound` |
| `ResearchProofs` | `SingleAndHonest` | `... => []SessionsAreSingle` |
| | `TradesAreTold` | `... => []NoTradeGoesUntold` |
| | `LiquidationsAreKept` | `LiqSpec => []EventsAreKept` |
| | `HistoriesTell` | `BioSpec => []HistoryTellsTheVerdict` |
| | `VerdictsAreKept` | `BioSpec => VerdictsAreNeverLost` |
| | `NothingIsKnownEarly` | `TimeSpec => []NothingBeforeItsTime` |
| | `OneMind` | `... => []VerdictsAgree` |

**Orders.** The properties are not inductive: that no handler writes a trade for
an unfilled order depends on every handler inside `_handle_fill` having seen a
filled one, and that a FILLED row has a trade depends on what each coroutine is
about to write. `IInv` is `TypeOK` with `RowInv` (until `submit_order` has
recorded the identifier it is the row's only writer; every row past PENDING and
not REJECTED carries it), `TaskInv` (every other coroutine works on rows with an
identifier), `FillInv` (a handler inside `_handle_fill` has an order the exchange
has filled, and is one trade ahead of its bookings until it books), `ReplyInv`
(an answer about to be written still holds), and that a FILLED row has a trade.
Each conjunct has its lemma for a step. `TradesMatched` adds `OwnInv`: of the
submission and the monitoring task only one has ever been in charge of the
order's fill. `TracedUnlessFault` adds `TracedInv`: until something fails, what
the exchange has accepted is in its row or in the answer the submission is about
to write. `Refinement` maps `recorded` to rows with a status, `placed` to
orders known to the exchange, `complete` to orders it has filled.

**The system's row.** `SystemInv`, whichever updates overlap: a copy that would
clear the switch is a deactivation's or older than the switch (`HaltSeen`); what a
call holds of the breakers is what was saved, unless they were saved during it
(`SavedSeen`); and a code's uses and the threads that still hold it are together
no more than there are threads (`Codes`), because whoever is accepted with a code
finds it unused. `system_overlap` shows an overlap that clears the switch.

**The live runner.** `KillInv` counts the order under way in advance: when the
switch is set, one can be past its guard, and from then on only a failing read
lets another through. `SavedInv`: between the two writes of a save the row
already is memory's (`RowFirst`), and a row that exists is what a restart loads.

**The orchestrator.** `HaltInv`: a `stop()` ends the while test for good unless
it is undone (`StopIsFinal`); after the one release the cycle is past the queue
and, while the halt lasts, no cycle gets there (`OneCycle`).

**The breakers.** `TripsInv`: for a trip that has been written, memory and row
both have at least what remains of it (`Covers`), so that the check finds it
whichever of the two a restart goes back to.

**The strategy.** `HistoryInv`: a copy that is going to be saved was a chain
that ended in its own status when it was read, and its next status is permitted
from there (`CopiesLead`); it may be old by then, but it brings both along.

**Exchange calls.** `CallInv`: every order in the exchange's book is confirmed or
in doubt, up to the reply that is on its way (`Accounts`), and a reply that tells
of an order's end, or of an order that is not there, still holds when the caller
is given it (`Statuses`).

**Paper sessions.** `DeskInv`: only the engine in the dictionary runs (`One`),
results are of an engine that was told to stop (`Honest`), and a replay that
runs has no trades yet, so that the assignment at its end lowers nothing
(`ReplaysAreOneStep`).

**Positions.** `TrackerInv`: of a symbol that has never been overlapped one call
is under way at a time, and what it decided on is still the cache and the row
(`OneAtATime`, `Writing`, `Resuming`, `Settled`); its rows have one commission for
each booked fill (`FeesAddUp`), and what the account holds is the inventory, the
booked positions, the excess of over-closing and the fills that still wait
(`BalanceAddsUp`). From it every booking is one step of the ledger:
the update lands on what it was computed from.

**The live runner's holdings.** `LiveInv` adds to `SavedInv` that an order under
way is of the tier the loop is at (`OrderInv`), that the backup file never knows
more than the row (`RowBeforeFile`), so that the older of the two is never
restored, and `HoldingsAddUp` itself, in which the one order executed and not yet
recorded is counted.

**Demotion.** `NoticeInv`: an age written in the row, or in the copy the check is
about to save, is no greater than the time since a check first saw the condition,
both capped where the longest threshold can no longer tell them apart. A save
that fails or comes late only makes ages younger.

**Backups and daily records.** `BackupInv`: what is in the folder is what was
made, and what the policy promises is there and not doomed, whichever way the
clock moves on; a completed run leaves at most one file for each day and month it
keeps, which is an injection into days and months. `DayInv`: an update under way
has read every trade of its day that was executed before it began (`UpdateInv`),
the trades between the day's UTC midnight and the last write are in the record of
that write's day (`WriteInv`), and how far a record may lag behind (`LagInv`) depends on whether
the update is idle and the current cycle has run.

**Limits, sizes and rates.** `PortfolioInv`: unless two validations overlapped,
at most one order is approved and not yet executed, and it fits the positions as
they are. `SizesAreSound` has no invariant, only arithmetic: one lemma for each
method and for the clamps after it, with the roundings. `LimitInv`: for each tick
of the window, what was granted from then on and what the bucket holds now were
in the bucket then or have been earned since (`PaidSince`).

**Events, alerts, summaries.** `BusInv`: what a stream got and what waits for it,
put together, is increasing and misses only what was refused. `FloodInv`: the
limiter's memory holds every alert of the last hour, and the title's entry is no
older than the last alert with it. `LogInv`: a loop that sleeps will wake at a
midnight which none of its summaries has seen.

**Market data.** `CacheInv`: an entry answers every question that stands for its
key, and the age of its prices and what is left of its expiry add up to no more
than its caches' expiries and a request's delay (`EntriesFit`); the same holds of
what a request under way will bring (`CallFits`), so it does not matter which of
two answers is written last. `HistInv`: what has been fetched is what can be
parsed up to the cursor, which stands at its last candle.

**Paper, routing, backtest.** `PaperInv` says of the session in memory and of the
one in the row alike that every bar up to the cursor has been looked at and that
numbers of trades never recur. `RouteInv`: while the bars stand still, what the
second detector finds is of the side the first one found; a tagged engine fits
what was applied and, between two checks, what was found unless the coarse regime
was not (`Fitting`). `LedgerInv`: cash and
what the position cost add up after every step of a bar.

**Generators.** No state: the lemmas go through the generators by the shape of
their rule. `Sided` is that the stop limits a loss; `Reflects` that mirroring
view and price mirrors the answer. `AskedWell` says what a generator is asked
about. The attempt found what no run had: a SuperTrend line that equals the price
puts the stop of `supertrend_volume_macd` at the price. The property now names
that case and `Levels` reaches it.

**Trade monitor, collector, biographies, channels.** `MonInv`: while saves succeed
the k-th trade of every engine's log is the k-th position of the session
(`Counting`), so that a number is enough to remember what was told: the trades up
to it were, or wait in the look under way. `KeptInv`: an accepted event
is lost, in the buffer or in a file of its own date; `LossInv`: each mishap has
lost no more than a full buffer and torn no more than a file, because the buffer
is flushed as soon as it is full. `BioInv`: each file is
missing, torn or tells its own history (`Tells`), and between a post-mortem's two
writes the copy says what the original says. `TimeInv`: a cache is what its
window showed at some moment up to now, a replayed window lies within it, and a
bar of it that was due and is not there is one a page left out.

**Promotion.** The verdicts need arithmetic only: gross wins and losses are no
negative numbers, and a profit factor under the threshold leaves a deficit
whatever the division cuts off (`NoDeficit`). `GateInv` is about the alerts: while
a tier waits, what its operator was told of is flagged, and once it trades
nothing more is told until the process ends.

**Sums.** The library states facts about sums by induction theorems whose
parameter is an operator, which the provers cannot take. `Sums` proves what is
needed without them: were there a counterexample there would be a least one
(`LeastNatural`, `LeastSubset`), and taking one element out of it contradicts
that; `SumStays` says the same of any set of numbers closed under addition. Most of the totals above rest on its `SumAt`, `SumZero` and `SumTakesOut`.

**Only model-checked.** Liveness (`SubmittedSettles`, `StopsEnforced`,
`WatchdogHalts` of `HaltsHold`, `TroubleEnds`, `LastingFailureDemotes` of
`DemotionIsFair`, `EarnedTiersGoLive`): weak fairness needs `ENABLED`, which is
beyond the prover. `NewBarsOnlyExtend`, about folds over series of any length.

## 6. Seen while modelling, not exhibited by a run

Orders and the exchange:

* `VALID_TRANSITIONS` is checked only by `cancel_order` and the second write of
  a reconciliation; `_handle_fill` and the monitoring task write without it, so
  CANCELLED -> FILLED happens (`order_manager.py:785`, 693).
* After a crash between the exchange's acceptance and line 228, the row has no
  identifier and reconciliation skips it for good; after a lost answer it is
  REJECTED and reconciliation does not look at it.
* An order the exchange rejects in its answer is marked SUBMITTED all the same
  (228), no task watches it (255), the table of transitions has no way from
  submitted to rejected (52), and reconciliation only logs it (425): it stays
  SUBMITTED, which `SubmittedSettles` names as its exception.
* A cancellation that fails at the exchange still marks CANCELLED (313), and an
  order that is partly executed and then cancelled or expires gets no trade
  (690).
* `create_order`'s docstring promises `BinanceAuthenticationError` for invalid
  keys, but -2014 and -2015 end as `OrderSubmissionError`; `SymbolNotFoundError`,
  rate-limit and connection errors leave the adapter unmapped although it
  documents three exceptions only; network exceptions of the SDK are not mapped
  at all. Cancelling a filled order (-2011) says `OrderNotFoundError`. -2010 is
  always called an insufficient balance. Stop orders go out without `stopPrice`.
  Commissions are summed whatever their asset. A malformed `Retry-After` raises.
* The limiter's priority 1 is "always allowed", yet waits for the lock a lower
  priority sleeps with (`rate_limiter.py:213`); partial draws are not given back
  (252); every order is submitted as a new entry; adapter and client both
  acquire for one call.

Positions:

* `sync_positions` can put a position that has been closed meanwhile back into
  the cache (452); a reduction booked early drops the excess (804). Overlapping
  fills of a symbol lose an update (207-210), against "updated atomically with
  each fill event".
* The opening commission never reaches `pnl_usdt` (808). The staleness scan
  awaits inside a loop over the live dictionary (586) and can end with
  `RuntimeError`.

Live runner and promotion:

* A death between the exchange's answer and `save_state` leaves a position no
  state names (1501); a lost or late answer counts as a failed order, and the
  next poll may repeat it. Writing the row may fail while the backup succeeds:
  the older row wins (861).
* After a restart a tier with a saved open position stays inactive, without stop
  or exit, while regime, ladder or gate do not admit it (1816).
* The words of the guard's reason decide whether an exit goes out (1321); the
  text of a failing read may contain `kill_switch`.
* The "daily" loss limit sums the tier's whole history (989). Positions restored
  later can exceed `MAX_CONCURRENT_SAME_DIRECTION`. An exception in one tier
  ends the poll for those behind it (1942). A SHORT of one tier sells what a LONG
  of another relies on (1450).
* With the default `LIVE_CAPITAL` of 20 a tier's slice is $4 and a position $1,
  below the exchange's minimum of $5: no tier ever trades and the thresholds are
  never reached, although lines 352-356 call them reachable.
* While no tier trades the active tiers' equity is 0 (1806): as long as tier 1 is
  held back, those above it are never eligible, whatever their paper record.
* Report and gate "can never disagree" (68-70): the report classifies each
  session, the gate all of a template together, so that a template is READY while
  no session is. `_is_degraded` counts quarantined trades; active tiers are never
  demoted; equal returns have a Sharpe ratio of 0.

System state, risk and monitoring:

* `any_circuit_breaker_active` is true once anything has been persisted
  (`models/system.py:106`). `persist_state` replaces the JSON and drops the
  regime's keys (`circuit_breakers.py:712`). A manual reset and trips found by
  `validate_order` are not persisted (661, `controller.py:165`).
* "One-time deactivation confirmation code" (`kill_switch.py:270`): two threads
  of the API that were accepted with it before it was spent may both clear the
  switch. A halt of the watchdog that an overlapping update writes over is not
  repeated: the trigger stays latched.
* The kill switch's docstring speaks of an in-memory flag for failing commits
  (99); there is none. An activation that meets an active row about to be cleared
  returns without effect (79).
* Two threads' approvals overlap (`order_manager.py:165`) and can exceed the
  limits together. No check looks at the cash; closing orders can be rejected;
  the risk amount is not computed again after the caps.
* The profile's `volatility_multiplier` is passed as the ATR multiple the risk is
  divided by (`controller.py:449`): 0.5 doubles an ATR-sized order, although
  `risk_profiles.yaml:28` says "Reduce position size by 50% in high volatility".
* An event is dropped from the calendar in the last minute it still blocks;
  `consecutive_losses` is never set.
* Records of P&L: the last minutes of a day may never be recorded (debounce), and
  the first minutes have no record; `date.today()` is local, the midnight made of
  it (`service.py:143`) and the executions are UTC: where local time is ahead,
  trades between the local midnight and that of UTC are in no record, where it is
  behind, those between that of UTC and the local one are in two;
  nothing is written while the kill switch is active; `weekly_pnl` sums
  unrealised values day by day; `drawdown_pct` is never written.
* Trackers of execution quality are fed by nobody; its report ignores its dates.

Orchestrator, strategies, alerts:

* A signal or a `stop()` during the startup checklist is forgotten (1425),
  although `stop()` says "Set running flag to False" (1784); `stop()` does not
  wait for the loop; the watchdog is fed and checked by one loop (1471-1481); while
  the kill switch is active every cycle is cut short before health, monitoring
  and escalations (1466). The interval of 30 seconds makes three per minute
  never bind. A strategy skipped for its errors is never restored (1594).
* Any status can be assigned and a retirement leaves assignments active; only the
  first underperformance condition is written down; a demotion that overlaps a
  retirement overwrites it.
* The daily summary counts orders since the midnight it is sent at, hence none;
  a weekly one its last seven days from the moment of sending; an error skips the
  summary, an early wake sends two.
* An alert is counted before it is delivered, its title is the kind alone, an
  acknowledgement during the sends is lost, escalations are only logged.
* A client that leaves before its response is iterated leaks its subscription.
  A full queue refuses the newest event (`event_bus.py:163-166`), although line 39
  speaks of "before oldest events are dropped": a slow client is shown events
  that are long out of date.

Strategy side:

* A bar the paper engine processed while it formed is never looked at again. Its
  forced close on stop is never saved (`paper/engine.py:626`); a load that fails
  starts afresh and the next save overwrites the history.
* POST `/paper/start` of a live session answers when the session has ended; the
  results a stop writes are taken before the forced close; a start with an
  unknown template forgets the session that had ended; simulated sessions can
  never reach the validator's 14 days.
* After a restart the trade monitor announces all old trades again; a trade that
  closes while an alert is awaited is announced twice.
* Both regime detectors count the forming daily bar; an unknown coarse regime
  drops the sub-regime found beside it and leaves tagged engines on the one applied
  before (`router.py:164`).
* Backtest: stops are not looked at on the last bar; a gap through a stop fills at
  the stop; the final equity lacks the costs of the forced close; shorts can drive
  the cash negative.
* Generators: stops of `macd_pullback` may lie above the price, and that of
  `supertrend_volume_macd` at the price when the line is; several targets
  can lie on the wrong side; exit rules by RSI in the YAML are not implemented.
  Donchian's `is_breakout_up` is never true; ADX stays NaN after a flat bar.
* Market data: the key of a series ignores what was validated, and indicators of
  one class with equal listed parameters collide (`cached.py:305`) although lines
  57 and 72 claim isolation: who asks for a validated series may be given one that
  somebody else had fetched without; of two misses the slower, older one wins; a candle's age
  counts from its open; more than 100 pages are truncated silently.

Research and upkeep:

* The retrospective's same-day rerun skips biographies but rewrites the day's
  reports. A write that is cut leaves a torn biography; a death between the
  post-mortem's two steps leaves both copies.
* A failed write of liquidations loses the batch, and its redelivery is refused
  as known, although "no buffered events are lost"; two liquidations with equal
  keys become one. A write that breaks off within a line (`liquidations.py:302`)
  leaves a file on which every reader of a window near its date fails (352), until
  it is removed by hand.
* Coinbase's pages leave bars out: the next one begins an hour after the last
  one's end (`coinbase_prices.py:166`), so that with an end that is not on the
  hour, as without `--end-date` (`regime_dsr.py:1027`), a bar between two pages is
  never asked for, and with one on the hour each page asks for one more than the
  cap (19, 141); the cache claims to cover the window all the same (227). It may
  keep a forming bar as final; the rank accessor answers at
  a bar's open, the ETF accessor a day before its declaration
  (`channels.py:84-95`); strict `as_of` raises on hourly series; the regime tag
  of a trade uses the close of its own day (`regime_tagging.py:162`).
* The backup manager is used by tests only; a death while it writes leaves a
  `.tmp` for ever; retention 0/0 deletes the backup just made; two backups within
  a second overwrite each other.

## 7. Not modelled, and why

* **Process supervision, migrations, maintenance scripts**: they start processes
  or are run by hand once; the live runner's restarts are actions of its model.
* **Frontend**: reads the API; no trading logic.
* **API** authentication, request limits, response cache, queries and
  serialisation: no state of the trading system. Endpoints with such state are
  actions of the component they belong to.
* **Statistics**: the deflated Sharpe ratio, the effective number of trials, cost
  models, execution quality and Sharpe, drawdown and Calmar ratios are formulas
  over floats; their results enter the models as small sets of values.
* **Parsing** of exchange and research sources; configuration loading; logging.
* Within modelled components: unrealised values, marks and the read-only
  staleness scan of the position tracker; `check_triggers` of the kill switch;
  manual regimes; strategy assignments and similarity; symbol metadata; funding
  in the backtest; equity snapshots; the walk-forward harness and the sweeps that
  call the backtest many times.

## 8. What is left to do

In order of importance:

1. Compose `LiveTrading` with `Promotion` (one gate per tier) and
   `OrderLifecycle` with `ExchangeCalls` (the adapter's errors in place of
   `Fault`).
2. Proofs: `NewBarsOnlyExtend`, for which each indicator's line has to be stated
   as a recursive function of the bar, so that two series with a common beginning
   can be compared up to the least bar where they differ.
3. The walk-forward harness and the sweep's choice of parameters; symbol
   metadata; the API's response cache.
