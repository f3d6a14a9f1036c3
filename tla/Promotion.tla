------------------------------ MODULE Promotion -----------------------------
(***************************************************************************)
(* From paper to real money: the validation report over the rows of the    *)
(* paper sessions (src/scripts/validation_report.py) and the gate that the *)
(* live runner (src/scripts/run_live_trading.py) puts before a tier.  The  *)
(* report looks at each session, the gate at all the sessions of the       *)
(* tier's template together, and the gate's two checks read the database   *)
(* one after the other while the paper engines write to it.  One template, *)
(* one tier.  Prices are in tenths of a dollar, a trade's return is        *)
(* proportional to its profit, and the numbers of trades are scaled down.  *)
(***************************************************************************)
EXTENDS Integers, Sequences, FiniteSets, Functions

CONSTANTS ReadyMinTrades, ObservingMinTrades, DegradedMinTrades,
          Capital,          \* initial capital of a session
          Outcomes,         \* the trades a session may log: [entry, exit, pnl]
          MaxSessions,      \* bound: sessions of the template
          MaxLogged         \* bound: trades logged in all

VARIABLES
    records,       \* the trade_log of each session, in the order of the rows
    primary,    \* the tier is tier 1
    runner,     \* "down", "waiting" or "checked" (the demotion check has passed)
    tierActive,     \* tier.active
    eligible,   \* the regime is the tier's, and the equity of the active tiers has
                \* reached its threshold
    full,       \* the other tiers leave no slot or no capital (_can_activate_tier)
    alerted,    \* the alert-once flags in tier.state
    alerts      \* history: alerts of a blocked activation since the start
gateVars == <<records, primary, runner, tierActive, eligible, full, alerted, alerts>>

ASSUME PromotionAssumption ==
    /\ {ReadyMinTrades, ObservingMinTrades, DegradedMinTrades, Capital} \subseteq Nat \ {0}
    /\ Outcomes \subseteq [entry : Int, exit : Int, pnl : Int]

PromInit ==
    /\ records = <<>> /\ primary \in BOOLEAN
    /\ runner = "down" /\ tierActive = FALSE /\ eligible = TRUE /\ full = FALSE
    /\ alerted = {} /\ alerts = [degraded |-> 0, unready |-> 0, start |-> 0]

(***************************************************************************)
(* The trades, each known by its session and its place in that one's log,  *)
(* and the statistics of some of them.                                     *)
(***************************************************************************)
LogOf(s) == {s} \X DOMAIN records[s]
Pooled == UNION {LogOf(s) : s \in DOMAIN records}
TradeAt(k) == records[k[1]][k[2]]

(* The sessions in the order of the rows, the trades in that of the log.   *)
UpTo(j, k) == j[1] < k[1] \/ (j[1] = k[1] /\ j[2] <= k[2])

(* _is_corrupt_force_close: an exit price of a dollar or two, ten times    *)
(* away from the entry.                                                    *)
IsCorrupt(t) ==
    /\ t.entry > 0 /\ t.exit > 0
    /\ t.exit \in 5..30
    /\ t.entry > 10 * t.exit \/ t.exit > 10 * t.entry

Genuine(log) == {k \in log : ~IsCorrupt(TradeAt(k))}
Pnl(k) == TradeAt(k).pnl
Total(log) == SumFunction([k \in log |-> Pnl(k)])
WinsSum(log) == Total({k \in log : Pnl(k) > 0})
LossesSum(log) == -Total({k \in log : Pnl(k) <= 0})

(* _profit_factor, as a ratio: infinite with wins and no losses, zero with *)
(* neither.                                                                *)
ProfitFactor(log) == [wins |-> WinsSum(log), losses |-> LossesSum(log)]
Infinite(pf) == pf.losses = 0 /\ pf.wins > 0
AtLeast(pf, hundredths) == Infinite(pf) \/ (pf.losses > 0 /\ 100 * pf.wins >= hundredths * pf.losses)

(* _sharpe_per_trade >= 1: the mean is at least the sample deviation, which*)
(* must not be zero.                                                       *)
SharpeIsOne(log) ==
    LET n == Cardinality(log)
        sum == Total(log)
        squares == SumFunction([k \in log |-> Pnl(k) * Pnl(k)])
    IN /\ n >= 2 /\ sum > 0
       /\ n * squares > sum * sum
       /\ sum * sum * (2 * n - 1) >= n * n * squares

(* _max_drawdown_pct > 5.0, from the start or from a later peak.           *)
Equity(log, capital, k) == capital + Total({j \in log : UpTo(j, k)})
DrawdownTooDeep(log, capital) ==
    LET curve == {[at |-> k, equity |-> Equity(log, capital, k)] : k \in {<<0, 0>>} \cup log}
        IsPeak(peak, now) == \A p \in curve : UpTo(p.at, now.at) => p.equity <= peak.equity
    IN \E peak, now \in curve :
          /\ UpTo(peak.at, now.at)
          /\ 100 * (peak.equity - now.equity) > 5 * peak.equity
          /\ IsPeak(peak, now)

(* _classify.                                                              *)
IsReady(log, capital) ==
    /\ Cardinality(log) >= ReadyMinTrades
    /\ AtLeast(ProfitFactor(log), 135)
    /\ SharpeIsOne(log)
    /\ ~DrawdownTooDeep(log, capital)

Classify(log, capital) ==
    LET n == Cardinality(log)
        pf == ProfitFactor(log)
        ready == IsReady(log, capital)
    IN CASE ready -> "READY_FOR_LIVE"
         [] ~ready /\ n >= DegradedMinTrades /\ ~AtLeast(pf, 80) -> "DEGRADED"
         [] ~ready /\ n >= ObservingMinTrades /\ AtLeast(pf, 100) -> "OBSERVING"
         [] OTHER -> "RESEARCH"

(***************************************************************************)
(* The report.                                                             *)
(***************************************************************************)

(* A bug of PfDeficit: an infinite profit factor is compared like any      *)
(* other, with the zero its missing losses make of it.                     *)
PfDeficitFinite(pf) ==
    IF pf.losses = 0 THEN 135 ELSE IF AtLeast(pf, 135) THEN 0 ELSE 135 - (100 * pf.wins) \div pf.losses

PfDeficit(pf) ==
    IF AtLeast(pf, 135) THEN 0
    ELSE IF pf.losses = 0 THEN 135 ELSE 135 - (100 * pf.wins) \div pf.losses

(* promotion_distance; of the Sharpe ratio and of the drawdown only        *)
(* whether there is a gap.                                                 *)
PromotionDistance(log) ==
    LET n == Cardinality(Genuine(log)) IN
    [trades_needed |-> IF n >= ReadyMinTrades THEN 0 ELSE ReadyMinTrades - n,
     pf_deficit |-> PfDeficit(ProfitFactor(Genuine(log))),
     sharpe_deficit |-> IF SharpeIsOne(Genuine(log)) THEN 0 ELSE 1,
     dd_overage |-> IF DrawdownTooDeep(Genuine(log), Capital) THEN 1 ELSE 0]

NothingNeeded(log) ==
    LET distance == PromotionDistance(log) IN \A gap \in DOMAIN distance : distance[gap] = 0

(* compute_session_stats.                                                  *)
Reported(log) == Classify(Genuine(log), Capital)
Quarantined(log) == Cardinality(log) - Cardinality(Genuine(log))
QuarantineFlag(log) == log # {} /\ 5 * Quarantined(log) > Cardinality(log)

(* aggregate_by_template, and the lists of the report and its summary.     *)
SessionsAt(class) == {s \in DOMAIN records : Reported(LogOf(s)) = class}
Pending == DOMAIN records \ SessionsAt("READY_FOR_LIVE")
TradeGaps == {s \in Pending : PromotionDistance(LogOf(s)).trades_needed > 0}

(***************************************************************************)
(* The gate.                                                               *)
(***************************************************************************)
(* _paper_strategy_is_degraded: every trade counts, the corrupt ones too.  *)
IsDegraded ==
    LET pf == ProfitFactor(Pooled) IN
    Cardinality(Pooled) >= DegradedMinTrades /\ pf.losses > 0 /\ ~AtLeast(pf, 80)

(* _paper_strategy_classification: the genuine trades of all the sessions, *)
(* over the sum of their capital.                                          *)
Classification == Classify(Genuine(Pooled), Len(records) * Capital)

Blocked == Classification # "READY_FOR_LIVE"

Alert(kind, flag) ==
    /\ alerts' = [alerts EXCEPT ![kind] = IF flag \in alerted THEN @ ELSE @ + 1]
    /\ alerted' = alerted \cup {flag}

(* main: tier 1 goes through the gate at the start; if it is blocked there *)
(* its flags are set, since it has been told of.  A database that cannot   *)
(* be read blocks nothing.                                                 *)
Start(readable) ==
    /\ runner = "down"
    /\ runner' = "waiting"
    /\ tierActive' = (primary /\ ~(readable /\ Blocked))
    /\ IF primary /\ ~tierActive'
       THEN /\ alerted' = {"degradation", "promotion"}
            /\ alerts' = [alerts EXCEPT !.start = 1]
       ELSE UNCHANGED <<alerted, alerts>>
    /\ UNCHANGED <<records, primary, eligible, full>>

(* The activation check of a poll, its first read.                         *)
CheckDemotion(readable) ==
    /\ runner = "waiting" /\ ~tierActive /\ eligible
    /\ IF readable /\ IsDegraded
       THEN Alert("degraded", "degradation") /\ UNCHANGED runner
       ELSE runner' = "checked" /\ UNCHANGED <<alerted, alerts>>
    /\ UNCHANGED <<records, primary, tierActive, eligible, full>>

(* A bug of Admit: a tier whose operator has been alerted is not looked at *)
(* again.                                                                  *)
AdmitUnlessAlerted(readable) == alerted = {} /\ ~(readable /\ Blocked)

Admit(readable) == ~(readable /\ Blocked)

(* Its second read.                                                        *)
CheckPromotion(readable) ==
    /\ runner = "checked"
    /\ runner' = "waiting"
    /\ tierActive' = (Admit(readable) /\ ~full)
    /\ IF tierActive' THEN alerted' = {} /\ UNCHANGED alerts
       ELSE IF readable /\ Blocked THEN Alert("unready", "promotion")
       ELSE UNCHANGED <<alerted, alerts>>
    /\ UNCHANGED <<records, primary, eligible, full>>

(* The runner stops or dies.                                               *)
Stops ==
    /\ runner # "down"
    /\ runner' = "down" /\ tierActive' = FALSE
    /\ alerted' = {} /\ alerts' = [kind \in DOMAIN alerts |-> 0]
    /\ UNCHANGED <<records, primary, eligible, full>>

(* The other tiers come and go, earn and lose, and the regime changes.     *)
OthersMove ==
    /\ eligible' \in BOOLEAN /\ full' \in BOOLEAN
    /\ UNCHANGED <<records, primary, runner, tierActive, alerted, alerts>>

(***************************************************************************)
(* The paper engines.                                                      *)
(***************************************************************************)
NewSession ==
    /\ Len(records) < MaxSessions
    /\ records' = Append(records, <<>>)
    /\ UNCHANGED <<primary, runner, tierActive, eligible, full, alerted, alerts>>

LogTrade(s, t) ==
    /\ Cardinality(Pooled) < MaxLogged
    /\ records' = [records EXCEPT ![s] = Append(@, t)]
    /\ UNCHANGED <<primary, runner, tierActive, eligible, full, alerted, alerts>>

Poll ==
    \E readable \in BOOLEAN : CheckDemotion(readable) \/ CheckPromotion(readable)

PromNext ==
    \/ Poll
    \/ \E readable \in BOOLEAN : Start(readable)
    \/ Stops \/ OthersMove
    \/ NewSession
    \/ \E s \in DOMAIN records, t \in Outcomes : LogTrade(s, t)

(***************************************************************************)
(* Properties.                                                             *)
(***************************************************************************)
Spotless == \A k \in Pooled : ~IsCorrupt(TradeAt(k))

\* The report and the gate are of one mind: a session lacks nothing on any
\* dimension exactly when it is READY, and is then missing from the pending
\* ones; of a template with one session the gate thinks what the report says;
\* the gate's two checks contradict each other only over corrupt trades; and
\* of each obstacle the operator is told once per run of the process, of one
\* found at the start not again.
VerdictsAgree ==
    /\ Pending = {s \in DOMAIN records : ~NothingNeeded(LogOf(s))}
    /\ Len(records) = 1 => Classification = Reported(LogOf(1))
    /\ ~Blocked /\ Spotless => ~IsDegraded
    /\ alerts.degraded <= 1 /\ alerts.unready <= 1
    /\ alerts.start = 1 => alerts.degraded = 0 /\ alerts.unready = 0

\* A tier that was refused, and was told of, is looked at again in every poll
\* that finds it eligible: once its paper record is READY and not degraded, its
\* regime is the market's, the active tiers' equity has reached its threshold
\* and a slot is free, and all this stays so while the runner is up, it trades.
\* The equity counts nothing while no tier trades (run_live_trading.py:1806): as
\* long as tier 1 is held back at the start, those above it stay ineligible
\* whatever their record.
EarnedTiersGoLive ==
    <>[](runner # "down" /\ eligible /\ ~full /\ ~Blocked /\ ~IsDegraded) => <>[]tierActive
=============================================================================
