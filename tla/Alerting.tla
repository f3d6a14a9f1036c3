------------------------------ MODULE Alerting ------------------------------
(***************************************************************************)
(* Alerting (src/src/core/alerting): the triggers, the rate limiter of the *)
(* alert manager, and the escalation manager with its acknowledgements.    *)
(* Sending awaits one channel after the other, so alerts are sent beside   *)
(* each other.  Time passes in ticks; ages are ticks since an event.       *)
(***************************************************************************)
EXTENDS Integers, FiniteSets

CONSTANTS Events,       \* what may happen: [kind, subject]
          Configured,   \* the channels that exist: of "telegram", "email", "sms"
          TitleCooldown, \* TITLE_COOLDOWN_SECONDS
          Hour,         \* the window of the level limit
          LevelMax,     \* LEVEL_MAX_PER_HOUR
          EmailAfter, SmsAfter, RepeatEvery,   \* of check_escalations
          MaxTicks      \* bound: ticks

VARIABLES
    clock,        \* the ticks so far
    titles,       \* when an alert of each kind was last let through; -1: never
    times,        \* per level, its latest alerts that were let through
    standing,     \* of an event's alert: "none", "sending", "pending", "quiet", "dropped"
    sentAt, repeatedAt, escalated,   \* of a "pending" alert
    pastLog       \* history: every alert the limiter let through
alertVars == <<clock, titles, times, standing, sentAt, repeatedAt, escalated, pastLog>>

Levels == {"info", "warning", "error", "critical"}

(***************************************************************************)
(* AlertTriggers: the level of each kind.  The title is the kind's alone:  *)
(* it names neither the account nor the symbol.                            *)
(***************************************************************************)
TradingTriggers ==
    [order_filled |-> "info", order_rejected |-> "warning", daily_loss_warning |-> "warning",
     drawdown_warning |-> "warning", kill_switch_activated |-> "critical",
     circuit_breaker_triggered |-> "error"]

SystemTriggers ==
    [strategy_underperforming |-> "warning", exchange_api_error |-> "error",
     system_started |-> "info", system_stopped |-> "info", system_stopped_unexpectedly |-> "warning"]

FaultTriggers ==
    [position_sync_mismatch |-> "error", risk_limit_breached |-> "error",
     health_check_failed |-> "warning", degradation_mode_entered |-> "warning",
     degradation_mode_recovered |-> "info"]

Kinds == DOMAIN TradingTriggers \cup DOMAIN SystemTriggers \cup DOMAIN FaultTriggers

LevelOf(event) ==
    CASE event.kind \in DOMAIN TradingTriggers -> TradingTriggers[event.kind]
      [] event.kind \in DOMAIN SystemTriggers -> SystemTriggers[event.kind]
      [] OTHER -> FaultTriggers[event.kind]

ASSUME AlertsAssumption ==
    /\ \A e \in Events : e.kind \in Kinds
    /\ {TitleCooldown, Hour, LevelMax} \subseteq Nat

AlertInit ==
    /\ clock = 0
    /\ titles = [k \in Kinds |-> -1]
    /\ times = [l \in Levels |-> {}]
    /\ standing = [e \in Events |-> "none"]
    /\ sentAt = [e \in Events |-> 0] /\ repeatedAt = sentAt /\ escalated = sentAt
    /\ pastLog = {}

(***************************************************************************)
(* AlertRateLimiter.should_send.                                           *)
(***************************************************************************)
InCooldown(kind) == titles[kind] >= 0 /\ clock - titles[kind] < TitleCooldown

(* A bug of Recent: the oldest are dropped whatever their age is.          *)
RecentTail(level) == {a \in times[level] : \E b \in times[level] : b.at < a.at}

Recent(level) == {a \in times[level] : clock - a.at <= Hour}

Alert(e) == [event |-> e, at |-> clock]

Begin(e) ==
    /\ standing' = [standing EXCEPT ![e] = "sending"]
    /\ pastLog' = pastLog \cup {Alert(e)}

(* send_alert.  The limiter counts an alert before any channel has it.     *)
SendCritical(e) ==
    /\ standing[e] = "none" /\ LevelOf(e) = "critical"
    /\ Begin(e)
    /\ UNCHANGED <<clock, titles, times, sentAt, repeatedAt, escalated>>

SendAlert(e) ==
    LET level == LevelOf(e) IN
    /\ standing[e] = "none" /\ level # "critical"
    /\ ~InCooldown(e.kind) /\ Cardinality(Recent(level)) < LevelMax
    /\ titles' = [titles EXCEPT ![e.kind] = clock]
    /\ times' = [times EXCEPT ![level] = Recent(level) \cup {Alert(e)}]
    /\ Begin(e)
    /\ UNCHANGED <<clock, sentAt, repeatedAt, escalated>>

SuppressAlert(e) ==
    LET level == LevelOf(e) IN
    /\ standing[e] = "none" /\ level # "critical"
    /\ InCooldown(e.kind) \/ Cardinality(Recent(level)) >= LevelMax
    /\ times' = IF InCooldown(e.kind) THEN times ELSE [times EXCEPT ![level] = Recent(level)]
    /\ standing' = [standing EXCEPT ![e] = "dropped"]
    /\ UNCHANGED <<clock, titles, sentAt, repeatedAt, escalated, pastLog>>

(* send_with_escalation: the alert is registered as pending once the last  *)
(* of its channels has answered, or failed; critical ones repeat.          *)
Register(e) ==
    /\ standing[e] = "sending"
    /\ IF LevelOf(e) = "info" THEN /\ standing' = [standing EXCEPT ![e] = "quiet"]
                                  /\ UNCHANGED <<sentAt, repeatedAt>>
       ELSE /\ standing' = [standing EXCEPT ![e] = "pending"]
            /\ sentAt' = [sentAt EXCEPT ![e] = clock]
            /\ repeatedAt' = [repeatedAt EXCEPT ![e] = IF LevelOf(e) = "critical" THEN clock ELSE @]
    /\ UNCHANGED <<clock, titles, times, escalated, pastLog>>

(* An acknowledgement while the channels are still being sent to finds     *)
(* nothing pending and is dropped; otherwise the alert is forgotten.       *)
Acknowledge(e) ==
    /\ standing[e] \in {"sending", "pending"}
    /\ IF standing[e] = "sending" THEN UNCHANGED <<standing, sentAt, repeatedAt, escalated>>
       ELSE /\ standing' = [standing EXCEPT ![e] = "quiet"]
            /\ sentAt' = [sentAt EXCEPT ![e] = 0]
            /\ repeatedAt' = [repeatedAt EXCEPT ![e] = 0]
            /\ escalated' = [escalated EXCEPT ![e] = 0]
    /\ UNCHANGED <<clock, titles, times, pastLog>>

(***************************************************************************)
(* check_escalations, over all pending alerts.  The SMS branch comes first *)
(* and hides the e-mail branch, whether there is an SMS channel or not.    *)
(***************************************************************************)
Repeats(e) == LevelOf(e) = "critical" /\ clock - repeatedAt[e] >= RepeatEvery

EscalatedTo(e) ==
    LET elapsed == clock - sentAt[e] IN
    CASE LevelOf(e) = "critical" -> escalated[e]
      [] LevelOf(e) # "critical" /\ elapsed > SmsAfter /\ escalated[e] < 2 ->
            IF "sms" \in Configured THEN 2 ELSE escalated[e]
      [] LevelOf(e) # "critical" /\ ~(elapsed > SmsAfter /\ escalated[e] < 2) ->
            IF elapsed > EmailAfter /\ escalated[e] < 1 /\ "email" \in Configured THEN 1 ELSE escalated[e]

CheckEscalations ==
    LET pending == {e \in Events : standing[e] = "pending"} IN
    /\ pending # {}
    /\ repeatedAt' = [e \in Events |-> IF e \in pending /\ Repeats(e) THEN clock ELSE repeatedAt[e]]
    /\ escalated' = [e \in Events |-> IF e \in pending THEN EscalatedTo(e) ELSE escalated[e]]
    /\ UNCHANGED <<clock, titles, times, standing, sentAt, pastLog>>

AlertTick ==
    /\ clock < MaxTicks
    /\ clock' = clock + 1
    /\ UNCHANGED <<titles, times, standing, sentAt, repeatedAt, escalated, pastLog>>

AlertNext ==
    \/ \E e \in Events :
         \/ SendCritical(e) \/ SendAlert(e) \/ SuppressAlert(e)
         \/ Register(e) \/ Acknowledge(e)
    \/ CheckEscalations \/ AlertTick

(***************************************************************************)
(* Properties.                                                             *)
(***************************************************************************)
\* However the events fall and however late their alerts are sent, no window
\* of an hour lets through more alerts of a level than its limit, and two of
\* the same title are never closer than the cooldown; only critical ones are
\* exempt.
FloodsAreBounded ==
    LET counted == {a \in pastLog : LevelOf(a.event) # "critical"} IN
    /\ \A a \in counted :
         Cardinality({b \in counted : LevelOf(b.event) = LevelOf(a.event)
                                      /\ b.at \in (a.at - Hour)..a.at}) <= LevelMax
    /\ \A a, b \in counted :
         a # b /\ a.event.kind = b.event.kind => a.at - b.at >= TitleCooldown \/ b.at - a.at >= TitleCooldown
=============================================================================
