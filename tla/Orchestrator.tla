----------------------------- MODULE Orchestrator ----------------------------
(***************************************************************************)
(* The main loop of src/src/core/orchestrator.py: the startup checklist,   *)
(* signals and stop, the kill switch read at the top of every cycle, the   *)
(* health check with the degradation manager behind it, the dead man's     *)
(* switch that the same loop feeds and checks, and the entry queue.        *)
(*                                                                         *)
(* A cycle is cut where the loop awaits; the API's threads, time and the   *)
(* machine's health move in between.  _status is only reported: no step of *)
(* the loop reads it, and it is left out.                                  *)
(***************************************************************************)
EXTENDS EntryCoordinator

CONSTANTS HealthEvery,      \* HEALTH_CHECK_INTERVAL_CYCLES
          ErrorThreshold,   \* HealthChecker.ERROR_RATE_THRESHOLD
          MaxMissed         \* heartbeats the dead man's switch lets pass

ASSUME LoopAssumption ==
    HealthEvery \in Nat \ {0} /\ ErrorThreshold \in Nat /\ MaxMissed \in Nat \ {0, 1}

VARIABLES
    running,    \* _running
    pc,         \* where start() and the loop it runs are
    stopped,    \* stop() has been called
    cycle,      \* cycle_count, modulo HealthEvery
    mode,       \* _mode of the degradation manager
    errors,     \* metrics.errors_caught, capped above the threshold
    health,     \* the machine and the database, as the checks find them
    killed,     \* kill_switch_active of the system_state row
    missed,     \* _missed_count
    triggered,  \* _triggered
    overrun,    \* history: entries released since the kill switch or stop
    undone      \* history: start() has set _running after stop() cleared it

loopVars == <<running, pc, stopped, cycle, mode, errors>>
dogVars == <<missed, triggered>>
vars == <<loopVars, dogVars, health, killed, overrun, undone, entryVars>>

HealthStates == {"ok", "slow", "down", "critical"}

Init ==
    /\ EntryInit
    /\ running = FALSE /\ pc = "off" /\ stopped = FALSE
    /\ cycle = 0 /\ mode = "normal" /\ errors = 0
    /\ health \in HealthStates /\ killed \in BOOLEAN
    /\ missed = 0 /\ triggered = FALSE
    /\ overrun = 0 /\ undone = FALSE

(***************************************************************************)
(* Start, signals and stop.                                                *)
(***************************************************************************)
(* A process that has been stopped is not started again.                   *)
Start ==
    /\ pc = "off" /\ ~stopped
    /\ pc' = "checklist"
    /\ UNCHANGED <<running, stopped, cycle, mode, errors, dogVars, health, killed, overrun,
                   undone, entryVars>>

(* The database and the disk; what looks at configuration and templates is *)
(* not modelled and may fail at any time.                                  *)
CanPass == health \notin {"down", "critical"}

(* The checks run in order and the first that fails ends the start. What   *)
(* stop() has set while start() awaited them, or the alert after them, is  *)
(* overwritten.                                                            *)
ChecklistDone ==
    /\ pc = "checklist"
    /\ \/ /\ CanPass
          /\ running' = TRUE /\ pc' = "top"
          /\ undone' = stopped
       \/ pc' = "off" /\ UNCHANGED <<running, undone>>
    /\ UNCHANGED <<stopped, cycle, mode, errors, dogVars, health, killed, overrun, entryVars>>

HandleSignal ==
    /\ pc # "off" /\ running
    /\ running' = FALSE
    /\ UNCHANGED <<pc, stopped, cycle, mode, errors, dogVars, health, killed, overrun,
                   undone, entryVars>>

(* stop() asks nothing of the state it finds: the loop may run, or the     *)
(* checklist, or nothing. What it awaits then, the scheduler, the order    *)
(* manager and the last alert, does not touch the loop again.              *)
StopBegin ==
    /\ running' = FALSE /\ stopped' = TRUE
    /\ overrun' = 0 /\ undone' = FALSE
    /\ UNCHANGED <<pc, cycle, mode, errors, dogVars, health, killed, entryVars>>

(***************************************************************************)
(* One cycle.                                                              *)
(***************************************************************************)
CaughtError ==
    /\ errors' = IF errors > ErrorThreshold THEN errors ELSE errors + 1
    /\ pc' = "sleep"

(* A bug of Blocked: the kill switch is not read at the top of the cycle.  *)
BlockedNever == FALSE

Blocked == killed

Heartbeat == missed' = 0 /\ UNCHANGED triggered

(* The while test, the heartbeat, and is_active, which reads the database. *)
Top ==
    /\ pc = "top"
    /\ IF ~running
       THEN pc' = "off" /\ UNCHANGED <<cycle, errors, dogVars>>
       ELSE /\ Heartbeat
            /\ cycle' = (cycle + 1) % HealthEvery
            /\ IF health = "down" THEN CaughtError
               ELSE /\ pc' = IF Blocked THEN "sleep"
                             ELSE IF cycle' = 0 THEN "health"
                             ELSE IF mode = "normal" THEN "strategies" ELSE "rest"
                    /\ UNCHANGED errors
    /\ UNCHANGED <<running, stopped, mode, health, killed, overrun, undone, entryVars>>

(* A bug of Verdict: a machine without warnings is still called degraded.  *)
VerdictNeverHealthy ==
    IF health = "critical" THEN "unhealthy" ELSE "degraded"

(* check_health: a database that cannot be reached has no latency and is a *)
(* warning; the errors are those of the whole run, not of the last hour.   *)
Verdict ==
    IF health = "critical" THEN "unhealthy"
    ELSE IF health # "ok" \/ errors > ErrorThreshold THEN "degraded" ELSE "healthy"

(* check_degradation.                                                      *)
NextMode(verdict) ==
    IF verdict = "unhealthy" THEN "read_only"
    ELSE IF verdict = "healthy" THEN "normal"
    ELSE IF mode = "normal" THEN "degraded" ELSE mode

(* DeadMansSwitch.check and the activation behind it; the heartbeat is that *)
(* of this cycle, and overdue if the health check has taken that long.     *)
Watchdog ==
    \E overdue \in BOOLEAN :
        IF triggered \/ ~overdue THEN UNCHANGED <<dogVars, killed>>
        ELSE /\ missed' = missed + 1
             /\ triggered' = (missed' >= MaxMissed)
             /\ killed' = (killed \/ triggered')

CheckHealth ==
    /\ pc = "health"
    /\ mode' = NextMode(Verdict)
    /\ Watchdog
    /\ pc' = IF mode' = "normal" THEN "strategies" ELSE "rest"
    /\ overrun' = IF killed' # killed THEN 0 ELSE overrun
    /\ UNCHANGED <<running, stopped, cycle, errors, health, undone, entryVars>>

(* After the await of _process_strategies, whose errors are caught:        *)
(* _process_entry_queue, without looking at the kill switch again.         *)
ProcessEntryQueue ==
    /\ pc = "strategies"
    /\ GetNextEntry
    /\ overrun' = IF (killed \/ stopped) /\ released' # released /\ overrun < 2
                  THEN overrun + 1 ELSE overrun
    /\ pc' = "rest"
    /\ UNCHANGED <<running, stopped, cycle, mode, errors, dogVars, health, killed, undone>>

(* Reconciliation, positions, monitoring and escalations; reading the      *)
(* active strategies is the call whose failure ends the cycle.             *)
Rest ==
    /\ pc = "rest"
    /\ IF health = "down" THEN CaughtError ELSE pc' = "sleep" /\ UNCHANGED errors
    /\ UNCHANGED <<running, stopped, cycle, mode, dogVars, health, killed, overrun,
                   undone, entryVars>>

WakeUp ==
    /\ pc = "sleep"
    /\ pc' = "top"
    /\ UNCHANGED <<running, stopped, cycle, mode, errors, dogVars, health, killed,
                   overrun, undone, entryVars>>

(***************************************************************************)
(* What happens around the loop.                                           *)
(***************************************************************************)
QueueEntry(e) ==
    /\ pc # "off"
    /\ AddEntry(e)
    /\ UNCHANGED <<loopVars, dogVars, health, killed, overrun, undone>>

SwitchKill ==
    /\ pc # "off"
    /\ killed' = ~killed
    /\ overrun' = 0
    /\ UNCHANGED <<loopVars, dogVars, health, undone, entryVars>>

HealthChanges ==
    /\ pc # "off"
    /\ health' \in HealthStates \ {health}
    /\ UNCHANGED <<loopVars, dogVars, killed, overrun, undone, entryVars>>

Tick ==
    /\ pc # "off"
    /\ EntryTick
    /\ UNCHANGED <<loopVars, dogVars, health, killed, overrun, undone>>

LoopStep ==
    ChecklistDone \/ Top \/ CheckHealth \/ ProcessEntryQueue \/ Rest \/ WakeUp

Next ==
    \/ Start \/ HandleSignal \/ StopBegin
    \/ LoopStep
    \/ \E e \in Entries : QueueEntry(e)
    \/ SwitchKill \/ HealthChanges \/ Tick

Spec == Init /\ [][Next]_vars

(* The event loop resumes the coroutine and time passes; nobody is obliged *)
(* to start or stop the system, to queue entries or to use the switch.     *)
FairSpec == Spec /\ WF_vars(LoopStep) /\ WF_vars(Tick)

(***************************************************************************)
(* Properties.                                                             *)
(***************************************************************************)
\* The kill switch is read at the top of a cycle only, and stop() does not
\* wait for the loop: yet at most one entry is released after either, that
\* of the cycle that was under way. The exception is a stop() that runs while
\* start() awaits: "1. Set running flag to False" (1784) is undone by start()
\* (1424-1425), and the loop then trades as long as the switch lets it.
HaltStopsEntries == overrun > 1 => undone /\ ~killed

Normal == pc # "off" /\ running /\ ~stopped /\ ~killed /\ mode = "normal"

\* No entry starves or is lost: if the system ends up trading normally, all
\* the entries queued are released, although the head of the heap is put
\* back while its symbol cools down and holds up those behind it.
QueueDrains ==
    <>[](Normal /\ health = "ok") => <>[](queued = released)

Good == pc \notin {"off", "checklist"} /\ running /\ ~killed /\ health = "ok"

\* "Returns to NORMAL when issues resolve": as long as the loop has caught
\* few errors, good health ends every degradation mode.
RecoversAfterWarnings ==
    <>[](Good /\ errors <= ErrorThreshold) => <>[](mode = "normal")

\* Trouble that ends leaves no trace: neither a queue that stands nor a mode
\* nobody leaves.
TroubleEnds == QueueDrains /\ RecoversAfterWarnings

\* The same without a word about errors, as it is documented.
RecoversWhenResolved == <>[]Good => <>[](mode = "normal")
=============================================================================
