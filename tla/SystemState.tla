----------------------------- MODULE SystemState ----------------------------
(***************************************************************************)
(* The system_state row (src/src/data/store.py, DataStore.get_system_state *)
(* and update_system_state) and those who write it: the kill switch, the   *)
(* dead man's switch behind it, the circuit breaker manager and the regime *)
(* router.  They live in different threads and processes (API threadpool,  *)
(* orchestrator, paper trading), and share the row, not a lock.            *)
(*                                                                         *)
(* update_system_state reads the row in a session of its own, merges that  *)
(* copy into a second session and commits: merge copies every column of    *)
(* the copy, so what others have written in between is written back.       *)
(***************************************************************************)
EXTENDS Naturals, FiniteSets

CONSTANTS Api,          \* threads of the API that serve kill switch requests
          MaxMissed,    \* heartbeats the dead man's switch lets pass
          MaxOverlap,   \* bound: calls under way at once
          MaxCodes,     \* bound: deactivation codes generated
          MaxSetbacks   \* bound: commits that fail and restarts of the processes

ASSUME NamesAssumption ==
    /\ IsFiniteSet(Api) /\ Api \cap {"router", "breakers", "watchdog"} = {}
ASSUME SystemBoundsAssumption ==
    /\ {MaxMissed, MaxOverlap} \subseteq Nat \ {0}
    /\ {MaxCodes, MaxSetbacks} \subseteq Nat

Callers == Api \cup {"router", "breakers", "watchdog"}

(* The row: kill_switch_active, and the breakers in the circuit_breakers   *)
(* JSON.  The router's "auto_regime" beside them tells no property apart.  *)
Breakers == {"none", "clear", "tripped"}
Rows == [active : BOOLEAN, breakers : Breakers]

NoOp == [kind |-> "none"]
Ops == {NoOp, [kind |-> "activate"]}
       \cup [kind : {"deactivate"}, given : 1..MaxCodes]
       \cup [kind : {"dict"}, breakers : Breakers]

(* The row as get_system_state creates it.                                 *)
Fresh == [active |-> FALSE, breakers |-> "none"]

VARIABLES
    row,        \* the system_state row
    pc,         \* pc[c]: where the call of c is
    op,         \* op[c]: what it is going to write
    copy,       \* copy[c]: the row update_system_state is going to commit
    code,       \* _deactivation_code of the API's KillSwitch; 0 is None
    issued,     \* codes generated so far
    uses,       \* uses[k]: times the switch was cleared with code k
    stored,     \* what the breaker manager has saved last
    during,     \* history: what others have committed during the call of c, of
                \* "set" (the kill switch came on) and "saved" (the breakers)
    lost,       \* history: what of that such a call has written over since
    overdue,    \* no heartbeat for more than interval_minutes
    missed,     \* _missed_count
    triggered,  \* _triggered
    storeFaults, reboots

callVars == <<pc, op, copy>>
codeVars == <<code, issued, uses>>
savedVars == <<stored, during, lost>>
dmsVars == <<overdue, missed, triggered>>
systemVars == <<row, callVars, codeVars, savedVars, dmsVars, storeFaults, reboots>>

SystemInit ==
    /\ row = Fresh
    /\ pc = [c \in Callers |-> "idle"]
    /\ op = [c \in Callers |-> NoOp]
    /\ copy = [c \in Callers |-> Fresh]
    /\ code = 0 /\ issued = 0 /\ uses = [k \in 1..MaxCodes |-> 0]
    /\ stored = "none" /\ during = [c \in Callers |-> {}] /\ lost = {}
    /\ overdue = FALSE /\ missed = 0 /\ triggered = FALSE
    /\ storeFaults = 0 /\ reboots = 0

MayCall(c) ==
    /\ pc[c] = "idle"
    /\ Cardinality({d \in Callers : pc[d] # "idle"}) < MaxOverlap

Call(c, o) ==
    /\ pc' = [pc EXCEPT ![c] = "update"]
    /\ op' = [op EXCEPT ![c] = o]
    /\ UNCHANGED copy

(***************************************************************************)
(* The calls, each up to its update_system_state.                          *)
(***************************************************************************)

(* KillSwitch.activate: nothing to do when the switch is active already.   *)
Activate(c) ==
    /\ MayCall(c) /\ ~row.active
    /\ Call(c, [kind |-> "activate"])
    /\ UNCHANGED <<row, codeVars, savedVars, dmsVars, storeFaults, reboots>>

GenerateCode ==
    /\ issued < MaxCodes
    /\ issued' = issued + 1 /\ code' = issued + 1
    /\ UNCHANGED <<row, callVars, uses, savedVars, dmsVars, storeFaults, reboots>>

CodeAccepted(k) == code # 0 /\ k = code

(* KillSwitch.deactivate with code k; refused calls change nothing.        *)
Deactivate(c, k) ==
    /\ MayCall(c) /\ row.active
    /\ k <= issued /\ CodeAccepted(k)
    /\ Call(c, [kind |-> "deactivate", given |-> k])
    /\ UNCHANGED <<row, codeVars, savedVars, dmsVars, storeFaults, reboots>>

(* CircuitBreakerManager.persist_state replaces the whole JSON.            *)
SaveBreakers ==
    /\ MayCall("breakers")
    /\ \E b \in {"clear", "tripped"} :
          Call("breakers", [kind |-> "dict", breakers |-> b])
    /\ UNCHANGED <<row, codeVars, savedVars, dmsVars, storeFaults, reboots>>

(* A bug of WithRegime: the other entries of the JSON are dropped.         *)
WithRegimeAlone == [kind |-> "dict", breakers |-> "none"]

(* The JSON as the router reads it, with its own entry set.                *)
WithRegime == [kind |-> "dict", breakers |-> row.breakers]

(* RegimeRouter._persist_regime_state.                                     *)
SaveRegime ==
    /\ MayCall("router")
    /\ Call("router", WithRegime)
    /\ UNCHANGED <<row, codeVars, savedVars, dmsVars, storeFaults, reboots>>

(***************************************************************************)
(* update_system_state.                                                    *)
(***************************************************************************)
(* A bug of Merged: columns that are not named get their defaults.         *)
MergedDefaults(s, o) ==
    IF o.kind = "dict" THEN [active |-> FALSE, breakers |-> o.breakers]
    ELSE [s EXCEPT !.active = o.kind = "activate"]

Merged(s, o) ==
    IF o.kind = "dict" THEN [s EXCEPT !.breakers = o.breakers]
    ELSE [s EXCEPT !.active = o.kind = "activate"]

(* The row is read, merged and given what is to be written.                *)
Copy(c) ==
    /\ pc[c] = "update"
    /\ copy' = [copy EXCEPT ![c] = Merged(row, op[c])]
    /\ pc' = [pc EXCEPT ![c] = "commit"]
    /\ UNCHANGED <<row, op, codeVars, savedVars, dmsVars, storeFaults, reboots>>

CodeAfter(o) == IF o.kind = "deactivate" THEN 0 ELSE code

Used(o) ==
    [k \in 1..MaxCodes |->
        IF o.kind = "deactivate" /\ o.given = k /\ row.active THEN uses[k] + 1 ELSE uses[k]]

(* What the commit of c means to those who are at a call of their own: a   *)
(* switch that comes on escapes who has read the row, breakers whoever has *)
(* chosen what to write.                                                   *)
News(c, d) ==
    (IF row'.active /\ ~row.active /\ pc[d] = "commit" THEN {"set"} ELSE {})
    \cup (IF c = "breakers" THEN {"saved"} ELSE {})

Restored(c) ==
    (IF row'.active THEN {"set"} ELSE {}) \cup (IF c = "breakers" THEN {"saved"} ELSE {})

Told(c) ==
    [d \in Callers |->
        IF d = c \/ pc[d] = "idle" THEN {} ELSE during[d] \cup News(c, d)]

(* The commit, and what the caller does after it: deactivate spends the    *)
(* code.  A commit that fails is logged; deactivate then keeps the code.   *)
Commit(c) ==
    /\ pc[c] = "commit"
    /\ \/ /\ row' = copy[c]
          /\ code' = CodeAfter(op[c])
          /\ uses' = Used(op[c])
          /\ stored' = IF c = "breakers" THEN op[c].breakers ELSE stored
          /\ during' = Told(c)
          /\ lost' = (lost \cup during[c]) \ Restored(c)
          /\ UNCHANGED storeFaults
       \/ /\ storeFaults + reboots < MaxSetbacks /\ storeFaults' = storeFaults + 1
          /\ during' = [during EXCEPT ![c] = {}]
          /\ UNCHANGED <<row, code, uses, stored, lost>>
    /\ pc' = [pc EXCEPT ![c] = "idle"]
    /\ op' = [op EXCEPT ![c] = NoOp]
    /\ copy' = [copy EXCEPT ![c] = Fresh]
    /\ UNCHANGED <<issued, dmsVars, reboots>>

(***************************************************************************)
(* DeadMansSwitch, and restarts.                                          *)
(***************************************************************************)
Heartbeat ==
    /\ overdue \/ missed > 0
    /\ overdue' = FALSE /\ missed' = 0
    /\ UNCHANGED <<row, callVars, codeVars, savedVars, triggered, storeFaults, reboots>>

(* While it is triggered nobody asks how long ago the last heartbeat was.  *)
IntervalPasses ==
    /\ ~overdue /\ ~triggered
    /\ overdue' = TRUE
    /\ UNCHANGED <<row, callVars, codeVars, savedVars, missed, triggered, storeFaults, reboots>>

(* A bug of Halt: the trigger is remembered and the switch not activated.  *)
HaltForgotten == UNCHANGED callVars

(* activate on behalf of the dead man's switch.                            *)
Halt ==
    IF row.active THEN UNCHANGED callVars ELSE Call("watchdog", [kind |-> "activate"])

Watching == ~triggered /\ overdue

(* check: one more miss while overdue; at max_missed it triggers, once.    *)
Check ==
    /\ Watching
    /\ MayCall("watchdog")
    /\ missed' = missed + 1
    /\ IF missed + 1 >= MaxMissed
       THEN triggered' = TRUE /\ Halt
       ELSE UNCHANGED <<triggered, callVars>>
    /\ UNCHANGED <<row, codeVars, savedVars, overdue, storeFaults, reboots>>

Reset ==
    /\ triggered \/ missed > 0 \/ overdue
    /\ triggered' = FALSE /\ missed' = 0 /\ overdue' = FALSE
    /\ UNCHANGED <<row, callVars, codeVars, savedVars, storeFaults, reboots>>

(* Everything but the row is forgotten.                                    *)
Restart ==
    /\ storeFaults + reboots < MaxSetbacks /\ reboots' = reboots + 1
    /\ pc' = [c \in Callers |-> "idle"] /\ op' = [c \in Callers |-> NoOp]
    /\ copy' = [c \in Callers |-> Fresh]
    /\ during' = [c \in Callers |-> {}]
    /\ code' = 0
    /\ overdue' = FALSE /\ missed' = 0 /\ triggered' = FALSE
    /\ UNCHANGED <<row, issued, uses, stored, lost, storeFaults>>

Step(c) == Copy(c) \/ Commit(c)

SystemNext ==
    \/ \E c \in Api : Activate(c) \/ \E k \in 1..MaxCodes : Deactivate(c, k)
    \/ GenerateCode \/ SaveBreakers \/ SaveRegime
    \/ \E c \in Callers : Step(c)
    \/ Heartbeat \/ IntervalPasses \/ Check \/ Reset \/ Restart

SystemSpec == SystemInit /\ [][SystemNext]_systemVars

(* A call that has begun is carried through: nothing in it waits.          *)
SystemFairSpec == SystemSpec /\ \A c \in Callers : WF_systemVars(Step(c))

(***************************************************************************)
(* Properties.                                                             *)
(***************************************************************************)
\* "Deactivation requires confirmation code": no writer of the row but a
\* deactivation clears the kill switch.  It is violated when two updates
\* overlap: the writer of a regime or of the breakers writes back the kill
\* switch it read before the activation.
OnlyDeactivationClears ==
    [][row.active /\ ~row'.active =>
          \E c \in Api : pc[c] = "commit" /\ op[c].kind = "deactivate"]_systemVars

\* What is left of it, whichever updates overlap: who clears the kill switch
\* without a code was at its update when the switch came on.  A switch that
\* was on when an update began is safe from it.
OnlyOverlappedCallsClear ==
    [][row.active /\ ~row'.active =>
          \E c \in Callers :
             /\ pc[c] = "commit"
             /\ op[c].kind = "deactivate" \/ "set" \in during[c]]_systemVars

\* "one-time deactivation confirmation code": through failed commits, new
\* codes, restarts and calls that overlap, a code clears the switch at most
\* once for each thread that may have been accepted with it before it was
\* spent; with one thread it is good for one time.
CodesRunOut == \A k \in 1..MaxCodes : uses[k] <= Cardinality(Api)

\* What the breaker manager has saved is what a restart restores, whatever
\* the router and the kill switch write to the row: only a call that was under
\* way when it was saved loses it, until it is saved again.
BreakersSurvive == "saved" \notin lost => row.breakers = stored

\* The row undoes nothing beyond what overlaps: a spent code stays spent,
\* saved breakers stay saved.
NothingIsUndone == CodesRunOut /\ BreakersSurvive

\* A dead man's switch that triggers ends in an active kill switch, unless
\* the commit fails (it is not tried again), the switch is reset, an operator
\* has cleared the kill switch, or an overlapping call has written over the
\* halt: the trigger stays latched in each of them.
WatchdogHalts ==
    triggered ~> \/ row.active \/ ~triggered \/ storeFaults > 0
                 \/ \E k \in 1..MaxCodes : uses[k] > 0
                 \/ "set" \in lost

\* The halt holds: nothing that begins after the switch came on lifts it but
\* a deactivation, and a dead man's switch that triggers brings it about.
HaltsHold == OnlyOverlappedCallsClear /\ WatchdogHalts
=============================================================================
