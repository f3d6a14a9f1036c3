----------------------------- MODULE RateLimiter ----------------------------
(***************************************************************************)
(* The token buckets before Binance (src/src/brokers/binance):             *)
(* RateLimiter.acquire, which serves one caller at a time and sleeps with  *)
(* its lock held.  Tokens are counted in units: a call costs Cost units    *)
(* and every tick of the clock earns Rate[b] of them.                      *)
(***************************************************************************)
EXTENDS Integers, Sequences, Functions

CONSTANTS Calls,       \* [priority : 1..3, order : BOOLEAN]
          Capacity,    \* of each bucket: "requests", "orders", "daily"
          Rate,        \* units a tick earns
          Cost,        \* units a call takes
          Naps,        \* ticks of sleep: "emergency", "daily", "throttle", "standard"
          MaxLine,     \* bound: callers at once
          LookBack       \* ticks the history looks back

VARIABLES
    tokens,    \* of each bucket, at its last refill
    age,       \* ticks since that refill
    line,      \* the callers in the order of the lock; the head holds it
    nap,       \* ticks the head still sleeps
    recent     \* history: the calls granted in each of the latest ticks
limitVars == <<tokens, age, line, nap, recent>>

Buckets == DOMAIN Capacity

ASSUME BucketsAssumption ==
    /\ Buckets = {"requests", "orders", "daily"}
    /\ Capacity \in [Buckets -> Nat] /\ Rate \in [Buckets -> Nat]
    /\ Cost \in Nat /\ LookBack \in Nat \ {0}

NoCalls == [b \in Buckets |-> 0]

LimitInit ==
    /\ tokens = Capacity /\ age = [b \in Buckets |-> 0]
    /\ line = <<>> /\ nap = 0
    /\ recent = [i \in 1..LookBack |-> NoCalls]

(* TokenBucket.refill: linear in the time since the last one, and capped.  *)
Refilled(b) == LET earned == tokens[b] + age[b] * Rate[b]
               IN  IF earned > Capacity[b] THEN Capacity[b] ELSE earned

(* Every reader of a bucket refills it and restarts its clock.             *)
Restarted(bs) == [b \in Buckets |-> IF b \in bs THEN 0 ELSE age[b]]

(* A bug of Touched: the clock restarts only when the bucket refuses.      *)
TouchedOnRefusal(bs) == Restarted({b \in bs : Refilled(b) < Cost})

Touched(bs) == Restarted(bs)

UsageAtLeast(percent) ==
    (Capacity["requests"] - Refilled("requests")) * 100 >= percent * Capacity["requests"]

Needed(call) == IF call.order THEN Buckets ELSE {"requests"}

CallsAcquire(call) ==
    /\ Len(line) < MaxLine
    /\ line' = Append(line, call)
    /\ UNCHANGED <<tokens, age, nap, recent>>

(* At 95% only priority 1 goes on; the others sleep, and keep the lock.    *)
EmergencyBlocks ==
    /\ line # <<>> /\ nap = 0
    /\ UsageAtLeast(95) /\ Head(line).priority > 1
    /\ tokens' = [tokens EXCEPT !["requests"] = Refilled("requests")]
    /\ age' = Touched({"requests"})
    /\ nap' = Naps["emergency"]
    /\ UNCHANGED <<line, recent>>

(* Each bucket with a token gives it up, even when another one has none:   *)
(* what was taken by an attempt that fails is not returned.                *)
Consume ==
    /\ line # <<>> /\ nap = 0
    /\ ~(UsageAtLeast(95) /\ Head(line).priority > 1)
    /\ LET needed == Needed(Head(line))
           able == {b \in needed : Refilled(b) >= Cost} IN
         /\ tokens' = [b \in Buckets |-> IF b \in able THEN Refilled(b) - Cost
                                         ELSE IF b \in needed THEN Refilled(b) ELSE tokens[b]]
         /\ age' = Touched(needed)
         /\ \/ /\ able = needed
               /\ line' = Tail(line)
               /\ recent' = [recent EXCEPT ![LookBack] =
                                [b \in Buckets |-> @[b] + (IF b \in needed THEN 1 ELSE 0)]]
               /\ UNCHANGED nap
            \/ /\ able # needed
               /\ nap' = Naps[IF "daily" \in needed \ able THEN "daily"
                              ELSE IF UsageAtLeast(85) THEN "throttle" ELSE "standard"]
               /\ UNCHANGED <<line, recent>>

(* The clock stops mattering to a bucket that it has filled.               *)
LimitTick ==
    /\ age' = [b \in Buckets |-> IF Refilled(b) = Capacity[b] THEN age[b] ELSE age[b] + 1]
    /\ nap' = IF nap > 0 THEN nap - 1 ELSE 0
    /\ recent' = [i \in 1..LookBack |-> IF i < LookBack THEN recent[i + 1] ELSE NoCalls]
    /\ UNCHANGED <<tokens, line>>

LimitNext ==
    \/ \E call \in Calls : CallsAcquire(call)
    \/ EmergencyBlocks \/ Consume \/ LimitTick

(***************************************************************************)
(* Properties.                                                             *)
(***************************************************************************)
Granted(b) == SumFunctionOnSet([i \in 1..LookBack |-> recent[i][b]], 1..LookBack)

\* Whatever the callers do, the calls granted in any window are paid for by
\* one full bucket and what the window earned: failed attempts, sleeping
\* callers and the three buckets of one order never create a token.
CallsArePaidFor ==
    \A b \in Buckets : Cost * Granted(b) <= Capacity[b] + (LookBack - 1) * Rate[b]
=============================================================================
