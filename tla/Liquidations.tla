---------------------------- MODULE Liquidations ----------------------------
(***************************************************************************)
(* The collector of forced liquidations (research/data): a websocket loop    *)
(* that buffers what the exchange announces, drops what it has just seen,   *)
(* writes the buffer to one file per trade date and reconnects with a       *)
(* growing delay, and the store a later study reads by a window of time.    *)
(* The stream may announce again, the disk may refuse, the process may die. *)
(***************************************************************************)
EXTENDS Integers, FiniteSets, Sequences, SequencesExt, FiniteSetsExt

CONSTANTS
    Events,         \* the liquidations: their keys, i.e. what tells two apart
    TradeTime,      \* event -> the instant of the forced trade
    DayLength,      \* instants in a UTC date
    FlushAt,        \* flush_max_events
    DedupMemory,    \* how many keys are remembered
    BackoffMax,     \* the longest delay, the shortest being 1
    MaxFragments,   \* bound: the files written
    MaxMishaps      \* bound: writes refused and processes killed

VARIABLES
    collector,      \* "connected", "waiting" to reconnect, "stopped" or "dead"
    stopping,       \* stop() was called
    buffer, recent, \* the events not written yet; the keys remembered, oldest first
    fragments,      \* what the files on disk hold: [date, events, torn]
    backoff,
    received,       \* the events accepted since the beginning
    lost,           \* those of a write that broke off or of a process killed
    mishaps

liqVars == <<collector, stopping, buffer, recent, fragments, backoff, received, lost, mishaps>>

ASSUME LiquidationAssumption ==
    /\ TradeTime \in [Events -> Nat] /\ DayLength \in Nat \ {0}
    /\ FlushAt \in Nat \ {0} /\ DedupMemory \in Nat /\ BackoffMax \in Nat \ {0}

DateOf(e) == TradeTime[e] \div DayLength

LiqInit ==
    /\ collector = "waiting" /\ stopping = FALSE /\ buffer = <<>> /\ recent = <<>> /\ fragments = {}
    /\ backoff = 1 /\ received = {} /\ lost = {} /\ mishaps = 0

(* The store. *)

\* One file per trade date of the batch, in order of the dates.
Dates(batch) == {DateOf(batch[i]) : i \in DOMAIN batch}

FragmentOf(batch, date) ==
    [date |-> date, events |-> {e \in ToSet(batch) : DateOf(e) = date}, torn |-> FALSE]

\* What a write that breaks off leaves of a date's file: its first lines, and
\* perhaps a torn one.
FirstLines(batch, n, date) == {batch[i] : i \in {i \in 1..n : DateOf(batch[i]) = date}}
CutShort(batch, date) ==
    {f \in {[date |-> date, events |-> FirstLines(batch, n, date), torn |-> torn] :
                 n \in 0..Len(batch), torn \in BOOLEAN} :
         f.events # FragmentOf(batch, date).events}

WriteBatchFirstDate(batch, dates) == {FragmentOf(batch, d) : d \in {d \in dates : d = Min(dates)}}
WriteBatch(batch, dates) == {FragmentOf(batch, d) : d \in dates}

Stored == UNION {f.events : f \in fragments}

\* read_window looks at the dates of the window and one on each side, and
\* counts an event once however often it was written; a torn line in any of
\* their files raises.
Candidates(from, to) ==
    {f \in fragments : f.date \in (from \div DayLength) - 1..(to \div DayLength) + 1}

ReadWindow(from, to) ==
    IF \E f \in Candidates(from, to) : f.torn THEN [raises |-> TRUE, events |-> {}]
    ELSE [raises |-> FALSE,
          events |-> {e \in UNION {f.events : f \in Candidates(from, to)} : TradeTime[e] \in from..to}]

LiquidationsInWindow(from, to, now) ==
    IF from > Min({to, now}) THEN [raises |-> FALSE, events |-> {}]
    ELSE ReadWindow(from, Min({to, now}))

(* The collector. *)

Accepted(e) == e \notin ToSet(recent)

Remembered(e) ==
    IF Len(recent) + 1 > DedupMemory THEN Append(Tail(recent), e) ELSE Append(recent, e)

\* flush: the buffer is given up before the store is asked to write it.
Flushed(batch) ==
    /\ fragments' = fragments \cup WriteBatch(batch, Dates(batch))
    /\ buffer' = <<>>
    /\ UNCHANGED <<lost, mishaps>>

\* The disk refuses, or the process is killed: the files of the earlier dates
\* are whole, one is cut short and the rest is not written.
FlushRefused(batch) ==
    /\ batch # <<>> /\ mishaps < MaxMishaps /\ mishaps' = mishaps + 1
    /\ \E written \in SUBSET Dates(batch) :
           /\ written # Dates(batch)
           /\ \A d \in written, u \in Dates(batch) \ written : d < u
           /\ \E f \in CutShort(batch, Min(Dates(batch) \ written)) :
                  /\ fragments' = fragments \cup WriteBatch(batch, written) \cup {f}
                  /\ lost' = lost \cup {e \in ToSet(batch) : DateOf(e) \notin written /\ e \notin f.events}
    /\ buffer' = <<>>

Room == Cardinality(fragments) + Cardinality(Dates(buffer)) < MaxFragments

Connect ==
    /\ collector = "waiting" /\ ~stopping /\ collector' = "connected"
    /\ UNCHANGED <<stopping, buffer, recent, fragments, backoff, received, lost, mishaps>>

\* stop() is seen after the frame that is being waited for.
Onward == IF stopping THEN "ended" ELSE "connected"

\* A frame: malformed ones and those just seen change nothing.
OnMessage(e) ==
    /\ collector = "connected" /\ Accepted(e) /\ Room
    /\ recent' = Remembered(e) /\ received' = received \cup {e}
    /\ IF Len(buffer) + 1 < FlushAt
       THEN /\ buffer' = Append(buffer, e) /\ collector' = Onward
            /\ UNCHANGED <<fragments, lost, mishaps>>
       ELSE \/ Flushed(Append(buffer, e)) /\ collector' = Onward
            \/ FlushRefused(Append(buffer, e)) /\ collector' \in {"ended", "dead"}
    /\ UNCHANGED <<stopping, backoff>>

\* recv timed out: a burst may not sit unsaved.
Silence ==
    /\ collector = "connected" /\ Room
    /\ \/ Flushed(buffer) /\ collector' = Onward
       \/ FlushRefused(buffer) /\ collector' \in {"ended", "dead"}
    /\ UNCHANGED <<stopping, recent, backoff, received>>

\* The socket fails, or a frame that changes nothing lets stop() be seen.
Disconnect ==
    /\ collector = "connected" /\ collector' = "ended"
    /\ UNCHANGED <<stopping, buffer, recent, fragments, backoff, received, lost, mishaps>>

\* The connection is over: the buffer is flushed, and a refusal here is nobody's
\* to catch.
EndSession ==
    /\ collector = "ended"
    /\ \/ /\ Flushed(buffer)
          /\ IF stopping THEN collector' = "stopped" /\ UNCHANGED backoff
             ELSE /\ collector' = "waiting"
                  \* A session that lasted starts the delays over.
                  /\ \E healthy \in BOOLEAN :
                         backoff' = Min({(IF healthy THEN 1 ELSE backoff) * 2, BackoffMax})
       \/ FlushRefused(buffer) /\ collector' = "dead" /\ UNCHANGED backoff
    /\ UNCHANGED <<stopping, recent, received>>

\* stop(), or the wait ends because of it.
RequestStop ==
    /\ collector \in {"connected", "ended", "waiting"} /\ ~stopping /\ stopping' = TRUE
    /\ UNCHANGED <<collector, buffer, recent, fragments, backoff, received, lost, mishaps>>

StopWaiting ==
    /\ collector = "waiting" /\ stopping /\ collector' = "stopped"
    /\ UNCHANGED <<stopping, buffer, recent, fragments, backoff, received, lost, mishaps>>

\* The task is cancelled (Ctrl-C): it flushes and ends.
CancelTask ==
    /\ collector \in {"connected", "waiting"} /\ collector' = "dead"
    /\ Flushed(buffer) \/ FlushRefused(buffer)
    /\ UNCHANGED <<stopping, recent, backoff, received>>

\* The process is killed while it writes nothing: what it held in memory goes
\* with it.
Kill ==
    /\ collector \in {"connected", "ended", "waiting"} /\ mishaps < MaxMishaps /\ mishaps' = mishaps + 1
    /\ collector' = "dead" /\ lost' = lost \cup ToSet(buffer) /\ buffer' = <<>>
    /\ UNCHANGED <<stopping, recent, fragments, backoff, received>>

StartCollector ==
    /\ collector \in {"stopped", "dead"} /\ collector' = "waiting" /\ stopping' = FALSE
    /\ recent' = <<>> /\ backoff' = 1
    /\ UNCHANGED <<buffer, fragments, received, lost, mishaps>>

LiqNext ==
    \/ Connect \/ Silence \/ Disconnect \/ EndSession \/ RequestStop \/ StopWaiting
    \/ CancelTask \/ Kill \/ StartCollector \/ \E e \in Events : OnMessage(e)

LiqSpec == LiqInit /\ [][LiqNext]_liqVars

(* Properties. *)

\* "always flushes the buffer when a connection ends ... so no buffered events
\* are lost": through silences, disconnects, shutdowns and redeliveries an
\* accepted event is in the buffer or on disk, and nothing is held back while no
\* connection is up.  It is not so for a write that breaks off: flush gives the
\* buffer up before it writes (liquidation_collector.py:210-212), the batch is
\* lost and its redelivery is refused as known; each mishap costs at most a
\* batch.  A study that reads a window is told every event of it that is on disk,
\* or nothing at all, for as long as the torn file stays, if a write broke off
\* within a line on a date next to the window or in it (liquidations.py:302, 352).
EventsAreKept ==
    /\ received \ lost \subseteq ToSet(buffer) \cup Stored
    /\ Cardinality(lost) <= mishaps * FlushAt
    /\ collector \in {"waiting", "stopped", "dead"} => buffer = <<>>
    /\ Cardinality({f \in fragments : f.torn}) <= mishaps
    /\ \A from, to, now \in {TradeTime[e] : e \in Events} :
           from <= to =>
               LET until == Min({to, now})
                   study == LiquidationsInWindow(from, to, now)
               IN IF study.raises
                  THEN \E f \in fragments :
                           f.torn /\ f.date \in (from \div DayLength) - 1..(until \div DayLength) + 1
                  ELSE study.events = {e \in Stored : TradeTime[e] \in from..until}
=============================================================================
