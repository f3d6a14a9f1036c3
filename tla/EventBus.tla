------------------------------ MODULE EventBus ------------------------------
(***************************************************************************)
(* The in-process event bus (src/src/core/event_bus.py) and the streams of *)
(* server-sent events that read it (src/src/api/routes/events.py).  Events *)
(* are numbered in the order they are published.                           *)
(***************************************************************************)
EXTENDS Integers, Sequences

CONSTANTS Streams,
          QueueSize,    \* _MAX_QUEUE_SIZE
          MaxEvents     \* bound: events published

VARIABLES
    subscribers,  \* the queue of each stream that has a subscription
    stage,        \* of a stream: "none", "answered", "reading", "waiting", "ended", "lost"
    gone,         \* the streams whose client has disconnected
    published,    \* the number of the last event
    since,        \* history: the last event before the stream's subscription
    got,          \* history: the events sent to the stream's client
    refused       \* history: the events that did not fit into its queue
busVars == <<subscribers, stage, gone, published, since, got, refused>>

BusInit ==
    /\ subscribers = [s \in {} |-> <<>>]
    /\ stage = [s \in Streams |-> "none"]
    /\ gone = {} /\ published = 0
    /\ since = [s \in Streams |-> 0]
    /\ got = [s \in Streams |-> <<>>] /\ refused = [s \in Streams |-> {}]

Without(s) == [t \in DOMAIN subscribers \ {s} |-> subscribers[t]]

(* The endpoint subscribes before its response is iterated.                *)
Subscribe(s) ==
    /\ stage[s] = "none"
    /\ subscribers' = [t \in DOMAIN subscribers \cup {s} |-> IF t = s THEN <<>> ELSE subscribers[t]]
    /\ stage' = [stage EXCEPT ![s] = "answered"]
    /\ since' = [since EXCEPT ![s] = published]
    /\ UNCHANGED <<gone, published, got, refused>>

StreamBegins(s) ==
    /\ stage[s] = "answered" /\ s \notin gone
    /\ stage' = [stage EXCEPT ![s] = "reading"]
    /\ UNCHANGED <<subscribers, gone, published, since, got, refused>>

(* A client that has left already: the generator is never entered, and its *)
(* finally never runs.                                                     *)
StreamNeverBegins(s) ==
    /\ stage[s] = "answered" /\ s \in gone
    /\ stage' = [stage EXCEPT ![s] = "lost"]
    /\ UNCHANGED <<subscribers, gone, published, since, got, refused>>

ClientLeaves(s) ==
    /\ stage[s] # "none" /\ gone' = gone \cup {s}
    /\ UNCHANGED <<subscribers, stage, published, since, got, refused>>

(* The disconnect is noticed between two events, or the task is cancelled  *)
(* while it waits for one; either way the finally unsubscribes.            *)
StreamEnds(s) ==
    /\ stage[s] \in {"reading", "waiting"} /\ s \in gone
    /\ subscribers' = Without(s)
    /\ stage' = [stage EXCEPT ![s] = "ended"]
    /\ UNCHANGED <<gone, published, since, got, refused>>

GetEvent(s) ==
    /\ stage[s] = "reading" /\ s \notin gone
    /\ stage' = [stage EXCEPT ![s] = "waiting"]
    /\ UNCHANGED <<subscribers, gone, published, since, got, refused>>

EventArrives(s) ==
    /\ stage[s] = "waiting" /\ subscribers[s] # <<>>
    /\ got' = [got EXCEPT ![s] = Append(@, Head(subscribers[s]))]
    /\ subscribers' = [subscribers EXCEPT ![s] = Tail(@)]
    /\ stage' = [stage EXCEPT ![s] = "reading"]
    /\ UNCHANGED <<gone, published, since, refused>>

KeepAlive(s) ==
    /\ stage[s] = "waiting" /\ subscribers[s] = <<>>
    /\ stage' = [stage EXCEPT ![s] = "reading"]
    /\ UNCHANGED <<subscribers, gone, published, since, got, refused>>

(* A bug of Offered: a full queue makes room by dropping its oldest event, *)
(* as the comment on _MAX_QUEUE_SIZE has it.                               *)
OfferedToTheFront(queue, event) == Append(IF Len(queue) = QueueSize THEN Tail(queue) ELSE queue, event)

(* put_nowait: a full queue refuses the new event.                         *)
Offered(queue, event) == IF Len(queue) = QueueSize THEN queue ELSE Append(queue, event)

Publish ==
    /\ published < MaxEvents
    /\ published' = published + 1
    /\ subscribers' = [s \in DOMAIN subscribers |-> Offered(subscribers[s], published')]
    /\ refused' = [s \in Streams |->
                    IF s \in DOMAIN subscribers /\ Len(subscribers[s]) = QueueSize
                    THEN refused[s] \cup {published'} ELSE refused[s]]
    /\ UNCHANGED <<stage, gone, since, got>>

BusNext ==
    \/ \E s \in Streams :
         \/ Subscribe(s) \/ StreamBegins(s) \/ StreamNeverBegins(s) \/ StreamEnds(s)
         \/ ClientLeaves(s) \/ GetEvent(s) \/ EventArrives(s) \/ KeepAlive(s)
    \/ Publish

(***************************************************************************)
(* Properties.                                                             *)
(***************************************************************************)
Increasing(events) == \A i, j \in DOMAIN events : i < j => events[i] < events[j]

\* Every event published while a stream is subscribed has been sent to its
\* client, waits in its queue, or found the queue full: none is skipped,
\* repeated or reordered, and a stream that has begun keeps its subscription
\* exactly until it ends. What is lost when a client is slow are the newest
\* events (163-166), against "before oldest events are dropped" (39): a stream
\* never has a gap among the events that were accepted, and what it shows last
\* may be long out of date.
EventsAreAccountedFor ==
    \A s \in Streams :
        /\ stage[s] \in {"reading", "waiting"} => s \in DOMAIN subscribers
        /\ stage[s] = "ended" => s \notin DOMAIN subscribers
        /\ s \in DOMAIN subscribers =>
             LET events == got[s] \o subscribers[s]
             IN  /\ Increasing(events)
                 /\ {events[i] : i \in DOMAIN events} = (since[s] + 1)..published \ refused[s]
=============================================================================
