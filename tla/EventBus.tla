------------------------------- MODULE EventBus -------------------------------
(***************************************************************************)
(* The in-process bus that hands a product's events to its live streams    *)
(* (app/events/event_bus.py): one bounded queue per subscriber, and a full *)
(* queue gives up its oldest event for the newest.                         *)
(*                                                                         *)
(* The methods never await between reading and writing, so each is one     *)
(* step.  The n-th event published for a product is the number n.          *)
(***************************************************************************)
EXTENDS Naturals, Sequences

CONSTANTS
    Products,
    Streams,    \* identities of queues; one is free again once it unsubscribed
    QueueMax    \* QUEUE_MAXSIZE, 256 in the code

ASSUME BusAssumption == QueueMax \in Nat \ {0}

VARIABLES
    published,  \* per product, how many events were published
    topic,      \* the registry: each registered stream's product
    queue,      \* the queue of each registered stream
    seen        \* per registered stream, the last event it took or came too late for

busVars == <<published, topic, queue, seen>>
-----------------------------------------------------------------------------
\* A function with f[k] = v, and without k.
With(f, k, v) == [x \in DOMAIN f \cup {k} |-> IF x = k THEN v ELSE f[x]]
Without(f, k) == [x \in DOMAIN f \ {k} |-> f[x]]

\* Eviction at the wrong end: the newest queued event makes room.
PutOverNewest(q, n) ==
    IF Len(q) < QueueMax THEN Append(q, n) ELSE [q EXCEPT ![Len(q)] = n]

\* put_nowait, after evicting the oldest event when the queue is full.
Put(q, n) == IF Len(q) < QueueMax THEN Append(q, n) ELSE Append(Tail(q), n)

BusInit ==
    /\ published = [p \in Products |-> 0]
    /\ topic = [s \in {} |-> {}]
    /\ queue = [s \in {} |-> <<>>]
    /\ seen = [s \in {} |-> 0]

Publish(p) ==
    /\ published' = [published EXCEPT ![p] = @ + 1]
    /\ queue' = [s \in DOMAIN queue |->
                    IF topic[s] = p THEN Put(queue[s], published[p] + 1) ELSE queue[s]]
    /\ UNCHANGED <<topic, seen>>

Subscribe(s, p) ==
    /\ s \notin DOMAIN topic
    /\ topic' = With(topic, s, p)
    /\ queue' = With(queue, s, <<>>)
    /\ seen' = With(seen, s, published[p])
    /\ UNCHANGED published

\* A no-op for a queue that has already left.
Unsubscribe(s) ==
    /\ topic' = Without(topic, s)
    /\ queue' = Without(queue, s)
    /\ seen' = Without(seen, s)
    /\ UNCHANGED published

\* queue.get() of a queue that holds something.
Take(s) ==
    /\ s \in DOMAIN topic
    /\ queue[s] # <<>>
    /\ queue' = [queue EXCEPT ![s] = Tail(@)]
    /\ seen' = [seen EXCEPT ![s] = Head(queue[s])]
    /\ UNCHANGED <<published, topic>>

\* The registry is memory of the process: a restart empties it.
Forget ==
    /\ topic' = [s \in {} |-> {}]
    /\ queue' = [s \in {} |-> <<>>]
    /\ seen' = [s \in {} |-> 0]
    /\ UNCHANGED published

BusNext ==
    \/ \E p \in Products : Publish(p)
    \/ \E s \in Streams, p \in Products : Subscribe(s, p)
    \/ \E s \in Streams : Unsubscribe(s) \/ Take(s)
    \/ Forget

BusSpec == BusInit /\ [][BusNext]_busVars
-----------------------------------------------------------------------------
(***************************************************************************)
(* Properties.                                                             *)
(***************************************************************************)
BusTypeOK ==
    /\ published \in [Products -> Nat]
    /\ DOMAIN topic \subseteq Streams
    /\ topic \in [DOMAIN topic -> Products]
    /\ queue \in [DOMAIN topic -> Seq(Nat)]
    /\ seen \in [DOMAIN topic -> Nat]

Smaller(a, b) == IF a <= b THEN a ELSE b

\* Drop-oldest (event_bus.py:14): whatever was published, taken and evicted in
\* between, a queue holds the newest events of its product in the order of their
\* publication, and as many of those its stream has not taken as fit.
QueueHoldsTheNewest ==
    \A s \in DOMAIN topic : LET last == published[topic[s]] IN
        /\ seen[s] <= last
        /\ Len(queue[s]) = Smaller(QueueMax, last - seen[s])
        /\ \A i \in DOMAIN queue[s] : queue[s][i] = last - Len(queue[s]) + i
=============================================================================
