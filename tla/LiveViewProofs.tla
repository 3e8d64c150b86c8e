---------------------------- MODULE LiveViewProofs ----------------------------
(***************************************************************************)
(* A queue of the event bus holds the newest events of its product in      *)
(* order, for every capacity and every number of streams and products; and *)
(* so it does behind the live pages, which move the bus by its own steps,  *)
(* orphan no queue, draw an edge once and show another row twice only      *)
(* while the request that repairs it runs, or after it failed.             *)
(*                                                                         *)
(* A stream that unsubscribes may come back under the same name, so the    *)
(* proof looks at one queue at a time: Newest(q, last, from) says that q   *)
(* is right for a product with last events and a stream served up to from. *)
(***************************************************************************)
EXTENDS LiveView, TLAPS

Newest(q, last, from) ==
    /\ from <= last
    /\ Len(q) = Smaller(QueueMax, last - from)
    /\ \A i \in DOMAIN q : q[i] = last - Len(q) + i

BusInvariant ==
    /\ BusTypeOK
    /\ \A s \in DOMAIN topic : Newest(queue[s], published[topic[s]], seen[s])

\* Appending the next event to a right queue, or evicting the oldest for it, leaves
\* a right queue.
LEMMA PutKeepsNewest ==
    ASSUME NEW q \in Seq(Nat), NEW last \in Nat, NEW from \in Nat, Newest(q, last, from)
    PROVE  Put(q, last + 1) \in Seq(Nat) /\ Newest(Put(q, last + 1), last + 1, from)
<1> USE BusAssumption
<1>1. PICK r : r = Put(q, last + 1)
  OBVIOUS
<1>2. from <= last /\ \A i \in DOMAIN q : q[i] = last - Len(q) + i
  BY DEF Newest
<1>3. CASE Len(q) < QueueMax
  <2>1. Len(q) = last - from
    BY <1>3 DEF Newest, Smaller
  <2>2. /\ r \in Seq(Nat) /\ Len(r) = Len(q) + 1 /\ DOMAIN r = 1 .. Len(q) + 1
        /\ r[Len(q) + 1] = last + 1
        /\ \A i \in 1 .. Len(q) : r[i] = q[i] /\ i \in DOMAIN q
    BY <1>1, <1>3 DEF Put
  <2>3. \A i \in DOMAIN r : r[i] = last + 1 - Len(r) + i
    BY <1>2, <2>2
  <2>4. from <= last + 1 /\ Len(r) = Smaller(QueueMax, last + 1 - from)
    BY <1>2, <1>3, <2>1, <2>2 DEF Smaller
  <2>5. Newest(r, last + 1, from)
    BY <2>3, <2>4 DEF Newest
  <2> QED
    BY <1>1, <2>2, <2>5
<1>4. CASE ~(Len(q) < QueueMax)
  <2>1. Len(q) = QueueMax /\ QueueMax <= last - from /\ q # <<>>
    BY <1>4 DEF Newest, Smaller
  <2>2. /\ Tail(q) \in Seq(Nat) /\ Len(Tail(q)) = Len(q) - 1
        /\ \A i \in 1 .. Len(q) - 1 : Tail(q)[i] = q[i + 1] /\ i + 1 \in DOMAIN q
    BY <2>1
  <2>3. r = Append(Tail(q), last + 1)
    BY <1>1, <1>4 DEF Put
  <2>4. /\ r \in Seq(Nat) /\ Len(r) = Len(q) /\ DOMAIN r = 1 .. Len(q)
        /\ r[Len(q)] = last + 1
        /\ \A i \in 1 .. Len(q) - 1 : r[i] = q[i + 1] /\ i + 1 \in DOMAIN q
    BY <2>1, <2>2, <2>3
  <2>5. ASSUME NEW i \in DOMAIN r
        PROVE  r[i] = last + 1 - Len(r) + i
    <3>1. CASE i = Len(q)
      BY <2>1, <2>4, <3>1
    <3>2. CASE i \in 1 .. Len(q) - 1
      <4>1. q[i + 1] = last - Len(q) + (i + 1)
        BY <1>2, <2>4, <3>2
      <4> QED
        BY <2>1, <2>4, <3>2, <4>1
    <3> QED
      BY <2>1, <2>4, <3>1, <3>2
  <2>6. from <= last + 1 /\ Len(r) = Smaller(QueueMax, last + 1 - from)
    BY <1>2, <2>1, <2>4 DEF Smaller
  <2>7. Newest(r, last + 1, from)
    BY <2>5, <2>6 DEF Newest
  <2> QED
    BY <1>1, <2>4, <2>7
<1> QED
  BY <1>3, <1>4

\* The head of a right queue is its oldest event; the rest is right for a stream
\* served up to it.
LEMMA TakeKeepsNewest ==
    ASSUME NEW q \in Seq(Nat), NEW last \in Nat, NEW from \in Nat,
           Newest(q, last, from), q # <<>>
    PROVE  Tail(q) \in Seq(Nat) /\ Head(q) \in Nat /\ Newest(Tail(q), last, Head(q))
<1> USE BusAssumption
<1>1. /\ Len(q) \in Nat \ {0} /\ Head(q) = q[1] /\ q[1] \in Nat /\ 1 \in DOMAIN q
      /\ Tail(q) \in Seq(Nat) /\ Len(Tail(q)) = Len(q) - 1
      /\ \A i \in 1 .. Len(q) - 1 : Tail(q)[i] = q[i + 1] /\ i + 1 \in DOMAIN q
  OBVIOUS
<1>2. q[1] = last - Len(q) + 1
  BY <1>1 DEF Newest
<1>3. Len(q) <= QueueMax
  BY <1>1 DEF Newest, Smaller
<1>4. Len(Tail(q)) = Smaller(QueueMax, last - Head(q)) /\ Head(q) <= last
  BY <1>1, <1>2, <1>3 DEF Smaller
<1>5. \A i \in DOMAIN Tail(q) : Tail(q)[i] = last - Len(Tail(q)) + i
  <2>1. \A i \in 1 .. Len(q) - 1 : q[i + 1] = last - Len(q) + (i + 1)
    BY <1>1 DEF Newest
  <2> QED
    BY <1>1, <2>1
<1> QED
  BY <1>1, <1>4, <1>5 DEF Newest
-----------------------------------------------------------------------------
LEMMA BusInvariantInit == BusInit => BusInvariant
BY DEF BusInit, BusInvariant, BusTypeOK

LEMMA PublishKeeps ==
    ASSUME BusInvariant, NEW p \in Products, Publish(p)
    PROVE  BusInvariant'
<1>1. /\ published' \in [Products -> Nat] /\ topic' = topic /\ seen' = seen
      /\ DOMAIN queue' = DOMAIN topic
      /\ \A s \in DOMAIN topic :
            IF topic[s] = p
            THEN /\ queue'[s] = Put(queue[s], published[p] + 1)
                 /\ published'[topic[s]] = published[p] + 1
            ELSE queue'[s] = queue[s] /\ published'[topic[s]] = published[topic[s]]
  BY DEF BusInvariant, BusTypeOK, Publish
<1>2. ASSUME NEW s \in DOMAIN topic
      PROVE  queue'[s] \in Seq(Nat) /\ Newest(queue'[s], published'[topic[s]], seen[s])
  <2>1. /\ queue[s] \in Seq(Nat) /\ seen[s] \in Nat /\ published[topic[s]] \in Nat
        /\ Newest(queue[s], published[topic[s]], seen[s])
    BY DEF BusInvariant, BusTypeOK
  <2> QED
    BY <1>1, <2>1, PutKeepsNewest
<1>3. queue' \in [DOMAIN topic -> Seq(Nat)]
  <2>1. queue' = [s \in DOMAIN topic |-> queue'[s]]
    BY DEF BusInvariant, BusTypeOK, Publish
  <2> QED
    BY <1>2, <2>1
<1>4. /\ DOMAIN topic \subseteq Streams /\ topic \in [DOMAIN topic -> Products]
      /\ seen \in [DOMAIN topic -> Nat]
  BY DEF BusInvariant, BusTypeOK
<1> QED
  BY <1>1, <1>2, <1>3, <1>4 DEF BusInvariant, BusTypeOK, Newest

LEMMA SubscribeKeeps ==
    ASSUME BusInvariant, NEW s \in Streams, NEW p \in Products, Subscribe(s, p)
    PROVE  BusInvariant'
<1> USE BusAssumption
<1>1. /\ published' = published /\ published[p] \in Nat
      /\ DOMAIN topic' = DOMAIN topic \cup {s}
      /\ topic'[s] = p /\ queue'[s] = <<>> /\ seen'[s] = published[p]
      /\ \A t \in DOMAIN topic :
            topic'[t] = topic[t] /\ queue'[t] = queue[t] /\ seen'[t] = seen[t]
  BY DEF BusInvariant, BusTypeOK, Subscribe, With
<1>2. Newest(<<>>, published[p], published[p])
  BY <1>1 DEF Newest, Smaller
<1>3. BusTypeOK'
  BY <1>1 DEF BusInvariant, BusTypeOK, Subscribe, With
<1> QED
  BY <1>1, <1>2, <1>3 DEF BusInvariant, Newest

LEMMA UnsubscribeKeeps ==
    ASSUME BusInvariant, NEW s \in Streams, Unsubscribe(s)
    PROVE  BusInvariant'
BY DEF BusInvariant, BusTypeOK, Unsubscribe, Without, Newest

LEMMA TakeKeeps ==
    ASSUME BusInvariant, NEW s \in Streams, Take(s)
    PROVE  BusInvariant'
<1>1. /\ s \in DOMAIN topic /\ published' = published /\ topic' = topic
      /\ queue[s] \in Seq(Nat) /\ queue[s] # <<>> /\ seen[s] \in Nat
      /\ published[topic[s]] \in Nat
      /\ Newest(queue[s], published[topic[s]], seen[s])
  BY DEF BusInvariant, BusTypeOK, Take
<1>2. /\ Tail(queue[s]) \in Seq(Nat) /\ Head(queue[s]) \in Nat
      /\ Newest(Tail(queue[s]), published[topic[s]], Head(queue[s]))
  BY <1>1, TakeKeepsNewest
<1>3. /\ queue'[s] = Tail(queue[s]) /\ seen'[s] = Head(queue[s])
      /\ \A t \in DOMAIN topic \ {s} : queue'[t] = queue[t] /\ seen'[t] = seen[t]
      /\ queue' \in [DOMAIN topic -> Seq(Nat)] /\ seen' \in [DOMAIN topic -> Nat]
  BY <1>1, <1>2 DEF BusInvariant, BusTypeOK, Take
<1>4. BusTypeOK'
  BY <1>1, <1>3 DEF BusInvariant, BusTypeOK
<1>5. ASSUME NEW t \in DOMAIN topic
      PROVE  Newest(queue'[t], published[topic[t]], seen'[t])
  <2>1. CASE t = s
    BY <1>2, <1>3, <2>1
  <2>2. CASE t # s
    BY <1>3, <2>2 DEF BusInvariant
  <2> QED
    BY <2>1, <2>2
<1> QED
  BY <1>1, <1>4, <1>5 DEF BusInvariant, Newest

LEMMA ForgetKeeps ==
    ASSUME BusInvariant, Forget
    PROVE  BusInvariant'
BY DEF BusInvariant, BusTypeOK, Forget

LEMMA BusInvariantStep ==
    ASSUME BusInvariant, [BusNext]_busVars
    PROVE  BusInvariant'
<1>1. CASE UNCHANGED busVars
  BY <1>1 DEF busVars, BusInvariant, BusTypeOK, Newest
<1>2. CASE BusNext
  BY <1>2, PublishKeeps, SubscribeKeeps, UnsubscribeKeeps, TakeKeeps, ForgetKeeps DEF BusNext
<1> QED
  BY <1>1, <1>2
-----------------------------------------------------------------------------
\* The registry's three maps speak of the same streams and stay typed.
THEOREM BusTypeInvariant == BusSpec => []BusTypeOK
<1>1. BusInvariant /\ [BusNext]_busVars => BusInvariant'
  BY BusInvariantStep
<1>2. BusInvariant => BusTypeOK
  BY DEF BusInvariant
<1> QED
  BY BusInvariantInit, <1>1, <1>2, PTL DEF BusSpec

\* Drop-oldest: a registered queue always holds the newest events of its product in
\* the order of their publication, as many of the untaken ones as fit.
THEOREM QueueHoldsTheNewestAlways == BusSpec => []QueueHoldsTheNewest
<1>1. BusInvariant /\ [BusNext]_busVars => BusInvariant'
  BY BusInvariantStep
<1>2. BusInvariant => QueueHoldsTheNewest
  BY DEF BusInvariant, Newest, QueueHoldsTheNewest
<1> QED
  BY BusInvariantInit, <1>1, <1>2, PTL DEF BusSpec
-----------------------------------------------------------------------------
(***************************************************************************)
(* The live page.                                                          *)
(***************************************************************************)

\* Whatever happens to a page, a connection or the process, the bus makes one of its
\* own steps or none.
LEMMA LiveStepIsBusStep ==
    ASSUME [LiveNext]_liveVars
    PROVE  [BusNext]_busVars
<1> USE DEF busVars, connectionVars, pageVars
<1>1. CASE UNCHANGED liveVars
  BY <1>1 DEF liveVars
<1>2. CASE \E p \in Products : Change(p)
  BY <1>2 DEF Change, Commit, BusNext
<1>3. CASE StreamNext
  BY <1>3 DEF StreamNext, WriteFrame, KeepAlive, Close, BusNext
<1>4. ASSUME NEW c \in Clients, NEW s \in Streams, Connect(c, s)
      PROVE  BusNext
  <2>1. Watches[c] \in Products /\ Subscribe(s, Watches[c])
    BY <1>4, LiveAssumption DEF Connect
  <2> QED
    BY <2>1 DEF BusNext
<1>5. ASSUME NEW c \in Clients, Cut(c)
      PROVE  BusNext
  <2>1. Watches[c] \in Products /\ Publish(Watches[c])
    BY <1>5, LiveAssumption DEF Cut, Commit
  <2> QED
    BY <2>1 DEF BusNext
<1>6. ASSUME NEW c \in Clients,
             Break(c) \/ Handle(c) \/ CutSucceeded(c)
             \/ \E q \in Queries : Answer(c, q) \/ Fill(c, q) \/ FetchFails(c, q)
      PROVE  UNCHANGED busVars
  BY <1>6 DEF Break, Handle, CutSucceeded, Answer, Fill, FetchFails
<1>7. CASE Restart
  BY <1>7 DEF Restart, BusNext
<1> QED
  BY <1>1, <1>2, <1>3, <1>4, <1>5, <1>6, <1>7 DEF LiveNext, PageNext, ConnectionNext

\* The live pages implement the bus: what holds of every bus holds of theirs.
THEOREM LivePagesUseTheBus == LiveSpec => BusSpec
<1>1. LiveInit => BusInit
  BY DEF LiveInit
<1>2. [LiveNext]_liveVars => [BusNext]_busVars
  BY LiveStepIsBusStep
<1> QED
  BY <1>1, <1>2, PTL DEF LiveSpec, BusSpec

\* Drop-oldest behind every live page: its queue holds the newest events in order.
THEOREM PagesQueueHoldsTheNewest == LiveSpec => []QueueHoldsTheNewest
BY LivePagesUseTheBus, QueueHoldsTheNewestAlways, PTL

\* Every registered queue has a reader, or one who left and will be noticed.
OrphanInvariant == NoQueueIsOrphaned /\ link \in [Clients -> SUBSET Streams]

LEMMA OrphanInvariantInit == LiveInit => OrphanInvariant
BY DEF LiveInit, BusInit, OrphanInvariant, NoQueueIsOrphaned

LEMMA ConnectionStepOrphansNothing ==
    ASSUME OrphanInvariant, ConnectionNext
    PROVE  OrphanInvariant'
<1> USE DEF OrphanInvariant, NoQueueIsOrphaned
<1>1. ASSUME NEW c \in Clients, NEW s \in Streams, Connect(c, s)
      PROVE  OrphanInvariant'
  <2>1. /\ DOMAIN topic' = DOMAIN topic \cup {s} /\ gone' = gone
        /\ link' = [link EXCEPT ![c] = {s}] /\ link[c] = {}
    BY <1>1 DEF Connect, Subscribe, With
  <2>2. link' \in [Clients -> SUBSET Streams] /\ link'[c] = {s}
        /\ \A d \in Clients \ {c} : link'[d] = link[d]
    BY <2>1
  <2> QED
    BY <2>1, <2>2
<1>2. ASSUME NEW c \in Clients, Break(c)
      PROVE  OrphanInvariant'
  <2>1. /\ topic' = topic /\ gone' = gone \cup link[c]
        /\ link' \in [Clients -> SUBSET Streams]
        /\ \A d \in Clients \ {c} : link'[d] = link[d]
    BY <1>2 DEF Break, busVars
  <2> QED
    BY <2>1
<1>3. CASE Restart
  <2>1. DOMAIN topic' = {} /\ link' \in [Clients -> SUBSET Streams]
    BY <1>3 DEF Restart, Forget
  <2> QED
    BY <2>1
<1> QED
  BY <1>1, <1>2, <1>3 DEF ConnectionNext

\* Publishing and the page's own work change neither the registry nor a connection.
LEMMA WorkOrphansNothing ==
    ASSUME OrphanInvariant, (\E p \in Products : Change(p)) \/ PageNext
    PROVE  OrphanInvariant'
<1>1. UNCHANGED <<topic, gone, link>>
  <2>1. CASE \E p \in Products : Change(p)
    BY <2>1 DEF Change, Commit, Publish, connectionVars
  <2>2. ASSUME NEW c \in Clients, Cut(c) \/ CutSucceeded(c) \/ Handle(c)
        PROVE  UNCHANGED <<topic, gone, link>>
    BY <2>2 DEF Cut, CutSucceeded, Handle, Commit, Publish, connectionVars, busVars
  <2>3. ASSUME NEW c \in Clients, NEW q \in Queries,
               Answer(c, q) \/ Fill(c, q) \/ FetchFails(c, q)
        PROVE  UNCHANGED <<topic, gone, link>>
    BY <2>3 DEF Answer, Fill, FetchFails, connectionVars, busVars
  <2> QED
    BY <2>1, <2>2, <2>3 DEF PageNext
<1> QED
  BY <1>1 DEF OrphanInvariant, NoQueueIsOrphaned

LEMMA StreamStepOrphansNothing ==
    ASSUME OrphanInvariant, StreamNext
    PROVE  OrphanInvariant'
<1> USE DEF OrphanInvariant, NoQueueIsOrphaned
<1>1. ASSUME NEW s \in Streams, Close(s)
      PROVE  OrphanInvariant'
  BY <1>1 DEF Close, Unsubscribe, Without
<1>2. ASSUME NEW s \in Streams, Take(s), UNCHANGED <<link, gone>>
      PROVE  OrphanInvariant'
  BY <1>2 DEF Take
<1> QED
  BY <1>1, <1>2 DEF StreamNext, WriteFrame, KeepAlive

\* No interleaving of pages, breaks and restarts leaves a queue on the bus that nobody
\* reads and nobody will remove.
THEOREM NoQueueIsOrphanedAlways == LiveSpec => []NoQueueIsOrphaned
<1>1. OrphanInvariant /\ [LiveNext]_liveVars => OrphanInvariant'
  <2>1. CASE UNCHANGED liveVars
    BY <2>1 DEF liveVars, busVars, connectionVars, OrphanInvariant, NoQueueIsOrphaned
  <2> QED
    BY <2>1, ConnectionStepOrphansNothing, WorkOrphansNothing, StreamStepOrphansNothing
       DEF LiveNext
<1>2. OrphanInvariant => NoQueueIsOrphaned
  BY DEF OrphanInvariant
<1> QED
  BY OrphanInvariantInit, <1>1, <1>2, PTL DEF LiveSpec

-----------------------------------------------------------------------------
\* No row of a copy counts more than once.
Once(rows) == \A n \in DOMAIN rows : rows[n] \in {0, 1}

\* What a query's copy v and request f look like: an answer shows every row once; so
\* does the copy, but for one that is not the graph and whose repair runs or failed.
InRepair(q, v, f) ==
    /\ f.stage = "answered" => Once(f.rows)
    /\ Once(v) \/ (q # "graph" /\ (Running(f) \/ f = Failed))

PerQuery(f) == DOMAIN f = Clients /\ \A c \in Clients : DOMAIN f[c] = Queries

PageInvariant ==
    /\ PerQuery(view) /\ PerQuery(fetch)
    /\ \A c \in Clients, q \in Queries : InRepair(q, view[c][q], fetch[c][q])

LEMMA PageInvariantInit == LiveInit => PageInvariant
BY DEF LiveInit, PageInvariant, PerQuery, InRepair, Once, NotLoaded, Asked, Idle

\* An invalidation asks again, or joins a first load.
LEMMA InvalidatedInRepair ==
    ASSUME NEW q, NEW v, NEW f, InRepair(q, v, f)
    PROVE  InRepair(q, v, Invalidated(v, f))
BY DEF InRepair, Invalidated, Running, Asked

\* A patch may double a row, not an edge, and the invalidation that follows it starts
\* the request that repairs it.
LEMMA PatchedInRepair ==
    ASSUME NEW q, NEW v, NEW f, NEW n, InRepair(q, v, f)
    PROVE  InRepair(q, Patched(q, v, n), Invalidated(Patched(q, v, n), f))
<1>1. CASE Patched(q, v, n) = v
  BY <1>1, InvalidatedInRepair
<1>2. CASE ~(v = NotLoaded \/ (q = "graph" /\ v[n] > 0))
  <2>1. Patched(q, v, n) = [v EXCEPT ![n] = @ + 1]
    BY <1>2 DEF Patched
  <2>2. q = "graph" => Once([v EXCEPT ![n] = @ + 1])
    BY <1>2 DEF InRepair, Once
  <2>3. \/ Invalidated(Patched(q, v, n), f) = Asked
        \/ Invalidated(Patched(q, v, n), f) = f /\ Running(f)
    BY DEF Invalidated
  <2>4. Running(Asked) /\ Asked.stage # "answered"
    BY DEF Running, Asked
  <2> QED
    BY <2>1, <2>2, <2>3, <2>4 DEF InRepair
<1> QED
  BY <1>1, <1>2 DEF Patched

\* What the server answers shows every row once.
LEMMA SnapshotOnce ==
    ASSUME NEW p, NEW q, NEW n
    PROVE  Once(Snapshot(p, q, n))
BY DEF Once, Snapshot

LEMMA HandleKeepsPage ==
    ASSUME PageInvariant, NEW c \in Clients, Handle(c)
    PROVE  PageInvariant'
<1>1. PICK n, q :
        /\ view' = [view EXCEPT ![c][q] = Patched(q, view[c][q], n)]
        /\ fetch' = [fetch EXCEPT ![c][q] =
                        Invalidated(Patched(q, view[c][q], n), fetch[c][q])]
  BY DEF Handle
<1>2. PerQuery(view') /\ PerQuery(fetch')
  BY <1>1 DEF PageInvariant, PerQuery
<1>3. ASSUME NEW d \in Clients, NEW k \in Queries
      PROVE  InRepair(k, view'[d][k], fetch'[d][k])
  <2>1. InRepair(k, view[d][k], fetch[d][k])
    BY DEF PageInvariant
  <2>2. CASE d = c /\ k = q
    <3>1. /\ view'[d][k] = Patched(k, view[d][k], n)
          /\ fetch'[d][k] = Invalidated(Patched(k, view[d][k], n), fetch[d][k])
      BY <1>1, <2>2 DEF PageInvariant, PerQuery
    <3> QED
      BY <2>1, <3>1, PatchedInRepair
  <2>3. CASE ~(d = c /\ k = q)
    <3>1. view'[d][k] = view[d][k] /\ fetch'[d][k] = fetch[d][k]
      BY <1>1, <2>3 DEF PageInvariant, PerQuery
    <3> QED
      BY <2>1, <3>1
  <2> QED
    BY <2>2, <2>3
<1> QED
  BY <1>2, <1>3 DEF PageInvariant

LEMMA CutSucceededKeepsPage ==
    ASSUME PageInvariant, NEW c \in Clients, CutSucceeded(c)
    PROVE  PageInvariant'
<1> DEFINE old == IF view[c]["releases"] = NotLoaded
                  THEN NoRows(Watches[c]) ELSE view[c]["releases"]
<1>1. PICK n :
        /\ view' = [view EXCEPT ![c]["releases"] = Patched("releases", old, n)]
        /\ fetch' = [fetch EXCEPT
                        ![c]["releases"] = Invalidated(Patched("releases", old, n), @),
                        ![c]["timeline"] = Invalidated(view[c]["timeline"], @)]
  BY DEF CutSucceeded
<1> DEFINE asked == [fetch EXCEPT ![c]["releases"] =
                        Invalidated(Patched("releases", old, n), fetch[c]["releases"])]
<1>2. \A d \in Clients, k \in Queries : InRepair(k, view[d][k], fetch[d][k])
  BY DEF PageInvariant
<1>3. "releases" \in Queries /\ "timeline" \in Queries
  BY DEF Queries
<1>4. InRepair("releases", old, fetch[c]["releases"])
  BY <1>2, <1>3 DEF InRepair, Once, NoRows
<1>5. /\ PerQuery(view) /\ PerQuery(fetch)
      /\ fetch' = [asked EXCEPT ![c]["timeline"] =
                       Invalidated(view[c]["timeline"], asked[c]["timeline"])]
  BY <1>1 DEF PageInvariant, PerQuery
<1>6. /\ PerQuery(asked)
      /\ \A d \in Clients, k \in Queries :
            asked[d][k] = IF d = c /\ k = "releases"
                          THEN Invalidated(Patched("releases", old, n), fetch[c]["releases"])
                          ELSE fetch[d][k]
  <2> HIDE DEF old
  <2> QED
    BY <1>3, <1>5 DEF PerQuery
<1>7. /\ PerQuery(fetch')
      /\ \A d \in Clients, k \in Queries :
            fetch'[d][k] = IF d = c /\ k = "timeline"
                           THEN Invalidated(view[c]["timeline"], asked[c]["timeline"])
                           ELSE asked[d][k]
  <2> HIDE DEF asked
  <2> QED
    BY <1>3, <1>5, <1>6 DEF PerQuery
<1>8. /\ PerQuery(view')
      /\ \A d \in Clients, k \in Queries :
            view'[d][k] = IF d = c /\ k = "releases"
                          THEN Patched("releases", old, n) ELSE view[d][k]
  <2> HIDE DEF old
  <2> QED
    BY <1>1, <1>3, <1>5 DEF PerQuery
<1> HIDE DEF old, asked
<1>9. ASSUME NEW d \in Clients, NEW k \in Queries
      PROVE  InRepair(k, view'[d][k], fetch'[d][k])
  <2>1. CASE d = c /\ k = "releases"
    <3>1. /\ view'[d][k] = Patched("releases", old, n)
          /\ fetch'[d][k] = Invalidated(Patched("releases", old, n), fetch[c]["releases"])
      BY <1>6, <1>7, <1>8, <2>1
    <3> QED
      BY <1>4, <2>1, <3>1, PatchedInRepair
  <2>2. CASE d = c /\ k = "timeline"
    <3>1. /\ view'[d][k] = view[c]["timeline"]
          /\ fetch'[d][k] = Invalidated(view[c]["timeline"], fetch[c]["timeline"])
      BY <1>3, <1>6, <1>7, <1>8, <2>2
    <3> QED
      BY <1>2, <1>3, <2>2, <3>1, InvalidatedInRepair
  <2>3. CASE ~(d = c /\ k \in {"releases", "timeline"})
    <3>1. view'[d][k] = view[d][k] /\ fetch'[d][k] = fetch[d][k]
      BY <1>6, <1>7, <1>8, <2>3
    <3> QED
      BY <1>2, <3>1
  <2> QED
    BY <2>1, <2>2, <2>3
<1> QED
  BY <1>7, <1>8, <1>9 DEF PageInvariant

LEMMA RequestKeepsPage ==
    ASSUME PageInvariant, NEW c \in Clients, NEW q \in Queries,
           Answer(c, q) \/ Fill(c, q) \/ FetchFails(c, q)
    PROVE  PageInvariant'
<1>1. \A d \in Clients, k \in Queries : InRepair(k, view[d][k], fetch[d][k])
  BY DEF PageInvariant
<1>2. PerQuery(view) /\ PerQuery(fetch)
  BY DEF PageInvariant
<1>3. CASE Answer(c, q)
  <2> DEFINE rows == Snapshot(Watches[c], q, published[Watches[c]])
  <2>1. /\ view' = view /\ fetch' = [fetch EXCEPT ![c][q] = Answered(rows)]
        /\ fetch[c][q].stage = "asked"
    BY <1>3 DEF Answer
  <2>2. Once(rows) /\ Answered(rows).stage = "answered" /\ Answered(rows).rows = rows
    BY SnapshotOnce DEF Answered
  <2>3. InRepair(q, view[c][q], Answered(rows))
    BY <1>1, <2>1, <2>2 DEF InRepair, Running
  <2> HIDE DEF rows
  <2> QED
    BY <1>1, <1>2, <2>1, <2>3 DEF PageInvariant, PerQuery
<1>4. CASE Fill(c, q)
  <2>1. /\ fetch[c][q].stage = "answered"
        /\ view' = [view EXCEPT ![c][q] = fetch[c][q].rows]
    BY <1>4 DEF Fill
  <2>2. /\ PerQuery(fetch')
        /\ \A d \in Clients, k \in Queries :
              \/ fetch'[d][k] = fetch[d][k] /\ ~(d = c /\ k = q)
              \/ fetch'[d][k] = Asked /\ ~(d = c /\ k = q)
              \/ fetch'[d][k] = Idle /\ d = c /\ k = q
    BY <1>2, <1>4 DEF Fill, PerQuery
  <2>3. /\ PerQuery(view')
        /\ \A d \in Clients, k \in Queries :
              view'[d][k] = IF d = c /\ k = q THEN fetch[c][q].rows ELSE view[d][k]
    BY <1>2, <2>1 DEF PerQuery
  <2>4. ASSUME NEW d \in Clients, NEW k \in Queries
        PROVE  InRepair(k, view'[d][k], fetch'[d][k])
    <3>1. InRepair(k, view[d][k], fetch[d][k]) /\ InRepair(q, view[c][q], fetch[c][q])
      BY <1>1
    <3>2. CASE d = c /\ k = q
      <4>1. view'[d][k] = fetch[c][q].rows /\ fetch'[d][k] = Idle
        BY <2>2, <2>3, <3>2
      <4> QED
        BY <2>1, <3>1, <4>1 DEF InRepair, Idle
    <3>3. CASE ~(d = c /\ k = q)
      <4>1. view'[d][k] = view[d][k] /\ (fetch'[d][k] = fetch[d][k] \/ fetch'[d][k] = Asked)
        BY <2>2, <2>3, <3>3
      <4> QED
        BY <3>1, <4>1 DEF InRepair, Running, Asked
    <3> QED
      BY <3>2, <3>3
  <2> QED
    BY <2>2, <2>3, <2>4 DEF PageInvariant
<1>5. CASE FetchFails(c, q)
  <2>1. view' = view /\ fetch' = [fetch EXCEPT ![c][q] = Failed]
        /\ fetch[c][q].stage = "asked"
    BY <1>5 DEF FetchFails
  <2>2. InRepair(q, view[c][q], Failed)
    BY <1>1 DEF InRepair, Failed
  <2> QED
    BY <1>1, <1>2, <2>1, <2>2 DEF PageInvariant, PerQuery
<1> QED
  BY <1>3, <1>4, <1>5

LEMMA PageInvariantStep ==
    ASSUME PageInvariant, [LiveNext]_liveVars
    PROVE  PageInvariant'
<1>1. CASE UNCHANGED <<view, fetch>>
  BY <1>1 DEF PageInvariant
<1>2. CASE UNCHANGED liveVars \/ StreamNext \/ ConnectionNext \/ \E p \in Products : Change(p)
  <2>1. UNCHANGED <<view, fetch>>
    BY <1>2 DEF liveVars, pageVars, StreamNext, WriteFrame, KeepAlive, Close,
                ConnectionNext, Connect, Break, Restart, Change
  <2> QED
    BY <1>1, <2>1
<1>3. ASSUME NEW c \in Clients, Cut(c)
      PROVE  PageInvariant'
  BY <1>1, <1>3 DEF Cut
<1> QED
  BY <1>2, <1>3, HandleKeepsPage, CutSucceededKeepsPage, RequestKeepsPage
     DEF LiveNext, PageNext

\* However frames, the page's own cuts and the answers overtake each other, an edge is
\* drawn once, and a version or a release that shows twice is being asked for again, or
\* that request has failed.
THEOREM RowsAreShownOnceAlways == LiveSpec => []RowsAreShownOnce
<1>1. PageInvariant /\ [LiveNext]_liveVars => PageInvariant'
  BY PageInvariantStep
<1>2. PageInvariant => RowsAreShownOnce
  BY DEF PageInvariant, InRepair, Once, RowsAreShownOnce
<1> QED
  BY PageInvariantInit, <1>1, <1>2, PTL DEF LiveSpec
=============================================================================
