------------------------------- MODULE LiveView -------------------------------
(***************************************************************************)
(* A product's live page: the server's event streams                       *)
(* (app/sse/sse_event_stream.py, app/routers/events.py) on one end, the    *)
(* browser's cached queries of the product (frontend/ui/src/features/live, *)
(* frontend/ui/src/api/events.ts) on the other, a connection that breaks   *)
(* and a server that restarts in between.                                  *)
(*                                                                         *)
(* The changes of a product are numbered in the order they commit; each    *)
(* publishes the event of its number in the same step (a handler does not  *)
(* suspend).  The model follows the changes that add a row: a version, a   *)
(* release, a dependency.  The page keeps one query for each kind of row,  *)
(* with a copy and a request of its own, and an event patches and          *)
(* invalidates the query of its kind only.  A copy counts how often it     *)
(* shows the row of each change.                                           *)
(***************************************************************************)
EXTENDS EventBus

CONSTANTS
    Clients,
    Watches,       \* the product each client's page shows
    SocketBuffer,  \* frames written to a connection and not yet read
    MaxChanges,    \* bound on the changes of each product
    MaxBreaks      \* bound on broken connections, restarts and failed requests

ASSUME LiveAssumption ==
    /\ Watches \in [Clients -> Products]
    /\ MaxChanges \in [Products -> Nat]
    /\ SocketBuffer \in Nat /\ MaxBreaks \in Nat

VARIABLES
    types,    \* per product, the event type of each change
    link,     \* per client, the set holding its open stream, or empty
    attempt,  \* per client, 1 while a stream that was open is lost, else 0
    wire,     \* per stream, the frames on their way
    gone,     \* streams whose client has left and which have not noticed
    view,     \* per client and query, how often each row shows; empty before the first load
    fetch,    \* per client and query, its request: the stage, and what was read
    posted,   \* per client, the release its page has cut and not heard of, or empty
    breaks

connectionVars == <<link, attempt, wire, gone>>
pageVars == <<view, fetch, posted>>
liveVars == <<busVars, types, connectionVars, pageVars, breaks>>
-----------------------------------------------------------------------------
Queries == {"timeline", "releases", "graph"}
Kinds == {"version.created", "release.cut", "dependency.added"}

\* The query an event is folded into, and the only one it invalidates.
QueryOf(kind) ==
    CASE kind = "version.created"  -> "timeline"
      [] kind = "release.cut"      -> "releases"
      [] kind = "dependency.added" -> "graph"

\* A copy that was never loaded, and one without a row.
NotLoaded == [n \in {} |-> 0]
NoRows(p) == [n \in 1 .. MaxChanges[p] |-> 0]

Idle    == [stage |-> "idle", rows |-> NotLoaded]
Asked   == [stage |-> "asked", rows |-> NotLoaded]
Failed  == [stage |-> "failed", rows |-> NotLoaded]
Answered(rows) == [stage |-> "answered", rows |-> rows]
Running(f) == f.stage \in {"asked", "answered"}

\* The query of a product as the server answers it after n changes.
Snapshot(p, q, n) ==
    [i \in 1 .. MaxChanges[p] |-> IF i <= n /\ QueryOf(types[p][i]) = q THEN 1 ELSE 0]

\* The workspace, with the other queries and the stream, mounts once the timeline is
\* there.
Mounted(c) == view[c]["timeline"] # NotLoaded

InSync(c, q) == view[c][q] = Snapshot(Watches[c], q, published[Watches[c]])

\* The row is prepended or appended whatever the copy holds, also for an edge.
PatchedBlindly(q, v, n) == IF v = NotLoaded THEN v ELSE [v EXCEPT ![n] = @ + 1]

\* setQueryData: a version or a release is added whatever the copy already holds, an
\* edge only if its id is not drawn yet; a copy not loaded stays undefined.
Patched(q, v, n) ==
    IF v = NotLoaded \/ (q = "graph" /\ v[n] > 0) THEN v ELSE [v EXCEPT ![n] = @ + 1]

\* The running request is joined, whatever it has already read.
Joined(v, f) == IF Running(f) THEN f ELSE Asked

\* The invalidation forgotten: the patched copy is trusted.
NotInvalidated(v, f) == f

\* invalidateQueries: a running request is dropped and asked again, but a first load,
\* which has no data to fall back on, is joined.
Invalidated(v, f) == IF v = NotLoaded /\ Running(f) THEN f ELSE Asked
-----------------------------------------------------------------------------
\* A page opens and asks for the timeline.
LiveInit ==
    /\ BusInit
    /\ types = [p \in Products |-> <<>>]
    /\ link = [c \in Clients |-> {}]
    /\ attempt = [c \in Clients |-> 0]
    /\ wire = [s \in Streams |-> <<>>]
    /\ gone = {}
    /\ view = [c \in Clients |-> [q \in Queries |-> NotLoaded]]
    /\ fetch = [c \in Clients |->
                  [q \in Queries |-> IF q = "timeline" THEN Asked ELSE Idle]]
    /\ posted = [c \in Clients |-> {}]
    /\ breaks = 0

\* A change commits and its event is published.
Commit(p, kind) ==
    /\ published[p] < MaxChanges[p]
    /\ types' = [types EXCEPT ![p] = Append(@, kind)]
    /\ Publish(p)

\* Any request of somebody else that changes the product.
Change(p) ==
    /\ \E kind \in Kinds : Commit(p, kind)
    /\ UNCHANGED <<connectionVars, pageVars, breaks>>

\* useCutRelease: the page's own cut commits; its answer is on the way.
Cut(c) ==
    /\ Mounted(c) /\ posted[c] = {}
    /\ Commit(Watches[c], "release.cut")
    /\ posted' = [posted EXCEPT ![c] = {published[Watches[c]] + 1}]
    /\ UNCHANGED <<connectionVars, view, fetch, breaks>>

\* onSuccess: the release is prepended, to nothing if need be, and the releases and
\* the timeline are invalidated.
CutSucceeded(c) ==
    \E n \in posted[c] :
       LET old == IF view[c]["releases"] = NotLoaded
                  THEN NoRows(Watches[c]) ELSE view[c]["releases"]
           new == Patched("releases", old, n) IN
       /\ view' = [view EXCEPT ![c]["releases"] = new]
       /\ fetch' = [fetch EXCEPT ![c]["releases"] = Invalidated(new, @),
                                 ![c]["timeline"] = Invalidated(view[c]["timeline"], @)]
       /\ posted' = [posted EXCEPT ![c] = {}]
       /\ UNCHANGED <<busVars, types, connectionVars, breaks>>

\* connect(): GET /products/{id}/events, whose generator subscribes first.
Connect(c, s) ==
    /\ link[c] = {} /\ Mounted(c)
    /\ Subscribe(s, Watches[c])
    /\ link' = [link EXCEPT ![c] = {s}]
    /\ attempt' = [attempt EXCEPT ![c] = 0]
    /\ wire' = [wire EXCEPT ![s] = <<>>]
    /\ UNCHANGED <<types, pageVars, gone, breaks>>

\* The generator ends without its finally block.
CloseSilently(s) ==
    /\ gone' = gone \ {s}
    /\ UNCHANGED <<busVars, types, link, attempt, wire, pageVars, breaks>>

\* finally: the queue leaves the bus.
Close(s) ==
    /\ Unsubscribe(s)
    /\ gone' = gone \ {s}
    /\ UNCHANGED <<types, link, attempt, wire, pageVars, breaks>>

\* yield of the next event: a frame on the wire, or the write a closed connection
\* refuses.
WriteFrame(s) ==
    \/ /\ s \notin gone
       /\ Len(wire[s]) < SocketBuffer
       /\ Take(s)
       /\ wire' = [wire EXCEPT ![s] = Append(@, Head(queue[s]))]
       /\ UNCHANGED <<types, link, attempt, gone, pageVars, breaks>>
    \/ /\ s \in gone /\ queue[s] # <<>>
       /\ Close(s)

\* The wait times out and the stream only waits again: nothing is written.
KeepWaiting(s) ==
    /\ s \in gone /\ queue[s] = <<>>
    /\ UNCHANGED liveVars

\* The wait times out: a keep-alive comment, which a live client ignores.
KeepAlive(s) ==
    /\ s \in gone /\ queue[s] = <<>>
    /\ Close(s)

\* The connection breaks: the client closes its EventSource and will try again.
Break(c) ==
    /\ breaks < MaxBreaks /\ breaks' = breaks + 1
    /\ link[c] # {}
    /\ gone' = gone \cup link[c]
    /\ link' = [link EXCEPT ![c] = {}]
    /\ attempt' = [attempt EXCEPT ![c] = 1]
    /\ wire' = [s \in Streams |-> IF s \in link[c] THEN <<>> ELSE wire[s]]
    /\ UNCHANGED <<busVars, types, pageVars>>

\* The server process restarts: streams and their queues are gone, the database
\* is not.
Restart ==
    /\ breaks < MaxBreaks /\ breaks' = breaks + 1
    /\ Forget
    /\ link' = [c \in Clients |-> {}]
    /\ attempt' = [c \in Clients |-> IF link[c] = {} THEN attempt[c] ELSE 1]
    /\ wire' = [s \in Streams |-> <<>>]
    /\ gone' = {}
    /\ UNCHANGED <<types, pageVars>>

\* The event handlers of use-product-events.ts: patch and invalidate the one query.
Handle(c) ==
    \E s \in link[c] :
       /\ wire[s] # <<>>
       /\ LET n == Head(wire[s])
              q == QueryOf(types[Watches[c]][n])
              new == Patched(q, view[c][q], n) IN
          /\ view' = [view EXCEPT ![c][q] = new]
          /\ fetch' = [fetch EXCEPT ![c][q] = Invalidated(new, @)]
       /\ wire' = [wire EXCEPT ![s] = Tail(@)]
       /\ UNCHANGED <<busVars, types, link, attempt, gone, posted, breaks>>

\* The server reads what the request asks for.
Answer(c, q) ==
    /\ fetch[c][q].stage = "asked"
    /\ fetch' = [fetch EXCEPT ![c][q] =
                    Answered(Snapshot(Watches[c], q, published[Watches[c]]))]
    /\ UNCHANGED <<busVars, types, connectionVars, view, posted, breaks>>

\* The answer replaces the copy; the first timeline mounts the workspace, whose other
\* queries are asked then.
Fill(c, q) ==
    /\ fetch[c][q].stage = "answered"
    /\ view' = [view EXCEPT ![c][q] = fetch[c][q].rows]
    /\ fetch' = [fetch EXCEPT ![c] =
                    [k \in Queries |-> IF k = q THEN Idle
                                       ELSE IF Mounted(c) THEN @[k] ELSE Asked]]
    /\ UNCHANGED <<busVars, types, connectionVars, posted, breaks>>

\* The request fails for good (query-client.ts retries transient errors only): the
\* old copy stays and the page shows the error.
FetchFails(c, q) ==
    /\ breaks < MaxBreaks /\ breaks' = breaks + 1
    /\ fetch[c][q].stage = "asked"
    /\ fetch' = [fetch EXCEPT ![c][q] = Failed]
    /\ UNCHANGED <<busVars, types, connectionVars, view, posted>>

StreamNext == \E s \in Streams : WriteFrame(s) \/ KeepAlive(s)

PageNext ==
    \E c \in Clients :
        \/ Handle(c) \/ Cut(c) \/ CutSucceeded(c)
        \/ \E q \in Queries : Answer(c, q) \/ Fill(c, q) \/ FetchFails(c, q)

ConnectionNext ==
    \/ \E c \in Clients : Break(c) \/ \E s \in Streams : Connect(c, s)
    \/ Restart

LiveNext == (\E p \in Products : Change(p)) \/ StreamNext \/ PageNext \/ ConnectionNext

\* The generator's loop runs at least every keep-alive interval, the browser's
\* event loop and its reconnect timer run, and requests are answered.
LiveFairness ==
    /\ \A s \in Streams : WF_liveVars(WriteFrame(s)) /\ WF_liveVars(KeepAlive(s))
    /\ \A c \in Clients :
          /\ WF_liveVars(Handle(c)) /\ WF_liveVars(\E s \in Streams : Connect(c, s))
          /\ \A q \in Queries : WF_liveVars(Answer(c, q)) /\ WF_liveVars(Fill(c, q))

LiveSpec == LiveInit /\ [][LiveNext]_liveVars /\ LiveFairness
-----------------------------------------------------------------------------
(***************************************************************************)
(* Properties.                                                             *)
(***************************************************************************)

\* A registered queue belongs to a client that reads it or to one that has left
\* and will be noticed: "a client disconnect releases the subscriber queue and
\* never leaks a registration" (sse_event_stream.py:5).
NoQueueIsOrphaned ==
    \A s \in DOMAIN topic : s \in gone \/ \E c \in Clients : s \in link[c]

\* The other half: the queue of a client that left does leave the bus, at the
\* next write or keep-alive, however idle the product is.
DeadStreamsLeave == \A s \in Streams : s \in gone ~> s \notin DOMAIN topic

\* A frame, the page's own cut and the answers overtake each other, so a copy may hold
\* a change already when a patch brings it.  An edge is drawn once all the same ("must
\* not double-draw an arc", event-cache.ts:65).  A version or a release shows twice at
\* most until the request its patch started comes back; if that one fails, until the
\* next event of the kind.
RowsAreShownOnce ==
    \A c \in Clients, q \in Queries : \A n \in DOMAIN view[c][q] :
        view[c][q][n] > 1
        => q # "graph" /\ (Running(fetch[c][q]) \/ fetch[c][q] = Failed)

QueryOfChange(c, n) == QueryOf(types[Watches[c]][n])

\* A frame still to be read from the client's open stream.
OnTheWire(c, n) == \E s \in link[c] : \E i \in DOMAIN wire[s] : wire[s][i] = n

\* The copy of a query shows, each once, the rows of its kind up to change n, and no
\* request is about to replace it.
SettledUpTo(c, q, n) ==
    /\ view[c][q] # NotLoaded /\ fetch[c][q] = Idle
    /\ \A i \in 1 .. n : view[c][q][i] = Snapshot(Watches[c], q, published[Watches[c]])[i]

\* "SSE frames are notifications, not the source of truth" (event_bus.py:18): a frame
\* brings the query of its kind, once loaded, up to the frame's change, the earlier
\* changes of the kind whose frames were evicted included, whatever requests are running
\* and however they and later frames overtake each other, unless the stream is lost or
\* the request fails after the frame was handled.
AFrameBringsItsQueryUpToDate ==
    \A c \in Clients : \A n \in 1 .. MaxChanges[Watches[c]] :
        (/\ OnTheWire(c, n)
         /\ view[c][QueryOfChange(c, n)] # NotLoaded)
        ~> (\/ /\ n <= published[Watches[c]]
               /\ \/ SettledUpTo(c, QueryOfChange(c, n), n)
                  \/ fetch[c][QueryOfChange(c, n)] = Failed /\ ~OnTheWire(c, n)
            \/ link[c] = {})

\* "dropping stale frames is safe" (event_bus.py:19): a page that was up to date with
\* what its stream has written, and whose queue then gave up events, comes up to date
\* again, unless the connection or a request fails.
DroppedFramesAreMadeUpFor ==
    \A c \in Clients, s \in Streams :
        (/\ s \in link[c] /\ queue[s] # <<>> /\ Head(queue[s]) > seen[s] + 1
         /\ \A q \in Queries : view[c][q] = Snapshot(Watches[c], q, seen[s]))
        ~> (\/ \A q \in Queries : InSync(c, q)
            \/ s \notin link[c]
            \/ \E q \in Queries : fetch[c][q] = Failed)

\* "A consumer that missed events simply re-syncs the full state via the REST
\* endpoints" (event_bus.py:17): a page that was up to date when it lost its open
\* stream is so again once the stream is back, unless a request fails.
MissedEventsAreResynced ==
    \A c \in Clients :
        (attempt[c] = 1 /\ \A q \in Queries : InSync(c, q))
        ~> (\/ link[c] # {} /\ \A q \in Queries : InSync(c, q)
            \/ \E q \in Queries : fetch[c][q] = Failed)
=============================================================================
