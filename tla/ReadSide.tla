------------------------------- MODULE ReadSide -------------------------------
(***************************************************************************)
(* What the GET routes answer (app/routers/products.py, components.py,     *)
(* timeline.py, releases.py and the queries behind them), from the tables  *)
(* of ReleaseLedger.  Each is a read of its own: a page of the UI is put   *)
(* together from several of them.                                          *)
(***************************************************************************)
EXTENDS ReleaseLedger

Missing == [code |-> 404]
Body(b) == [code |-> 200, body |-> b]

\* The answer about a product, 404 when there is none.
OfProduct(p, body) == IF p \in DOMAIN product THEN Body(body) ELSE Missing

ListProducts == Body(DOMAIN product)
GetProduct(p) == OfProduct(p, product[p].name)
ListProductComponents(p) == OfProduct(p, ComponentsOf(p))
GetProductGraph(p) == OfProduct(p, [nodes |-> ComponentsOf(p), edges |-> EdgesOf(p)])

VersionResponse(v) == [id |-> v, number |-> versions[v].semver, status |-> versions[v].status]
-----------------------------------------------------------------------------
(***************************************************************************)
(* Histories, highest number first.  Rows that tie on the core come in     *)
(* any order (a component's list has no further key), so an answer is one  *)
(* of a set.                                                               *)
(***************************************************************************)
Descending(s) == \A i, j \in DOMAIN s : i < j => ~Below(s[i].number.core, s[j].number.core)

Listings(vs) ==
    {s \in [1 .. Cardinality(vs) -> {VersionResponse(v) : v \in vs}] :
        (\A v \in vs : \E i \in DOMAIN s : s[i].id = v) /\ Descending(s)}

\* The answers GET /components/{id}/versions may give.
ListComponentVersions(c) ==
    IF c \in DOMAIN component THEN {Body(s) : s \in Listings(HistoryOf(versions, c))}
    ELSE {Missing}

\* Rows nobody runs any more left out.
LiveHistoryOf(vs, c) == {v \in HistoryOf(vs, c) : vs[v].status # "rolled_back"}

\* A product's timeline forgets what was rolled back.
TimelineOfLive(p) ==
    [c \in ComponentsOf(p) |-> {VersionResponse(v) : v \in LiveHistoryOf(versions, c)}]

\* The product's versions in one SELECT, then grouped under its components, of which
\* one without versions keeps an empty list.  (Their order is that of Listings.)
TimelineOf(p) ==
    [c \in ComponentsOf(p) |-> {VersionResponse(v) : v \in HistoryOf(versions, c)}]

GetTimeline(p) == OfProduct(p, TimelineOf(p))
-----------------------------------------------------------------------------
(***************************************************************************)
(* Releases with their manifests, joined with the version rows of now.     *)
(***************************************************************************)
Manifest(i) ==
    [c \in DOMAIN releases[i].pins |->
        [version |-> releases[i].pins[c], number |-> Served(i)[c]]]

ReleaseResponse(i) ==
    [id |-> i, product |-> releases[i].product, version |-> releases[i].version,
     level |-> releases[i].level, components |-> Manifest(i)]

GetRelease(i) == IF i \in DOMAIN releases THEN Body(ReleaseResponse(i)) ELSE Missing

\* The product's cuts, newest first.
NewestFirst(p) == {s \in [1 .. Cardinality(CutsOf(p)) -> CutsOf(p)] :
                      \A i, j \in DOMAIN s : i < j => s[i] > s[j]}

ListProductReleases(p) ==
    {OfProduct(p, [k \in DOMAIN s |-> ReleaseResponse(s[k])]) : s \in NewestFirst(p)}
-----------------------------------------------------------------------------
(***************************************************************************)
(* Property.                                                               *)
(***************************************************************************)

\* The reads of one page agree: a listed product is there; the list of a component
\* and the timeline of its product show the same rows, in the timeline every row a
\* release of the product lists too, with the same number, however long ago it was
\* superseded or rolled back (timeline_query.py filters by no status); both ends of an
\* edge of the graph are among its nodes; and a release says by itself what the list of
\* the product's releases says.
ReadsOfAPageAgree ==
    \A p \in ListProducts.body :
        /\ GetProduct(p).code = 200
        /\ \A e \in GetProductGraph(p).body.edges :
              {e[1], e[2]} \subseteq GetProductGraph(p).body.nodes
        /\ \A c \in ListProductComponents(p).body : \A answer \in ListComponentVersions(c) :
              {answer.body[i] : i \in DOMAIN answer.body} = GetTimeline(p).body[c]
        /\ \A answer \in ListProductReleases(p) : \A k \in DOMAIN answer.body :
              LET r == answer.body[k] IN
              /\ GetRelease(r.id).body = r
              /\ \A c \in DOMAIN r.components :
                    \E row \in GetTimeline(p).body[c] :
                       /\ row.id = r.components[c].version
                       /\ row.number = r.components[c].number
=============================================================================
