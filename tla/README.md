# lavs-core in TLA+

lavs-core keeps the version history of components, freezes the active versions
of a product's components into releases, derives each release's version from what
changed and from the dependencies between the components, and announces changes
to live subscribers; people sign up for it by mail, and it takes over the data of
a flat predecessor. This directory models what decides what clients get to see,
checks it with TLC on small instances and proves the properties that matter most
for every instance with TLAPS.

Paths below are relative to `src/`. Run any model with
`tlc -config X.cfg M` and any proof module with `tlapm M.tla`.

## 1. The system

One FastAPI process per replica serves a relational database (DuckDB, Postgres,
MySQL or SQL Server behind `app/backends`). Every request is a query object
(`app/queries/**`) whose `apply` runs a fixed list of SQL statements. A published
event goes to an in-process bus, and from there to every open SSE stream.

| Component | State | Operations | Talks to | What makes it correct |
|---|---|---|---|---|
| Catalogue (`queries/products`, `queries/components`) | tables `products`, `components` | create product, create component | read by everything | names unique, every component's product exists |
| Version ledger (`queries/versions`) | table `versions`: an append-only history with a status column | create version, roll back a version | publishes `version.created`, `version.rolled_back` | one active version per component, a rollback always leaves something to serve, history never rewritten, events tell the whole change |
| Dependency graph (`queries/component_dependencies`) | table `component_dependencies` | add edge, remove edge, impact report | uses the cycle search and the level walk; publishes `dependency.added/removed` | no cycle, no edge across products, impact report complete |
| Graph walks (`domain/dependency_graph.py`, `domain/bump_propagation.py`) | local variables of two loops | `is_reachable`, `effective_levels` | called by the graph and by the release cut, inside the event loop | end on any input, give the same answer for every order of the rows |
| Bump derivation (`domain/change_classifier.py`, `bump_propagation.py`, `product_version.py`) | none | classify, propagate, apply | called by the release cut | the product version follows from the change |
| Release ledger (`queries/releases`, `routers/releases.py`) | tables `releases`, `release_components` | cut a release | reads all of the above; publishes `release.cut` | one release per Idempotency-Key, releases immutable, a version number names one composition, announced once |
| Event bus and SSE streams (`events`, `sse`, `routers/events.py`) | a bounded queue per subscriber, the registry of queues | subscribe, publish with drop-oldest, take, keep-alive, unsubscribe | fed by the three ledgers, feeds the UI | newest events kept in order, no queue outlives its client |
| Live cache of the UI (`frontend/ui/src/features/live`, `api/events.ts`) | the browser's three queries of the product (timeline, releases, graph), each with its copy and its request | patch a query from an event of its kind, invalidate it, re-fetch, cut a release, reconnect | streams, GET routes | a query that is told of a change ends up as the server has it, each row shown once |
| Replicas and crashes (`backends`, `connections`) | the committed statements | each statement commits by itself | all writers | handlers cut in two by a crash or by another replica do lasting damage nowhere it is promised not to |
| Rate limiter (`security`) | a bounded table of admission times | admit, refuse, prune, evict | in front of `/auth/*` | no client over the limit while the table can hold the active ones |
| Accounts (`routers/auth.py`, `auth`) | tables `users`, `email_verification_tokens`, `sessions` | sign up, verify, log in, log out, the principal of a request | rate limiter, mailer | one account and one link per address, no spent link on a pending account, dead sessions stay dead |
| Migration (`database/migration`, `main.py`) | the legacy table, its archive, the new tables | boot: create schema, inspect, rename, insert | before anything else | every row once, whoever boots and dies how often |
| Read side (`queries/timeline`, `releases_read`, lists) | none of its own | the GET routes | all tables | the answers that make up one page agree |
| Wiring, `/meta`, health, plugins, SQL dialects, charts, generated code, UI rendering | none of their own | – | – | – |

What is hard about it:

* **Autocommit.** All four backends commit every statement
  (`postgres_backend.py:71`, `mysql_backend.py:79`, `mssql_backend.py:167`;
  DuckDB by default) and no handler opens a transaction, so a failing statement
  leaves the ones before it in place.
* **Long histories.** Creations, rollbacks, edges and cuts come in any order. The
  interesting failures take several requests of different kinds to build up.
* **Stored identities, joined late.** A release stores version ids and an event
  carries ids; both are interpreted against rows that later requests update.
* **Unsorted rows.** No `ORDER BY` on edges, none that breaks ties on versions.
* **Retries.** Clients repeat rollbacks and cuts whose answer was lost.
* **Replicas.** Two processes on one database interleave statement by statement,
  and either may die between two of them.
* **Two copies.** The browser patches its queries from one lossy stream while it
  re-fetches them one by one: frames and answers overtake each other, connections
  break, and an event of one kind does nothing for the query of another.
* **Tables at their limit.** A full queue drops an event, a full limiter a client.

`PROJECT.json` lists each of these at the line where it bites.

## 2. The modules

```
Catalogue ─┬─ VersionLedger ────────────┬─ ReleaseLedger ─ ReadSide ─ MCReleaseLedger
           │    ├─ DeployedVersion (abstract)
           │    └─ MCVersionLedger      │
           └─ DependencyGraph ──────────┘
                    └───────────┐
BumpDerivation ──── LevelWalk ──┼─ MCGraphWalks
           ReachabilitySearch ──┘
EventBus ─ LiveView ─ MCLiveView
RateLimiter, Accounts ─ MCFrontDoor             (a scenario each)
ReplicaWrites, FlatMigration ─ MCStatements     (a scenario each)
```

Proofs are in `VersionLedgerProofs`, `DependencyGraphProofs`, `GraphWalkProofs` (both
loops), `ReleaseLedgerProofs` (with the read side), `LiveViewProofs` (with the bus),
`FrontDoorProofs` (limiter and accounts) and `StatementProofs` (writes and
migration); `CommonLemmas` has what several of them need about tables and levels. `PROJECT.json` maps every definition to its lines.

**Catalogue.** `product` and `component` are the two tables, as functions from
ids to rows. `CreateProduct` and `CreateComponent` are the two POST handlers.
`reply` is the answer of the last request (`ok`, `not_found`, `conflict`, or
`error` for a database failure) with the one event it published, if any.

**VersionLedger.** `versions` is the table. `CreateVersion` supersedes the active
row and inserts the new one; when the number does not fit the INTEGER columns
(`MaxInteger`), only the UPDATE happens and the client gets a 500. `Rollback`
takes any row, picks one of the highest non-rolled-back rows strictly below it
(any of them: `ORDER BY` leaves ties open) and runs the three UPDATEs in the
code's order.

**DeployedVersion.** The promise behind the status column, without rows: publish,
withdraw to an older version nobody has withdrawn, fail to publish. The ledger is
shown to implement it, with `withdrawn` the set of rolled-back rows and `deployed`
the active row.

**DependencyGraph.** `dependency` is the set of edge rows. `AddDependency` has the
404 and 409 cases in the order of the code, the cycle check among them;
`RemoveDependency` and the `Impact` report complete the component. `Reaches` is
the definition of reachability, not the code's search.

**ReachabilitySearch** is that search, one action per branch of the loop. Its
invariant and its answer are checked and proved against the definition, which
justifies using the definition in `DependencyGraph`.

**BumpDerivation** holds the pure operators of `app/domain`. **LevelWalk** is the
memoised recursion of `effective_levels` with an explicit call stack, in whatever
order the rows come; the recursive function `EffectiveLevels` that the other
modules use is shown equal to it, and both to the closed form `FeltLevel`.

**ReleaseLedger** composes the version ledger, the graph and the catalogue with
`CutRelease`: replay of a used key, refusal without an active component, else the
manifest, the derivation under the product's policy, the two INSERTs and the
event. Any request of the other components may run between two cuts.

**ReadSide** adds what each GET route answers, as an operator over the ledgers'
tables. An answer whose order the SQL leaves open is a set of possible answers.

**EventBus** has one step per method of the bus (they never suspend between reading
and writing): `Publish` with drop-oldest, `Subscribe`, `Take`, `Unsubscribe`,
`Forget` (a restart). The n-th event of a product is the number n.

**LiveView** puts both ends of a stream around it. A page has three queries, each with
a copy (`view[c][q]`) and a request (`fetch[c][q]`) of its own. `LiveInit` and the first
`Fill` are the page of `constellation-page.tsx`: it asks for the timeline, and once that
is there its workspace mounts, asks for the releases and the graph and opens the stream.
`Handle` is the browser's event handlers: an event patches the query of its kind
(`QueryOf`) and invalidates that one only, although events of all kinds share one bounded
queue. `Answer`, `Fill` and `FetchFails` are a query's request, `Cut` and `CutSucceeded`
the page's own release (`use-cut-release.ts`), which is patched in by the answer of the
POST and by its event. `WriteFrame` and `KeepAlive` are the two ways round the generator's
loop, each with its `finally` when the client is gone; `Break`, `Restart` and `FetchFails`
are the faults, `Connect` the reconnect timer. A changed product and its event are one
step, as in the handlers. `LiveSpec` is shown to implement `BusSpec`.

**RateLimiter** is the middleware's decision: which key a request has, what is pruned,
who is evicted, 429 or through. `log` is a history of all admissions, which the code
does not keep, to state what forgetting costs.

**Accounts** has one action per statement of each `/auth` handler, at several
replicas, plus `Access`, the providers a request to a protected route is offered to,
in their order. `Crash` ends a handler between two statements. Only who was mailed a
token presents it. `mailed`, `presented` (the links a verification looked up and found),
`verified` (the links answered 200, each with the number of such answers there had been
when it was looked up), `minted` and `ended` are histories.

**ReplicaWrites** takes the handlers of `VersionLedger` and `ReleaseLedger` apart into
their statements: what a replica has read so far is in `task`, so it may be stale when
used. `alone` is a history of which running writes nobody has disturbed. Where those
modules say what a request does, this one says what is left of it when requests
overlap or end half-way.

**FlatMigration** is the boot: `init_schema`, `_should_migrate`, the read, the rename,
`init_schema` again, one INSERT after the other, at several replicas, stopped anywhere
and repeated. `brokenOff` is a history: a boot ended between its rename and its last row.

### Abstractions, and why they are sound

* **A handler is one step** in the ledgers, the bus and the limiter. Within one
  process nothing else runs between two of its statements: the handlers are coroutines
  that never wait for anything (the drivers are synchronous, and `event_bus.py:8-12`
  relies on the same). Where two processes or a crash can come in between,
  `ReplicaWrites`, `Accounts` and `FlatMigration` take one statement as a step. The
  requests of the catalogue and of the edges have a single writing statement after
  their look-ups and are left whole.
* **Ids** are model values, fresh when not in use. Edge ids are left out because
  `UNIQUE (product, from, to)` makes the triple a key.
* **Version numbers** are three naturals and a prerelease that is only compared
  for equality; `NULL` and the empty prerelease are one value, and the tag, if it
  is stored, plays no part in a decision. `MaxInteger` stands for 2^31 - 1 and is
  scaled down to 2 in the runs; only "fits" and "does not fit" is told apart.
* **Order of cuts.** `releases` is a sequence in the order of the cuts.
  `ORDER BY created_at DESC, id DESC` is that order as long as the clock of the one
  process does not step back and two cuts do not share a timestamp and a ULID
  millisecond.
* **Two scenarios in one run.** The machines of `MCGraphWalks`, `MCFrontDoor` and
  `MCStatements` share no state; the initial state chooses one, the others stay put.
* **Version numbers in `ReplicaWrites`** count up with the rows: which row is highest
  is the ledger's subject, here it only matters that a rollback picks one and that it
  may have changed by the time it is reactivated. Every cut bumps the version by one.
* **Live changes** are those that add a row (a version, a release, a dependency): a copy
  counts how often it shows the row of each change. The status flips of a rollback and
  the removal of an edge are left out: they are patched by id, so repeating them changes
  nothing, and they invalidate the same query as the additions of their kind. Of TanStack
  Query the model has `setQueryData`, `invalidateQueries` and the first load. Its re-fetch
  on window focus is switched off (`query-client.ts:11`); its re-fetch when the browser
  itself comes back online and the `staleTime` of ten seconds on a remount are not
  modelled: neither happens when a stream or a server goes away under an open page.
* **One clock.** The replicas of `Accounts` read one `now`: their clocks agree. With
  clocks apart, `DeadSessionsStayDead` holds up to the difference.
* **Accounts**: an account is its normalised address (`users.email` is UNIQUE), a
  token or session its number; passwords are right or wrong. Nothing deletes a user,
  and nothing ever writes the status `disabled`, so both are absent.
* **Left out:** kinds, descriptions, labels, notes, owners, the rationale JSON
  (a report of the levels that are modelled), formatting and paging.

## 3. The runs

| Run | Module, cfg | Distinct states | Shows |
|---|---|---|---|
| `versions` | MCVersionLedger | 35 494 | the version history: eight properties, the refinement of DeployedVersion among them |
| `graph` | MCGraphWalks | 260 878 | edges stay inside products, no cycle, the impact report is exact; both loops end and are right on every graph of three nodes, cyclic ones too |
| `releases` | MCReleaseLedger | 285 265 | cuts interleaved with every other request; the answers of one page agree |
| `live` | MCLiveView | 275 614 | queues, streams, a page's three queries and own cuts, breaks and restarts, with liveness |
| `front_door` | MCFrontDoor | 640 147 | the throttle; accounts at two replicas that may die |
| `statements` | MCStatements | 1 963 644 | overlapping and aborted writes; the legacy migration |
| `rollback_order` | MCVersionLedger, MCRollbackOrder.cfg | violation | section 5 |
| `stranded_component` | MCVersionLedger, MCStrandedComponent.cfg | violation | section 5 |
| `unchanged_cut` | MCReleaseLedger, MCUnchangedCut.cfg | violation | section 5 |
| `missed_events` | MCLiveView, MCMissedEvents.cfg | violation | section 5 |
| `dropped_events` | MCLiveView, MCDroppedEvents.cfg | violation | section 5 |
| `signup_again` | MCFrontDoor, MCSignUpAgain.cfg | violation | section 5 |

Bounds.

* `versions`: two components, so that one's requests could disturb the other; four
  rows, so that a component can have a rolled-back row, a live one below it and two
  competing ones; numbers below, above, tied (a release candidate) and too large.
  One product is from before bump policies and has policy `legacy`; the other id is
  free for `POST /products`.
* `graph`: requests on four components in two products: any graph of up to four nodes
  in one product, and attempts to leave it. A cycle through three nodes with a
  bystander is the smallest that a check of direct edges or of the wrong end would
  miss. Walks on three nodes, every edge set without self-edges (the table cannot hold
  one), every start, target and assignment of levels to any subset of the nodes; three
  is enough for a cycle entered from outside and for a node reached on two paths.
* `releases`: one product per policy, two components, three versions, three cuts,
  one key. Three cuts let a component leave, the product be cut without it, and
  come back; one key can be repeated, reused by the other product and left out.
  `MaxReleases` is the only bound in a guard; the service has none.

* `live`: one page and two streams, so a dead stream lingers while its client is back on
  the other; pages share nothing but the bus, whose queue property is proved for any
  number of them. `SocketBuffer` 1: a frame can wait in the queue, on the wire, or behind
  another. Two scenarios, chosen by the initial state: in one the stream may be lost and
  three changes of any kinds (`MaxChanges`) overflow a queue of two; in the other the page
  cuts releases itself, up to two changes in all, so the answer of its POST, the event and
  the re-fetch overtake each other. `MaxBreaks` 1: a fault at any moment, a request that
  fails included, with the recovery from it complete. `missed_events` needs one change and
  one fault; `dropped_events` two changes of different kinds against a queue of one, and no
  fault.
* `front_door`: three keys (two addresses and `unknown`) against a table of two, so
  eviction of stale and of live buckets happens; limit and window 2, the clock to 3 and
  four admissions per client, so a window slides and a budget is exceeded. One address
  that is allowed and one that is not, two replicas (a race for one address), tokens
  and sessions that live one tick of three (`MaxTime`), one session (`MaxSessions`; a
  session is affected by its own log-out and expiry only), a deployment with password
  and key and an unconfigured one.
* `statements`: two replicas, each statement of one between any two of the other. One
  component, since every promise made here is about one component or one key, and the
  statements on different components touch different rows (the proofs cover any
  number). `MaxVersions` 3: two superseded rows for two rollbacks to choose from.
  `MaxCuts` 2: two releases of one key. Migration: three legacy rows of two products, two
  of them with the same version number; both replicas boot as often as they like.

Ids run out, walks end, clocks and histories reach their bounds, so the runs allow
deadlock; the service itself always accepts requests, which the ledgers' models bound
by their ids. Symmetry is declared in safety runs only. `MCReleaseLedger` fingerprints
states without `reply`: no guard and no invariant reads it and the action properties
read only its next value, so two states that differ in it alone have the same future.

**Fairness.** In `graph`, weak fairness of each loop's next step: the loops are
synchronous Python without a suspension point; once called they run until they return.
In `live`, weak fairness of

* `WriteFrame` and `KeepAlive` of each stream: the generator waits at most one
  keep-alive interval (`sse_event_stream.py:42`) before it goes round its loop, and
  the event loop is not blocked for ever by the synchronous handlers;
* `Handle`, `Fill` and `Connect` of each page: the browser's event loop and the
  reconnect timer of `api/events.ts`;
* `Answer`: a request that does not fail is answered. Whether it fails is free, within
  `MaxBreaks`.

Nothing is assumed of changes, breaks, restarts and failures. `MaxBreaks` bounds the
faults, and the two liveness properties of the run do not need that to be true of the
system: each ends as soon as the stream in question is cut, or the request fails. Nothing
fair is bounded: `MaxChanges` and the scenarios restrict changes, cuts and faults only. No
liveness is claimed of the request handlers: nothing makes a client send a request.

### What the properties are about

* `AtMostOneActive`: two active rows would make the cut's join insert two
  `release_components` rows under one primary key. `OnlyAFailureStrands` is its
  other half: only a creation whose INSERT failed leaves a component without one.
* `RolledBackRestsOnLive`: below each rolled-back row lies a row never rolled
  back, whatever the order of rollbacks, so a component cannot be exhausted.
* `HistoryIsAppendOnly`: no row is renumbered, moved or deleted; rolled back is
  final.
* `EventTellsTheWholeChange`: replaying the event on the old history gives the new
  one, superseded rows included.
* `RepeatedRollbackChangesNothing`: unless cores tie, the repetition picks the row
  it picked before.
* `Acyclic`, `ImpactIsTheTransitiveDependents`: the graph and the report on it.
* `AnswerIsReachability`, `SearchEnds`; `WalkComputesFeltLevels`, `WalkEnds`: the two
  loops.
* `OneReleasePerKey`, `EachReleaseIsAnnouncedOnce`, `CutReleaseNeverChanges`,
  `ProductVersionNamesComposition`, `DroppingRaisesMajor`,
  `BumpIsTheLargestOwnChange`: the releases. `ReadsOfAPageAgree`: the timeline still
  shows what a release lists, rolled back or not.
* `QueueHoldsTheNewest`: no gap, no reordering, as much as fits. `NoQueueIsOrphaned` and
  `DeadStreamsLeave`: the two halves of "never leaks a registration", whatever order a
  break, a reconnect and a keep-alive come in.
* `AFrameBringsItsQueryUpToDate`: what a frame does for the query of its kind, the earlier
  changes of the kind whose frames were evicted included: a running request that answers
  too early is dropped and repeated, a first load is joined. For the other queries a frame
  does nothing; that is `dropped_events` of section 5.
* `RowsAreShownOnce`: an edge is never drawn twice, whatever overtakes what. A version or a
  release may show twice, between the patch that repeats it and the answer of the request
  the same patch starts; if that request fails, it stays so until the next event of its
  kind, which the property admits as a case of its own.
* `OverBudgetOnlyWhenCrowded`: what eviction costs. `MemoryIsBounded`: what it buys.
* `OneLinkPerAddress`, `NoTokenIsSpentInVain`, `DeadSessionsStayDead`: the accounts, at
  every interleaving and crash. `SessionsBelongToReachedAddresses`: whoever is logged in,
  a link mailed to the address was presented; a login of the pending account after the
  mail went out opens no session.
* `LinksWorkTwiceOnlyByOverlap`: what remains of "strictly single-use"
  (`verification_service.py:6`). The look-up and the UPDATE that consumes the token are
  separate statements, so two replicas that look a link up before either consumes it both
  answer 200 (the run reaches that); once one has answered, no later look-up finds it.
* `AnUndisturbedWriteHeals`: overlapping writes may leave no active row, or two, and that
  is reproduced here; the next write that nobody disturbs repairs it, whatever it finds.
* `KeysRepeatOnlyByOverlap`: what remains of the Idempotency-Key between replicas.
* `NothingIsMigratedTwice`: the boot, repeated and raced. `OnlyABrokenOffBootStrandsRows`:
  legacy rows are in the table they came in, or being moved by a boot, or all moved; no
  race and no failing rename leaves any behind, only a boot that ends after its rename.

Definitions such as `SupersedeNothing` or `ClassifyCore`, which no action uses
(or which one uses as a part), state a plausible slip next to the definition it
would replace; each property is listed in `PROJECT.json` with a slip it catches.

## 4. The proofs

All theorems hold for every value of the constants under the named assumptions:
`CatalogueAssumption`, `VersionAssumption`, `ReleaseAssumption`, `SearchAssumption` and
`WalkAssumption` (the nodes of a walk are finitely many), `BusAssumption` (a queue has
room for one event), `LiveAssumption`, `LimiterAssumption` (finitely many addresses, room
for one client), `AccountsAssumption`, `WritesAssumption` and `MigrationAssumption`; TLC
evaluates each in the runs. Every invariant and every action property of the passing runs
is stated by a theorem; `NothingIsLifted` (propagation never raises a level above the
highest base, on cyclic graphs too) is proved and has no run.

**CommonLemmas.** The recursion of `effective_levels` is reasoned about without
induction over the graph. `FeltLevel` is a closed form: the base of a node, of its direct
dependencies propagated once, of the indirect ones twice, since propagating a third time
changes nothing. `FeltLevelsSolve`: it satisfies the equation of the recursion, on any
graph. `OnlyOneSolution`: on a finite graph without cycles nothing else does; if two
solutions differed somewhere, they would differ at a component with the fewest
dependencies among those, and at one of its dependencies, which has fewer
(`DependenciesDependOnLess`). Together: `EffectiveIsFelt`.

**VersionLedgerProofs.** What each request leaves in the status column is described
once (`CreatedRows`, `StrandedRows`, `RolledBackRows`), and every theorem argues
from these descriptions instead of the nested UPDATEs. `VersionTypeOK` is
inductive as it stands and the others are inductive relative to it:
`AtMostOneActive` because every description names the only row that can become
active; `RolledBackRestsOnLive` because the row a rollback picks is itself live and
lower, so a row that rested on the target rests on that one, by transitivity of
the order on cores (`BelowIsStrictOrder`); `HistoryIsAppendOnly` because the picked
row is not rolled back. `ImplementsDeployed` maps a creation to Publish, a failing
one to FailToPublish, a rollback to Withdraw, and everything else to a stutter.
`RepeatedRollbackChangesNothing` needs to know what the answer of the last request
says about the rows: `JustRolledBack` (the row it reactivated is the only active one and
still one of the highest below the target) is inductive; without ties it is the only one a
repetition can pick (`OnlyOnePrevious`), and the UPDATEs then find everything as they
would leave it.

**DependencyGraphProofs.** `GraphTypeOK` is inductive. For `Acyclic`, reachability
is "no closed set separates the two", so non-reachability has a closed set as its
witness. Removing an edge keeps every closed set. When f -> t is added, S0 is the
witness that t does not reach f. An old edge e has a witness S1 with its target
inside and its source outside: S1 ∩ S0, S1 ∪ S0 or S1 itself, according to where f
and t lie, is closed under the new edges and still separates them. `ImpactIsExact` adds
that the tables stay finite (`FiniteComponents`: a request adds one row), so that the
levels of the report are felt levels; of a component other than the changed one these
are MINOR, PATCH or nothing according to how it depends on it (`ImpactIsFelt`).

**GraphWalkProofs.** The loop invariant of the search (every node seen or on the stack
has a path from the start; until the target is found, the start is among them, the
target has not been expanded, and the neighbours of every seen node are seen or on
the stack) is inductive as it stands. When the stack is empty the seen nodes are a
closed set that separates the start from the target, which is the answer. Of the level
walk three invariants are proved in turn. `StackInvariant`: frames and `visiting` are in
step, and a frame waits for dependencies of its node only; `WalkTypeOK` follows.
`BoundsInvariant`: no level on the stack or in the memo is below the base of its node or
above the highest base, also where a cycle is cut. `ResultInvariant`, on graphs without
cycles: the calls follow a path, so no cycle is ever cut (`NoCycleIsCut`); a frame's level
is what the dependencies asked so far are due; a finished one is due all of them.

**ReleaseLedgerProofs.** Every step of the composed system is a step of the version
ledger and of the graph or leaves their tables alone (`LedgerPart`), so
`AtMostOneActive`, `RolledBackRestsOnLive`, `Acyclic` and the refinement of
`DeployedVersion` carry over. Three invariants are the strengthening the release
properties need: `PinnedRowsExist` (typed rows, pins that name rows), `GraphSound` and
`RowsTyped` (the rows of releases); `ReleaseTypeOK` follows. A pin's row exists, and the
ledger is append-only, so what a release serves cannot change. On a sound graph a cut's
levels are felt levels (`CutsUseFeltLevels`). From there
`ProductVersionNamesComposition`, which is inductive: a new cut is compared with the
product's latest release only (`CutFollowsLatest`), a level above NONE puts it above that
(`ApplyBumpMoves`), level NONE means that every component has the numbers it had
(`UnchangedCut`), and what is below the latest is below the new one, as the order on
versions is transitive. `DroppingRaisesMajor` rests on it in the same way: a component of
an earlier release is in the latest one, or the major number has risen since.
`BumpIsTheLargestOwnChange` holds because propagation raises no level above the highest
own one (`FeltStaysBelow`). `ReadsOfAPageAgree` follows from the three invariants; a
list's order plays no part in it (`ListingShowsAll`).

**LiveViewProofs.** For one queue, `Newest(q, last, from)` says that q is right for a
product with `last` events and a stream served up to `from`; appending or evicting keeps
it (`PutKeepsNewest`), and so does taking. `BusInvariant` is that for all queues, with
their types. Every step of the pages is a step of the bus or leaves it alone
(`LiveStepIsBusStep`), so `LivePagesUseTheBus` (LiveSpec => BusSpec) carries the
queue property over. `NoQueueIsOrphaned` is inductive as soon as the links are typed
(`OrphanInvariant`). `RowsAreShownOnce` is proved query by query (`Once`): what can repeat
a row, a frame or the page's own cut, starts a request of the same query or, on a first
load, finds no copy to repeat it in; what ends a request without an error replaces the
copy by the server's answer, where each row is there once; and a patch of the graph leaves
out an edge that is drawn (`InRepair` is the strengthening, with the types of the copies
and requests).

**FrontDoorProofs.** Of the throttle, `BucketsAreSuffixes` (a bucket is the end of its
client's history) and `LostInACrowd` (an admission that has been forgotten and is still
in the window has more than `MaxKeys` clients admitted since) are the strengthening. The
least recent client of a full table without stale buckets has only later ones beside it,
and the new one: that is the crowd (`EvictionInACrowd`). Of a client over the limit some
admission in the window is forgotten, since its bucket holds at most `Limit`. Of the
accounts, `AccountsInvariant` says what the handler of each replica has made sure of
(`JobsAreSound`) and that one replica at most is signing an address up (`OneSignsUp`,
because the INSERT is guarded by the UNIQUE column).
`LinkInvariant` is the links' history: an active account has a link that was mailed to it
and presented, and so has a verification under way and every session
(`LinksArePresented`); a link answered 200 is consumed, and a verification under way found
its link before any answer it does not know of (`LinksAreSpent`), so only one that was
under way already answers the same link again.
`SessionInvariant` ties a row of `sessions` to the login that made it: it was not logged
out of and its lifetime is counted from there; only such a row lets a request in
(`GrantedToTheLiving`).

**StatementProofs.** Three independent inductions. `HealInvariant`: a replica that
reaches its last statement alone finds no active row left, because its own UPDATE took
them all and any other writer of the component would have taken the "alone" away.
`KeysInvariant`: a cut under way has seen every release there was when it asked, none
with its key (`HasRead`). `MigrationInvariant`: the rename lets a single boot through,
ever (`archived` is final, and the second rename fails), and what that boot has inserted
is in step with the row it has reached (`InStep`); `OnlyABrokenOffBootStrandsRows` is
inductive on top of it (`NoRowIsLeft`).

**Only model-checked:** the four liveness properties `SearchEnds`, `WalkEnds`,
`DeadStreamsLeave` and `AFrameBringsItsQueryUpToDate`: proofs under fairness need ENABLED,
which the provers here cannot reason about. The properties of section 5 are refuted by
TLC, so there is nothing to prove.

## 5. Where code and documentation disagree

1. **A failing INSERT strands a component** (`stranded_component`).
   `create_version_query.py:73` says "so exactly one row remains active once the new
   version is inserted below"; the UPDATE at line 75 has committed when the INSERT
   at line 81 fails on a number beyond 2^31 - 1, which `create_version_model.py`
   lets through. The component keeps no active version, and the next cut drops it.
2. **A rollback may reactivate a release candidate** (`rollback_order`). The comment
   at `rollback_version_query.py:21` says "the highest-semver row"; the `ORDER BY`
   ignores the prerelease.
3. **A component without a version raises every cut** (`unchanged_cut`).
   `API_CONTRACT.md:203` says "A cut with no material change derives none"; an edge
   to a component that never had an active version counts as a major change each time.
4. **A reconnect re-syncs nothing** (`missed_events`). `event_bus.py:17` says "A consumer
   that missed events simply re-syncs the full state via the REST endpoints". A page that is
   up to date loses its stream, a change is published, the stream is opened again:
   `use-product-events.ts:90` only sets the connected flag, so the query of the change stays
   stale until another change of the same kind or a reload. (A change between the answer of
   a first load and the opening of the stream is missed in the same way.)
5. **A dropped event is not made up for by the next one** (`dropped_events`).
   `event_bus.py:17-19` goes on "so dropping stale frames is safe". All kinds share one
   bounded queue, but each event invalidates the query of its kind only
   (`use-product-events.ts:97`, `105`, `111`, `117`, `124`): when a full queue gives up a
   `dependency.added` for a `release.cut`, the frame that arrives re-fetches the releases
   and the graph stays as it was, on a stream that never broke.
6. **Signing up again does not help** (`signup_again`). `verification_email.py:17` tells
   the user to "request a new one by signing up again" once the link has expired;
   `signup_service.py:160` refuses any registered address with 409, a pending one with an
   expired link included.

Two more, without a run of their own. `API_CONTRACT.md:182` says a rollback "sets the
current active version to rolled_back"; the code takes any row of the component, superseded
and rolled-back ones too, and `VersionLedger` does the same (`HistoryIsAppendOnly` and
`ImplementsDeployedVersion` hold all the same). `verification_service.py:6` calls a token
"strictly single-use"; between replicas it is so without overlap only
(`LinksWorkTwiceOnlyByOverlap`).

## 6. What is not modelled, and what is left

Behaviour the models reproduce but no property speaks of, because the code promises
nothing about it:

* two replicas that cut one product at once may give two releases the same version;
* a boot that dies after the rename leaves rows behind in `legacy_versions`, and the next
  boot finds no legacy table and serves without them (`OnlyABrokenOffBootStrandsRows` says
  that nothing else does, not that this does not);
* a release whose pins were cut short keeps the pins it has, and its key is answered with
  it.

Not modelled:

* two halves of a cycle added by two replicas at once, and two products of one name:
  `Acyclic` and the uniqueness of names hold per process. The walks are therefore checked
  on cyclic graphs.
* several processes behind one stream: the bus lives in one process, and the chart's
  `replicaCount` is 1.
* ties of `created_at` between cuts of different processes.
* TanStack Query beyond what section 2 says of it; the pulses and toasts of the live page;
  the ring buffer of the capture mailer.
* password hashing, cookies, the parsing of addresses and forwarded headers.
* SQL dialects and drivers: what the models use of a backend is that every statement
  commits alone and that a duplicate key fails.
* `/meta`, health, plugins, configuration, deployment charts, generated OpenAPI code and
  the rendering of the UI: no state that a request changes.

Left to do, in this order: a proof that one replica that does not die takes the
statements of `ReplicaWrites` to what the requests of `VersionLedger` do in one step; the
edge requests in `ReplicaWrites`; the status flips of a rollback and the removed edges in
`LiveView`.
