---------------------------- MODULE VersionLedger ----------------------------
(***************************************************************************)
(* The append-only history of component versions and the two requests that *)
(* write it: POST /versions and POST /versions/{id}/rollback.              *)
(*                                                                         *)
(* A row's semver is its numeric core plus an optional prerelease; the     *)
(* code compares cores only.                                               *)
(***************************************************************************)
EXTENDS Catalogue

CONSTANTS
    VersionIds,    \* ULIDs the versions can get
    Semvers,       \* version numbers clients ask for
    NoPrerelease,  \* the prerelease of a plain version (NULL)
    MaxInteger     \* the largest value of an INTEGER column (2^31 - 1)

\* A version number as create_version_model.py derives it.
Core == Nat \X Nat \X Nat

ASSUME VersionAssumption ==
    /\ \A s \in Semvers : s.core \in Core /\ s = [core |-> s.core, pre |-> s.pre]
    /\ MaxInteger \in Nat

VARIABLE versions   \* table versions: id -> [component, semver, status]

versionVars == <<product, component, versions, reply>>
-----------------------------------------------------------------------------
Statuses == {"active", "superseded", "rolled_back"}

\* The request model bounds a version number's length only; the columns hold
\* 32-bit integers.
Storable(s) == \A i \in 1 .. 3 : s.core[i] <= MaxInteger

VersionRow ==
    [component : ComponentIds, semver : {s \in Semvers : Storable(s)}, status : Statuses]

\* (major, minor, patch) strictly below, as the rollback's SQL spells it out.
Below(a, b) ==
    \/ a[1] < b[1]
    \/ a[1] = b[1] /\ a[2] < b[2]
    \/ a[1] = b[1] /\ a[2] = b[2] /\ a[3] < b[3]

HistoryOf(vs, c) == {v \in DOMAIN vs : vs[v].component = c}

ActiveOf(vs, c) == {v \in HistoryOf(vs, c) : vs[v].status = "active"}

\* UPDATE versions SET status = s WHERE id IN ids.
Mark(vs, ids, s) ==
    [v \in DOMAIN vs |-> IF v \in ids THEN [vs[v] EXCEPT !.status = s] ELSE vs[v]]

\* The UPDATE forgotten.
SupersedeNothing(vs, c) == vs

\* UPDATE versions SET status = 'superseded' WHERE component and active.
SupersedeActive(vs, c) == Mark(vs, ActiveOf(vs, c), "superseded")

\* The rows a rollback of t may fall back on.
LowerLive(vs, t) ==
    {v \in HistoryOf(vs, vs[t].component) \ {t} :
        vs[v].status # "rolled_back" /\ Below(vs[v].semver.core, vs[t].semver.core)}

\* The rows of ids no other row of ids is above.
Highest(vs, ids) ==
    {v \in ids : \A u \in ids : ~Below(vs[v].semver.core, vs[u].semver.core)}

\* Plausible slips in the WHERE clause: the "strictly below" test forgotten,
\* written <=, the rolled_back filter forgotten, or narrowed to superseded rows.
PreviousWhateverCore(vs, t) ==
    Highest(vs, {v \in HistoryOf(vs, vs[t].component) \ {t} : vs[v].status # "rolled_back"})

PreviousUpToTies(vs, t) ==
    Highest(vs, {v \in HistoryOf(vs, vs[t].component) \ {t} :
                    /\ vs[v].status # "rolled_back"
                    /\ ~Below(vs[t].semver.core, vs[v].semver.core)})

PreviousWhateverStatus(vs, t) ==
    Highest(vs, {v \in HistoryOf(vs, vs[t].component) :
                    Below(vs[v].semver.core, vs[t].semver.core)})

PreviousAmongSuperseded(vs, t) ==
    Highest(vs, {v \in LowerLive(vs, t) : vs[v].status = "superseded"})

\* ORDER BY core DESC LIMIT 1: rows that tie on the core come in any order.
Previous(vs, t) == Highest(vs, LowerLive(vs, t))

\* The last UPDATE forgotten.
ReactivateNothing(vs, t, p) ==
    SupersedeActive(Mark(vs, {t}, "rolled_back"), vs[t].component)

\* The three UPDATEs of a rollback of t to p, in the code's order.
Reactivate(vs, t, p) ==
    LET marked == Mark(vs, {t}, "rolled_back")
    IN  Mark(SupersedeActive(marked, vs[t].component), {p}, "active")

VersionCreated(c, v) ==
    [type |-> "version.created", component |-> c, version |-> v]

\* The two ids of the event swapped.
VersionReactivated(c, t, p) ==
    [type |-> "version.rolled_back", component |-> c, version |-> p, reactivated |-> t]

VersionRolledBack(c, t, p) ==
    [type |-> "version.rolled_back", component |-> c, version |-> t, reactivated |-> p]
-----------------------------------------------------------------------------
VersionInit ==
    /\ CatalogueInit
    /\ versions = [v \in {} |-> {}]

\* POST /versions: supersede the active row, then insert the new active one.  Each
\* statement commits by itself (every backend runs in autocommit mode), so when
\* the INSERT fails on a number too large for its column the UPDATE stays.
\* Neither a repeated nor a lower version number is refused.
CreateVersion(c, v, s) ==
    /\ v \notin DOMAIN versions
    /\ \/ /\ c \notin DOMAIN component
          /\ reply' = NotFound
          /\ UNCHANGED versions
       \/ /\ c \in DOMAIN component
          /\ ~Storable(s)
          /\ versions' = SupersedeActive(versions, c)
          /\ reply' = ServerError
       \/ /\ c \in DOMAIN component
          /\ Storable(s)
          /\ versions' = Insert(SupersedeActive(versions, c), v,
                                [component |-> c, semver |-> s, status |-> "active"])
          /\ reply' = Published(VersionCreated(c, v))
    /\ UNCHANGED catalogueVars

\* POST /versions/{id}/rollback: any row may be the target, whatever its status.
Rollback(t) ==
    /\ \/ /\ t \notin DOMAIN versions
          /\ reply' = NotFound
          /\ UNCHANGED versions
       \/ /\ t \in DOMAIN versions
          /\ Previous(versions, t) = {}
          /\ reply' = Conflict
          /\ UNCHANGED versions
       \/ /\ t \in DOMAIN versions
          /\ \E p \in Previous(versions, t) :
                /\ versions' = Reactivate(versions, t, p)
                /\ reply' = Published(VersionRolledBack(versions[t].component, t, p))
    /\ UNCHANGED catalogueVars

LedgerNext ==
    \/ \E c \in ComponentIds, v \in VersionIds, s \in Semvers : CreateVersion(c, v, s)
    \/ \E t \in VersionIds : Rollback(t)

VersionNext ==
    \/ LedgerNext
    \/ CatalogueNext /\ UNCHANGED versions

VersionSpec == VersionInit /\ [][VersionNext]_versionVars
-----------------------------------------------------------------------------
(***************************************************************************)
(* Properties.                                                             *)
(***************************************************************************)

\* Rows have their columns and every row's component exists.
VersionTypeOK ==
    /\ CatalogueTypeOK
    /\ DOMAIN versions \subseteq VersionIds
    /\ versions \in [DOMAIN versions -> VersionRow]
    /\ \A v \in DOMAIN versions : versions[v].component \in DOMAIN component

\* A component has at most one active row, whatever versions were created and
\* rolled back: the release cut joins components with active rows and inserts
\* one release_components row for each (primary key release, component).
AtMostOneActive ==
    \A v, w \in DOMAIN versions :
        /\ versions[v].component = versions[w].component
        /\ versions[v].status = "active" /\ versions[w].status = "active"
        => v = w

\* A component that has an active version keeps one: neither a rollback of any row
\* nor a successful creation leaves it without, only an INSERT that failed after
\* the UPDATE before it (create_version_query.py:75-81).
OnlyAFailureStrands ==
    [][\A c \in ComponentIds :
          ActiveOf(versions, c) # {} /\ ActiveOf(versions', c) = {}
              => reply'.code = "error"
      ]_versionVars

\* "Supersede the component's currently-active version so exactly one row remains
\* active once the new version is inserted below" (create_version_query.py:73): a
\* component with history has exactly one active row.
ExactlyOneActive ==
    \A v \in DOMAIN versions : Cardinality(ActiveOf(versions, versions[v].component)) = 1

\* Below every rolled-back row lies a row of the same component that was never
\* rolled back, so however many rollbacks ran, in whatever order, a component
\* never runs out of versions to serve.
RolledBackRestsOnLive ==
    \A v \in DOMAIN versions :
        versions[v].status = "rolled_back" => LowerLive(versions, v) # {}

\* "No existing row is ever mutated beyond its status and none is deleted"
\* (create_version_query.py:34), and rolled_back is final: no later request,
\* of either kind, gives such a row another status.
HistoryIsAppendOnly ==
    [][\A v \in DOMAIN versions :
          /\ v \in DOMAIN versions'
          /\ versions'[v].component = versions[v].component
          /\ versions'[v].semver = versions[v].semver
          /\ versions[v].status = "rolled_back" => versions'[v].status = "rolled_back"
      ]_versionVars

\* What a subscriber can rebuild of the history from the one event a request
\* publishes, following the status rules of API_CONTRACT.md section 4.
Replayed(vs, e, row) ==
    CASE e.type = "version.created" ->
           Insert(SupersedeActive(vs, e.component), e.version, row)
      [] e.type = "version.rolled_back" ->
           Mark(Mark(SupersedeActive(vs, e.component), {e.version}, "rolled_back"),
                {e.reactivated}, "active")
      [] OTHER -> vs

\* The published event tells the whole of an acknowledged change: a subscriber that
\* held the old history and replays the event holds the new one, superseded rows
\* included.
EventTellsTheWholeChange ==
    [][versions' # versions /\ reply'.code = "ok" =>
          versions' = Replayed(versions, reply'.event, versions'[reply'.event.version])
      ]_versionVars

\* Cores of one component's rows are pairwise different.
NoTies(vs, c) ==
    \A v, w \in HistoryOf(vs, c) : vs[v].semver.core = vs[w].semver.core => v = w

\* A client that lost the answer to a rollback and repeats it at once changes
\* nothing, unless two rows share a core: then LIMIT 1 may pick the other one.
RepeatedRollbackChangesNothing ==
    [][(/\ reply.event.type = "version.rolled_back"
        /\ reply'.event.type = "version.rolled_back"
        /\ reply'.event.version = reply.event.version
        /\ NoTies(versions, reply.event.component)) => UNCHANGED versions
      ]_versionVars

\* The history seen as DeployedVersion sees it.
Deployed == INSTANCE DeployedVersion WITH
    Components <- ComponentIds,
    Versions   <- VersionIds,
    Numbers    <- {s.core : s \in Semvers},
    Older      <- Below,
    history    <- [c \in ComponentIds |-> HistoryOf(versions, c)],
    number     <- [v \in DOMAIN versions |-> versions[v].semver.core],
    withdrawn  <- {v \in DOMAIN versions : versions[v].status = "rolled_back"},
    deployed   <- [c \in ComponentIds |-> ActiveOf(versions, c)]

\* The rows and their status column implement the deployed-version promise.
ImplementsDeployedVersion == Deployed!Spec

\* Semantic-version precedence: a prerelease comes before its plain version.
SemverBelow(s, t) ==
    \/ Below(s.core, t.core)
    \/ s.core = t.core /\ s.pre # NoPrerelease /\ t.pre = NoPrerelease

\* rollback_version_query.py:21 "The "previous version" is the highest-semver row
\* of the same component that is strictly below the target": no row a rollback
\* could have fallen back on precedes the one it reactivates.
ReactivatesTheHighestSemver ==
    [][reply'.event.type = "version.rolled_back" =>
          \A v \in LowerLive(versions, reply'.event.version) :
              ~SemverBelow(versions[reply'.event.reactivated].semver, versions[v].semver)
      ]_versionVars
=============================================================================
