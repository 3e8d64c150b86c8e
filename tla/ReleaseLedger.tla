---------------------------- MODULE ReleaseLedger ----------------------------
(***************************************************************************)
(* POST /products/{id}/releases (app/queries/releases/cut_release_query.py *)
(* and app/routers/releases.py): freeze what is active into an immutable   *)
(* manifest and derive the product version.  Composes the version history  *)
(* and the dependency graph, whose requests run between any two cuts.      *)
(*                                                                         *)
(* releases lists the rows of releases, each with its release_components   *)
(* rows, in the order of the cuts; ORDER BY created_at DESC, id DESC is    *)
(* that order as long as no two cuts share both a timestamp and a ULID     *)
(* millisecond.                                                            *)
(***************************************************************************)
EXTENDS VersionLedger, DependencyGraph, Sequences

CONSTANTS
    Keys,         \* values clients send as Idempotency-Key
    NoKey,        \* the header left out
    MaxReleases   \* bound on the number of cuts (the service has none)

ASSUME ReleaseAssumption == NoKey \notin Keys /\ MaxReleases \in Nat

VARIABLE releases

releaseVars == <<product, component, versions, dependency, releases, reply>>
-----------------------------------------------------------------------------
BaseVersion == <<0, 0, 0>>

\* A row of releases with its release_components rows: the derived version and
\* bump, one pinned version per component, its own change (none under legacy).
Release(p, key, core, level, pins, changes) ==
    [product |-> p, key |-> key, version |-> core, level |-> level,
     pins |-> pins, changes |-> changes]

CutsOf(p) == {i \in DOMAIN releases : releases[i].product = p}

\* The idempotency look-up dropped.
ReplayNothing(p, key) == {}

\* Earlier cuts of p under this key; a request without the header has none.
ReplayOf(p, key) == {i \in CutsOf(p) : key # NoKey /\ releases[i].key = key}

\* Components of p joined with their active row.
Releasable(p) == {c \in ComponentsOf(p) : ActiveOf(versions, c) # {}}

\* The manifest to freeze: the active version of each releasable component.
Composition(p) ==
    [c \in Releasable(p) |-> CHOOSE v \in ActiveOf(versions, c) : TRUE]

\* The product's latest cut, 0 before the first.
Latest(p) ==
    IF CutsOf(p) = {} THEN 0
    ELSE CHOOSE i \in CutsOf(p) : \A j \in CutsOf(p) : j <= i

CurrentVersion(p) ==
    IF Latest(p) = 0 THEN BaseVersion ELSE releases[Latest(p)].version

PriorPins(p) ==
    IF Latest(p) = 0 THEN [c \in {} |-> {}] ELSE releases[Latest(p)].pins

\* classify_change per component: MINOR when the previous manifest lacks it.
OwnLevels(p) ==
    [c \in Releasable(p) |->
        IF c \in DOMAIN PriorPins(p)
        THEN Classify(versions[PriorPins(p)[c]].semver, versions[Composition(p)[c]].semver)
        ELSE MINOR]

RemovedAny(p) == \E c \in DOMAIN PriorPins(p) : c \notin Releasable(p)

\* _derive: the bump and the change level recorded per component.
DerivedLevel(p) ==
    IF product[p].policy = "default"
    THEN DeriveBump(OwnLevels(p), EdgesOf(p), RemovedAny(p))
    ELSE MINOR

RecordedChanges(p) ==
    IF product[p].policy = "default" THEN OwnLevels(p) ELSE [c \in {} |-> NONE]

ReleaseCut(p, i) == [type |-> "release.cut", product |-> p, release |-> i]

\* The route publishing on a replay too.
ReplayAnnounced(p, i) == Published(ReleaseCut(p, i))

\* What the route answers when the key was used: the old release, no event.
ReplayReply(p, i) == Ok

\* A zero-change cut overwriting the latest row.
RecordInPlace(row) ==
    IF row.level = NONE THEN [releases EXCEPT ![Len(releases)] = row]
    ELSE Append(releases, row)

\* INSERT INTO releases and release_components.
Record(row) == Append(releases, row)
-----------------------------------------------------------------------------
ReleaseInit ==
    /\ VersionInit
    /\ dependency = {}
    /\ releases = <<>>

CutRelease(p, key) ==
    /\ \/ /\ p \notin DOMAIN product
          /\ reply' = NotFound
          /\ UNCHANGED releases
       \/ /\ p \in DOMAIN product
          /\ \E i \in ReplayOf(p, key) : reply' = ReplayReply(p, i)
          /\ UNCHANGED releases
       \/ /\ p \in DOMAIN product
          /\ ReplayOf(p, key) = {}
          /\ Releasable(p) = {}
          /\ reply' = Conflict
          /\ UNCHANGED releases
       \/ /\ p \in DOMAIN product
          /\ ReplayOf(p, key) = {}
          /\ Releasable(p) # {}
          /\ Len(releases) < MaxReleases
          /\ releases' = Record(Release(p, key,
                                        ApplyBump(CurrentVersion(p), DerivedLevel(p)),
                                        DerivedLevel(p), Composition(p), RecordedChanges(p)))
          /\ reply' = Published(ReleaseCut(p, Len(releases) + 1))
    /\ UNCHANGED <<product, component, versions, dependency>>

ReleaseNext ==
    \/ \E p \in ProductIds, key \in Keys \cup {NoKey} : CutRelease(p, key)
    \/ LedgerNext /\ UNCHANGED <<dependency, releases>>
    \/ EdgeNext /\ UNCHANGED <<versions, releases>>
    \/ CatalogueNext /\ UNCHANGED <<versions, dependency, releases>>

ReleaseSpec == ReleaseInit /\ [][ReleaseNext]_releaseVars
-----------------------------------------------------------------------------
(***************************************************************************)
(* Properties.                                                             *)
(***************************************************************************)

\* What GET /products/{id}/releases serves for release i: the pins joined with
\* the version rows as they are now.
NumbersOf(pins) == [c \in DOMAIN pins |-> versions[pins[c]].semver]

Served(i) == NumbersOf(releases[i].pins)

\* Every pin of a release is a version of the component it is filed under, and
\* that component belongs to the released product; change levels are recorded
\* for all pinned components or (legacy) for none.
ReleaseTypeOK ==
    /\ VersionTypeOK
    /\ GraphTypeOK
    /\ \A i \in DOMAIN releases : LET r == releases[i] IN
          /\ r.product \in DOMAIN product /\ r.key \in Keys \cup {NoKey}
          /\ r.version \in Core /\ r.level \in Levels
          /\ DOMAIN r.pins \subseteq ComponentsOf(r.product) /\ DOMAIN r.pins # {}
          /\ \A c \in DOMAIN r.pins : r.pins[c] \in HistoryOf(versions, c)
          /\ r.changes \in [IF product[r.product].policy = "default"
                            THEN DOMAIN r.pins ELSE {} -> Levels]

\* "a cut release never changes even if components ship new versions or get
\* rolled back afterward" (API_CONTRACT.md:224): neither its own rows nor the
\* version numbers its pins resolve to.
CutReleaseNeverChanges ==
    [][\A i \in DOMAIN releases :
          /\ i \in DOMAIN releases'
          /\ releases'[i] = releases[i]
          /\ Served(i)' = Served(i)
      ]_releaseVars

\* The Idempotency-Key "prevents double-cut" (API_CONTRACT.md:192), whatever ran
\* between the request and its repetition.
OneReleasePerKey ==
    \A i, j \in DOMAIN releases :
        /\ releases[i].product = releases[j].product
        /\ releases[i].key = releases[j].key
        /\ releases[i].key # NoKey
        => i = j

\* A product version names one composition: a later cut of the product carries a
\* strictly higher version, or the same version and, component by component, the
\* same version numbers, whatever was created and rolled back in between.
ProductVersionNamesComposition ==
    \A i, j \in DOMAIN releases :
        i < j /\ releases[i].product = releases[j].product =>
            \/ Below(releases[i].version, releases[j].version)
            \/ releases[i].version = releases[j].version /\ Served(i) = Served(j)

\* Dropping a released component is breaking (cut_release_query.py:221): under the
\* default policy a later manifest that lacks it has a higher major number, also
\* when other cuts lie between.
DroppingRaisesMajor ==
    \A i, j \in DOMAIN releases :
        /\ i < j /\ releases[i].product = releases[j].product
        /\ product[releases[i].product].policy = "default"
        /\ ~(DOMAIN releases[i].pins \subseteq DOMAIN releases[j].pins)
        => releases[i].version[1] < releases[j].version[1]

\* The cut the step makes, when it makes one.
Cuts(p) ==
    /\ Len(releases') = Len(releases) + 1
    /\ releases'[Len(releases')].product = p
    /\ product[p].policy = "default"

NewCut == releases'[Len(releases')]

LargestOwnChange == MaxLevel({NewCut.changes[c] : c \in DOMAIN NewCut.changes})

\* "for an intra-product graph the product bump equals the maximum own change"
\* (bump_propagation.py:10), as long as nothing released before is gone and every
\* end of an edge has an active version.
BumpIsTheLargestOwnChange ==
    [][\A p \in DOMAIN product :
          Cuts(p) /\ ~RemovedAny(p) /\ Endpoints(EdgesOf(p)) \subseteq Releasable(p)
              => NewCut.level = LargestOwnChange
      ]_releaseVars

\* release.cut goes out once per release, in the request that made it; a replay
\* is silent (releases.py:58).
EachReleaseIsAnnouncedOnce ==
    [][reply'.event.type = "release.cut" <=> Len(releases') = Len(releases) + 1]_releaseVars

\* API_CONTRACT.md:203 "A cut with no material change derives none and repeats
\* the current version": same components at the same version numbers as the
\* product's previous cut.
NoMaterialChangeDerivesNone ==
    [][\A p \in DOMAIN product :
          Cuts(p) /\ Latest(p) # 0 /\ Served(Latest(p)) = NumbersOf(NewCut.pins)
              => NewCut.level = NONE
      ]_releaseVars
=============================================================================
