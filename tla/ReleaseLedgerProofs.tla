------------------------- MODULE ReleaseLedgerProofs -------------------------
(***************************************************************************)
(* What a release promises, for every set of ids, numbers and keys: it is  *)
(* cut once per Idempotency-Key, announced once, and never changes, though *)
(* it stores version ids only and its version rows go on being updated;    *)
(* its version names its composition, dropping a component shows in it,    *)
(* and every page shows the same of it.                                    *)
(*                                                                         *)
(* Three invariants carry the proofs: the pins name rows, the graph is     *)
(* sound, and the rows of releases are typed.  The derived level is known  *)
(* because on a sound graph EffectiveLevels is its closed form.            *)
(***************************************************************************)
EXTENDS ReadSide, VersionLedgerProofs, DependencyGraphProofs

\* The rows a cut can rely on: typed version rows, a list of releases, and pins
\* that name version rows.
PinnedRowsExist ==
    /\ VersionTypeOK
    /\ \E Rows : releases \in Seq(Rows)
    /\ \A i \in DOMAIN releases : \A c \in DOMAIN releases[i].pins :
          releases[i].pins[c] \in DOMAIN versions

\* Versions, catalogue and edges move by their own requests only.
LEMMA LedgerPart ==
    ASSUME [ReleaseNext]_releaseVars
    PROVE  /\ [VersionNext]_versionVars \/ UNCHANGED <<product, component, versions>>
           /\ [GraphNext]_graphVars \/ UNCHANGED <<product, component, dependency>>
<1>1. CASE \E p \in ProductIds, key \in Keys \cup {NoKey} : CutRelease(p, key)
  BY <1>1 DEF CutRelease
<1>2. CASE EdgeNext /\ UNCHANGED <<versions, releases>>
  BY <1>2 DEF EdgeNext, AddDependency, RemoveDependency, catalogueVars, GraphNext
<1>3. CASE LedgerNext /\ UNCHANGED <<dependency, releases>>
  BY <1>3 DEF VersionNext, LedgerNext, CreateVersion, Rollback, catalogueVars
<1>4. CASE CatalogueNext /\ UNCHANGED <<versions, dependency, releases>>
  BY <1>4 DEF VersionNext, GraphNext
<1>5. CASE UNCHANGED releaseVars
  BY <1>5 DEF releaseVars
<1> QED
  BY <1>1, <1>2, <1>3, <1>4, <1>5 DEF ReleaseNext

\* Rows are kept: versions with their component and number, and they stay typed.
LEMMA VersionsKept ==
    ASSUME VersionTypeOK, [ReleaseNext]_releaseVars
    PROVE  /\ VersionTypeOK'
           /\ \A v \in DOMAIN versions :
                 /\ v \in DOMAIN versions'
                 /\ versions'[v].component = versions[v].component
                 /\ versions'[v].semver = versions[v].semver
<1>1. CASE [VersionNext]_versionVars
  BY <1>1, VersionTypeStep, AppendOnlyStep
<1>2. CASE UNCHANGED <<product, component, versions>>
  BY <1>2 DEF VersionTypeOK, CatalogueTypeOK
<1> QED
  BY <1>1, <1>2, LedgerPart

LEMMA CatalogueKept ==
    ASSUME VersionTypeOK, [ReleaseNext]_releaseVars
    PROVE  /\ \A p \in DOMAIN product : p \in DOMAIN product' /\ product'[p] = product[p]
           /\ \A c \in DOMAIN component :
                 c \in DOMAIN component' /\ component'[c] = component[c]
<1>1. CASE CatalogueNext
  BY <1>1, CatalogueGrows DEF VersionTypeOK
<1>2. CASE UNCHANGED catalogueVars
  BY <1>2 DEF catalogueVars
<1>3. CatalogueNext \/ UNCHANGED catalogueVars
  BY DEF ReleaseNext, releaseVars, CutRelease, EdgeNext, AddDependency, RemoveDependency,
         LedgerNext, CreateVersion, Rollback, catalogueVars
<1> QED
  BY <1>1, <1>2, <1>3

\* What a cut that makes a release appends.
NewRow(p, key) ==
    Release(p, key, ApplyBump(CurrentVersion(p), DerivedLevel(p)),
            DerivedLevel(p), Composition(p), RecordedChanges(p))

\* A request either leaves the releases alone or appends one row.
LEMMA ReleaseStep ==
    ASSUME [ReleaseNext]_releaseVars
    PROVE  \/ UNCHANGED releases
           \/ \E p \in ProductIds, key \in Keys \cup {NoKey} :
                 /\ releases' = Append(releases, NewRow(p, key))
                 /\ p \in DOMAIN product
                 /\ ReplayOf(p, key) = {} /\ Releasable(p) # {}
                 /\ UNCHANGED <<product, component, versions, dependency>>
BY DEF ReleaseNext, CutRelease, Record, NewRow, releaseVars

\* Appending keeps the rows before and adds one after them.
LEMMA AppendKeeps ==
    ASSUME NEW row, \E Rows : releases \in Seq(Rows), releases' = Append(releases, row)
    PROVE  /\ \E Rows : releases' \in Seq(Rows)
           /\ Len(releases) \in Nat /\ DOMAIN releases = 1 .. Len(releases)
           /\ Len(releases') = Len(releases) + 1
           /\ DOMAIN releases' = DOMAIN releases \cup {Len(releases) + 1}
           /\ releases'[Len(releases) + 1] = row
           /\ \A i \in DOMAIN releases : releases'[i] = releases[i]
<1>1. PICK Rows : releases \in Seq(Rows)
  OBVIOUS
<1>2. releases \in Seq(Rows \cup {row})
  BY <1>1
<1>3. releases' \in Seq(Rows \cup {row})
  BY <1>2
<1>4. /\ Len(releases) \in Nat /\ DOMAIN releases = 1 .. Len(releases)
      /\ Len(releases') = Len(releases) + 1
      /\ DOMAIN releases' = 1 .. Len(releases) + 1
      /\ releases'[Len(releases) + 1] = row
      /\ \A i \in 1 .. Len(releases) : releases'[i] = releases[i]
  BY <1>2
<1>5. 1 .. Len(releases) + 1 = (1 .. Len(releases)) \cup {Len(releases) + 1}
  BY <1>4
<1> QED
  BY <1>3, <1>4, <1>5

\* The manifest pins version rows.
LEMMA CompositionPinsRows ==
    ASSUME NEW p, NEW c \in DOMAIN Composition(p)
    PROVE  Composition(p)[c] \in HistoryOf(versions, c) /\ Composition(p)[c] \in DOMAIN versions
<1>1. ActiveOf(versions, c) # {} /\ Composition(p)[c] = CHOOSE v \in ActiveOf(versions, c) : TRUE
  BY DEF Composition, Releasable
<1>2. Composition(p)[c] \in ActiveOf(versions, c)
  BY <1>1
<1> QED
  BY <1>2 DEF ActiveOf, HistoryOf

LEMMA PinnedRowsInit == ReleaseInit => PinnedRowsExist
<1> SUFFICES ASSUME ReleaseInit PROVE PinnedRowsExist
  OBVIOUS
<1>1. releases = <<>> /\ <<>> \in Seq({})
  BY DEF ReleaseInit
<1> QED
  BY <1>1, VersionTypeInit DEF ReleaseInit, PinnedRowsExist

LEMMA PinnedRowsStep ==
    ASSUME PinnedRowsExist, [ReleaseNext]_releaseVars
    PROVE  PinnedRowsExist'
<1>1. /\ VersionTypeOK'
      /\ DOMAIN versions \subseteq DOMAIN versions'
  BY VersionsKept DEF PinnedRowsExist
<1>2. CASE UNCHANGED releases
  BY <1>1, <1>2 DEF PinnedRowsExist
<1>3. ASSUME NEW p \in ProductIds, NEW key \in Keys \cup {NoKey},
             releases' = Append(releases, NewRow(p, key))
      PROVE  PinnedRowsExist'
  <2> DEFINE n == Len(releases) + 1
  <2>1. /\ \E Rows : releases' \in Seq(Rows)
        /\ DOMAIN releases' = DOMAIN releases \cup {n}
        /\ releases'[n] = NewRow(p, key)
        /\ \A i \in DOMAIN releases : releases'[i] = releases[i]
    BY <1>3, AppendKeeps DEF PinnedRowsExist
  <2>2. NewRow(p, key).pins = Composition(p)
    BY DEF NewRow, Release
  <2>3. \A c \in DOMAIN releases'[n].pins : releases'[n].pins[c] \in DOMAIN versions
    BY <2>1, <2>2, CompositionPinsRows
  <2>4. \A i \in DOMAIN releases : \A c \in DOMAIN releases'[i].pins :
           releases'[i].pins[c] \in DOMAIN versions
    BY <2>1 DEF PinnedRowsExist
  <2> HIDE DEF n
  <2> QED
    BY <1>1, <2>1, <2>3, <2>4 DEF PinnedRowsExist
<1> QED
  BY <1>2, <1>3, ReleaseStep

LEMMA PinnedRowsInvariant == ReleaseSpec => []PinnedRowsExist
<1>1. PinnedRowsExist /\ [ReleaseNext]_releaseVars => PinnedRowsExist'
  BY PinnedRowsStep
<1> QED
  BY PinnedRowsInit, <1>1, PTL DEF ReleaseSpec
-----------------------------------------------------------------------------
LEMMA OneReleasePerKeyStep ==
    ASSUME PinnedRowsExist, OneReleasePerKey, [ReleaseNext]_releaseVars
    PROVE  OneReleasePerKey'
<1>1. CASE UNCHANGED releases
  BY <1>1 DEF OneReleasePerKey
<1>2. ASSUME NEW p \in ProductIds, NEW key \in Keys \cup {NoKey},
             releases' = Append(releases, NewRow(p, key)), ReplayOf(p, key) = {}
      PROVE  OneReleasePerKey'
  <2> DEFINE n == Len(releases) + 1
  <2>1. /\ DOMAIN releases' = DOMAIN releases \cup {n}
        /\ releases'[n] = NewRow(p, key)
        /\ \A i \in DOMAIN releases : releases'[i] = releases[i]
    BY <1>2, AppendKeeps DEF PinnedRowsExist
  <2>2. NewRow(p, key).product = p /\ NewRow(p, key).key = key
    BY DEF NewRow, Release
  <2>3. \A i \in DOMAIN releases :
           releases[i].product = p /\ key # NoKey => releases[i].key # key
    BY <1>2 DEF ReplayOf, CutsOf
  <2> HIDE DEF n
  <2> QED
    BY <2>1, <2>2, <2>3 DEF OneReleasePerKey
<1> QED
  BY <1>1, <1>2, ReleaseStep

\* An Idempotency-Key cuts at most one release of a product, whatever requests run
\* between the first use of the key and the next.
THEOREM OneReleasePerKeyInvariant == ReleaseSpec => []OneReleasePerKey
<1>1. ReleaseInit => OneReleasePerKey
  BY DEF ReleaseInit, OneReleasePerKey
<1>2. PinnedRowsExist /\ OneReleasePerKey /\ [ReleaseNext]_releaseVars => OneReleasePerKey'
  BY OneReleasePerKeyStep
<1> QED
  BY <1>1, <1>2, PinnedRowsInvariant, PTL DEF ReleaseSpec

LEMMA CutReleaseStep ==
    ASSUME PinnedRowsExist, [ReleaseNext]_releaseVars, NEW i \in DOMAIN releases
    PROVE  /\ i \in DOMAIN releases'
           /\ releases'[i] = releases[i]
           /\ Served(i)' = Served(i)
<1>1. i \in DOMAIN releases' /\ releases'[i] = releases[i]
  <2>1. CASE UNCHANGED releases
    BY <2>1
  <2>2. ASSUME NEW p \in ProductIds, NEW key \in Keys \cup {NoKey},
               releases' = Append(releases, NewRow(p, key))
        PROVE  i \in DOMAIN releases' /\ releases'[i] = releases[i]
    BY <2>2, AppendKeeps DEF PinnedRowsExist
  <2> QED
    BY <2>1, <2>2, ReleaseStep
<1>2. \A c \in DOMAIN releases[i].pins :
         versions'[releases[i].pins[c]].semver = versions[releases[i].pins[c]].semver
  BY VersionsKept DEF PinnedRowsExist
<1> QED
  BY <1>1, <1>2 DEF Served, NumbersOf

\* A release never changes: neither its rows nor the version numbers a reader finds
\* when it follows the pins into the version history.
THEOREM CutReleaseIsImmutable == ReleaseSpec => CutReleaseNeverChanges
<1>1. PinnedRowsExist /\ [ReleaseNext]_releaseVars => [
        \A i \in DOMAIN releases :
          /\ i \in DOMAIN releases'
          /\ releases'[i] = releases[i]
          /\ Served(i)' = Served(i)
        ]_releaseVars
  BY CutReleaseStep
<1> QED
  BY <1>1, PinnedRowsInvariant, PTL DEF ReleaseSpec, CutReleaseNeverChanges
-----------------------------------------------------------------------------
(***************************************************************************)
(* Types: the graph stays sound beside the releases, so the derived level  *)
(* is a level, so the next version is a version.                           *)
(***************************************************************************)
GraphSound == GraphTypeOK /\ Acyclic /\ FiniteComponents

LEMMA GraphSoundAlways == ReleaseSpec => []GraphSound
<1>1. ReleaseInit => GraphSound
  <2>1. ReleaseInit => GraphInit /\ CatalogueInit
    BY DEF ReleaseInit, VersionInit, GraphInit
  <2>2. ReleaseInit => Acyclic
    BY DEF ReleaseInit, Acyclic, EdgesOf
  <2> QED
    BY <2>1, <2>2, GraphTypeInit, FiniteComponentsInit DEF GraphSound
<1>2. GraphSound /\ [ReleaseNext]_releaseVars => GraphSound'
  <2> SUFFICES ASSUME GraphSound, [ReleaseNext]_releaseVars PROVE GraphSound'
    OBVIOUS
  <2>1. CASE [GraphNext]_graphVars
    <3>1. FiniteComponents'
      BY <2>1, FiniteComponentsStep DEF GraphSound, GraphNext, EdgeNext, AddDependency,
         RemoveDependency, catalogueVars, graphVars
    <3> QED
      BY <2>1, <3>1, GraphTypeStep, AcyclicStep DEF GraphSound
  <2>2. CASE UNCHANGED <<product, component, dependency>>
    BY <2>2 DEF GraphSound, GraphTypeOK, CatalogueTypeOK, ComponentsOf, Acyclic, EdgesOf,
       FiniteComponents
  <2> QED
    BY <2>1, <2>2, LedgerPart
<1> QED
  BY <1>1, <1>2, PTL DEF ReleaseSpec

\* A row of releases with its columns and its manifest.
RowTyped(r) ==
    /\ r.product \in DOMAIN product /\ r.key \in Keys \cup {NoKey}
    /\ r.version \in Core /\ r.level \in Levels
    /\ DOMAIN r.pins \subseteq ComponentsOf(r.product) /\ DOMAIN r.pins # {}
    /\ \A c \in DOMAIN r.pins : r.pins[c] \in HistoryOf(versions, c)
    /\ r.changes \in [IF product[r.product].policy = "default" THEN DOMAIN r.pins ELSE {} -> Levels]

RowsTyped == \A i \in DOMAIN releases : RowTyped(releases[i])

LEMMA RowsTypedIsReleaseTypeOK ==
    VersionTypeOK /\ GraphTypeOK /\ RowsTyped <=> ReleaseTypeOK
BY DEF ReleaseTypeOK, RowsTyped, RowTyped

\* No request spoils a row there is.
LEMMA RowStaysTyped ==
    ASSUME VersionTypeOK, [ReleaseNext]_releaseVars, NEW r, RowTyped(r)
    PROVE  RowTyped(r)'
<1>1. /\ r.product \in DOMAIN product'
      /\ product'[r.product] = product[r.product]
      /\ ComponentsOf(r.product) \subseteq ComponentsOf(r.product)'
  BY CatalogueKept DEF RowTyped, ComponentsOf
<1>2. \A c : HistoryOf(versions, c) \subseteq HistoryOf(versions', c)
  BY VersionsKept DEF HistoryOf
<1> QED
  BY <1>1, <1>2 DEF RowTyped

\* Of some of the first n numbers one is the last.
LEMMA LastOfSome ==
    ASSUME NEW n \in Nat, NEW S, S \subseteq 1 .. n, S # {}
    PROVE  \E i \in S : \A j \in S : j <= i
<1> DEFINE Above(i) == {j \in S : i < j}
           sets == {Above(i) : i \in S}
<1>1. IsFiniteSet(S)
  <2>1. IsFiniteSet(1 .. n)
    BY FS_Interval
  <2> QED
    BY <2>1, FS_Subset
<1>2. IsWellFoundedOn(StrictSubsetOrdering(S), FiniteSubsetsOf(S))
  BY <1>1, FS_StrictSubsetOrderingWellFounded
<1>3. sets \subseteq FiniteSubsetsOf(S) /\ sets # {}
  <2>1. \A i \in S : Above(i) \subseteq S
    OBVIOUS
  <2>2. \A i \in S : IsFiniteSet(Above(i))
    BY <1>1, <2>1, FS_Subset
  <2> QED
    BY <2>1, <2>2 DEF FiniteSubsetsOf
<1>4. PICK least \in sets : \A s \in sets : <<s, least>> \notin StrictSubsetOrdering(S)
  <2> HIDE DEF sets
  <2> QED
    BY <1>2, <1>3, WFMin
<1>5. PICK i \in S : least = Above(i)
  OBVIOUS
<1>6. ASSUME NEW j \in S, i < j PROVE FALSE
  <2>1. Above(j) \subseteq Above(i) /\ j \in Above(i) /\ j \notin Above(j)
    <3>1. i \in Nat /\ \A k \in S : k \in Nat
      OBVIOUS
    <3>2. (\A k \in S : j < k => i < k) /\ ~(j < j)
      BY <1>6, <3>1
    <3> QED
      BY <1>6, <3>2
  <2>2. <<Above(j), least>> \in StrictSubsetOrdering(S)
    BY <1>5, <2>1 DEF StrictSubsetOrdering
  <2> QED
    BY <1>4, <2>2
<1> QED
  BY <1>6

\* Latest finds the last cut, when there is one.
LEMMA LatestIsTheLast ==
    ASSUME PinnedRowsExist, NEW p, CutsOf(p) # {}
    PROVE  /\ Latest(p) \in CutsOf(p) /\ Latest(p) # 0
           /\ \A i \in CutsOf(p) : i <= Latest(p)
<1>1. DOMAIN releases = 1 .. Len(releases) /\ Len(releases) \in Nat
  BY DEF PinnedRowsExist
<1>2. CutsOf(p) \subseteq 1 .. Len(releases)
  BY <1>1 DEF CutsOf
<1>3. \E i \in CutsOf(p) : \A j \in CutsOf(p) : j <= i
  BY <1>1, <1>2, LastOfSome
<1> QED
  BY <1>2, <1>3 DEF Latest

\* classify_change tells one of the four levels of any two numbers.
LEMMA ClassifyTyped ==
    ASSUME NEW s, NEW t
    PROVE  Classify(s, t) \in Levels
BY LevelsAreOrdinals DEF Classify, ClassifyCore

LEMMA OwnLevelsOfACut ==
    ASSUME NEW p
    PROVE  /\ OwnLevels(p) \in [Releasable(p) -> Levels]
           /\ OwnLevelsTyped(OwnLevels(p))
<1>1. MINOR \in Levels
  BY LevelsAreOrdinals
<1>2. OwnLevels(p) \in [Releasable(p) -> Levels]
  BY <1>1, ClassifyTyped DEF OwnLevels
<1> QED
  BY <1>2 DEF OwnLevelsTyped

\* The levels a default cut takes the maximum of.
EffectiveOfCut(p) == {EffectiveLevels(OwnLevels(p), EdgesOf(p))[c] : c \in Releasable(p)}

LEMMA EffectiveOfACut ==
    ASSUME GraphSound, NEW p \in DOMAIN product
    PROVE  \A c \in Releasable(p) :
              EffectiveLevels(OwnLevels(p), EdgesOf(p))[c] = FeltLevel(OwnLevels(p), EdgesOf(p), c)
<1> DEFINE E == EdgesOf(p)
<1>1. /\ E \subseteq ComponentIds \X ComponentIds /\ IsFiniteSet(Endpoints(E))
  BY GraphOfProduct DEF GraphSound
<1>2. AcyclicGraph(E)
  <2>1. NoCycle(E)
    BY DEF GraphSound, Acyclic, NoCycle, GraphTypeOK, CatalogueTypeOK
  <2> QED
    BY <1>1, <2>1, NoCycleIsAcyclic
<1>3. OwnLevelsTyped(OwnLevels(p)) /\ DOMAIN OwnLevels(p) = Releasable(p)
  BY OwnLevelsOfACut
<1> HIDE DEF E
<1>4. \A c \in Releasable(p) : EffectiveLevels(OwnLevels(p), E)[c] = FeltLevel(OwnLevels(p), E, c)
  BY <1>1, <1>2, <1>3, EffectiveIsFelt
<1> QED
  BY <1>4 DEF E

\* What is known of the derived level under the default policy.
LEMMA DefaultLevel ==
    ASSUME GraphSound, NEW p \in DOMAIN product, product[p].policy = "default"
    PROVE  /\ EffectiveOfCut(p) \subseteq Levels
           /\ DerivedLevel(p) =
                 MaxLevel(EffectiveOfCut(p) \cup (IF RemovedAny(p) THEN {MAJOR} ELSE {}))
           /\ DerivedLevel(p) \in Levels
           /\ \A l \in EffectiveOfCut(p) : l <= DerivedLevel(p)
           /\ RemovedAny(p) => DerivedLevel(p) = MAJOR
           /\ \A c \in Releasable(p) : OwnLevels(p)[c] <= DerivedLevel(p)
<1> DEFINE gone == IF RemovedAny(p) THEN {MAJOR} ELSE {}
           own == OwnLevels(p)
           felt(c) == FeltLevel(own, EdgesOf(p), c)
<1>1. OwnLevelsTyped(own) /\ DOMAIN own = Releasable(p)
  BY OwnLevelsOfACut
<1>2. \A c \in Releasable(p) : EffectiveLevels(own, EdgesOf(p))[c] = felt(c)
  BY EffectiveOfACut
<1>3. \A c \in Releasable(p) :
         felt(c) \in Levels /\ BaseLevel(own, c) \in Levels /\ BaseLevel(own, c) <= felt(c)
  <2> SUFFICES ASSUME NEW c \in Releasable(p)
               PROVE  /\ felt(c) \in Levels /\ BaseLevel(own, c) \in Levels
                      /\ BaseLevel(own, c) <= felt(c)
    OBVIOUS
  <2>1. BaseLevel(own, c) \in FeltAt(own, EdgesOf(p), c)
    BY DEF FeltAt
  <2> HIDE DEF own
  <2> QED
    BY <1>1, <2>1, FeltLevelIsTheHighest, BaseLevelTyped
<1>4. \A c \in Releasable(p) : BaseLevel(own, c) = own[c]
  BY <1>1 DEF BaseLevel
<1>5. DerivedLevel(p) = MaxLevel(EffectiveOfCut(p) \cup gone)
  BY <1>1 DEF DerivedLevel, DeriveBump, EffectiveOfCut
<1> HIDE DEF felt, own
<1>6. EffectiveOfCut(p) = {felt(c) : c \in Releasable(p)}
  BY <1>2 DEF EffectiveOfCut, own
<1>7. EffectiveOfCut(p) \subseteq Levels
  BY <1>3, <1>6
<1>8. EffectiveOfCut(p) \cup gone \subseteq Levels
  BY <1>7, LevelsAreOrdinals
<1> HIDE DEF gone
<1>9. /\ DerivedLevel(p) \in Levels
      /\ \A l \in EffectiveOfCut(p) \cup gone : l <= DerivedLevel(p)
  BY <1>5, <1>8, MaxLevelIsTheHighest
<1>10. ASSUME RemovedAny(p) PROVE DerivedLevel(p) = MAJOR
  <2>1. MAJOR <= DerivedLevel(p)
    BY <1>9, <1>10 DEF gone
  <2> QED
    BY <1>9, <2>1, LevelsAreOrdinals
<1>11. ASSUME NEW c \in Releasable(p) PROVE own[c] <= DerivedLevel(p)
  <2>1. own[c] <= felt(c) /\ own[c] \in Levels /\ felt(c) \in Levels
    BY <1>3, <1>4
  <2>2. felt(c) <= DerivedLevel(p)
    BY <1>6, <1>9
  <2> QED
    BY <1>9, <2>1, <2>2, LevelsAreOrdinals
<1> QED
  BY <1>5, <1>7, <1>9, <1>10, <1>11 DEF gone, own

\* apply_bump: the next version is a version, above the last one unless nothing changed.
LEMMA ApplyBumpMoves ==
    ASSUME NEW v \in Core, NEW l \in Levels
    PROVE  /\ ApplyBump(v, l) \in Core
           /\ l # NONE => Below(v, ApplyBump(v, l))
           /\ l = NONE => ApplyBump(v, l) = v
           /\ l = MAJOR => v[1] < ApplyBump(v, l)[1]
BY LevelsAreOrdinals DEF ApplyBump, Core, Below

LEMMA CurrentVersionTyped ==
    ASSUME PinnedRowsExist, RowsTyped, NEW p
    PROVE  CurrentVersion(p) \in Core
<1>1. BaseVersion \in Core
  BY DEF BaseVersion, Core
<1>2. CASE CutsOf(p) = {}
  BY <1>1, <1>2 DEF CurrentVersion, Latest
<1>3. CASE CutsOf(p) # {}
  BY <1>3, LatestIsTheLast DEF CurrentVersion, RowsTyped, RowTyped, CutsOf
<1> QED
  BY <1>2, <1>3

LEMMA DerivedLevelTyped ==
    ASSUME GraphSound, NEW p \in DOMAIN product
    PROVE  DerivedLevel(p) \in Levels
<1>1. CASE product[p].policy = "default"
  BY <1>1, DefaultLevel
<1>2. CASE product[p].policy # "default"
  BY <1>2, LevelsAreOrdinals DEF DerivedLevel
<1> QED
  BY <1>1, <1>2

\* A cut records a typed row.
LEMMA NewRowTyped ==
    ASSUME PinnedRowsExist, GraphSound, RowsTyped,
           NEW p \in DOMAIN product, NEW key \in Keys \cup {NoKey}, Releasable(p) # {}
    PROVE  RowTyped(NewRow(p, key))
<1> DEFINE r == NewRow(p, key)
<1>1. /\ r.product = p /\ r.key = key
      /\ r.version = ApplyBump(CurrentVersion(p), DerivedLevel(p))
      /\ r.level = DerivedLevel(p) /\ r.pins = Composition(p) /\ r.changes = RecordedChanges(p)
  BY DEF NewRow, Release
<1>2. r.level \in Levels /\ r.version \in Core
  BY <1>1, CurrentVersionTyped, DerivedLevelTyped, ApplyBumpMoves
<1>3. DOMAIN r.pins = Releasable(p) /\ Releasable(p) \subseteq ComponentsOf(p)
  BY <1>1 DEF Composition, Releasable
<1>4. \A c \in DOMAIN r.pins : r.pins[c] \in HistoryOf(versions, c)
  BY <1>1, CompositionPinsRows
<1>5. r.changes \in [IF product[p].policy = "default" THEN DOMAIN r.pins ELSE {} -> Levels]
  BY <1>1, <1>3, OwnLevelsOfACut DEF RecordedChanges
<1> HIDE DEF r
<1>6. RowTyped(r)
  BY <1>1, <1>2, <1>3, <1>4, <1>5 DEF RowTyped
<1> QED
  BY <1>6 DEF r

LEMMA RowsTypedStep ==
    ASSUME PinnedRowsExist, GraphSound, RowsTyped, [ReleaseNext]_releaseVars
    PROVE  RowsTyped'
<1>1. ASSUME NEW r, RowTyped(r) PROVE RowTyped(r)'
  BY <1>1, RowStaysTyped DEF PinnedRowsExist
<1>2. CASE UNCHANGED releases
  BY <1>1, <1>2 DEF RowsTyped, RowTyped
<1>3. ASSUME NEW p \in ProductIds, NEW key \in Keys \cup {NoKey},
             releases' = Append(releases, NewRow(p, key)),
             p \in DOMAIN product, Releasable(p) # {}
      PROVE  RowsTyped'
  <2> DEFINE n == Len(releases) + 1
             row == NewRow(p, key)
  <2>1. /\ DOMAIN releases' = DOMAIN releases \cup {n}
        /\ releases'[n] = row
        /\ \A i \in DOMAIN releases : releases'[i] = releases[i]
    BY <1>3, AppendKeeps DEF PinnedRowsExist
  <2>2. RowTyped(row)
    BY <1>3, NewRowTyped
  <2> HIDE DEF n, row
  <2>3. \A i \in DOMAIN releases' : RowTyped(releases'[i])
    BY <2>1, <2>2 DEF RowsTyped
  <2> QED
    BY <1>1, <2>3 DEF RowsTyped
<1> QED
  BY <1>2, <1>3, ReleaseStep

LEMMA RowsTypedAlways == ReleaseSpec => []RowsTyped
<1>1. ReleaseInit => RowsTyped
  BY DEF ReleaseInit, RowsTyped
<1>2. PinnedRowsExist /\ GraphSound /\ RowsTyped /\ [ReleaseNext]_releaseVars => RowsTyped'
  BY RowsTypedStep
<1> QED
  BY <1>1, <1>2, PinnedRowsInvariant, GraphSoundAlways, PTL DEF ReleaseSpec

\* Every manifest pins versions of the released product's own components, and every
\* derived version and level is one, whatever requests ran between the cuts.
THEOREM ReleaseTypeInvariant == ReleaseSpec => []ReleaseTypeOK
<1>1. PinnedRowsExist /\ GraphSound /\ RowsTyped => ReleaseTypeOK
  BY RowsTypedIsReleaseTypeOK DEF PinnedRowsExist, GraphSound
<1> QED
  BY <1>1, PinnedRowsInvariant, GraphSoundAlways, RowsTypedAlways, PTL
-----------------------------------------------------------------------------
(***************************************************************************)
(* Product versions.                                                       *)
(***************************************************************************)

\* classify_change sees a difference exactly when the numbers differ.
LEMMA ClassifyNone ==
    ASSUME NEW s \in Semvers, NEW t \in Semvers, Classify(s, t) = NONE
    PROVE  s = t
<1>1. /\ s.core \in Core /\ s = [core |-> s.core, pre |-> s.pre]
      /\ t.core \in Core /\ t = [core |-> t.core, pre |-> t.pre]
  BY VersionAssumption
<1>2. ~(s.core = t.core /\ s.pre # t.pre) /\ ClassifyCore(s, t) = NONE
  BY LevelsAreOrdinals DEF Classify
<1>3. s.core[1] = t.core[1] /\ s.core[2] = t.core[2] /\ s.core[3] = t.core[3]
  BY <1>2, LevelsAreOrdinals DEF ClassifyCore
<1>4. s.core = t.core
  BY <1>1, <1>3 DEF Core
<1> QED
  BY <1>1, <1>2, <1>4

\* A cut whose level is NONE serves what the product's latest one serves.
LEMMA UnchangedCut ==
    ASSUME PinnedRowsExist, GraphSound, RowsTyped,
           NEW p \in DOMAIN product, CutsOf(p) # {}, DerivedLevel(p) = NONE
    PROVE  NumbersOf(Composition(p)) = Served(Latest(p))
<1> DEFINE prior == PriorPins(p)
<1>1. Latest(p) # 0 /\ Latest(p) \in CutsOf(p) /\ prior = releases[Latest(p)].pins
  BY LatestIsTheLast DEF PriorPins
<1>2. product[p].policy = "default" /\ NONE # MAJOR /\ NONE # MINOR
  BY LevelsAreOrdinals DEF DerivedLevel
<1>3. ~RemovedAny(p) /\ \A c \in Releasable(p) : OwnLevels(p)[c] <= NONE
  BY <1>2, DefaultLevel
<1>4. \A c \in Releasable(p) : OwnLevels(p)[c] = NONE
  BY <1>3, OwnLevelsOfACut, LevelsAreOrdinals
<1>5. \A c \in Releasable(p) : c \in DOMAIN prior
  BY <1>2, <1>4 DEF OwnLevels
<1>6. DOMAIN prior = Releasable(p)
  BY <1>3, <1>5 DEF RemovedAny
<1>7. ASSUME NEW c \in Releasable(p)
      PROVE  versions[prior[c]].semver = versions[Composition(p)[c]].semver
  <2>1. Classify(versions[prior[c]].semver, versions[Composition(p)[c]].semver) = NONE
    BY <1>4, <1>5 DEF OwnLevels
  <2>2. Composition(p)[c] \in DOMAIN versions
    BY CompositionPinsRows DEF Composition
  <2>3. prior[c] \in DOMAIN versions
    BY <1>1, <1>6 DEF PinnedRowsExist, CutsOf
  <2>4. \A v \in DOMAIN versions : versions[v].semver \in Semvers
    BY DEF PinnedRowsExist, VersionTypeOK, VersionRow
  <2> QED
    BY <2>1, <2>2, <2>3, <2>4, ClassifyNone
<1>8. DOMAIN Composition(p) = Releasable(p)
  BY DEF Composition
<1> QED
  BY <1>1, <1>6, <1>7, <1>8 DEF NumbersOf, Served

\* A cut follows the product's latest one: above it, or equal and serving the same.
LEMMA CutFollowsLatest ==
    ASSUME PinnedRowsExist, GraphSound, RowsTyped,
           NEW p \in DOMAIN product, CutsOf(p) # {}
    PROVE  LET v == ApplyBump(CurrentVersion(p), DerivedLevel(p)) IN
           /\ v \in Core /\ releases[Latest(p)].version \in Core
           /\ \/ Below(releases[Latest(p)].version, v)
              \/ /\ releases[Latest(p)].version = v
                 /\ Served(Latest(p)) = NumbersOf(Composition(p))
<1>1. CurrentVersion(p) = releases[Latest(p)].version /\ CurrentVersion(p) \in Core
  BY LatestIsTheLast, CurrentVersionTyped DEF CurrentVersion
<1>2. DerivedLevel(p) \in Levels
  BY DerivedLevelTyped
<1> QED
  BY <1>1, <1>2, ApplyBumpMoves, UnchangedCut

LEMMA CompositionStep ==
    ASSUME PinnedRowsExist, GraphSound, RowsTyped, ProductVersionNamesComposition,
           [ReleaseNext]_releaseVars
    PROVE  ProductVersionNamesComposition'
<1>1. \A i \in DOMAIN releases : releases'[i] = releases[i] /\ Served(i)' = Served(i)
  BY CutReleaseStep
<1>2. CASE UNCHANGED releases
  BY <1>1, <1>2 DEF ProductVersionNamesComposition
<1>3. ASSUME NEW p \in ProductIds, NEW key \in Keys \cup {NoKey},
             releases' = Append(releases, NewRow(p, key)), p \in DOMAIN product,
             UNCHANGED versions
      PROVE  ProductVersionNamesComposition'
  <2> DEFINE row == NewRow(p, key)
             v == ApplyBump(CurrentVersion(p), DerivedLevel(p))
  <2> PICK n : n = Len(releases) + 1
    OBVIOUS
  <2>1. /\ DOMAIN releases' = DOMAIN releases \cup {n}
        /\ releases'[n] = row
        /\ Len(releases) \in Nat /\ DOMAIN releases = 1 .. Len(releases)
    BY <1>3, AppendKeeps DEF PinnedRowsExist
  <2>2. row.product = p /\ row.version = v /\ row.pins = Composition(p)
    BY DEF NewRow, Release
  <2>3. Served(n)' = NumbersOf(Composition(p))
    BY <1>3, <2>1, <2>2 DEF Served, NumbersOf
  <2>4. \A i \in DOMAIN releases : i < n /\ ~(n < i) /\ ~(n < n)
    BY <2>1
  <2> HIDE DEF row, v
  <2>5. ASSUME NEW i \in DOMAIN releases, releases[i].product = p
        PROVE  \/ Below(releases[i].version, v)
               \/ releases[i].version = v /\ Served(i) = NumbersOf(Composition(p))
    <3> DEFINE l == Latest(p)
    <3>1. i \in CutsOf(p)
      BY <2>5 DEF CutsOf
    <3>2. l \in CutsOf(p) /\ i <= l
      BY <3>1, LatestIsTheLast
    <3>3. /\ v \in Core /\ releases[l].version \in Core
          /\ \/ Below(releases[l].version, v)
             \/ releases[l].version = v /\ Served(l) = NumbersOf(Composition(p))
      BY <1>3, <3>1, CutFollowsLatest DEF v
    <3>4. CASE i = l
      BY <3>3, <3>4
    <3>5. CASE i # l
      <4>1. i < l /\ l \in DOMAIN releases /\ releases[l].product = p
        BY <2>1, <3>2, <3>5 DEF CutsOf
      <4>2. \/ Below(releases[i].version, releases[l].version)
            \/ releases[i].version = releases[l].version /\ Served(i) = Served(l)
        BY <2>5, <4>1 DEF ProductVersionNamesComposition
      <4>3. releases[i].version \in Core
        BY DEF RowsTyped, RowTyped
      <4> HIDE DEF l
      <4> QED
        BY <3>3, <4>2, <4>3, BelowIsStrictOrder
    <3> QED
      BY <3>4, <3>5
  <2>6. ASSUME NEW i \in DOMAIN releases', NEW j \in DOMAIN releases',
               i < j, releases'[i].product = releases'[j].product
        PROVE  \/ Below(releases'[i].version, releases'[j].version)
               \/ releases'[i].version = releases'[j].version /\ Served(i)' = Served(j)'
    <3>1. CASE i \in DOMAIN releases /\ j \in DOMAIN releases
      <4>1. /\ releases'[i] = releases[i] /\ Served(i)' = Served(i)
            /\ releases'[j] = releases[j] /\ Served(j)' = Served(j)
        BY <1>1, <3>1
      <4> QED
        BY <2>6, <3>1, <4>1 DEF ProductVersionNamesComposition
    <3>2. CASE i \in DOMAIN releases /\ j = n
      <4>1. releases'[i] = releases[i] /\ Served(i)' = Served(i)
        BY <1>1, <3>2
      <4>2. releases[i].product = p
        BY <2>1, <2>2, <2>6, <3>2, <4>1
      <4> QED
        BY <2>1, <2>2, <2>3, <2>5, <3>2, <4>1, <4>2
    <3> QED
      BY <2>1, <2>4, <2>6, <3>1, <3>2
  <2> QED
    BY <2>6 DEF ProductVersionNamesComposition
<1> QED
  BY <1>2, <1>3, ReleaseStep

\* A product version never names two compositions: between two cuts of a product the
\* version rises, or both serve the same numbers whatever requests ran in between.
THEOREM VersionNamesComposition == ReleaseSpec => []ProductVersionNamesComposition
<1>1. ReleaseInit => ProductVersionNamesComposition
  BY DEF ReleaseInit, ProductVersionNamesComposition
<1>2. PinnedRowsExist /\ GraphSound /\ RowsTyped /\ ProductVersionNamesComposition
         /\ [ReleaseNext]_releaseVars => ProductVersionNamesComposition'
  BY CompositionStep
<1> QED
  BY <1>1, <1>2, PinnedRowsInvariant, GraphSoundAlways, RowsTypedAlways, PTL DEF ReleaseSpec

\* A cut that drops a component of the latest manifest has a higher major number.
LEMMA DroppedFromLatest ==
    ASSUME PinnedRowsExist, GraphSound, RowsTyped,
           NEW p \in DOMAIN product, product[p].policy = "default", CutsOf(p) # {},
           ~(DOMAIN releases[Latest(p)].pins \subseteq Releasable(p))
    PROVE  releases[Latest(p)].version[1]
              < ApplyBump(CurrentVersion(p), DerivedLevel(p))[1]
<1>1. /\ CurrentVersion(p) = releases[Latest(p)].version /\ CurrentVersion(p) \in Core
      /\ PriorPins(p) = releases[Latest(p)].pins
  BY LatestIsTheLast, CurrentVersionTyped DEF CurrentVersion, PriorPins
<1>2. RemovedAny(p)
  BY <1>1 DEF RemovedAny
<1>3. DerivedLevel(p) = MAJOR
  BY <1>2, DefaultLevel
<1> QED
  BY <1>1, <1>3, ApplyBumpMoves, LevelsAreOrdinals

\* The version of the latest cut of a product and that of the next never fall back:
\* their major numbers do not.
LEMMA MajorsRise ==
    ASSUME NEW a \in Core, NEW b \in Core, Below(a, b) \/ a = b
    PROVE  a[1] <= b[1] /\ a[1] \in Nat /\ b[1] \in Nat
BY DEF Core, Below

LEMMA DroppingStep ==
    ASSUME PinnedRowsExist, GraphSound, RowsTyped, ProductVersionNamesComposition,
           DroppingRaisesMajor, [ReleaseNext]_releaseVars
    PROVE  DroppingRaisesMajor'
<1>1. \A i \in DOMAIN releases : releases'[i] = releases[i]
  BY CutReleaseStep
<1>2. \A i \in DOMAIN releases :
         releases[i].product \in DOMAIN product
         /\ product'[releases[i].product] = product[releases[i].product]
  BY CatalogueKept DEF RowsTyped, RowTyped, PinnedRowsExist
<1>3. CASE UNCHANGED releases
  BY <1>2, <1>3 DEF DroppingRaisesMajor
<1>4. ASSUME NEW p \in ProductIds, NEW key \in Keys \cup {NoKey},
             releases' = Append(releases, NewRow(p, key)), p \in DOMAIN product,
             UNCHANGED product
      PROVE  DroppingRaisesMajor'
  <2> DEFINE row == NewRow(p, key)
             v == ApplyBump(CurrentVersion(p), DerivedLevel(p))
  <2> PICK n : n = Len(releases) + 1
    OBVIOUS
  <2>1. /\ DOMAIN releases' = DOMAIN releases \cup {n}
        /\ releases'[n] = row
        /\ Len(releases) \in Nat /\ DOMAIN releases = 1 .. Len(releases)
    BY <1>4, AppendKeeps DEF PinnedRowsExist
  <2>2. row.product = p /\ row.version = v /\ DOMAIN row.pins = Releasable(p)
    BY DEF NewRow, Release, Composition
  <2>3. \A i \in DOMAIN releases : i < n /\ ~(n < i) /\ ~(n < n)
    BY <2>1
  <2> HIDE DEF row, v
  <2>4. ASSUME NEW i \in DOMAIN releases, releases[i].product = p,
               product[p].policy = "default",
               ~(DOMAIN releases[i].pins \subseteq Releasable(p))
        PROVE  releases[i].version[1] < v[1]
    <3> DEFINE l == Latest(p)
    <3>1. i \in CutsOf(p)
      BY <2>4 DEF CutsOf
    <3>2. l \in CutsOf(p) /\ i <= l
      BY <3>1, LatestIsTheLast
    <3>3. /\ v \in Core /\ releases[l].version \in Core
          /\ Below(releases[l].version, v) \/ releases[l].version = v
      BY <1>4, <3>1, CutFollowsLatest DEF v
    <3>4. l \in DOMAIN releases /\ releases[l].product = p
      BY <3>2 DEF CutsOf
    <3>5. releases[i].version \in Core
      BY DEF RowsTyped, RowTyped
    <3>6. i < l => \/ Below(releases[i].version, releases[l].version)
                   \/ releases[i].version = releases[l].version
      BY <2>4, <3>4 DEF ProductVersionNamesComposition
    <3>7. i < l \/ i = l
      BY <2>1, <3>2, <3>4
    <3>8. ~(DOMAIN releases[l].pins \subseteq Releasable(p)) => releases[l].version[1] < v[1]
      BY <1>4, <2>4, <3>1, DroppedFromLatest DEF v
    <3> HIDE DEF l
    <3>9. /\ releases[i].version[1] \in Nat /\ releases[l].version[1] \in Nat /\ v[1] \in Nat
          /\ releases[l].version[1] <= v[1]
          /\ releases[i].version[1] <= releases[l].version[1]
      <4>1. Below(releases[i].version, releases[l].version)
            \/ releases[i].version = releases[l].version
        BY <3>6, <3>7
      <4> QED
        BY <4>1, <3>3, <3>5, MajorsRise
    <3>10. CASE DOMAIN releases[l].pins \subseteq Releasable(p)
      <4>1. i < l /\ ~(DOMAIN releases[i].pins \subseteq DOMAIN releases[l].pins)
        BY <2>4, <3>7, <3>10
      <4>2. releases[i].version[1] < releases[l].version[1]
        BY <2>4, <3>4, <4>1 DEF DroppingRaisesMajor
      <4> QED
        BY <3>9, <4>2
    <3>11. CASE ~(DOMAIN releases[l].pins \subseteq Releasable(p))
      BY <3>8, <3>9, <3>11
    <3> QED
      BY <3>10, <3>11
  <2>5. ASSUME NEW i \in DOMAIN releases', NEW j \in DOMAIN releases',
               i < j, releases'[i].product = releases'[j].product,
               product[releases'[i].product].policy = "default",
               ~(DOMAIN releases'[i].pins \subseteq DOMAIN releases'[j].pins)
        PROVE  releases'[i].version[1] < releases'[j].version[1]
    <3>1. CASE i \in DOMAIN releases /\ j \in DOMAIN releases
      BY <1>1, <2>5, <3>1 DEF DroppingRaisesMajor
    <3>2. CASE i \in DOMAIN releases /\ j = n
      <4>1. releases'[i] = releases[i] /\ releases'[j] = row
        BY <1>1, <2>1, <3>2
      <4> QED
        BY <2>2, <2>4, <2>5, <3>2, <4>1
    <3> QED
      BY <2>1, <2>3, <2>5, <3>1, <3>2
  <2> QED
    BY <1>4, <2>5 DEF DroppingRaisesMajor
<1> QED
  BY <1>3, <1>4, ReleaseStep

\* A component that leaves the manifest of a default product costs it a major number,
\* also when other cuts lie between the manifest that had it and the one that lacks it.
THEOREM DroppingIsBreaking == ReleaseSpec => []DroppingRaisesMajor
<1>1. ReleaseInit => DroppingRaisesMajor
  BY DEF ReleaseInit, DroppingRaisesMajor
<1>2. PinnedRowsExist /\ GraphSound /\ RowsTyped /\ ProductVersionNamesComposition
         /\ DroppingRaisesMajor /\ [ReleaseNext]_releaseVars => DroppingRaisesMajor'
  BY DroppingStep
<1> QED
  BY <1>1, <1>2, PinnedRowsInvariant, GraphSoundAlways, RowsTypedAlways,
     VersionNamesComposition, PTL DEF ReleaseSpec
-----------------------------------------------------------------------------
(***************************************************************************)
(* The bump of a product whose edges stay within the manifest.             *)
(***************************************************************************)

\* Along a graph whose ends all have an own level nothing is felt above their highest.
LEMMA FeltStaysBelow ==
    ASSUME NEW own, OwnLevelsTyped(own), NEW E, Endpoints(E) \subseteq DOMAIN own,
           NEW top \in Levels, \A d \in DOMAIN own : own[d] <= top,
           NEW c \in DOMAIN own
    PROVE  FeltLevel(own, E, c) <= top
<1>1. \A d \in DOMAIN own : BaseLevel(own, d) = own[d] /\ own[d] \in Levels
  BY DEF BaseLevel, OwnLevelsTyped
<1>2. Dependencies(E, c) \subseteq DOMAIN own /\ IndirectDependencies(E, c) \subseteq DOMAIN own
  BY DirectDependency DEF IndirectDependencies
<1>3. \A d \in DOMAIN own :
         /\ BaseLevel(own, d) <= top
         /\ Propagate(BaseLevel(own, d)) <= top
         /\ Propagate(Propagate(BaseLevel(own, d))) <= top
  <2> SUFFICES ASSUME NEW l \in Levels, l <= top
               PROVE  Propagate(l) <= top /\ Propagate(Propagate(l)) <= top
    BY <1>1
  <2>1. /\ Propagate(l) \in Levels /\ Propagate(l) <= l
        /\ Propagate(Propagate(l)) \in Levels /\ Propagate(Propagate(l)) <= Propagate(l)
    BY PropagateTable
  <2> QED
    BY <2>1, LevelsAreOrdinals
<1>4. \A l \in FeltAt(own, E, c) : l <= top
  BY <1>2, <1>3 DEF FeltAt
<1>5. FeltLevel(own, E, c) \in FeltAt(own, E, c) \cup {NONE}
  BY FeltLevelIsTheHighest
<1>6. NONE <= top
  BY LevelsAreOrdinals
<1> QED
  BY <1>4, <1>5, <1>6

LEMMA BumpStep ==
    ASSUME PinnedRowsExist, GraphSound, [ReleaseNext]_releaseVars,
           NEW p \in DOMAIN product, Cuts(p), ~RemovedAny(p),
           Endpoints(EdgesOf(p)) \subseteq Releasable(p)
    PROVE  NewCut.level = LargestOwnChange
<1>1. PICK key \in Keys \cup {NoKey} : releases' = Append(releases, NewRow(p, key))
  <2>1. Len(releases) \in Nat
    BY DEF PinnedRowsExist
  <2>2. ~UNCHANGED releases
    BY <2>1 DEF Cuts
  <2>3. PICK q \in ProductIds, key \in Keys \cup {NoKey} : releases' = Append(releases, NewRow(q, key))
    BY <2>2, ReleaseStep
  <2>4. NewRow(q, key).product = q
    BY DEF NewRow, Release
  <2>5. releases'[Len(releases')] = NewRow(q, key)
    BY <2>3, AppendKeeps DEF PinnedRowsExist
  <2> QED
    BY <2>3, <2>4, <2>5 DEF Cuts
<1>2. NewCut = NewRow(p, key)
  BY <1>1, AppendKeeps DEF PinnedRowsExist, NewCut
<1>3. product[p].policy = "default"
  BY DEF Cuts
<1> DEFINE own == OwnLevels(p)
           S == {own[c] : c \in DOMAIN own}
           top == MaxLevel(S)
<1>4. NewCut.level = DerivedLevel(p) /\ NewCut.changes = own
  BY <1>2, <1>3 DEF NewRow, Release, RecordedChanges
<1>5. OwnLevelsTyped(own) /\ DOMAIN own = Releasable(p)
  BY OwnLevelsOfACut
<1>6. S \subseteq Levels
  BY <1>5 DEF OwnLevelsTyped
<1> HIDE DEF own
<1>7. top \in Levels /\ top \in S \cup {NONE} /\ \A l \in S : l <= top
  <2> HIDE DEF S
  <2> QED
    BY <1>6, MaxLevelIsTheHighest
<1>8. \A c \in DOMAIN own : own[c] <= top
  BY <1>7
<1> HIDE DEF top
<1>9. \A l \in EffectiveOfCut(p) : l <= top
  <2>1. \A c \in DOMAIN own : FeltLevel(own, EdgesOf(p), c) <= top
    BY <1>5, <1>7, <1>8, FeltStaysBelow
  <2>2. EffectiveOfCut(p) = {FeltLevel(own, EdgesOf(p), c) : c \in Releasable(p)}
    BY EffectiveOfACut DEF EffectiveOfCut, own
  <2> QED
    BY <1>5, <2>1, <2>2
<1>10. /\ EffectiveOfCut(p) \subseteq Levels
       /\ DerivedLevel(p) = MaxLevel(EffectiveOfCut(p)) /\ DerivedLevel(p) \in Levels
       /\ \A c \in DOMAIN own : own[c] <= DerivedLevel(p)
  <2>1. EffectiveOfCut(p) \cup {} = EffectiveOfCut(p)
    OBVIOUS
  <2> QED
    BY <1>3, <1>5, <2>1, DefaultLevel DEF own
<1>11. DerivedLevel(p) <= top
  <2>1. DerivedLevel(p) \in EffectiveOfCut(p) \cup {NONE}
    BY <1>10, MaxLevelIsTheHighest
  <2> QED
    BY <1>7, <1>9, <2>1, LevelsAreOrdinals
<1>12. top <= DerivedLevel(p)
  BY <1>7, <1>10, LevelsAreOrdinals
<1>13. DerivedLevel(p) = top
  BY <1>7, <1>10, <1>11, <1>12, LevelsAreOrdinals
<1> QED
  BY <1>4, <1>13 DEF top, LargestOwnChange

\* On a graph within the manifest, and with nothing dropped, lifting levels along the
\* edges changes nothing: the bump is the largest change a component made itself.
THEOREM BumpIsTheLargest == ReleaseSpec => BumpIsTheLargestOwnChange
<1>1. PinnedRowsExist /\ GraphSound /\ [ReleaseNext]_releaseVars => [
        \A p \in DOMAIN product :
          Cuts(p) /\ ~RemovedAny(p) /\ Endpoints(EdgesOf(p)) \subseteq Releasable(p)
              => NewCut.level = LargestOwnChange
        ]_releaseVars
  BY BumpStep
<1> QED
  BY <1>1, PinnedRowsInvariant, GraphSoundAlways, PTL DEF ReleaseSpec, BumpIsTheLargestOwnChange
-----------------------------------------------------------------------------
(***************************************************************************)
(* Reads.                                                                  *)
(***************************************************************************)

\* Any order a list of versions may come in shows all of them, and nothing else.
LEMMA ListingShowsAll ==
    ASSUME NEW vs, NEW s \in Listings(vs)
    PROVE  {s[i] : i \in DOMAIN s} = {VersionResponse(v) : v \in vs}
<1>1. /\ \A i \in DOMAIN s : s[i] \in {VersionResponse(v) : v \in vs}
      /\ \A v \in vs : \E i \in DOMAIN s : s[i].id = v
  BY DEF Listings
<1>2. \A v : VersionResponse(v).id = v
  BY DEF VersionResponse
<1>3. ASSUME NEW v \in vs PROVE \E i \in DOMAIN s : s[i] = VersionResponse(v)
  <2>1. PICK i \in DOMAIN s : s[i].id = v
    BY <1>1
  <2>2. PICK u \in vs : s[i] = VersionResponse(u)
    BY <1>1
  <2> QED
    BY <1>2, <2>1, <2>2
<1> QED
  BY <1>1, <1>3

LEMMA ReadsFollow ==
    ASSUME ReleaseTypeOK
    PROVE  ReadsOfAPageAgree
<1> SUFFICES ASSUME NEW p \in DOMAIN product
             PROVE
        /\ GetProduct(p).code = 200
        /\ \A e \in GetProductGraph(p).body.edges :
              {e[1], e[2]} \subseteq GetProductGraph(p).body.nodes
        /\ \A c \in ListProductComponents(p).body : \A answer \in ListComponentVersions(c) :
              {answer.body[i] : i \in DOMAIN answer.body} = GetTimeline(p).body[c]
        /\ \A answer \in ListProductReleases(p) : \A k \in DOMAIN answer.body :
              LET r == answer.body[k] IN
              /\ GetRelease(r.id).body = r
              /\ \A c \in DOMAIN r.components :
                    \E row \in GetTimeline(p).body[c] :
                       /\ row.id = r.components[c].version
                       /\ row.number = r.components[c].number
  BY DEF ReadsOfAPageAgree, ListProducts, Body
<1>1. \A b : OfProduct(p, b).code = 200 /\ OfProduct(p, b).body = b /\ OfProduct(p, b) = Body(b)
  BY DEF OfProduct, Body
<1>2. GetTimeline(p).body = TimelineOf(p)
  BY <1>1 DEF GetTimeline
<1>3. ASSUME NEW e \in GetProductGraph(p).body.edges
      PROVE  {e[1], e[2]} \subseteq GetProductGraph(p).body.nodes
  <2>1. GetProductGraph(p).body = [nodes |-> ComponentsOf(p), edges |-> EdgesOf(p)]
    BY <1>1 DEF GetProductGraph
  <2>2. EdgesOf(p) \subseteq ComponentsOf(p) \X ComponentsOf(p)
    BY GraphOfProduct DEF ReleaseTypeOK
  <2> QED
    BY <2>1, <2>2
<1>4. ASSUME NEW c \in ListProductComponents(p).body, NEW answer \in ListComponentVersions(c)
      PROVE  {answer.body[i] : i \in DOMAIN answer.body} = GetTimeline(p).body[c]
  <2>1. c \in ComponentsOf(p) /\ c \in DOMAIN component
    BY <1>1 DEF ListProductComponents, ComponentsOf
  <2>2. PICK s \in Listings(HistoryOf(versions, c)) : answer = Body(s)
    BY <2>1 DEF ListComponentVersions
  <2>3. answer.body = s
    BY <2>2 DEF Body
  <2> QED
    BY <1>2, <2>1, <2>3, ListingShowsAll DEF TimelineOf
<1>5. ASSUME NEW answer \in ListProductReleases(p), NEW k \in DOMAIN answer.body
      PROVE  \E i \in CutsOf(p) : answer.body[k] = ReleaseResponse(i)
  <2>1. PICK s \in NewestFirst(p) : answer.body = [j \in DOMAIN s |-> ReleaseResponse(s[j])]
    BY <1>1 DEF ListProductReleases
  <2>2. \A j \in DOMAIN s : s[j] \in CutsOf(p)
    BY DEF NewestFirst
  <2> QED
    BY <2>1, <2>2
<1>6. ASSUME NEW i \in CutsOf(p)
      PROVE  /\ GetRelease(ReleaseResponse(i).id).body = ReleaseResponse(i)
             /\ \A c \in DOMAIN ReleaseResponse(i).components :
                   \E row \in TimelineOf(p)[c] :
                      /\ row.id = ReleaseResponse(i).components[c].version
                      /\ row.number = ReleaseResponse(i).components[c].number
  <2>1. i \in DOMAIN releases /\ releases[i].product = p
    BY DEF CutsOf
  <2>2. GetRelease(ReleaseResponse(i).id).body = ReleaseResponse(i)
    BY <2>1 DEF GetRelease, ReleaseResponse, Body
  <2>3. ReleaseResponse(i).components = Manifest(i)
    BY DEF ReleaseResponse
  <2>4. ASSUME NEW c \in DOMAIN releases[i].pins
        PROVE  \E row \in TimelineOf(p)[c] :
                  row.id = Manifest(i)[c].version /\ row.number = Manifest(i)[c].number
    <3> DEFINE v == releases[i].pins[c]
    <3>1. c \in ComponentsOf(p) /\ v \in HistoryOf(versions, c)
      BY <2>1 DEF ReleaseTypeOK
    <3>2. VersionResponse(v) \in TimelineOf(p)[c]
      BY <3>1 DEF TimelineOf
    <3>3. /\ VersionResponse(v).id = Manifest(i)[c].version
          /\ VersionResponse(v).number = Manifest(i)[c].number
      BY DEF VersionResponse, Manifest, Served, NumbersOf
    <3> QED
      BY <3>2, <3>3
  <2>5. DOMAIN Manifest(i) = DOMAIN releases[i].pins
    BY DEF Manifest
  <2> QED
    BY <2>2, <2>3, <2>4, <2>5
<1>7. GetProduct(p).code = 200
  BY <1>1 DEF GetProduct
<1> QED
  BY <1>2, <1>3, <1>4, <1>5, <1>6, <1>7

\* The reads one page is put together from agree in every reachable state.
THEOREM ReadsAgree == ReleaseSpec => []ReadsOfAPageAgree
BY ReadsFollow, ReleaseTypeInvariant, PTL
-----------------------------------------------------------------------------
\* No other request publishes release.cut.
LEMMA OthersAnnounceNothing ==
    ASSUME LedgerNext \/ EdgeNext \/ CatalogueNext
    PROVE  reply'.event.type # "release.cut"
<1>1. /\ NotFound.event.type # "release.cut" /\ Conflict.event.type # "release.cut"
      /\ ServerError.event.type # "release.cut" /\ Ok.event.type # "release.cut"
  BY DEF NotFound, Conflict, ServerError, Ok, NoEvent
<1>2. CASE LedgerNext
  <2>1. \/ reply' \in {NotFound, Conflict, ServerError}
        \/ \E c, v : reply' = Published(VersionCreated(c, v))
        \/ \E c, t, p : reply' = Published(VersionRolledBack(c, t, p))
    BY <1>2 DEF LedgerNext, CreateVersion, Rollback
  <2>2. \A c, v : Published(VersionCreated(c, v)).event.type = "version.created"
    BY DEF Published, VersionCreated
  <2>3. \A c, t, p :
           Published(VersionRolledBack(c, t, p)).event.type = "version.rolled_back"
    BY DEF Published, VersionRolledBack
  <2> QED
    BY <1>1, <2>1, <2>2, <2>3
<1>3. CASE EdgeNext
  <2>1. \/ reply' \in {NotFound, Conflict}
        \/ \E e : reply' = Published(DependencyEvent("dependency.added", e))
        \/ \E e : reply' = Published(DependencyEvent("dependency.removed", e))
    BY <1>3 DEF EdgeNext, AddDependency, RemoveDependency
  <2>2. \A type, e : Published(DependencyEvent(type, e)).event.type = type
    BY DEF Published, DependencyEvent
  <2> QED
    BY <1>1, <2>1, <2>2
<1>4. CASE CatalogueNext
  <2>1. reply' \in {NotFound, Conflict, Ok}
    BY <1>4 DEF CatalogueNext, CreateProduct, CreateComponent
  <2> QED
    BY <1>1, <2>1
<1> QED
  BY <1>2, <1>3, <1>4

LEMMA AnnounceStep ==
    ASSUME PinnedRowsExist, ReleaseNext
    PROVE  reply'.event.type = "release.cut" <=> Len(releases') = Len(releases) + 1
<1>1. Len(releases) \in Nat
  BY DEF PinnedRowsExist
<1>2. CASE LedgerNext /\ UNCHANGED <<dependency, releases>>
  BY <1>1, <1>2, OthersAnnounceNothing
<1>3. CASE EdgeNext /\ UNCHANGED <<versions, releases>>
  BY <1>1, <1>3, OthersAnnounceNothing
<1>4. CASE CatalogueNext /\ UNCHANGED <<versions, dependency, releases>>
  BY <1>1, <1>4, OthersAnnounceNothing
<1>5. ASSUME NEW p \in ProductIds, NEW key \in Keys \cup {NoKey}, CutRelease(p, key)
      PROVE  reply'.event.type = "release.cut" <=> Len(releases') = Len(releases) + 1
  <2>1. CASE UNCHANGED releases /\ reply' \in {NotFound, Conflict, Ok}
    BY <1>1, <2>1 DEF NotFound, Conflict, Ok, NoEvent
  <2>2. CASE /\ releases' = Append(releases, NewRow(p, key))
             /\ reply' = Published(ReleaseCut(p, Len(releases) + 1))
    <3>1. Len(releases') = Len(releases) + 1
      BY <2>2, AppendKeeps DEF PinnedRowsExist
    <3> QED
      BY <2>2, <3>1 DEF Published, ReleaseCut
  <2> QED
    BY <1>5, <2>1, <2>2 DEF CutRelease, ReplayReply, Record, NewRow
<1> QED
  BY <1>2, <1>3, <1>4, <1>5 DEF ReleaseNext

\* release.cut goes out exactly when a release is made: a replay is silent and no
\* other request announces a release.
THEOREM ReleaseIsAnnouncedOnce == ReleaseSpec => EachReleaseIsAnnouncedOnce
<1>1. PinnedRowsExist /\ [ReleaseNext]_releaseVars
        => [reply'.event.type = "release.cut" <=> Len(releases') = Len(releases) + 1]_releaseVars
  BY AnnounceStep
<1> QED
  BY <1>1, PinnedRowsInvariant, PTL DEF ReleaseSpec, EachReleaseIsAnnouncedOnce

\* The history a release is cut from keeps at most one active row per component,
\* with cuts and edge requests running in between.
THEOREM ReleasedFromOneActive == ReleaseSpec => []AtMostOneActive
<1>1. ReleaseInit => AtMostOneActive
  BY DEF ReleaseInit, VersionInit, AtMostOneActive
<1>2. PinnedRowsExist /\ AtMostOneActive /\ [ReleaseNext]_releaseVars => AtMostOneActive'
  <2> SUFFICES ASSUME VersionTypeOK, AtMostOneActive, [ReleaseNext]_releaseVars
               PROVE  AtMostOneActive'
    BY DEF PinnedRowsExist
  <2>1. CASE [VersionNext]_versionVars
    BY <2>1, AtMostOneActiveStep
  <2>2. CASE UNCHANGED versions
    BY <2>2 DEF AtMostOneActive
  <2> QED
    BY <2>1, <2>2, LedgerPart
<1> QED
  BY <1>1, <1>2, PinnedRowsInvariant, PTL DEF ReleaseSpec

\* Nor do rollbacks exhaust a component whose versions are pinned by releases: below
\* each rolled-back one there still is one that was never rolled back.
THEOREM ReleasedRestsOnLive == ReleaseSpec => []RolledBackRestsOnLive
<1>1. ReleaseInit => RolledBackRestsOnLive
  BY DEF ReleaseInit, VersionInit, RolledBackRestsOnLive
<1>2. PinnedRowsExist /\ RolledBackRestsOnLive /\ [ReleaseNext]_releaseVars
         => RolledBackRestsOnLive'
  <2> SUFFICES ASSUME VersionTypeOK, RolledBackRestsOnLive, [ReleaseNext]_releaseVars
               PROVE  RolledBackRestsOnLive'
    BY DEF PinnedRowsExist
  <2>1. CASE [VersionNext]_versionVars
    BY <2>1, RestsOnLiveStep
  <2>2. CASE UNCHANGED versions
    BY <2>2 DEF RolledBackRestsOnLive, LowerLive, HistoryOf
  <2> QED
    BY <2>1, <2>2, LedgerPart
<1> QED
  BY <1>1, <1>2, PinnedRowsInvariant, PTL DEF ReleaseSpec

\* The composed system implements the deployed-version specification too: a cut and
\* an edge request are stutters of it.
THEOREM ReleasesImplementDeployed == ReleaseSpec => ImplementsDeployedVersion
<1>1. ReleaseInit => Deployed!Init
  BY DeployedInit DEF ReleaseInit
<1>2. PinnedRowsExist /\ [ReleaseNext]_releaseVars => [Deployed!Next]_(Deployed!vars)
  BY LedgerPart, DeployedStep DEF PinnedRowsExist
<1> QED
  BY <1>1, <1>2, PinnedRowsInvariant, PTL
     DEF ReleaseSpec, ImplementsDeployedVersion, Deployed!Spec

\* The graph a cut derives its level from has no cycles, with cuts and versions in
\* between, so no cut meets the cycle guard of effective_levels.
THEOREM ReleasedFromAcyclicGraph == ReleaseSpec => []Acyclic
<1>1. GraphSound => Acyclic
  BY DEF GraphSound
<1> QED
  BY <1>1, GraphSoundAlways, PTL

\* Whatever requests ran before, the level a cut gives a component is the closed
\* form of what the recursion of effective_levels propagates to it.
THEOREM CutsUseFeltLevels ==
    ReleaseSpec => [](\A p \in DOMAIN product : \A c \in Releasable(p) :
        EffectiveLevels(OwnLevels(p), EdgesOf(p))[c] = FeltLevel(OwnLevels(p), EdgesOf(p), c))
<1>1. GraphSound => \A p \in DOMAIN product : \A c \in Releasable(p) :
         EffectiveLevels(OwnLevels(p), EdgesOf(p))[c] = FeltLevel(OwnLevels(p), EdgesOf(p), c)
  BY EffectiveOfACut
<1> QED
  BY <1>1, GraphSoundAlways, PTL
=============================================================================
