-------------------------- MODULE VersionLedgerProofs --------------------------
(***************************************************************************)
(* The safety of the version history, for every set of ids and numbers.    *)
(*                                                                         *)
(* The UPDATEs are described once, by what each leaves in the status       *)
(* column (CreatedRows, StrandedRows, RolledBackRows); every theorem argues *)
(* from those descriptions.  What the first of two equal rollbacks has     *)
(* left is said by JustRolledBack.                                         *)
(***************************************************************************)
EXTENDS VersionLedger, CommonLemmas

-----------------------------------------------------------------------------
(***************************************************************************)
(* Numbers and the status column.                                          *)
(***************************************************************************)

\* The rollback's order on cores is transitive and has no cycles.
LEMMA BelowIsStrictOrder ==
    ASSUME NEW a \in Core, NEW b \in Core, NEW c \in Core
    PROVE  /\ Below(a, b) /\ Below(b, c) => Below(a, c)
           /\ ~Below(a, a)
BY DEF Core, Below

\* An UPDATE of the status column touches nothing else.
LEMMA MarkSetsStatus ==
    ASSUME NEW vs, vs \in [DOMAIN vs -> VersionRow], NEW ids, NEW s \in Statuses
    PROVE  /\ DOMAIN Mark(vs, ids, s) = DOMAIN vs
           /\ Mark(vs, ids, s) \in [DOMAIN vs -> VersionRow]
           /\ \A v \in DOMAIN vs :
                 /\ Mark(vs, ids, s)[v].component = vs[v].component
                 /\ Mark(vs, ids, s)[v].semver = vs[v].semver
                 /\ Mark(vs, ids, s)[v].status = IF v \in ids THEN s ELSE vs[v].status
BY DEF Mark, VersionRow

-----------------------------------------------------------------------------
(***************************************************************************)
(* Types.                                                                  *)
(***************************************************************************)

\* What POST /versions leaves in the table.
CreatedRows(c, v, s) ==
    /\ DOMAIN versions' = DOMAIN versions \cup {v}
    /\ versions'[v] = [component |-> c, semver |-> s, status |-> "active"]
    /\ \A u \in DOMAIN versions :
          /\ versions'[u].component = versions[u].component
          /\ versions'[u].semver = versions[u].semver
          /\ versions'[u].status =
                IF versions[u].component = c /\ versions[u].status = "active"
                THEN "superseded" ELSE versions[u].status

\* What a rollback of t to p leaves in the table.
RolledBackRows(t, p) ==
    /\ DOMAIN versions' = DOMAIN versions
    /\ \A u \in DOMAIN versions :
          /\ versions'[u].component = versions[u].component
          /\ versions'[u].semver = versions[u].semver
          /\ versions'[u].status =
                IF u = p THEN "active"
                ELSE IF u = t THEN "rolled_back"
                ELSE IF /\ versions[u].component = versions[t].component
                        /\ versions[u].status = "active"
                     THEN "superseded" ELSE versions[u].status

\* What POST /versions leaves in the table when its INSERT fails.
StrandedRows(c) ==
    /\ DOMAIN versions' = DOMAIN versions
    /\ \A u \in DOMAIN versions :
          /\ versions'[u].component = versions[u].component
          /\ versions'[u].semver = versions[u].semver
          /\ versions'[u].status =
                IF versions[u].component = c /\ versions[u].status = "active"
                THEN "superseded" ELSE versions[u].status

\* POST /versions whose INSERT fails supersedes the active row only.
LEMMA FailedCreateRows ==
    ASSUME VersionTypeOK, NEW c \in ComponentIds, NEW v \in VersionIds, NEW s \in Semvers,
           CreateVersion(c, v, s), versions' # versions, ~Storable(s)
    PROVE  /\ versions' \in [DOMAIN versions' -> VersionRow]
           /\ StrandedRows(c)
           /\ reply'.code = "error"
<1>1. versions' = Mark(versions, ActiveOf(versions, c), "superseded") /\ reply' = ServerError
  BY DEF CreateVersion, SupersedeActive
<1>2. versions \in [DOMAIN versions -> VersionRow]
  BY DEF VersionTypeOK
<1>3. /\ DOMAIN versions' = DOMAIN versions
      /\ versions' \in [DOMAIN versions -> VersionRow]
      /\ \A u \in DOMAIN versions :
            /\ versions'[u].component = versions[u].component
            /\ versions'[u].semver = versions[u].semver
            /\ versions'[u].status = IF u \in ActiveOf(versions, c)
                                     THEN "superseded" ELSE versions[u].status
  BY <1>1, <1>2, MarkSetsStatus DEF Statuses
<1> QED
  BY <1>1, <1>3 DEF StrandedRows, ActiveOf, HistoryOf, ServerError

\* POST /versions supersedes the active row and adds the new one.
LEMMA CreateVersionRows ==
    ASSUME VersionTypeOK, NEW c \in ComponentIds, NEW v \in VersionIds, NEW s \in Semvers,
           CreateVersion(c, v, s), versions' # versions, Storable(s)
    PROVE  /\ v \notin DOMAIN versions /\ c \in DOMAIN component
           /\ versions' \in [DOMAIN versions' -> VersionRow]
           /\ CreatedRows(c, v, s)
<1> DEFINE row == [component |-> c, semver |-> s, status |-> "active"]
           old == SupersedeActive(versions, c)
<1>1. /\ v \notin DOMAIN versions /\ c \in DOMAIN component
      /\ versions' = Insert(old, v, row)
  BY DEF CreateVersion
<1>2. versions \in [DOMAIN versions -> VersionRow]
  BY DEF VersionTypeOK
<1>3. /\ DOMAIN old = DOMAIN versions
      /\ old \in [DOMAIN versions -> VersionRow]
      /\ \A u \in DOMAIN versions :
            /\ old[u].component = versions[u].component
            /\ old[u].semver = versions[u].semver
            /\ old[u].status = IF u \in ActiveOf(versions, c)
                               THEN "superseded" ELSE versions[u].status
  BY <1>2, MarkSetsStatus DEF SupersedeActive, Statuses
<1>4. row \in VersionRow
  BY DEF VersionRow, Statuses
<1> HIDE DEF row, old
<1>5. versions' \in [DOMAIN versions' -> VersionRow]
  BY <1>1, <1>3, <1>4, InsertTyped
<1>6. /\ DOMAIN versions' = DOMAIN versions \cup {v}
      /\ versions'[v] = row
      /\ \A u \in DOMAIN versions : versions'[u] = old[u]
  <2>1. /\ DOMAIN versions' = DOMAIN old \cup {v}
        /\ versions'[v] = row
        /\ \A u \in DOMAIN old \ {v} : versions'[u] = old[u]
    BY <1>1 DEF Insert
  <2> QED
    BY <1>1, <1>3, <2>1
<1> QED
  BY <1>1, <1>3, <1>5, <1>6 DEF CreatedRows, ActiveOf, HistoryOf, row

\* The three UPDATEs of a rollback of t to p.
LEMMA ReactivateRows ==
    ASSUME VersionTypeOK, NEW t \in DOMAIN versions, NEW p \in DOMAIN versions,
           versions' = Reactivate(versions, t, p)
    PROVE  versions' \in [DOMAIN versions' -> VersionRow] /\ RolledBackRows(t, p)
<1> DEFINE c == versions[t].component
           marked == Mark(versions, {t}, "rolled_back")
           demoted == SupersedeActive(marked, c)
<1>1. versions \in [DOMAIN versions -> VersionRow]
  BY DEF VersionTypeOK
<1>2. /\ DOMAIN marked = DOMAIN versions
      /\ marked \in [DOMAIN versions -> VersionRow]
      /\ \A u \in DOMAIN versions :
            /\ marked[u].component = versions[u].component
            /\ marked[u].semver = versions[u].semver
            /\ marked[u].status = IF u \in {t} THEN "rolled_back" ELSE versions[u].status
  BY <1>1, MarkSetsStatus DEF Statuses
<1> HIDE DEF marked
<1>3. /\ DOMAIN demoted = DOMAIN versions
      /\ demoted \in [DOMAIN versions -> VersionRow]
      /\ \A u \in DOMAIN versions :
            /\ demoted[u].component = versions[u].component
            /\ demoted[u].semver = versions[u].semver
            /\ demoted[u].status = IF u \in ActiveOf(marked, c)
                                   THEN "superseded" ELSE marked[u].status
  BY <1>2, MarkSetsStatus DEF SupersedeActive, Statuses
<1>4. versions' = Mark(demoted, {p}, "active")
  BY DEF Reactivate, marked
<1> HIDE DEF demoted
<1>5. /\ DOMAIN versions' = DOMAIN versions
      /\ versions' \in [DOMAIN versions -> VersionRow]
      /\ \A u \in DOMAIN versions :
            /\ versions'[u].component = versions[u].component
            /\ versions'[u].semver = versions[u].semver
            /\ versions'[u].status = IF u \in {p} THEN "active" ELSE demoted[u].status
  BY <1>3, <1>4, MarkSetsStatus DEF Statuses
<1> QED
  BY <1>2, <1>3, <1>5 DEF RolledBackRows, ActiveOf, HistoryOf

\* A rollback that changes the table reactivates one row strictly below t.
LEMMA RollbackRows ==
    ASSUME VersionTypeOK, NEW t \in VersionIds, Rollback(t), versions' # versions
    PROVE  /\ t \in DOMAIN versions
           /\ versions' \in [DOMAIN versions' -> VersionRow]
           /\ \E p \in LowerLive(versions, t) : RolledBackRows(t, p)
<1>1. PICK p \in Previous(versions, t) :
         t \in DOMAIN versions /\ versions' = Reactivate(versions, t, p)
  BY DEF Rollback
<1>2. p \in LowerLive(versions, t) /\ p \in DOMAIN versions
  BY <1>1 DEF Previous, Highest, LowerLive, HistoryOf
<1> QED
  BY <1>1, <1>2, ReactivateRows

\* A request on versions leaves products and components alone; a request on those
\* leaves versions alone.
LEMMA VersionStep ==
    ASSUME VersionTypeOK, [VersionNext]_versionVars
    PROVE  \/ UNCHANGED versions /\ CatalogueTypeOK' /\ DOMAIN component \subseteq DOMAIN component'
           \/ /\ UNCHANGED catalogueVars
              /\ \E c \in ComponentIds, v \in VersionIds, s \in Semvers :
                    CreateVersion(c, v, s) /\ versions' # versions /\ Storable(s)
           \/ /\ UNCHANGED catalogueVars
              /\ \E c \in ComponentIds, v \in VersionIds, s \in Semvers :
                    CreateVersion(c, v, s) /\ versions' # versions /\ ~Storable(s)
           \/ /\ UNCHANGED catalogueVars
              /\ \E t \in VersionIds : Rollback(t) /\ versions' # versions
<1>1. CASE CatalogueNext /\ UNCHANGED versions
  BY <1>1, CatalogueGrows DEF VersionTypeOK
<1>2. CASE LedgerNext
  BY <1>2 DEF LedgerNext, CreateVersion, Rollback, catalogueVars, VersionTypeOK, CatalogueTypeOK
<1>3. CASE UNCHANGED versionVars
  BY <1>3 DEF versionVars, VersionTypeOK, CatalogueTypeOK
<1> QED
  BY <1>1, <1>2, <1>3 DEF VersionNext

LEMMA VersionTypeInit == VersionInit => VersionTypeOK
<1> SUFFICES ASSUME VersionInit PROVE VersionTypeOK
  OBVIOUS
<1>1. DOMAIN versions = {} /\ versions \in [DOMAIN versions -> VersionRow]
  BY DEF VersionInit
<1> QED
  BY <1>1, CatalogueTypeInit DEF VersionInit, VersionTypeOK

LEMMA VersionTypeStep ==
    ASSUME VersionTypeOK, [VersionNext]_versionVars
    PROVE  VersionTypeOK'
<1>1. CASE UNCHANGED versions /\ CatalogueTypeOK' /\ DOMAIN component \subseteq DOMAIN component'
  BY <1>1 DEF VersionTypeOK
<1>2. ASSUME UNCHANGED catalogueVars,
             NEW c \in ComponentIds, NEW v \in VersionIds, NEW s \in Semvers,
             CreateVersion(c, v, s), versions' # versions, Storable(s)
      PROVE  VersionTypeOK'
  <2>1. /\ c \in DOMAIN component
        /\ versions' \in [DOMAIN versions' -> VersionRow]
        /\ CreatedRows(c, v, s)
    BY <1>2, CreateVersionRows
  <2>2. CatalogueTypeOK' /\ component' = component
    BY <1>2 DEF VersionTypeOK, CatalogueTypeOK, catalogueVars
  <2> QED
    BY <2>1, <2>2 DEF VersionTypeOK, CreatedRows
<1>3. ASSUME UNCHANGED catalogueVars, NEW t \in VersionIds, Rollback(t), versions' # versions
      PROVE  VersionTypeOK'
  <2>1. /\ versions' \in [DOMAIN versions' -> VersionRow]
        /\ \E p \in LowerLive(versions, t) : RolledBackRows(t, p)
    BY <1>3, RollbackRows
  <2>2. CatalogueTypeOK' /\ component' = component
    BY <1>3 DEF VersionTypeOK, CatalogueTypeOK, catalogueVars
  <2> QED
    BY <2>1, <2>2 DEF VersionTypeOK, RolledBackRows
<1>4. ASSUME UNCHANGED catalogueVars,
             NEW c \in ComponentIds, NEW v \in VersionIds, NEW s \in Semvers,
             CreateVersion(c, v, s), versions' # versions, ~Storable(s)
      PROVE  VersionTypeOK'
  <2>1. versions' \in [DOMAIN versions' -> VersionRow] /\ StrandedRows(c)
    BY <1>4, FailedCreateRows
  <2>2. CatalogueTypeOK' /\ component' = component
    BY <1>4 DEF VersionTypeOK, CatalogueTypeOK, catalogueVars
  <2> QED
    BY <2>1, <2>2 DEF VersionTypeOK, StrandedRows
<1> QED
  BY <1>1, <1>2, <1>3, <1>4, VersionStep

\* The tables stay well typed: every version row belongs to a component that
\* exists, and every component to a product that exists.
THEOREM VersionTypeInvariant == VersionSpec => []VersionTypeOK
<1>1. VersionTypeOK /\ [VersionNext]_versionVars => VersionTypeOK'
  BY VersionTypeStep
<1> QED
  BY VersionTypeInit, <1>1, PTL DEF VersionSpec
-----------------------------------------------------------------------------
(***************************************************************************)
(* At most one active row per component.                                   *)
(***************************************************************************)

LEMMA AtMostOneActiveStep ==
    ASSUME VersionTypeOK, AtMostOneActive, [VersionNext]_versionVars
    PROVE  AtMostOneActive'
<1>1. CASE UNCHANGED versions
  BY <1>1 DEF AtMostOneActive
<1>2. ASSUME NEW c \in ComponentIds, NEW v \in VersionIds, NEW s \in Semvers,
             CreateVersion(c, v, s), versions' # versions, Storable(s)
      PROVE  AtMostOneActive'
  <2>1. v \notin DOMAIN versions /\ CreatedRows(c, v, s)
    BY <1>2, CreateVersionRows
  <2> QED
    BY <2>1 DEF AtMostOneActive, CreatedRows
<1>3. ASSUME NEW c \in ComponentIds, NEW v \in VersionIds, NEW s \in Semvers,
             CreateVersion(c, v, s), versions' # versions, ~Storable(s)
      PROVE  AtMostOneActive'
  <2>1. StrandedRows(c)
    BY <1>3, FailedCreateRows
  <2> QED
    BY <2>1 DEF AtMostOneActive, StrandedRows
<1>4. ASSUME NEW t \in VersionIds, Rollback(t), versions' # versions
      PROVE  AtMostOneActive'
  <2>1. PICK p \in LowerLive(versions, t) : t \in DOMAIN versions /\ RolledBackRows(t, p)
    BY <1>4, RollbackRows
  <2>2. p \in DOMAIN versions /\ versions[p].component = versions[t].component
    BY <2>1 DEF LowerLive, HistoryOf
  <2> QED
    BY <2>1, <2>2 DEF AtMostOneActive, RolledBackRows
<1> QED
  BY <1>1, <1>2, <1>3, <1>4, VersionStep

\* A component never has two active versions, after any sequence of creations,
\* failed creations and rollbacks of any of its versions.
THEOREM AtMostOneActiveInvariant == VersionSpec => []AtMostOneActive
<1>1. VersionInit => AtMostOneActive
  BY DEF VersionInit, AtMostOneActive
<1>2. VersionTypeOK /\ AtMostOneActive /\ [VersionNext]_versionVars => AtMostOneActive'
  BY AtMostOneActiveStep
<1> QED
  BY <1>1, <1>2, VersionTypeInvariant, PTL DEF VersionSpec

\* One request leaves a component with an active version one, unless it failed.
LEMMA StrandStep ==
    ASSUME VersionTypeOK, [VersionNext]_versionVars, NEW c \in ComponentIds,
           ActiveOf(versions, c) # {}, ActiveOf(versions', c) = {}
    PROVE  reply'.code = "error"
<1>1. PICK a \in DOMAIN versions : versions[a].component = c /\ versions[a].status = "active"
  BY DEF ActiveOf, HistoryOf
<1>2. \A u \in DOMAIN versions' :
         versions'[u].component = c => versions'[u].status # "active"
  BY DEF ActiveOf, HistoryOf
<1>3. CASE UNCHANGED versions
  BY <1>1, <1>2, <1>3
<1>4. ASSUME NEW d \in ComponentIds, NEW v \in VersionIds, NEW s \in Semvers,
             CreateVersion(d, v, s), versions' # versions, Storable(s)
      PROVE  FALSE
  <2>1. CreatedRows(d, v, s)
    BY <1>4, CreateVersionRows
  <2>2. CASE d = c
    BY <1>2, <2>1, <2>2 DEF CreatedRows
  <2>3. CASE d # c
    BY <1>1, <1>2, <2>1, <2>3 DEF CreatedRows
  <2> QED
    BY <2>2, <2>3
<1>5. ASSUME NEW t \in VersionIds, Rollback(t), versions' # versions
      PROVE  FALSE
  <2>1. PICK p \in LowerLive(versions, t) : t \in DOMAIN versions /\ RolledBackRows(t, p)
    BY <1>5, RollbackRows
  <2>2. p \in DOMAIN versions /\ versions[p].component = versions[t].component
    BY <2>1 DEF LowerLive, HistoryOf
  <2>3. CASE versions[t].component = c
    BY <1>2, <2>1, <2>2, <2>3 DEF RolledBackRows
  <2>4. CASE versions[t].component # c
    BY <1>1, <1>2, <2>1, <2>2, <2>4 DEF RolledBackRows
  <2> QED
    BY <2>3, <2>4
<1>6. ASSUME NEW d \in ComponentIds, NEW v \in VersionIds, NEW s \in Semvers,
             CreateVersion(d, v, s), versions' # versions, ~Storable(s)
      PROVE  reply'.code = "error"
  BY <1>6, FailedCreateRows
<1> QED
  BY <1>3, <1>4, <1>5, <1>6, VersionStep

\* Only a creation whose INSERT failed leaves a component without active version.
THEOREM OnlyAFailureStrandsAlways == VersionSpec => OnlyAFailureStrands
<1>1. VersionTypeOK /\ [VersionNext]_versionVars => [
        \A c \in ComponentIds :
          ActiveOf(versions, c) # {} /\ ActiveOf(versions', c) = {}
              => reply'.code = "error"
        ]_versionVars
  BY StrandStep
<1> QED
  BY <1>1, VersionTypeInvariant, PTL DEF VersionSpec, OnlyAFailureStrands
-----------------------------------------------------------------------------
(***************************************************************************)
(* Rollbacks.                                                              *)
(***************************************************************************)

\* Version numbers of rows can be compared.
LEMMA RowCores ==
    ASSUME VersionTypeOK
    PROVE  \A v \in DOMAIN versions : versions[v].semver.core \in Core
BY VersionAssumption DEF VersionTypeOK, VersionRow

LEMMA RestsOnLiveStep ==
    ASSUME VersionTypeOK, RolledBackRestsOnLive, [VersionNext]_versionVars
    PROVE  RolledBackRestsOnLive'
<1>1. CASE UNCHANGED versions
  BY <1>1 DEF RolledBackRestsOnLive, LowerLive, HistoryOf
<1>2. ASSUME NEW c \in ComponentIds, NEW v \in VersionIds, NEW s \in Semvers,
             CreateVersion(c, v, s), versions' # versions, Storable(s)
      PROVE  RolledBackRestsOnLive'
  <2>1. v \notin DOMAIN versions /\ CreatedRows(c, v, s)
    BY <1>2, CreateVersionRows
  <2>2. SUFFICES ASSUME NEW r \in DOMAIN versions', versions'[r].status = "rolled_back"
                 PROVE  LowerLive(versions', r) # {}
    BY DEF RolledBackRestsOnLive
  <2>3. r \in DOMAIN versions /\ versions[r].status = "rolled_back"
    BY <2>1, <2>2 DEF CreatedRows
  <2>4. PICK w \in LowerLive(versions, r) : TRUE
    BY <2>3 DEF RolledBackRestsOnLive
  <2>5. w \in LowerLive(versions', r)
    BY <2>1, <2>3, <2>4 DEF CreatedRows, LowerLive, HistoryOf
  <2> QED
    BY <2>5
<1>3. ASSUME NEW t \in VersionIds, Rollback(t), versions' # versions
      PROVE  RolledBackRestsOnLive'
  <2>1. PICK p \in LowerLive(versions, t) : t \in DOMAIN versions /\ RolledBackRows(t, p)
    BY <1>3, RollbackRows
  <2>2. /\ p \in DOMAIN versions /\ p # t
        /\ versions[p].component = versions[t].component
        /\ versions[p].status # "rolled_back"
        /\ Below(versions[p].semver.core, versions[t].semver.core)
    BY <2>1 DEF LowerLive, HistoryOf
  <2>3. SUFFICES ASSUME NEW r \in DOMAIN versions', versions'[r].status = "rolled_back"
                 PROVE  LowerLive(versions', r) # {}
    BY DEF RolledBackRestsOnLive
  <2>4. CASE r = t
    <3>1. p \in LowerLive(versions', t)
      BY <2>1, <2>2 DEF RolledBackRows, LowerLive, HistoryOf
    <3> QED
      BY <2>4, <3>1
  <2>5. CASE r # t
    <3>1. r \in DOMAIN versions /\ versions[r].status = "rolled_back" /\ r # p
      BY <2>1, <2>2, <2>3, <2>5 DEF RolledBackRows
    <3>2. PICK w \in LowerLive(versions, r) : TRUE
      BY <3>1 DEF RolledBackRestsOnLive
    <3>3. /\ w \in DOMAIN versions /\ w # r
          /\ versions[w].component = versions[r].component
          /\ versions[w].status # "rolled_back"
          /\ Below(versions[w].semver.core, versions[r].semver.core)
      BY <3>2 DEF LowerLive, HistoryOf
    <3>4. CASE w # t
      <4>1. w \in LowerLive(versions', r)
        BY <2>1, <3>1, <3>3, <3>4 DEF RolledBackRows, LowerLive, HistoryOf
      <4> QED
        BY <4>1
    <3>5. CASE w = t
      <4>1. Below(versions[p].semver.core, versions[r].semver.core)
        BY <2>1, <2>2, <3>1, <3>3, <3>5, RowCores, BelowIsStrictOrder
      <4>2. p \in LowerLive(versions', r)
        BY <2>1, <2>2, <3>1, <3>3, <3>5, <4>1 DEF RolledBackRows, LowerLive, HistoryOf
      <4> QED
        BY <4>2
    <3> QED
      BY <3>4, <3>5
  <2> QED
    BY <2>4, <2>5
<1>4. ASSUME NEW c \in ComponentIds, NEW v \in VersionIds, NEW s \in Semvers,
             CreateVersion(c, v, s), versions' # versions, ~Storable(s)
      PROVE  RolledBackRestsOnLive'
  <2>1. StrandedRows(c)
    BY <1>4, FailedCreateRows
  <2>2. \A r \in DOMAIN versions' :
           /\ versions'[r].status = "rolled_back" => versions[r].status = "rolled_back"
           /\ LowerLive(versions', r) = LowerLive(versions, r)
    BY <2>1 DEF StrandedRows, LowerLive, HistoryOf
  <2> QED
    BY <2>1, <2>2 DEF RolledBackRestsOnLive, StrandedRows
<1> QED
  BY <1>1, <1>2, <1>3, <1>4, VersionStep

\* Under every rolled-back version lies a lower one of the same component that was
\* never rolled back: rollbacks cannot exhaust a component.
THEOREM RestsOnLiveInvariant == VersionSpec => []RolledBackRestsOnLive
<1>1. VersionInit => RolledBackRestsOnLive
  BY DEF VersionInit, RolledBackRestsOnLive
<1>2. VersionTypeOK /\ RolledBackRestsOnLive /\ [VersionNext]_versionVars
         => RolledBackRestsOnLive'
  BY RestsOnLiveStep
<1> QED
  BY <1>1, <1>2, VersionTypeInvariant, PTL DEF VersionSpec

\* One request keeps every row but its status, and a rolled-back row entirely.
LEMMA AppendOnlyStep ==
    ASSUME VersionTypeOK, [VersionNext]_versionVars, NEW u \in DOMAIN versions
    PROVE  /\ u \in DOMAIN versions'
           /\ versions'[u].component = versions[u].component
           /\ versions'[u].semver = versions[u].semver
           /\ versions[u].status = "rolled_back" => versions'[u].status = "rolled_back"
<1>1. CASE UNCHANGED versions
  BY <1>1
<1>2. ASSUME NEW c \in ComponentIds, NEW v \in VersionIds, NEW s \in Semvers,
             CreateVersion(c, v, s), versions' # versions, Storable(s)
      PROVE  CreatedRows(c, v, s)
  BY <1>2, CreateVersionRows
<1>4. ASSUME NEW c \in ComponentIds, NEW v \in VersionIds, NEW s \in Semvers,
             CreateVersion(c, v, s), versions' # versions, ~Storable(s)
      PROVE  StrandedRows(c)
  BY <1>4, FailedCreateRows
<1>3. ASSUME NEW t \in VersionIds, Rollback(t), versions' # versions
      PROVE  \E p \in DOMAIN versions : versions[p].status # "rolled_back" /\ RolledBackRows(t, p)
  BY <1>3, RollbackRows DEF LowerLive, HistoryOf
<1> QED
  BY <1>1, <1>2, <1>3, <1>4, VersionStep DEF CreatedRows, StrandedRows, RolledBackRows

\* History is append-only and rolled_back is final.
THEOREM AppendOnly == VersionSpec => HistoryIsAppendOnly
<1>1. VersionTypeOK /\ [VersionNext]_versionVars => [
        \A v \in DOMAIN versions :
          /\ v \in DOMAIN versions'
          /\ versions'[v].component = versions[v].component
          /\ versions'[v].semver = versions[v].semver
          /\ versions[v].status = "rolled_back" => versions'[v].status = "rolled_back"
        ]_versionVars
  BY AppendOnlyStep
<1> QED
  BY <1>1, VersionTypeInvariant, PTL DEF VersionSpec, HistoryIsAppendOnly
-----------------------------------------------------------------------------
(***************************************************************************)
(* The history implements DeployedVersion.                                 *)
(***************************************************************************)

LEMMA DeployedInit == VersionInit => Deployed!Init
<1> SUFFICES ASSUME VersionInit PROVE Deployed!Init
  OBVIOUS
<1>1. DOMAIN versions = {}
  BY DEF VersionInit
<1> QED
  BY <1>1 DEF Deployed!Init, HistoryOf, ActiveOf

\* A new version is published and deployed.
LEMMA CreateVersionPublishes ==
    ASSUME VersionTypeOK, NEW c \in ComponentIds, NEW v \in VersionIds, NEW s \in Semvers,
           CreateVersion(c, v, s), versions' # versions, Storable(s)
    PROVE  Deployed!Next
<1>1. v \notin DOMAIN versions /\ CreatedRows(c, v, s)
  BY CreateVersionRows
<1>2. \A d \in ComponentIds :
         /\ HistoryOf(versions', d) = IF d = c THEN HistoryOf(versions, d) \cup {v}
                                      ELSE HistoryOf(versions, d)
         /\ ActiveOf(versions', d) = IF d = c THEN {v} ELSE ActiveOf(versions, d)
  BY <1>1 DEF CreatedRows, HistoryOf, ActiveOf
<1>3. {u \in DOMAIN versions' : versions'[u].status = "rolled_back"}
        = {u \in DOMAIN versions : versions[u].status = "rolled_back"}
  BY <1>1 DEF CreatedRows
<1>4. [u \in DOMAIN versions' |-> versions'[u].semver.core]
        = [u \in DOMAIN versions \cup {v} |->
              IF u = v THEN s.core ELSE [w \in DOMAIN versions |-> versions[w].semver.core][u]]
  BY <1>1 DEF CreatedRows
<1>5. Deployed!Publish(c, v, s.core)
  BY <1>1, <1>2, <1>3, <1>4 DEF Deployed!Publish
<1> QED
  BY <1>5 DEF Deployed!Next

\* A creation whose INSERT fails leaves the component without deployed version.
LEMMA FailedCreateStrands ==
    ASSUME VersionTypeOK, NEW c \in ComponentIds, NEW v \in VersionIds, NEW s \in Semvers,
           CreateVersion(c, v, s), versions' # versions, ~Storable(s)
    PROVE  Deployed!Next
<1>1. StrandedRows(c)
  BY FailedCreateRows
<1>2. \A d \in ComponentIds :
         /\ HistoryOf(versions', d) = HistoryOf(versions, d)
         /\ ActiveOf(versions', d) = IF d = c THEN {} ELSE ActiveOf(versions, d)
  BY <1>1 DEF StrandedRows, HistoryOf, ActiveOf
<1>3. {u \in DOMAIN versions' : versions'[u].status = "rolled_back"}
        = {u \in DOMAIN versions : versions[u].status = "rolled_back"}
  BY <1>1 DEF StrandedRows
<1>4. [u \in DOMAIN versions' |-> versions'[u].semver.core]
        = [u \in DOMAIN versions |-> versions[u].semver.core]
  BY <1>1 DEF StrandedRows
<1>5. Deployed!FailToPublish(c)
  BY <1>2, <1>3, <1>4 DEF Deployed!FailToPublish
<1> QED
  BY <1>5 DEF Deployed!Next

\* A rollback withdraws its target and deploys an older version.
LEMMA RollbackWithdraws ==
    ASSUME VersionTypeOK, NEW t \in VersionIds, Rollback(t), versions' # versions
    PROVE  Deployed!Next
<1>1. PICK p \in LowerLive(versions, t) : t \in DOMAIN versions /\ RolledBackRows(t, p)
  BY RollbackRows
<1> DEFINE c == versions[t].component
<1>2. /\ p \in DOMAIN versions /\ p # t
      /\ versions[p].component = c
      /\ versions[p].status # "rolled_back"
      /\ Below(versions[p].semver.core, versions[t].semver.core)
  BY <1>1 DEF LowerLive, HistoryOf
<1>3. c \in ComponentIds /\ p \in VersionIds
  BY <1>1, <1>2 DEF VersionTypeOK, VersionRow
<1>4. \A d \in ComponentIds :
         /\ HistoryOf(versions', d) = HistoryOf(versions, d)
         /\ ActiveOf(versions', d) = IF d = c THEN {p} ELSE ActiveOf(versions, d)
  BY <1>1, <1>2 DEF RolledBackRows, HistoryOf, ActiveOf
<1>5. {u \in DOMAIN versions' : versions'[u].status = "rolled_back"}
        = {u \in DOMAIN versions : versions[u].status = "rolled_back"} \cup {t}
  BY <1>1, <1>2 DEF RolledBackRows
<1>6. [u \in DOMAIN versions' |-> versions'[u].semver.core]
        = [u \in DOMAIN versions |-> versions[u].semver.core]
  BY <1>1 DEF RolledBackRows
<1>7. t \in HistoryOf(versions, c) /\ p \in HistoryOf(versions, c)
  BY <1>1, <1>2 DEF HistoryOf
<1>8. Deployed!Withdraw(c, t, p)
  BY <1>1, <1>2, <1>3, <1>4, <1>5, <1>6, <1>7 DEF Deployed!Withdraw
<1> QED
  BY <1>3, <1>8 DEF Deployed!Next

LEMMA DeployedStep ==
    ASSUME VersionTypeOK, [VersionNext]_versionVars \/ UNCHANGED versions
    PROVE  [Deployed!Next]_(Deployed!vars)
<1>1. CASE UNCHANGED versions
  BY <1>1 DEF Deployed!vars, HistoryOf, ActiveOf
<1>2. CASE [VersionNext]_versionVars
  BY <1>1, <1>2, VersionStep, CreateVersionPublishes, FailedCreateStrands, RollbackWithdraws
<1> QED
  BY <1>1, <1>2

\* Whatever requests do to the rows, readers see a deployment that moves only by
\* publication and withdrawal, and is lost only by a failed publication.
THEOREM ImplementsDeployed == VersionSpec => ImplementsDeployedVersion
<1>1. VersionTypeOK /\ [VersionNext]_versionVars => [Deployed!Next]_(Deployed!vars)
  BY DeployedStep
<1> QED
  BY <1>1, DeployedInit, VersionTypeInvariant, PTL
     DEF VersionSpec, ImplementsDeployedVersion, Deployed!Spec
-----------------------------------------------------------------------------
(***************************************************************************)
(* Events and repeated rollbacks.                                          *)
(***************************************************************************)

\* Rows are equal when their columns are.
LEMMA SameRows ==
    ASSUME NEW f, NEW g, NEW D, f \in [D -> VersionRow], g \in [D -> VersionRow],
           \A u \in D : /\ f[u].component = g[u].component
                        /\ f[u].semver = g[u].semver
                        /\ f[u].status = g[u].status
    PROVE  f = g
<1>1. \A u \in D : f[u] = g[u]
  BY DEF VersionRow
<1> QED
  BY <1>1

\* What a subscriber makes of the event of a rollback is what the UPDATEs make,
\* though they mark the target first and it marks the target last.
LEMMA RollbackReplayed ==
    ASSUME VersionTypeOK, NEW t \in DOMAIN versions, NEW p \in DOMAIN versions,
           versions' = Reactivate(versions, t, p)
    PROVE  versions' = Mark(Mark(SupersedeActive(versions, versions[t].component),
                                 {t}, "rolled_back"), {p}, "active")
<1> DEFINE c == versions[t].component
           demoted == SupersedeActive(versions, c)
           marked == Mark(demoted, {t}, "rolled_back")
           final == Mark(marked, {p}, "active")
<1>1. versions \in [DOMAIN versions -> VersionRow]
  BY DEF VersionTypeOK
<1>2. /\ DOMAIN demoted = DOMAIN versions
      /\ demoted \in [DOMAIN versions -> VersionRow]
      /\ \A u \in DOMAIN versions :
            /\ demoted[u].component = versions[u].component
            /\ demoted[u].semver = versions[u].semver
            /\ demoted[u].status = IF u \in ActiveOf(versions, c)
                                   THEN "superseded" ELSE versions[u].status
  BY <1>1, MarkSetsStatus DEF SupersedeActive, Statuses
<1> HIDE DEF demoted
<1>3. /\ DOMAIN marked = DOMAIN versions
      /\ marked \in [DOMAIN versions -> VersionRow]
      /\ \A u \in DOMAIN versions :
            /\ marked[u].component = versions[u].component
            /\ marked[u].semver = versions[u].semver
            /\ marked[u].status = IF u \in {t} THEN "rolled_back" ELSE demoted[u].status
  BY <1>2, MarkSetsStatus DEF Statuses
<1> HIDE DEF marked
<1>4. /\ final \in [DOMAIN versions -> VersionRow]
      /\ \A u \in DOMAIN versions :
            /\ final[u].component = versions[u].component
            /\ final[u].semver = versions[u].semver
            /\ final[u].status = IF u \in {p} THEN "active" ELSE marked[u].status
  BY <1>3, MarkSetsStatus DEF Statuses
<1> HIDE DEF final
<1>5. /\ DOMAIN versions' = DOMAIN versions
      /\ versions' \in [DOMAIN versions -> VersionRow]
      /\ RolledBackRows(t, p)
  BY ReactivateRows DEF RolledBackRows
<1>6. \A u \in DOMAIN versions : final[u].status = versions'[u].status
  BY <1>2, <1>3, <1>4, <1>5 DEF RolledBackRows, ActiveOf, HistoryOf
<1>7. \A u \in DOMAIN versions : /\ final[u].component = versions'[u].component
                                 /\ final[u].semver = versions'[u].semver
  BY <1>4, <1>5 DEF RolledBackRows
<1>8. versions' = final
  BY <1>4, <1>5, <1>6, <1>7, SameRows
<1> QED
  BY <1>8 DEF final, marked, demoted

LEMMA EventTellsStep ==
    ASSUME VersionTypeOK, [VersionNext]_versionVars,
           versions' # versions, reply'.code = "ok"
    PROVE  versions' = Replayed(versions, reply'.event, versions'[reply'.event.version])
<1>1. ASSUME NEW c \in ComponentIds, NEW v \in VersionIds, NEW s \in Semvers,
             CreateVersion(c, v, s), Storable(s)
      PROVE  versions' = Replayed(versions, reply'.event, versions'[reply'.event.version])
  <2> DEFINE row == [component |-> c, semver |-> s, status |-> "active"]
             e == VersionCreated(c, v)
  <2>1. versions' = Insert(SupersedeActive(versions, c), v, row) /\ reply'.event = e
    BY <1>1 DEF CreateVersion, Published
  <2>2. e.type = "version.created" /\ e.component = c /\ e.version = v
    BY DEF VersionCreated
  <2>3. versions'[v] = row
    BY <2>1 DEF Insert
  <2> HIDE DEF e, row
  <2> QED
    BY <2>1, <2>2, <2>3 DEF Replayed
<1>2. ASSUME NEW c \in ComponentIds, NEW v \in VersionIds, NEW s \in Semvers,
             CreateVersion(c, v, s), ~Storable(s)
      PROVE  FALSE
  BY <1>2 DEF CreateVersion, ServerError, NotFound
<1>3. ASSUME NEW t \in VersionIds, Rollback(t)
      PROVE  versions' = Replayed(versions, reply'.event, versions'[reply'.event.version])
  <2>1. PICK p \in Previous(versions, t) :
           /\ t \in DOMAIN versions /\ versions' = Reactivate(versions, t, p)
           /\ reply' = Published(VersionRolledBack(versions[t].component, t, p))
    BY <1>3 DEF Rollback
  <2>2. p \in DOMAIN versions
    BY <2>1 DEF Previous, Highest, LowerLive, HistoryOf
  <2> DEFINE e == VersionRolledBack(versions[t].component, t, p)
  <2>3. reply'.event = e
    BY <2>1 DEF Published
  <2>4. /\ e.type = "version.rolled_back" /\ e.type # "version.created"
        /\ e.component = versions[t].component /\ e.version = t /\ e.reactivated = p
    BY DEF VersionRolledBack
  <2>5. versions' = Mark(Mark(SupersedeActive(versions, versions[t].component),
                              {t}, "rolled_back"), {p}, "active")
    BY <2>1, <2>2, RollbackReplayed
  <2> HIDE DEF e
  <2> QED
    BY <2>3, <2>4, <2>5 DEF Replayed
<1> QED
  BY <1>1, <1>2, <1>3, VersionStep

\* An acknowledged change is told completely by its one event: a subscriber that
\* replays it rebuilds every row, the silently superseded ones included.
THEOREM EventTellsAll == VersionSpec => EventTellsTheWholeChange
<1>1. VersionTypeOK /\ [VersionNext]_versionVars => [
        versions' # versions /\ reply'.code = "ok" =>
          versions' = Replayed(versions, reply'.event, versions'[reply'.event.version])
        ]_versionVars
  BY EventTellsStep
<1> QED
  BY <1>1, VersionTypeInvariant, PTL DEF VersionSpec, EventTellsTheWholeChange

\* After a rollback, until the next request: the row it reactivated is the only
\* active one of its component and still one that a rollback of the target would pick.
JustRolledBack ==
    reply.event.type = "version.rolled_back" =>
        /\ reply.event.version \in DOMAIN versions
        /\ versions[reply.event.version].component = reply.event.component
        /\ versions[reply.event.version].status = "rolled_back"
        /\ reply.event.reactivated \in Previous(versions, reply.event.version)
        /\ \A v \in HistoryOf(versions, reply.event.component) :
              versions[v].status = "active" <=> v = reply.event.reactivated

\* The only request that publishes such an event.
LEMMA RollbackAnnounces ==
    ASSUME VersionTypeOK, VersionNext, reply'.event.type = "version.rolled_back"
    PROVE  \E t \in VersionIds : \E p \in Previous(versions, t) :
              /\ t \in DOMAIN versions /\ p \in DOMAIN versions
              /\ versions' = Reactivate(versions, t, p)
              /\ reply'.event = VersionRolledBack(versions[t].component, t, p)
<1>1. /\ NotFound.event.type # "version.rolled_back" /\ Conflict.event.type # "version.rolled_back"
      /\ ServerError.event.type # "version.rolled_back" /\ Ok.event.type # "version.rolled_back"
  BY DEF NotFound, Conflict, ServerError, Ok, NoEvent
<1>2. \A c, v : Published(VersionCreated(c, v)).event.type # "version.rolled_back"
  BY DEF Published, VersionCreated
<1>3. CASE CatalogueNext
  BY <1>1, <1>3 DEF CatalogueNext, CreateProduct, CreateComponent
<1>4. CASE \E c \in ComponentIds, v \in VersionIds, s \in Semvers : CreateVersion(c, v, s)
  BY <1>1, <1>2, <1>4 DEF CreateVersion
<1>5. ASSUME NEW t \in VersionIds, Rollback(t)
      PROVE  \E p \in Previous(versions, t) :
              /\ t \in DOMAIN versions /\ p \in DOMAIN versions
              /\ versions' = Reactivate(versions, t, p)
              /\ reply'.event = VersionRolledBack(versions[t].component, t, p)
  <2>1. PICK p \in Previous(versions, t) :
           /\ t \in DOMAIN versions /\ versions' = Reactivate(versions, t, p)
           /\ reply' = Published(VersionRolledBack(versions[t].component, t, p))
    BY <1>1, <1>5 DEF Rollback
  <2>2. p \in DOMAIN versions
    BY <2>1 DEF Previous, Highest, LowerLive, HistoryOf
  <2> QED
    BY <2>1, <2>2 DEF Published
<1> QED
  BY <1>3, <1>4, <1>5 DEF VersionNext, LedgerNext

\* A rollback of t leaves the rows it may fall back on as they were.
LEMMA PreviousStays ==
    ASSUME NEW t \in DOMAIN versions, NEW p \in Previous(versions, t), RolledBackRows(t, p)
    PROVE  Previous(versions', t) = Previous(versions, t)
<1>1. /\ p \in HistoryOf(versions, versions[t].component) /\ p # t
      /\ p \in DOMAIN versions /\ versions[p].status # "rolled_back"
  BY DEF Previous, Highest, LowerLive, HistoryOf
<1>2. LowerLive(versions', t) = LowerLive(versions, t)
  BY <1>1 DEF LowerLive, HistoryOf, RolledBackRows
<1>3. LowerLive(versions, t) \subseteq DOMAIN versions
  BY DEF LowerLive, HistoryOf
<1> QED
  BY <1>2, <1>3 DEF Previous, Highest, RolledBackRows

LEMMA JustRolledBackStep ==
    ASSUME VersionTypeOK, JustRolledBack, [VersionNext]_versionVars
    PROVE  JustRolledBack'
<1>1. CASE UNCHANGED versionVars
  BY <1>1 DEF versionVars, JustRolledBack, Previous, Highest, LowerLive, HistoryOf
<1>2. CASE VersionNext /\ reply'.event.type = "version.rolled_back"
  <2>1. PICK t \in VersionIds : \E p \in Previous(versions, t) :
              /\ t \in DOMAIN versions /\ p \in DOMAIN versions
              /\ versions' = Reactivate(versions, t, p)
              /\ reply'.event = VersionRolledBack(versions[t].component, t, p)
    BY <1>2, RollbackAnnounces
  <2>2. PICK p \in Previous(versions, t) :
              /\ t \in DOMAIN versions /\ p \in DOMAIN versions
              /\ versions' = Reactivate(versions, t, p)
              /\ reply'.event = VersionRolledBack(versions[t].component, t, p)
    BY <2>1
  <2>3. RolledBackRows(t, p)
    BY <2>2, ReactivateRows
  <2>4. /\ reply'.event.version = t /\ reply'.event.reactivated = p
        /\ reply'.event.component = versions[t].component
    BY <2>2 DEF VersionRolledBack
  <2>5. p # t /\ versions[p].component = versions[t].component
    BY DEF Previous, Highest, LowerLive, HistoryOf
  <2>6. Previous(versions', t) = Previous(versions, t)
    BY <2>2, <2>3, PreviousStays
  <2>7. /\ t \in DOMAIN versions' /\ versions'[t].component = versions[t].component
        /\ versions'[t].status = "rolled_back"
    BY <2>2, <2>3, <2>5 DEF RolledBackRows
  <2>8. \A v \in HistoryOf(versions', versions[t].component) :
           versions'[v].status = "active" <=> v = p
    BY <2>2, <2>3, <2>5 DEF RolledBackRows, HistoryOf
  <2> QED
    BY <2>4, <2>6, <2>7, <2>8 DEF JustRolledBack
<1>3. CASE reply'.event.type # "version.rolled_back"
  BY <1>3 DEF JustRolledBack
<1> QED
  BY <1>1, <1>2, <1>3

LEMMA JustRolledBackAlways == VersionSpec => []JustRolledBack
<1>1. VersionInit => JustRolledBack
  BY DEF VersionInit, CatalogueInit, Ok, NoEvent, JustRolledBack
<1>2. VersionTypeOK /\ JustRolledBack /\ [VersionNext]_versionVars => JustRolledBack'
  BY JustRolledBackStep
<1> QED
  BY <1>1, <1>2, VersionTypeInvariant, PTL DEF VersionSpec

\* Of two cores one is below the other, or they are the same.
LEMMA BelowIsTotal ==
    ASSUME NEW a \in Core, NEW b \in Core
    PROVE  Below(a, b) \/ Below(b, a) \/ a = b
BY DEF Core, Below

\* Where no two rows share a core, only one row is the previous one.
LEMMA OnlyOnePrevious ==
    ASSUME VersionTypeOK, NEW t \in DOMAIN versions, NoTies(versions, versions[t].component),
           NEW p \in Previous(versions, t), NEW q \in Previous(versions, t)
    PROVE  p = q
<1>1. /\ p \in HistoryOf(versions, versions[t].component)
      /\ q \in HistoryOf(versions, versions[t].component)
      /\ ~Below(versions[p].semver.core, versions[q].semver.core)
      /\ ~Below(versions[q].semver.core, versions[p].semver.core)
  BY DEF Previous, Highest, LowerLive
<1>2. versions[p].semver.core \in Core /\ versions[q].semver.core \in Core
  BY <1>1, VersionAssumption DEF HistoryOf, VersionTypeOK, VersionRow
<1>3. versions[p].semver.core = versions[q].semver.core
  BY <1>1, <1>2, BelowIsTotal
<1> QED
  BY <1>1, <1>3 DEF NoTies

LEMMA RepeatStep ==
    ASSUME VersionTypeOK, JustRolledBack, [VersionNext]_versionVars,
           reply.event.type = "version.rolled_back", reply'.event.type = "version.rolled_back",
           reply'.event.version = reply.event.version,
           NoTies(versions, reply.event.component)
    PROVE  UNCHANGED versions
<1>1. CASE UNCHANGED versionVars
  BY <1>1 DEF versionVars
<1>2. CASE VersionNext
  <2>1. PICK t \in VersionIds : \E p \in Previous(versions, t) :
              /\ t \in DOMAIN versions /\ p \in DOMAIN versions
              /\ versions' = Reactivate(versions, t, p)
              /\ reply'.event = VersionRolledBack(versions[t].component, t, p)
    BY <1>2, RollbackAnnounces
  <2>2. PICK p \in Previous(versions, t) :
              /\ t \in DOMAIN versions /\ p \in DOMAIN versions
              /\ versions' = Reactivate(versions, t, p)
              /\ reply'.event = VersionRolledBack(versions[t].component, t, p)
    BY <2>1
  <2>3. reply.event.version = t
    BY <2>2 DEF VersionRolledBack
  <2>4. /\ versions[t].component = reply.event.component
        /\ versions[t].status = "rolled_back"
        /\ reply.event.reactivated \in Previous(versions, t)
        /\ \A v \in HistoryOf(versions, versions[t].component) :
              versions[v].status = "active" <=> v = reply.event.reactivated
    BY <2>3 DEF JustRolledBack
  <2>5. reply.event.reactivated = p
    BY <2>2, <2>4, OnlyOnePrevious
  <2>6. p # t /\ p \in HistoryOf(versions, versions[t].component)
    BY DEF Previous, Highest, LowerLive
  <2>7. versions' \in [DOMAIN versions' -> VersionRow] /\ RolledBackRows(t, p)
    BY <2>2, ReactivateRows
  <2>8. \A u \in DOMAIN versions : versions'[u].status = versions[u].status
    BY <2>2, <2>4, <2>5, <2>6, <2>7 DEF RolledBackRows, HistoryOf
  <2>9. versions \in [DOMAIN versions -> VersionRow]
    BY DEF VersionTypeOK
  <2> QED
    BY <2>7, <2>8, <2>9, SameRows DEF RolledBackRows
<1> QED
  BY <1>1, <1>2

\* A rollback repeated at once changes nothing when its component has no two rows of
\* one core: its target is rolled back already and the same row is reactivated.
THEOREM RepeatedRollbackIsIdle == VersionSpec => RepeatedRollbackChangesNothing
<1>1. VersionTypeOK /\ JustRolledBack /\ [VersionNext]_versionVars => [
        (/\ reply.event.type = "version.rolled_back"
         /\ reply'.event.type = "version.rolled_back"
         /\ reply'.event.version = reply.event.version
         /\ NoTies(versions, reply.event.component)) => UNCHANGED versions
        ]_versionVars
  BY RepeatStep
<1> QED
  BY <1>1, VersionTypeInvariant, JustRolledBackAlways, PTL
     DEF VersionSpec, RepeatedRollbackChangesNothing
=============================================================================
