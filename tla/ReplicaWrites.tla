---------------------------- MODULE ReplicaWrites ----------------------------
(***************************************************************************)
(* The writes of one product statement by statement: POST /versions,       *)
(* POST /versions/{id}/rollback and POST /products/{id}/releases served by *)
(* replicas over one database.  Every backend runs in autocommit mode      *)
(* (app/backends), so each statement commits alone: those of two replicas  *)
(* interleave, and a replica that dies leaves the first ones behind.       *)
(* VersionLedger and ReleaseLedger take the same requests one at a time.   *)
(*                                                                         *)
(* Version rows stand in the order of their numbers: clients count up.     *)
(***************************************************************************)
EXTENDS Integers, Sequences, FiniteSets

CONSTANTS
    Replicas,
    Components,    \* numbers, in the ORDER BY c.id of the cut
    Keys,          \* values of Idempotency-Key
    NoKey,         \* the header left out
    MaxVersions,   \* bound on the version rows
    MaxCuts        \* bound on the releases

ASSUME WritesAssumption ==
    /\ NoKey \notin Keys /\ Components \subseteq Nat /\ IsFiniteSet(Components)
    /\ MaxVersions \in Nat /\ MaxCuts \in Nat

VARIABLES
    row,       \* table versions: [component, status], by number
    release,   \* table releases, each with the pins inserted so far
    task,      \* the request each replica is in, and what it has read
    alone      \* history: replicas whose write nobody disturbed since it began

writeVars == <<row, release, task, alone>>

Waiting == [at |-> "waiting"]
-----------------------------------------------------------------------------
RowsOf(c) == {v \in DOMAIN row : row[v].component = c}
ActiveRows(c) == {v \in RowsOf(c) : row[v].status = "active"}

Marked(vs, status) ==
    [v \in DOMAIN row |-> IF v \in vs THEN [row[v] EXCEPT !.status = status] ELSE row[v]]

Newest(vs) == {v \in vs : \A u \in vs : u <= v}

\* One row is taken for all of them (LIMIT 1).
SupersededNewest(c) == Marked(Newest(ActiveRows(c)), "superseded")

\* UPDATE versions SET status = 'superseded' WHERE component and active.
Superseded(c) == Marked(ActiveRows(c), "superseded")

Turn(r, next) == task' = [task EXCEPT ![r] = next]
Is(r, at) == task[r].at = at
On(r, c) == "component" \in DOMAIN task[r] /\ task[r].component = c

\* r writes versions of c: whoever else is in the middle of writing them is no longer
\* alone.
Disturbed(r, c) == {q \in Replicas \ {r} : On(q, c)}

WritesInit ==
    /\ row = <<>>
    /\ release = <<>>
    /\ task = [r \in Replicas |-> Waiting]
    /\ alone = {}
-----------------------------------------------------------------------------
(***************************************************************************)
(* POST /versions: one UPDATE, one INSERT.                                 *)
(***************************************************************************)
StartCreate(r, c) ==
    /\ Is(r, "waiting")
    /\ row' = Superseded(c)
    /\ alone' = (alone \ Disturbed(r, c)) \cup {r}
    /\ Turn(r, [at |-> "insertVersion", component |-> c])
    /\ UNCHANGED release

InsertVersion(r) == LET c == task[r].component IN
    /\ Is(r, "insertVersion") /\ Len(row) < MaxVersions
    /\ row' = Append(row, [component |-> c, status |-> "active"])
    /\ alone' = alone \ (Disturbed(r, c) \cup {r})
    /\ Turn(r, Waiting)
    /\ UNCHANGED release

(***************************************************************************)
(* POST /versions/{id}/rollback: the row below is looked up, then three    *)
(* UPDATEs.  Without a row below the answer is a 409.                      *)
(***************************************************************************)
PickPrevious(r, t) ==
    /\ Is(r, "waiting")
    /\ LET c == row[t].component
           below == {v \in RowsOf(c) : v < t /\ row[v].status # "rolled_back"}
       IN  \E p \in Newest(below) :
              Turn(r, [at |-> "markRolledBack", component |-> c, target |-> t,
                       previous |-> p])
    /\ alone' = alone \cup {r}
    /\ UNCHANGED <<row, release>>

RollbackUpdate(r, at, rows, next) ==
    /\ Is(r, at)
    /\ row' = rows
    /\ alone' = alone \ (Disturbed(r, task[r].component)
                        \cup IF next = Waiting THEN {r} ELSE {})
    /\ Turn(r, next)
    /\ UNCHANGED release

MarkRolledBack(r) ==
    RollbackUpdate(r, "markRolledBack", Marked({task[r].target}, "rolled_back"),
                   [task[r] EXCEPT !.at = "supersede"])

SupersedeOthers(r) ==
    RollbackUpdate(r, "supersede", Superseded(task[r].component),
                   [task[r] EXCEPT !.at = "reactivate"])

ReactivatePrevious(r) ==
    RollbackUpdate(r, "reactivate", Marked({task[r].previous}, "active"), Waiting)
-----------------------------------------------------------------------------
(***************************************************************************)
(* POST /products/{id}/releases: the key, what is active, the latest       *)
(* version, then one INSERT for the release and one for each pin.  asked   *)
(* is how many releases there were when the key was looked up.             *)
(***************************************************************************)

\* Releases found through their pins (an inner join with release_components).
PinnedReplay(key) ==
    {i \in DOMAIN release : key # NoKey /\ release[i].key = key /\ release[i].pins # {}}

Replay(key) == {i \in DOMAIN release : key # NoKey /\ release[i].key = key}

\* A repeated key is answered with its release, whatever pins that has by now.
LookUpKey(r, key) ==
    /\ Is(r, "waiting") /\ Replay(key) = {}
    /\ Turn(r, [at |-> "readActive", key |-> key, asked |-> Len(release)])
    /\ UNCHANGED <<row, release, alone>>

\* One SELECT; a component with two active rows comes twice, one with none not at
\* all.  Nothing active is a 409.
ReadActive(r) == LET found == UNION {ActiveRows(c) : c \in Components} IN
    /\ Is(r, "readActive")
    /\ Turn(r, IF found = {} THEN Waiting
               ELSE [at |-> "readLatest", key |-> task[r].key, asked |-> task[r].asked,
                     found |-> found])
    /\ UNCHANGED <<row, release, alone>>

\* The latest product version and its bump, a minor one here.
ReadLatest(r) ==
    /\ Is(r, "readLatest")
    /\ Turn(r, [at |-> "insertRelease", key |-> task[r].key, asked |-> task[r].asked,
                found |-> task[r].found,
                version |-> IF release = <<>> THEN 1 ELSE release[Len(release)].version + 1])
    /\ UNCHANGED <<row, release, alone>>

InsertRelease(r) ==
    /\ Is(r, "insertRelease") /\ Len(release) < MaxCuts
    /\ release' = Append(release, [key |-> task[r].key, asked |-> task[r].asked,
                                   version |-> task[r].version, pins |-> {}])
    /\ Turn(r, [at |-> "insertPins", into |-> Len(release) + 1, left |-> task[r].found])
    /\ UNCHANGED <<row, alone>>

\* In the order of the components; the primary key (release_id, component_id)
\* refuses a second pin of one, and the request ends as a 500.
InsertPin(r) ==
    /\ Is(r, "insertPins")
    /\ \E v \in task[r].left :
          LET i == task[r].into
              c == row[v].component IN
          /\ \A u \in task[r].left : c <= row[u].component
          /\ \/ /\ \E u \in release[i].pins : row[u].component = c
                /\ Turn(r, Waiting)
                /\ UNCHANGED release
             \/ /\ \A u \in release[i].pins : row[u].component # c
                /\ release' = [release EXCEPT ![i].pins = @ \cup {v}]
                /\ Turn(r, IF task[r].left = {v} THEN Waiting
                           ELSE [task[r] EXCEPT !.left = @ \ {v}])
    /\ UNCHANGED <<row, alone>>
-----------------------------------------------------------------------------
\* The replica dies in the middle of a request.
Die(r) ==
    /\ ~Is(r, "waiting")
    /\ Turn(r, Waiting)
    /\ alone' = alone \ {r}
    /\ UNCHANGED <<row, release>>

WriterNext(r) ==
    \/ \E c \in Components : StartCreate(r, c)
    \/ InsertVersion(r)
    \/ \E t \in DOMAIN row : PickPrevious(r, t)
    \/ MarkRolledBack(r) \/ SupersedeOthers(r) \/ ReactivatePrevious(r)
    \/ \E key \in Keys \cup {NoKey} : LookUpKey(r, key)
    \/ ReadActive(r) \/ ReadLatest(r) \/ InsertRelease(r) \/ InsertPin(r)
    \/ Die(r)

WritesNext == \E r \in Replicas : WriterNext(r)

WritesSpec == WritesInit /\ [][WritesNext]_writeVars
-----------------------------------------------------------------------------
(***************************************************************************)
(* Properties.                                                             *)
(***************************************************************************)
\* Overlapping requests and dead replicas leave a component with no active row or
\* with several; the next create or rollback that nobody disturbs leaves exactly
\* one, whatever it found ("so exactly one row remains active",
\* create_version_query.py:73; rollback_version_query.py:113).
AnUndisturbedWriteHeals ==
    [][ \A r \in alone, c \in Components :
          (InsertVersion(r) \/ ReactivatePrevious(r)) /\ On(r, c)
          => Cardinality(ActiveRows(c)') = 1 ]_writeVars

\* Two releases of one key come of requests that overlapped: whoever asks after a
\* release of the key is in the table cuts no other ("prevents double-cut",
\* API_CONTRACT.md:192, holds between requests that do not overlap).
KeysRepeatOnlyByOverlap ==
    \A i, j \in DOMAIN release :
        (i < j /\ release[i].key = release[j].key /\ release[i].key # NoKey)
        => release[j].asked < i
=============================================================================
