---------------------------- MODULE StatementProofs ----------------------------
(***************************************************************************)
(* Statements of several replicas that interleave and are cut short, for   *)
(* every number of replicas, components, keys and legacy rows: an          *)
(* undisturbed write leaves one active version, a key repeats only in      *)
(* requests that overlap, and the legacy rows are migrated once and whole. *)
(***************************************************************************)
EXTENDS ReplicaWrites, FlatMigration, FiniteSetTheorems, TLAPS

(***************************************************************************)
(* Idempotency keys.  A cut under way has seen every release there was     *)
(* when it asked, and none of them had its key.                            *)
(***************************************************************************)
Release == [key : Keys \cup {NoKey}, asked : Nat, version : Nat, pins : SUBSET Nat]

\* What a cut under way has read of the releases.
HasRead(t) ==
    /\ t.at \in {"readActive", "readLatest", "insertRelease"} =>
          /\ t.key \in Keys \cup {NoKey} /\ t.asked \in 0 .. Len(release)
          /\ t.key # NoKey => \A i \in 1 .. t.asked : release[i].key # t.key
    /\ t.at \in {"readLatest", "insertRelease"} => t.found \subseteq Nat
    /\ t.at = "insertRelease" => t.version \in Nat
    /\ t.at = "insertPins" => t.left \subseteq Nat

KeysInvariant ==
    /\ DOMAIN task = Replicas
    /\ release \in Seq(Release)
    /\ \A r \in Replicas : HasRead(task[r])
    /\ KeysRepeatOnlyByOverlap

(***************************************************************************)
(* Undisturbed writes.  A replica that reaches its last statement alone    *)
(* finds no active row of the component left.                              *)
(***************************************************************************)
Row == [component : Components, status : {"active", "superseded", "rolled_back"}]
Writing(r) ==
    task[r].at \in {"insertVersion", "markRolledBack", "supersede", "reactivate"}
Finishing(r) == task[r].at \in {"insertVersion", "reactivate"}

HealInvariant ==
    /\ DOMAIN task = Replicas
    /\ row \in Seq(Row)
    /\ alone \subseteq Replicas
    /\ \A r \in Replicas :
          /\ Writing(r) => "component" \in DOMAIN task[r] /\ task[r].component \in Components
          /\ task[r].at \in {"markRolledBack", "supersede", "reactivate"} =>
                /\ DOMAIN task[r] = {"at", "component", "target", "previous"}
                /\ {task[r].target, task[r].previous} \subseteq RowsOf(task[r].component)
    /\ \A r \in Replicas \cap alone : Finishing(r) => ActiveRows(task[r].component) = {}

\* An UPDATE of a set of rows changes their status and nothing else.
LEMMA MarkedRows ==
    ASSUME row \in Seq(Row), NEW vs,
           NEW status \in {"active", "superseded", "rolled_back"}
    PROVE  /\ Marked(vs, status) \in Seq(Row) /\ DOMAIN Marked(vs, status) = DOMAIN row
           /\ \A v \in DOMAIN row :
                 /\ Marked(vs, status)[v].component = row[v].component
                 /\ Marked(vs, status)[v].status = IF v \in vs THEN status ELSE row[v].status
<1>0. \A x \in Row : /\ [x EXCEPT !.status = status] \in Row
                    /\ [x EXCEPT !.status = status].component = x.component
                    /\ [x EXCEPT !.status = status].status = status
  BY DEF Row
<1>1. \A v \in DOMAIN row : row[v] \in Row /\ [row[v] EXCEPT !.status = status] \in Row
  BY <1>0
<1>2. \A v \in DOMAIN row :
         /\ [row[v] EXCEPT !.status = status].component = row[v].component
         /\ [row[v] EXCEPT !.status = status].status = status
  BY <1>0, <1>1
<1>3. Marked(vs, status) \in [1 .. Len(row) -> Row] /\ Len(row) \in Nat
  BY <1>1 DEF Marked
<1>4. Marked(vs, status) \in Seq(Row)
  BY <1>3
<1>5. /\ DOMAIN Marked(vs, status) = DOMAIN row
      /\ \A v \in DOMAIN row :
            Marked(vs, status)[v] = IF v \in vs THEN [row[v] EXCEPT !.status = status]
                                    ELSE row[v]
  BY DEF Marked
<1> QED
  BY <1>2, <1>4, <1>5

\* One statement of r's write of component c: rows keep their component, only rows of c
\* change, and whoever else was writing c is no longer alone.
LEMMA StatementKeeps ==
    ASSUME HealInvariant, NEW r \in Replicas, NEW next, NEW c \in Components,
           row' \in Seq(Row), DOMAIN row \subseteq DOMAIN row',
           \A v \in DOMAIN row : row'[v].component = row[v].component,
           \A v \in DOMAIN row' :
              v \notin DOMAIN row \/ row'[v] # row[v] => row'[v].component = c,
           task' = [task EXCEPT ![r] = next],
           alone' \subseteq (alone \ Disturbed(r, c)) \cup {r},
           next.at \in {"insertVersion", "markRolledBack", "supersede", "reactivate"} =>
              "component" \in DOMAIN next /\ next.component = c,
           next.at \in {"markRolledBack", "supersede", "reactivate"} =>
              /\ DOMAIN next = {"at", "component", "target", "previous"}
              /\ {next.target, next.previous} \subseteq RowsOf(c),
           r \in alone' /\ next.at \in {"insertVersion", "reactivate"} => ActiveRows(c)' = {}
    PROVE  HealInvariant'
<1>1. /\ DOMAIN task' = Replicas /\ task'[r] = next
      /\ \A q \in Replicas \ {r} : task'[q] = task[q]
  BY DEF HealInvariant
<1>2. \A d : RowsOf(d) \subseteq RowsOf(d)'
  BY DEF RowsOf
<1>3. ASSUME NEW d, d # c
      PROVE  ActiveRows(d)' \subseteq ActiveRows(d)
  BY <1>3 DEF ActiveRows, RowsOf
<1>4. ASSUME NEW q \in Replicas
      PROVE  /\ Writing(q)' => "component" \in DOMAIN task'[q] /\ task'[q].component \in Components
             /\ task'[q].at \in {"markRolledBack", "supersede", "reactivate"} =>
                   /\ DOMAIN task'[q] = {"at", "component", "target", "previous"}
                   /\ ({task[q].target, task[q].previous} \subseteq RowsOf(task[q].component))'
  <2>1. CASE q = r
    BY <1>1, <1>2, <2>1 DEF Writing
  <2>2. CASE q # r
    <3>1. task'[q] = task[q]
      BY <1>1, <2>2
    <3>2. /\ Writing(q) => "component" \in DOMAIN task[q] /\ task[q].component \in Components
          /\ task[q].at \in {"markRolledBack", "supersede", "reactivate"} =>
                /\ DOMAIN task[q] = {"at", "component", "target", "previous"}
                /\ {task[q].target, task[q].previous} \subseteq RowsOf(task[q].component)
      BY DEF HealInvariant
    <3> QED
      BY <1>2, <3>1, <3>2 DEF Writing
  <2> QED
    BY <2>1, <2>2
<1>5. ASSUME NEW q \in Replicas, q \in alone', Finishing(q)'
      PROVE  ActiveRows(task[q].component)' = {}
  <2>1. CASE q = r
    BY <1>1, <1>5, <2>1 DEF Finishing
  <2>2. CASE q # r
    <3>1. q \in alone /\ ~On(q, c) /\ Finishing(q) /\ task'[q] = task[q]
      BY <1>1, <1>5, <2>2 DEF Disturbed, Finishing
    <3>2. "component" \in DOMAIN task[q] /\ ActiveRows(task[q].component) = {}
      BY <3>1 DEF HealInvariant, Finishing, Writing
    <3>3. task[q].component # c
      BY <3>1, <3>2 DEF On
    <3>4. PICK d : d = task[q].component
      OBVIOUS
    <3>5. ActiveRows(d)' = {}
      BY <1>3, <3>2, <3>3, <3>4
    <3> QED
      BY <3>1, <3>4, <3>5
  <2> QED
    BY <2>1, <2>2
<1> QED
  BY <1>1, <1>4, <1>5 DEF HealInvariant

LEMMA SupersededRows ==
    ASSUME row \in Seq(Row), NEW c
    PROVE  /\ Superseded(c) \in Seq(Row) /\ DOMAIN Superseded(c) = DOMAIN row
           /\ \A v \in DOMAIN row :
                 /\ Superseded(c)[v].component = row[v].component
                 /\ Superseded(c)[v].component = c => Superseded(c)[v].status # "active"
                 /\ Superseded(c)[v] # row[v] => row[v].component = c
<1>1. PICK rows : rows = Superseded(c)
  OBVIOUS
<1>2. /\ rows \in Seq(Row) /\ DOMAIN rows = DOMAIN row
      /\ \A v \in DOMAIN row :
            /\ rows[v].component = row[v].component
            /\ rows[v].status = IF v \in ActiveRows(c) THEN "superseded" ELSE row[v].status
            /\ v \notin ActiveRows(c) => rows[v] = row[v]
  BY <1>1, MarkedRows DEF Superseded, Marked
<1>3. \A v \in DOMAIN row : v \in ActiveRows(c) <=> row[v].component = c /\ row[v].status = "active"
  BY DEF ActiveRows, RowsOf
<1> QED
  BY <1>1, <1>2, <1>3

LEMMA StartCreateKeeps ==
    ASSUME HealInvariant, NEW r \in Replicas, NEW c \in Components, StartCreate(r, c)
    PROVE  HealInvariant'
<1>1. /\ row \in Seq(Row) /\ row' = Superseded(c)
      /\ task' = [task EXCEPT ![r] = [at |-> "insertVersion", component |-> c]]
      /\ alone' \subseteq (alone \ Disturbed(r, c)) \cup {r}
  BY DEF StartCreate, Turn, HealInvariant
<1>2. ActiveRows(c)' = {}
  BY <1>1, SupersededRows DEF ActiveRows, RowsOf
<1> QED
  <2>1. PICK next : next = [at |-> "insertVersion", component |-> c]
    OBVIOUS
  <2>2. next.at = "insertVersion" /\ next.component = c /\ "component" \in DOMAIN next
    BY <2>1
  <2>3. /\ row' \in Seq(Row) /\ DOMAIN row' = DOMAIN row
        /\ \A v \in DOMAIN row : row'[v].component = row[v].component
        /\ \A v \in DOMAIN row' : row'[v] # row[v] => row'[v].component = c
    BY <1>1, SupersededRows
  <2> QED
    BY <1>1, <1>2, <2>1, <2>2, <2>3, StatementKeeps

LEMMA InsertVersionKeeps ==
    ASSUME HealInvariant, NEW r \in Replicas, InsertVersion(r)
    PROVE  HealInvariant'
<1> DEFINE c == task[r].component
           new == [component |-> c, status |-> "active"]
<1>1. /\ row \in Seq(Row) /\ c \in Components /\ row' = Append(row, new)
      /\ task' = [task EXCEPT ![r] = Waiting]
      /\ alone' \subseteq (alone \ Disturbed(r, c)) \cup {r}
  BY DEF InsertVersion, Turn, HealInvariant, Is, Writing
<1>2. new \in Row
  BY <1>1 DEF Row
<1>3. /\ row' \in Seq(Row) /\ DOMAIN row' = DOMAIN row \cup {Len(row) + 1}
      /\ \A v \in DOMAIN row : row'[v] = row[v]
      /\ row'[Len(row) + 1].component = c
  BY <1>1, <1>2
<1>4. Waiting.at = "waiting"
  BY DEF Waiting
<1> QED
  BY <1>1, <1>3, <1>4, StatementKeeps

LEMMA PickPreviousKeeps ==
    ASSUME HealInvariant, NEW r \in Replicas, NEW t \in DOMAIN row, PickPrevious(r, t)
    PROVE  HealInvariant'
<1> DEFINE c == row[t].component
<1>1. PICK p \in RowsOf(c) :
         task' = [task EXCEPT ![r] = [at |-> "markRolledBack", component |-> c,
                                      target |-> t, previous |-> p]]
  BY DEF PickPrevious, Turn, Newest
<1>2. UNCHANGED row /\ row \in Seq(Row) /\ alone' = alone \cup {r}
  BY DEF PickPrevious, HealInvariant
<1>3. c \in Components /\ t \in RowsOf(c)
  <2>1. row[t] \in Row
    BY <1>2
  <2> QED
    BY <2>1 DEF Row, RowsOf
<1>4. PICK next : next = [at |-> "markRolledBack", component |-> c, target |-> t, previous |-> p]
  OBVIOUS
<1>5. /\ DOMAIN task' = Replicas /\ task'[r] = next
      /\ \A q \in Replicas \ {r} : task'[q] = task[q]
      /\ next.at = "markRolledBack" /\ next.component = c /\ next.previous = p
      /\ next.target = t
      /\ DOMAIN next = {"at", "component", "target", "previous"}
  BY <1>1, <1>4 DEF HealInvariant
<1>6. \A d : RowsOf(d)' = RowsOf(d) /\ ActiveRows(d)' = ActiveRows(d)
  BY <1>2 DEF RowsOf, ActiveRows
<1>7. ASSUME NEW q \in Replicas
      PROVE  /\ Writing(q)' => "component" \in DOMAIN task'[q] /\ task'[q].component \in Components
             /\ task'[q].at \in {"markRolledBack", "supersede", "reactivate"} =>
                   /\ DOMAIN task'[q] = {"at", "component", "target", "previous"}
                   /\ ({task[q].target, task[q].previous} \subseteq RowsOf(task[q].component))'
             /\ q \in alone' /\ Finishing(q)' => ActiveRows(task[q].component)' = {}
  <2>1. CASE q = r
    BY <1>1, <1>3, <1>5, <1>6, <2>1 DEF Writing, Finishing
  <2>2. CASE q # r
    <3>1. task'[q] = task[q] /\ (q \in alone' => q \in Replicas \cap alone)
      BY <1>2, <1>5, <2>2
    <3>2. /\ Writing(q) => "component" \in DOMAIN task[q] /\ task[q].component \in Components
          /\ task[q].at \in {"markRolledBack", "supersede", "reactivate"} =>
                /\ DOMAIN task[q] = {"at", "component", "target", "previous"}
                /\ {task[q].target, task[q].previous} \subseteq RowsOf(task[q].component)
          /\ q \in Replicas \cap alone /\ Finishing(q) => ActiveRows(task[q].component) = {}
      BY DEF HealInvariant
    <3> QED
      BY <1>6, <3>1, <3>2 DEF Writing, Finishing
  <2> QED
    BY <2>1, <2>2
<1> QED
  BY <1>2, <1>5, <1>7 DEF HealInvariant

\* One of the three UPDATEs of a rollback.
LEMMA RollbackUpdateKeeps ==
    ASSUME HealInvariant, NEW r \in Replicas, NEW vs, NEW next,
           NEW status \in {"active", "superseded", "rolled_back"},
           task[r].at \in {"markRolledBack", "supersede", "reactivate"},
           NEW c, c = task[r].component, vs \subseteq RowsOf(c),
           RollbackUpdate(r, task[r].at, Marked(vs, status), next),
           \/ next = Waiting
           \/ /\ next.at \in {"supersede", "reactivate"}
              /\ DOMAIN next = {"at", "component", "target", "previous"}
              /\ next.component = c
              /\ next.target = task[r].target /\ next.previous = task[r].previous,
           next.at = "reactivate" => ActiveRows(c) \subseteq vs /\ status # "active"
    PROVE  HealInvariant'
<1>1. /\ row \in Seq(Row) /\ c \in Components /\ row' = Marked(vs, status)
      /\ task' = [task EXCEPT ![r] = next]
      /\ alone' \subseteq (alone \ Disturbed(r, c)) \cup {r}
      /\ {task[r].target, task[r].previous} \subseteq RowsOf(c)
  BY DEF RollbackUpdate, Turn, HealInvariant, Writing
<1>2. Waiting.at = "waiting"
  BY DEF Waiting
<1>3. PICK rows : rows = Marked(vs, status)
  OBVIOUS
<1>4. /\ rows \in Seq(Row) /\ DOMAIN rows = DOMAIN row
      /\ \A v \in DOMAIN row :
            /\ rows[v].component = row[v].component
            /\ rows[v].status = IF v \in vs THEN status ELSE row[v].status
  BY <1>1, <1>3, MarkedRows
<1>5. \A v \in DOMAIN row : v \notin vs => rows[v] = row[v]
  BY <1>3 DEF Marked
<1>6. \A v \in DOMAIN row : rows[v] # row[v] => rows[v].component = c
  BY <1>4, <1>5 DEF RowsOf
<1>7. row' = rows
  BY <1>1, <1>3
<1>8. next.at = "reactivate" => ActiveRows(c)' = {}
  BY <1>4, <1>7 DEF ActiveRows, RowsOf
<1>9. /\ row' \in Seq(Row) /\ DOMAIN row \subseteq DOMAIN row'
      /\ \A v \in DOMAIN row : row'[v].component = row[v].component
      /\ \A v \in DOMAIN row' :
            v \notin DOMAIN row \/ row'[v] # row[v] => row'[v].component = c
  BY <1>4, <1>6, <1>7
<1>10. CASE next = Waiting
  BY <1>1, <1>2, <1>9, <1>10, StatementKeeps
<1>11. CASE next # Waiting
  <2>1. /\ {next.target, next.previous} \subseteq RowsOf(c)
        /\ "component" \in DOMAIN next /\ next.component = c
        /\ DOMAIN next = {"at", "component", "target", "previous"}
        /\ next.at \in {"supersede", "reactivate"}
    BY <1>1, <1>11
  <2> QED
    BY <1>1, <1>8, <1>9, <2>1, StatementKeeps
<1> QED
  BY <1>10, <1>11

LEMMA RollbackKeeps ==
    ASSUME HealInvariant, NEW r \in Replicas,
           MarkRolledBack(r) \/ SupersedeOthers(r) \/ ReactivatePrevious(r)
    PROVE  HealInvariant'
<1>1. PICK c : c = task[r].component
  OBVIOUS
<1>2. task[r].at \in {"markRolledBack", "supersede", "reactivate"}
  BY DEF MarkRolledBack, SupersedeOthers, ReactivatePrevious, RollbackUpdate, Is
<1>3. /\ {task[r].target, task[r].previous} \subseteq RowsOf(c)
      /\ DOMAIN task[r] = {"at", "component", "target", "previous"}
  BY <1>1, <1>2 DEF HealInvariant
<1>4. ASSUME NEW at
      PROVE  LET next == [task[r] EXCEPT !.at = at] IN
             /\ DOMAIN next = {"at", "component", "target", "previous"} /\ next.at = at
             /\ next.component = c /\ next.target = task[r].target
             /\ next.previous = task[r].previous
  BY <1>1, <1>3
<1>5. CASE MarkRolledBack(r)
  <2>1. PICK next : next = [task[r] EXCEPT !.at = "supersede"]
    OBVIOUS
  <2>2. task[r].at = "markRolledBack"
    BY <1>5 DEF MarkRolledBack, RollbackUpdate, Is
  <2>3. RollbackUpdate(r, task[r].at, Marked({task[r].target}, "rolled_back"), next)
    BY <1>5, <2>1, <2>2 DEF MarkRolledBack
  <2>4. /\ DOMAIN next = {"at", "component", "target", "previous"} /\ next.at = "supersede"
        /\ next.component = c /\ next.target = task[r].target
        /\ next.previous = task[r].previous
    BY <1>4, <2>1
  <2> QED
    BY <1>1, <1>2, <1>3, <2>3, <2>4, RollbackUpdateKeeps
<1>6. CASE SupersedeOthers(r)
  <2>1. PICK next : next = [task[r] EXCEPT !.at = "reactivate"]
    OBVIOUS
  <2>2. task[r].at = "supersede" /\ Superseded(task[r].component) = Marked(ActiveRows(c), "superseded")
    BY <1>1, <1>6 DEF SupersedeOthers, RollbackUpdate, Is, Superseded
  <2>3. RollbackUpdate(r, task[r].at, Marked(ActiveRows(c), "superseded"), next)
    BY <1>6, <2>1, <2>2 DEF SupersedeOthers
  <2>4. /\ DOMAIN next = {"at", "component", "target", "previous"} /\ next.at = "reactivate"
        /\ next.component = c /\ next.target = task[r].target
        /\ next.previous = task[r].previous
    BY <1>4, <2>1
  <2>5. ActiveRows(c) \subseteq RowsOf(c)
    BY DEF ActiveRows
  <2> QED
    BY <1>1, <1>2, <2>3, <2>4, <2>5, RollbackUpdateKeeps
<1>7. CASE ReactivatePrevious(r)
  <2>1. task[r].at = "reactivate"
    BY <1>7 DEF ReactivatePrevious, RollbackUpdate, Is
  <2>2. RollbackUpdate(r, task[r].at, Marked({task[r].previous}, "active"), Waiting)
    BY <1>7, <2>1 DEF ReactivatePrevious
  <2>3. Waiting.at = "waiting"
    BY DEF Waiting
  <2> QED
    BY <1>1, <1>2, <1>3, <2>2, <2>3, RollbackUpdateKeeps
<1> QED
  BY <1>5, <1>6, <1>7

\* A cut, or the end of a replica, changes no version.
LEMMA ElsewhereKeeps ==
    ASSUME HealInvariant, NEW r \in Replicas, NEW next, UNCHANGED row, alone' \subseteq alone,
           task' = [task EXCEPT ![r] = next],
           next.at \notin {"insertVersion", "markRolledBack", "supersede", "reactivate"}
    PROVE  HealInvariant'
<1>1. /\ DOMAIN task' = Replicas /\ task'[r] = next
      /\ \A q \in Replicas \ {r} : task'[q] = task[q]
  BY DEF HealInvariant
<1>2. \A d : RowsOf(d)' = RowsOf(d) /\ ActiveRows(d)' = ActiveRows(d)
  BY DEF RowsOf, ActiveRows
<1> QED
  BY <1>1, <1>2 DEF HealInvariant, Writing, Finishing

LEMMA CutsAndDeathsKeep ==
    ASSUME HealInvariant, NEW r \in Replicas,
           \/ \E key \in Keys \cup {NoKey} : LookUpKey(r, key)
           \/ ReadActive(r) \/ ReadLatest(r) \/ InsertRelease(r) \/ InsertPin(r) \/ Die(r)
    PROVE  HealInvariant'
<1>1. UNCHANGED row /\ alone' \subseteq alone
  BY DEF LookUpKey, ReadActive, ReadLatest, InsertRelease, InsertPin, Die
<1>2. Waiting.at = "waiting"
  BY DEF Waiting
<1>3. ASSUME NEW next, task' = [task EXCEPT ![r] = next],
             next.at \notin {"insertVersion", "markRolledBack", "supersede", "reactivate"}
      PROVE  HealInvariant'
  BY <1>1, <1>3, ElsewhereKeeps
<1>4. ASSUME NEW key \in Keys \cup {NoKey}, LookUpKey(r, key)
      PROVE  HealInvariant'
  BY <1>3, <1>4 DEF LookUpKey, Turn
<1>5. CASE ReadActive(r)
  <2>1. CASE task' = [task EXCEPT ![r] = Waiting]
    BY <1>2, <1>3, <2>1
  <2>2. CASE task' # [task EXCEPT ![r] = Waiting]
    BY <1>3, <1>5, <2>2 DEF ReadActive, Turn
  <2> QED
    BY <2>1, <2>2
<1>6. CASE ReadLatest(r)
  <2>1. PICK next : /\ task' = [task EXCEPT ![r] = next]
                    /\ next = [at |-> "insertRelease", key |-> task[r].key,
                               asked |-> task[r].asked, found |-> task[r].found,
                               version |-> IF release = <<>> THEN 1
                                           ELSE release[Len(release)].version + 1]
    BY <1>6 DEF ReadLatest, Turn
  <2>2. next.at = "insertRelease"
    BY <2>1
  <2> QED
    BY <1>3, <2>1, <2>2
<1>7. CASE InsertRelease(r)
  BY <1>3, <1>7 DEF InsertRelease, Turn
<1>8. CASE InsertPin(r)
  <2>1. CASE task' = [task EXCEPT ![r] = Waiting]
    BY <1>2, <1>3, <2>1
  <2>2. CASE task' # [task EXCEPT ![r] = Waiting]
    <3>1. task[r].at = "insertPins"
      BY <1>8 DEF InsertPin, Is
    <3>2. PICK left : task' = [task EXCEPT ![r] = [task[r] EXCEPT !.left = left]]
      BY <1>8, <2>2 DEF InsertPin, Turn
    <3>3. [task[r] EXCEPT !.left = left].at = task[r].at
      OBVIOUS
    <3> QED
      BY <1>3, <3>1, <3>2, <3>3
  <2> QED
    BY <2>1, <2>2
<1>9. CASE Die(r)
  BY <1>2, <1>3, <1>9 DEF Die, Turn
<1> QED
  BY <1>4, <1>5, <1>6, <1>7, <1>8, <1>9

LEMMA HealInvariantInit == WritesInit => HealInvariant
BY DEF WritesInit, HealInvariant, Waiting, Writing, Finishing

LEMMA HealInvariantStep ==
    ASSUME HealInvariant, [WritesNext]_writeVars
    PROVE  HealInvariant'
<1>1. CASE UNCHANGED writeVars
  BY <1>1 DEF writeVars, HealInvariant, Writing, Finishing, RowsOf, ActiveRows
<1>2. ASSUME NEW r \in Replicas, WriterNext(r)
      PROVE  HealInvariant'
  BY <1>2, StartCreateKeeps, InsertVersionKeeps, PickPreviousKeeps, RollbackKeeps,
     CutsAndDeathsKeep DEF WriterNext
<1> QED
  BY <1>1, <1>2 DEF WritesNext

LEMMA LastStatementLeavesOne ==
    ASSUME HealInvariant, NEW r \in Replicas, r \in alone, NEW c \in Components, On(r, c),
           InsertVersion(r) \/ ReactivatePrevious(r)
    PROVE  Cardinality(ActiveRows(c)') = 1
<1>1. task[r].component = c /\ row \in Seq(Row) /\ Waiting.at = "waiting"
  BY DEF On, HealInvariant, Waiting
<1>2. CASE InsertVersion(r)
  <2>1. /\ row' = Append(row, [component |-> c, status |-> "active"])
        /\ ActiveRows(c) = {}
    BY <1>1, <1>2 DEF InsertVersion, Is, HealInvariant, Finishing
  <2>2. [component |-> c, status |-> "active"] \in Row
    BY DEF Row
  <2>3. /\ DOMAIN row' = DOMAIN row \cup {Len(row) + 1}
        /\ \A v \in DOMAIN row : row'[v] = row[v]
        /\ row'[Len(row) + 1] = [component |-> c, status |-> "active"]
    BY <1>1, <2>1, <2>2
  <2>4. ActiveRows(c)' = {Len(row) + 1}
    BY <2>1, <2>3 DEF ActiveRows, RowsOf
  <2> QED
    BY <2>4, FS_Singleton
<1>3. CASE ReactivatePrevious(r)
  <2>1. /\ row' = Marked({task[r].previous}, "active") /\ ActiveRows(c) = {}
        /\ task[r].previous \in RowsOf(c)
    BY <1>1, <1>3 DEF ReactivatePrevious, RollbackUpdate, Is, HealInvariant, Finishing
  <2>2. /\ DOMAIN row' = DOMAIN row
        /\ \A v \in DOMAIN row :
              /\ row'[v].component = row[v].component
              /\ row'[v].status = IF v = task[r].previous THEN "active" ELSE row[v].status
    BY <1>1, <2>1, MarkedRows
  <2>3. PICK p : p = task[r].previous
    OBVIOUS
  <2>4. p \in DOMAIN row /\ row[p].component = c
    BY <2>1, <2>3 DEF RowsOf
  <2>5. \A v \in DOMAIN row' :
           row'[v].component = c /\ row'[v].status = "active" <=> v = p
    <3>1. \A v \in DOMAIN row : ~(row[v].component = c /\ row[v].status = "active")
      BY <2>1 DEF ActiveRows, RowsOf
    <3> QED
      BY <2>2, <2>3, <2>4, <3>1
  <2>6. ActiveRows(c)' = {p}
    BY <2>2, <2>4, <2>5 DEF ActiveRows, RowsOf
  <2> QED
    BY <2>6, FS_Singleton
<1> QED
  BY <1>2, <1>3

\* Whatever overlapping requests and dead replicas left behind, a create or rollback
\* whose component nobody else writes meanwhile ends with exactly one active version.
THEOREM UndisturbedWritesHeal == WritesSpec => AnUndisturbedWriteHeals
<1>1. HealInvariant /\ [WritesNext]_writeVars => HealInvariant'
  BY HealInvariantStep
<1>2. ASSUME HealInvariant, NEW r \in alone, NEW c \in Components,
             InsertVersion(r) \/ ReactivatePrevious(r), On(r, c)
      PROVE  Cardinality(ActiveRows(c)') = 1
  BY <1>2, LastStatementLeavesOne DEF HealInvariant
<1>3. HealInvariant /\ [WritesNext]_writeVars
      => [ \A r \in alone, c \in Components :
             (InsertVersion(r) \/ ReactivatePrevious(r)) /\ On(r, c)
             => Cardinality(ActiveRows(c)') = 1 ]_writeVars
  BY <1>2
<1> QED
  BY HealInvariantInit, <1>1, <1>3, PTL DEF WritesSpec, AnUndisturbedWriteHeals

\* Releases are added at the end and keep their key: what the others have read stays so.
LEMMA KeysStep ==
    ASSUME KeysInvariant, NEW r \in Replicas, NEW next, task' = [task EXCEPT ![r] = next],
           release' \in Seq(Release), Len(release) <= Len(release'),
           \A i \in 1 .. Len(release) : release'[i].key = release[i].key,
           HasRead(next)', KeysRepeatOnlyByOverlap'
    PROVE  KeysInvariant'
<1>1. /\ DOMAIN task' = Replicas /\ task'[r] = next
      /\ \A q \in Replicas \ {r} : task'[q] = task[q]
  BY DEF KeysInvariant
<1>2. Len(release) \in Nat /\ Len(release') \in Nat
  BY DEF KeysInvariant
<1>3. \A t : HasRead(t) => HasRead(t)'
  BY <1>2 DEF HasRead
<1>4. ASSUME NEW q \in Replicas
      PROVE  HasRead(task[q])'
  <2>1. PICK t : t = task'[q]
    OBVIOUS
  <2>2. HasRead(t)'
    BY <1>1, <1>3, <2>1 DEF KeysInvariant
  <2> QED
    BY <2>1, <2>2 DEF HasRead
<1> QED
  BY <1>1, <1>4 DEF KeysInvariant

\* A request that adds no release: at most the pins of one grow.
LEMMA NoNewRelease ==
    ASSUME KeysInvariant, NEW r \in Replicas, NEW next, task' = [task EXCEPT ![r] = next],
           release' \in Seq(Release), DOMAIN release' = DOMAIN release,
           \A i \in DOMAIN release :
              release'[i].key = release[i].key /\ release'[i].asked = release[i].asked,
           HasRead(next)
    PROVE  KeysInvariant'
<1>1. release \in Seq(Release)
  BY DEF KeysInvariant
<1>2. Len(release') = Len(release) /\ Len(release) \in Nat /\ DOMAIN release = 1 .. Len(release)
  BY <1>1
<1>3. HasRead(next)'
  BY <1>2 DEF HasRead
<1>4. KeysRepeatOnlyByOverlap'
  BY DEF KeysInvariant, KeysRepeatOnlyByOverlap
<1>5. /\ Len(release) <= Len(release')
      /\ \A i \in 1 .. Len(release) : release'[i].key = release[i].key
  BY <1>2
<1> QED
  BY <1>3, <1>4, <1>5, KeysStep

\* A step that touches neither a release nor what a cut has read.
LEMMA NotACut ==
    ASSUME KeysInvariant, NEW r \in Replicas, NEW next, task' = [task EXCEPT ![r] = next],
           UNCHANGED release,
           next.at \notin {"readActive", "readLatest", "insertRelease", "insertPins"}
    PROVE  KeysInvariant'
<1>1. HasRead(next)
  BY DEF HasRead
<1>2. release' \in Seq(Release) /\ release' = release
  BY DEF KeysInvariant
<1> QED
  BY <1>1, <1>2, NoNewRelease

LEMMA CutsKeepKeys ==
    ASSUME KeysInvariant, HealInvariant, NEW r \in Replicas,
           \/ \E key \in Keys \cup {NoKey} : LookUpKey(r, key)
           \/ ReadActive(r) \/ ReadLatest(r) \/ InsertRelease(r) \/ InsertPin(r)
    PROVE  KeysInvariant'
<1>1. release \in Seq(Release) /\ HasRead(task[r]) /\ Len(release) \in Nat
  BY DEF KeysInvariant
<1>2. HasRead(Waiting) /\ Waiting.at = "waiting"
  BY DEF HasRead, Waiting
<1>3. ASSUME NEW next, UNCHANGED release, task' = [task EXCEPT ![r] = next], HasRead(next)
      PROVE  KeysInvariant'
  BY <1>1, <1>3, NoNewRelease
<1>4. ASSUME NEW key \in Keys \cup {NoKey}, LookUpKey(r, key)
      PROVE  KeysInvariant'
  <2>1. PICK next : next = [at |-> "readActive", key |-> key, asked |-> Len(release)]
    OBVIOUS
  <2>2. next.at = "readActive" /\ next.key = key /\ next.asked = Len(release)
    BY <2>1
  <2>3. \A i \in 1 .. Len(release) : key # NoKey => release[i].key # key
    BY <1>1, <1>4 DEF LookUpKey, Replay
  <2>4. HasRead(next)
    BY <1>1, <2>2, <2>3 DEF HasRead
  <2> QED
    BY <1>3, <1>4, <2>1, <2>4 DEF LookUpKey, Turn
<1>5. CASE ReadActive(r)
  <2>1. CASE task' = [task EXCEPT ![r] = Waiting]
    BY <1>2, <1>3, <1>5, <2>1 DEF ReadActive
  <2>2. CASE task' # [task EXCEPT ![r] = Waiting]
    <3>1. PICK found : found = UNION {ActiveRows(c) : c \in Components}
      OBVIOUS
    <3>2. found \subseteq Nat
      BY <3>1 DEF ActiveRows, RowsOf, HealInvariant
    <3>3. PICK next : next = [at |-> "readLatest", key |-> task[r].key,
                              asked |-> task[r].asked, found |-> found]
      OBVIOUS
    <3>4. /\ next.at = "readLatest" /\ next.key = task[r].key
          /\ next.asked = task[r].asked /\ next.found = found
      BY <3>3
    <3>5. HasRead(next)
      BY <1>1, <1>5, <3>2, <3>4 DEF HasRead, ReadActive, Is
    <3> QED
      BY <1>3, <1>5, <2>2, <3>1, <3>3, <3>5 DEF ReadActive, Turn
  <2> QED
    BY <2>1, <2>2
<1>6. CASE ReadLatest(r)
  <2>1. PICK version : version = IF release = <<>> THEN 1
                                 ELSE release[Len(release)].version + 1
    OBVIOUS
  <2>2. version \in Nat
    <3>1. CASE release # <<>>
      <4>1. release[Len(release)] \in Release
        BY <1>1, <3>1
      <4> QED
        BY <2>1, <3>1, <4>1 DEF Release
    <3> QED
      BY <2>1, <3>1
  <2>3. PICK next : next = [at |-> "insertRelease", key |-> task[r].key,
                            asked |-> task[r].asked, found |-> task[r].found,
                            version |-> version]
    OBVIOUS
  <2>4. /\ next.at = "insertRelease" /\ next.key = task[r].key /\ next.version = version
        /\ next.asked = task[r].asked /\ next.found = task[r].found
    BY <2>3
  <2>5. HasRead(next)
    BY <1>1, <1>6, <2>2, <2>4 DEF HasRead, ReadLatest, Is
  <2> QED
    BY <1>3, <1>6, <2>1, <2>3, <2>5 DEF ReadLatest, Turn
<1>7. CASE InsertRelease(r)
  <2>1. PICK new : new = [key |-> task[r].key, asked |-> task[r].asked,
                          version |-> task[r].version, pins |-> {}]
    OBVIOUS
  <2>2. /\ new \in Release /\ new.key = task[r].key /\ new.asked = task[r].asked
        /\ task[r].at = "insertRelease"
    BY <1>1, <1>7, <2>1 DEF InsertRelease, Is, HasRead, Release
  <2>3. release' = Append(release, new)
    BY <1>7, <2>1 DEF InsertRelease
  <2>4. /\ release' \in Seq(Release) /\ Len(release') = Len(release) + 1
        /\ \A i \in 1 .. Len(release) : release'[i] = release[i]
        /\ release'[Len(release) + 1] = new
    BY <1>1, <2>2, <2>3
  <2>5. KeysRepeatOnlyByOverlap'
    <3>1. \A i \in 1 .. Len(release) :
             release[i].key = new.key /\ new.key # NoKey => new.asked < i
      BY <1>1, <2>2 DEF HasRead
    <3> QED
      BY <1>1, <2>4, <3>1 DEF KeysInvariant, KeysRepeatOnlyByOverlap
  <2>6. PICK next : next = [at |-> "insertPins", into |-> Len(release) + 1,
                            left |-> task[r].found]
    OBVIOUS
  <2>7. next.at = "insertPins" /\ next.left \subseteq Nat
    BY <1>1, <2>2, <2>6 DEF HasRead
  <2>8. HasRead(next)'
    BY <2>7 DEF HasRead
  <2>9. task' = [task EXCEPT ![r] = next]
    BY <1>7, <2>6 DEF InsertRelease, Turn
  <2>10. /\ Len(release) <= Len(release')
         /\ \A i \in 1 .. Len(release) : release'[i].key = release[i].key
    BY <1>1, <2>4
  <2> QED
    BY <2>4, <2>5, <2>8, <2>9, <2>10, KeysStep
<1>8. CASE InsertPin(r)
  <2>1. task[r].at = "insertPins" /\ task[r].left \subseteq Nat
    BY <1>1, <1>8 DEF InsertPin, Is, HasRead
  <2>2. PICK v \in task[r].left :
           /\ \/ UNCHANGED release
              \/ release' = [release EXCEPT ![task[r].into].pins = @ \cup {v}]
           /\ \/ task' = [task EXCEPT ![r] = Waiting]
              \/ task' = [task EXCEPT ![r] = [task[r] EXCEPT !.left = @ \ {v}]]
    BY <1>8 DEF InsertPin, Turn
  <2>3. /\ release' \in Seq(Release) /\ DOMAIN release' = DOMAIN release
        /\ \A i \in DOMAIN release :
              release'[i].key = release[i].key /\ release'[i].asked = release[i].asked
    <3>1. CASE UNCHANGED release
      BY <1>1, <3>1
    <3>2. CASE release' = [release EXCEPT ![task[r].into].pins = @ \cup {v}]
      <4>1. ASSUME NEW i \in DOMAIN release
            PROVE  /\ release'[i] \in Release
                   /\ release'[i].key = release[i].key /\ release'[i].asked = release[i].asked
        <5>1. PICK old \in Release : old = release[i]
          BY <1>1
        <5>2. release'[i] = old \/ release'[i] = [old EXCEPT !.pins = @ \cup {v}]
          BY <3>2, <5>1
        <5> QED
          BY <2>1, <5>1, <5>2 DEF Release
      <4>2. DOMAIN release' = 1 .. Len(release)
        BY <1>1, <3>2
      <4>3. release' \in [1 .. Len(release) -> Release]
        BY <1>1, <3>2, <4>1, <4>2
      <4> QED
        BY <1>1, <4>1, <4>2, <4>3
    <3> QED
      BY <2>2, <3>1, <3>2
  <2>4. PICK next : task' = [task EXCEPT ![r] = next] /\ HasRead(next)
    <3>1. CASE task' = [task EXCEPT ![r] = Waiting]
      BY <1>2, <3>1
    <3>2. CASE task' = [task EXCEPT ![r] = [task[r] EXCEPT !.left = @ \ {v}]]
      <4>1. PICK next : next = [task[r] EXCEPT !.left = @ \ {v}]
        OBVIOUS
      <4>2. next.at = "insertPins"
        BY <2>1, <4>1
      <4>3. next.left \subseteq Nat
        BY <2>1, <4>1
      <4> QED
        BY <3>2, <4>1, <4>2, <4>3 DEF HasRead
    <3> QED
      BY <2>2, <3>1, <3>2
  <2> QED
    BY <2>3, <2>4, NoNewRelease
<1> QED
  BY <1>4, <1>5, <1>6, <1>7, <1>8

LEMMA VersionWritesKeepKeys ==
    ASSUME KeysInvariant, HealInvariant, NEW r \in Replicas,
           \/ \E c \in Components : StartCreate(r, c)
           \/ InsertVersion(r)
           \/ \E t \in DOMAIN row : PickPrevious(r, t)
           \/ MarkRolledBack(r) \/ SupersedeOthers(r) \/ ReactivatePrevious(r)
           \/ Die(r)
    PROVE  KeysInvariant'
<1>1. UNCHANGED release
  BY DEF StartCreate, InsertVersion, PickPrevious, MarkRolledBack, SupersedeOthers,
         ReactivatePrevious, RollbackUpdate, Die
<1>2. PICK next : /\ task' = [task EXCEPT ![r] = next]
                  /\ next.at \in {"waiting", "insertVersion", "markRolledBack", "supersede",
                                  "reactivate"}
  <2>1. Waiting.at = "waiting"
    BY DEF Waiting
  <2>2. CASE InsertVersion(r) \/ ReactivatePrevious(r) \/ Die(r)
    BY <2>1, <2>2 DEF InsertVersion, ReactivatePrevious, RollbackUpdate, Die, Turn
  <2>3. ASSUME NEW c \in Components, StartCreate(r, c)
        PROVE  task' = [task EXCEPT ![r] = [at |-> "insertVersion", component |-> c]]
    BY <2>3 DEF StartCreate, Turn
  <2>4. ASSUME NEW t \in DOMAIN row, PickPrevious(r, t)
        PROVE  \E p : task' = [task EXCEPT ![r] =
                                 [at |-> "markRolledBack", component |-> row[t].component,
                                  target |-> t, previous |-> p]]
    BY <2>4 DEF PickPrevious, Turn
  <2>5. ASSUME MarkRolledBack(r) \/ SupersedeOthers(r)
        PROVE  \E at \in {"supersede", "reactivate"} :
                  /\ task' = [task EXCEPT ![r] = [task[r] EXCEPT !.at = at]]
                  /\ [task[r] EXCEPT !.at = at].at = at
    <3>1. "at" \in DOMAIN task[r]
      BY <2>5 DEF HealInvariant, MarkRolledBack, SupersedeOthers, RollbackUpdate, Is
    <3> QED
      BY <2>5, <3>1 DEF MarkRolledBack, SupersedeOthers, RollbackUpdate, Turn
  <2>6. CASE \E c \in Components : StartCreate(r, c)
    <3>1. PICK c : task' = [task EXCEPT ![r] = [at |-> "insertVersion", component |-> c]]
      BY <2>3, <2>6
    <3>2. PICK next : next = [at |-> "insertVersion", component |-> c]
      OBVIOUS
    <3>3. next.at = "insertVersion"
      BY <3>2
    <3> QED
      BY <3>1, <3>2, <3>3
  <2>7. CASE \E t \in DOMAIN row : PickPrevious(r, t)
    <3>1. PICK c, t, p : task' = [task EXCEPT ![r] =
                                     [at |-> "markRolledBack", component |-> c,
                                      target |-> t, previous |-> p]]
      BY <2>4, <2>7
    <3>2. PICK next : next = [at |-> "markRolledBack", component |-> c, target |-> t,
                              previous |-> p]
      OBVIOUS
    <3>3. next.at = "markRolledBack"
      BY <3>2
    <3> QED
      BY <3>1, <3>2, <3>3
  <2>8. CASE MarkRolledBack(r) \/ SupersedeOthers(r)
    BY <2>5, <2>8
  <2> QED
    BY <2>2, <2>6, <2>7, <2>8
<1> QED
  BY <1>1, <1>2, NotACut

\* Two releases of one key come of requests that overlapped.
THEOREM KeysRepeatOnlyByOverlapAlways == WritesSpec => []KeysRepeatOnlyByOverlap
<1>1. WritesInit => HealInvariant /\ KeysInvariant
  BY HealInvariantInit
     DEF WritesInit, KeysInvariant, Waiting, HasRead, KeysRepeatOnlyByOverlap, Release
<1>2. HealInvariant /\ KeysInvariant /\ [WritesNext]_writeVars
      => (HealInvariant /\ KeysInvariant)'
  <2> SUFFICES ASSUME HealInvariant, KeysInvariant, [WritesNext]_writeVars
               PROVE  KeysInvariant'
    BY HealInvariantStep
  <2>1. CASE UNCHANGED writeVars
    BY <2>1 DEF writeVars, KeysInvariant, HasRead, KeysRepeatOnlyByOverlap
  <2>2. ASSUME NEW r \in Replicas, WriterNext(r)
        PROVE  KeysInvariant'
    BY <2>2, CutsKeepKeys, VersionWritesKeepKeys DEF WriterNext
  <2> QED
    BY <2>1, <2>2 DEF WritesNext
<1>3. KeysInvariant => KeysRepeatOnlyByOverlap
  BY DEF KeysInvariant
<1> QED
  BY <1>1, <1>2, <1>3, PTL DEF WritesSpec

(***************************************************************************)
(* The migration.  The rename of the legacy table lets one boot through,   *)
(* ever; what that boot has inserted is in step with how far it is.        *)
(***************************************************************************)
Migrating == {"rebuild", "insert", "migrated"}

\* A boot among the inserts: the versions are those of the rows it has passed, and it
\* knows the product of every name.
Inserting(t) ==
    /\ named = "relational" /\ DOMAIN t = {"at", "next", "home"}
    /\ t.next \in 1 .. Len(LegacyRows) + 1 /\ Len(moved) = t.next - 1
    /\ \A i \in DOMAIN moved :
          /\ moved[i].row = i /\ moved[i].of \in DOMAIN products
          /\ products[moved[i].of] = LegacyRows[i].product
    /\ \A n \in DOMAIN t.home : t.home[n] \in DOMAIN products /\ products[t.home[n]] = n
    /\ \A i \in DOMAIN products : products[i] \in DOMAIN t.home

InStep(t) ==
    /\ t.at = "rebuild" => products = <<>> /\ moved = <<>>
    /\ t.at = "insert" => Inserting(t)
    /\ t.at = "migrated" => Whole

MigrationInvariant ==
    /\ DOMAIN boot = Boots
    /\ products \in Seq(LegacyNames) /\ moved \in Seq([row : Nat, of : Nat])
    /\ named \in {"legacy", "relational", "absent"}
    /\ ~archived => products = <<>> /\ moved = <<>>
    /\ archived => named # "legacy"
    /\ \A b \in Boots : boot[b].at \in Migrating =>
          archived /\ \A a \in Boots \ {b} : boot[a].at \notin Migrating
    /\ \A b \in Boots : InStep(boot[b])
    /\ NothingIsMigratedTwice

LEMMA MigrationStep ==
    ASSUME MigrationInvariant, NEW b \in Boots, NEW next, boot' = [boot EXCEPT ![b] = next],
           products' \in Seq(LegacyNames), moved' \in Seq([row : Nat, of : Nat]),
           named' \in {"legacy", "relational", "absent"},
           archived => archived', ~archived' => products' = <<>> /\ moved' = <<>>,
           archived' => named' # "legacy",
           next.at \in Migrating =>
              archived' /\ \A a \in Boots \ {b} : boot[a].at \notin Migrating,
           \/ \A t : InStep(t) => InStep(t)'
           \/ \A a \in Boots \ {b} : boot[a].at \notin Migrating,
           InStep(next)', NothingIsMigratedTwice'
    PROVE  MigrationInvariant'
<1>1. /\ DOMAIN boot' = Boots /\ boot'[b] = next
      /\ \A a \in Boots \ {b} : boot'[a] = boot[a]
  BY DEF MigrationInvariant
<1>2. ASSUME NEW a \in Boots
      PROVE  InStep(boot[a])'
  <2>1. PICK t : t = boot'[a]
    OBVIOUS
  <2>2. InStep(t)'
    <3>1. CASE a = b
      BY <1>1, <2>1, <3>1
    <3>2. CASE a # b /\ boot[a].at \notin Migrating
      BY <1>1, <2>1, <3>2 DEF InStep, Migrating
    <3>3. CASE a # b /\ boot[a].at \in Migrating
      BY <1>1, <2>1, <3>3 DEF MigrationInvariant
    <3> QED
      BY <3>1, <3>2, <3>3
  <2> QED
    BY <2>1, <2>2 DEF InStep, Inserting
<1>3. ASSUME NEW a \in Boots, boot'[a].at \in Migrating
      PROVE  archived' /\ \A c \in Boots \ {a} : boot'[c].at \notin Migrating
  <2>1. CASE a = b
    BY <1>1, <1>3, <2>1
  <2>2. CASE a # b
    BY <1>1, <1>3, <2>2 DEF MigrationInvariant
  <2> QED
    BY <2>1, <2>2
<1> QED
  BY <1>1, <1>2, <1>3 DEF MigrationInvariant

\* A boot that only looks, fails or stops; init_schema may make the table versions.
LEMMA QuietStep ==
    ASSUME MigrationInvariant, NEW b \in Boots, NEW next, boot' = [boot EXCEPT ![b] = next],
           next.at \notin Migrating, UNCHANGED <<archived, products, moved>>,
           UNCHANGED named \/ SchemaCreated
    PROVE  MigrationInvariant'
<1>1. \/ named' = named
      \/ named = "absent" /\ named' = "relational"
  BY DEF SchemaCreated
<1>2. \A t : InStep(t) => InStep(t)'
  BY <1>1 DEF InStep, Inserting, Whole
<1>3. InStep(next)'
  BY DEF InStep, Migrating
<1>4. NothingIsMigratedTwice'
  BY DEF MigrationInvariant, NothingIsMigratedTwice
<1>5. /\ products' \in Seq(LegacyNames) /\ moved' \in Seq([row : Nat, of : Nat])
      /\ named' \in {"legacy", "relational", "absent"}
      /\ ~archived' => products' = <<>> /\ moved' = <<>>
      /\ archived' => named' # "legacy"
  BY <1>1 DEF MigrationInvariant
<1> QED
  BY <1>2, <1>3, <1>4, <1>5, MigrationStep

LEMMA QuietActions ==
    ASSUME MigrationInvariant, NEW b \in Boots,
           \/ Boot(b) \/ Inspect(b) \/ ReadRows(b) \/ Stop(b)
           \/ Archive(b) /\ UNCHANGED named
    PROVE  MigrationInvariant'
<1>1. \A at \in {"inspect", "read", "serving", "archive"} :
         [at |-> at].at = at /\ at \notin Migrating
  BY DEF Migrating
<1>2. Down.at \notin Migrating
  BY DEF Down, Migrating
<1>3. CASE Boot(b)
  BY <1>1, <1>3, QuietStep DEF Boot, Step
<1>4. CASE Inspect(b)
  <2>1. PICK at \in {"read", "serving"} : boot' = [boot EXCEPT ![b] = [at |-> at]]
    BY <1>4 DEF Inspect, Step
  <2> QED
    BY <1>1, <1>4, <2>1, QuietStep DEF Inspect
<1>5. CASE ReadRows(b)
  <2>1. PICK next \in {Down, [at |-> "archive"]} : boot' = [boot EXCEPT ![b] = next]
    BY <1>5 DEF ReadRows, Step
  <2> QED
    BY <1>1, <1>2, <1>5, <2>1, QuietStep DEF ReadRows
<1>6. CASE Stop(b)
  BY <1>2, <1>6, QuietStep DEF Stop, Step
<1>7. CASE Archive(b) /\ UNCHANGED named
  BY <1>2, <1>7, QuietStep DEF Archive, Step
<1> QED
  BY <1>3, <1>4, <1>5, <1>6, <1>7

LEMMA ArchiveKeeps ==
    ASSUME MigrationInvariant, NEW b \in Boots, Archive(b), named' # named
    PROVE  MigrationInvariant'
<1>1. /\ ~archived /\ named' = "absent" /\ archived' = TRUE
      /\ boot' = [boot EXCEPT ![b] = [at |-> "rebuild"]] /\ UNCHANGED <<products, moved>>
  BY DEF Archive, Step
<1>2. /\ products = <<>> /\ moved = <<>>
      /\ \A a \in Boots : boot[a].at \notin Migrating
  BY <1>1 DEF MigrationInvariant
<1>3. PICK next : next = [at |-> "rebuild"]
  OBVIOUS
<1>4. next.at = "rebuild"
  BY <1>3
<1>5. InStep(next)' /\ NothingIsMigratedTwice'
  BY <1>1, <1>2, <1>4 DEF InStep, MigrationInvariant, NothingIsMigratedTwice
<1>6. products' \in Seq(LegacyNames) /\ moved' \in Seq([row : Nat, of : Nat])
  BY <1>1 DEF MigrationInvariant
<1> QED
  BY <1>1, <1>2, <1>3, <1>5, <1>6, MigrationStep

\* What the one migrating boot may rely on.
LEMMA AloneMigrating ==
    ASSUME MigrationInvariant, NEW b \in Boots, boot[b].at \in Migrating
    PROVE  /\ archived /\ \A a \in Boots \ {b} : boot[a].at \notin Migrating
           /\ products \in Seq(LegacyNames) /\ moved \in Seq([row : Nat, of : Nat])
           /\ InStep(boot[b]) /\ NothingIsMigratedTwice
           /\ named \in {"relational", "absent"}
BY DEF MigrationInvariant

LEMMA RebuildKeeps ==
    ASSUME MigrationInvariant, NEW b \in Boots, Rebuild(b)
    PROVE  MigrationInvariant'
<1>1. boot[b].at = "rebuild" /\ boot[b].at \in Migrating
  BY DEF Rebuild, Migrating
<1>2. named' = "relational" /\ UNCHANGED <<archived, products, moved>>
  BY <1>1, AloneMigrating DEF Rebuild, SchemaCreated
<1>3. products = <<>> /\ moved = <<>>
  BY <1>1, AloneMigrating DEF InStep
<1>4. PICK next : next = [at |-> "insert", next |-> 1, home |-> [n \in {} |-> 0]]
  OBVIOUS
<1>5. /\ next.at = "insert" /\ next.next = 1 /\ DOMAIN next.home = {}
      /\ DOMAIN next = {"at", "next", "home"}
  BY <1>4
<1>6. InStep(next)'
  BY <1>2, <1>3, <1>5, MigrationAssumption DEF InStep, Inserting
<1>7. NothingIsMigratedTwice'
  BY <1>1, <1>2, AloneMigrating DEF NothingIsMigratedTwice
<1>8. boot' = [boot EXCEPT ![b] = next]
  BY <1>4 DEF Rebuild, Step
<1> QED
  BY <1>1, <1>2, <1>6, <1>7, <1>8, AloneMigrating, MigrationStep

LEMMA CreateProductKeeps ==
    ASSUME MigrationInvariant, NEW b \in Boots, CreateProduct(b)
    PROVE  MigrationInvariant'
<1>1. boot[b].at = "insert" /\ boot[b].at \in Migrating
  BY DEF CreateProduct, Migrating
<1>2. PICK t : t = boot[b] /\ Inserting(t)
  BY <1>1, AloneMigrating DEF InStep
<1>3. PICK name : name = LegacyRows[t.next].product
  OBVIOUS
<1>4. /\ products' = Append(products, name) /\ UNCHANGED <<named, archived, moved>>
      /\ name \in LegacyNames /\ name \notin DOMAIN t.home
  BY <1>2, <1>3 DEF CreateProduct, LegacyNames
<1>5. PICK home : home = [n \in DOMAIN t.home \cup {name} |->
                             IF n = name THEN Len(products) + 1 ELSE t.home[n]]
  OBVIOUS
<1>6. PICK next : next = [t EXCEPT !.home = home]
  OBVIOUS
<1>7. boot' = [boot EXCEPT ![b] = next]
  BY <1>2, <1>3, <1>5, <1>6 DEF CreateProduct, Step
<1>8. /\ next.at = "insert" /\ next.next = t.next /\ next.home = home
      /\ DOMAIN next = {"at", "next", "home"}
  BY <1>1, <1>2, <1>6 DEF Inserting
<1>9. /\ products \in Seq(LegacyNames) /\ products' \in Seq(LegacyNames)
      /\ DOMAIN products' = DOMAIN products \cup {Len(products) + 1}
      /\ \A i \in DOMAIN products : products'[i] = products[i]
      /\ products'[Len(products) + 1] = name /\ Len(products) + 1 \notin DOMAIN products
  BY <1>1, <1>4, AloneMigrating
<1>10. InStep(next)'
  <2>1. \A n \in DOMAIN home : home[n] \in DOMAIN products' /\ products'[home[n]] = n
    BY <1>2, <1>5, <1>9 DEF Inserting
  <2>2. \A i \in DOMAIN products' : products'[i] \in DOMAIN home
    BY <1>2, <1>5, <1>9 DEF Inserting
  <2>3. \A i \in DOMAIN moved' :
           /\ moved'[i].row = i /\ moved'[i].of \in DOMAIN products'
           /\ products'[moved'[i].of] = LegacyRows[i].product
    BY <1>2, <1>4, <1>9 DEF Inserting
  <2>4. /\ named' = "relational" /\ t.next \in 1 .. Len(LegacyRows) + 1
        /\ Len(moved') = t.next - 1
    BY <1>2, <1>4 DEF Inserting
  <2> QED
    BY <1>8, <2>1, <2>2, <2>3, <2>4 DEF InStep, Inserting
<1>11. NothingIsMigratedTwice'
  <2>1. \A i \in DOMAIN products : products[i] # name
    BY <1>2, <1>4 DEF Inserting
  <2>2. NothingIsMigratedTwice
    BY <1>1, AloneMigrating
  <2> QED
    BY <1>4, <1>9, <2>1, <2>2 DEF NothingIsMigratedTwice
<1> QED
  BY <1>1, <1>4, <1>7, <1>9, <1>10, <1>11, AloneMigrating, MigrationStep

LEMMA InsertVersionRowKeeps ==
    ASSUME MigrationInvariant, NEW b \in Boots, InsertVersionRow(b)
    PROVE  MigrationInvariant'
<1>1. boot[b].at = "insert" /\ boot[b].at \in Migrating
  BY DEF InsertVersionRow, Migrating
<1>2. PICK t : t = boot[b] /\ Inserting(t)
  BY <1>1, AloneMigrating DEF InStep
<1>3. PICK p, k : p = t.home[LegacyRows[t.next].product] /\ k = t.next
  OBVIOUS
<1>4. /\ p \in DOMAIN products /\ products[p] = LegacyRows[k].product
      /\ k \in DOMAIN LegacyRows /\ Len(moved) = k - 1
  BY <1>2, <1>3 DEF InsertVersionRow, Inserting
<1>5. PICK new : new = [row |-> k, of |-> p]
  OBVIOUS
<1>6. /\ moved' = Append(moved, new) /\ UNCHANGED <<named, archived, products>>
      /\ boot' = [boot EXCEPT ![b] = [t EXCEPT !.next = @ + 1]]
  BY <1>2, <1>3, <1>5 DEF InsertVersionRow, Step
<1>7. PICK next : next = [t EXCEPT !.next = @ + 1]
  OBVIOUS
<1>8. /\ next.at = "insert" /\ next.next = k + 1 /\ next.home = t.home
      /\ DOMAIN next = {"at", "next", "home"}
  BY <1>1, <1>2, <1>3, <1>7 DEF Inserting
<1>9. products \in Seq(LegacyNames) /\ moved \in Seq([row : Nat, of : Nat])
  BY <1>1, AloneMigrating
<1>10. new \in [row : Nat, of : Nat] /\ new.row = k /\ new.of = p
  BY <1>4, <1>5, <1>9, MigrationAssumption
<1>11. /\ moved' \in Seq([row : Nat, of : Nat]) /\ Len(moved') = k
       /\ DOMAIN moved' = DOMAIN moved \cup {k} /\ k \notin DOMAIN moved
       /\ \A i \in DOMAIN moved : moved'[i] = moved[i]
       /\ moved'[k] = new
  BY <1>4, <1>6, <1>9, <1>10, MigrationAssumption
<1>12. \A i \in DOMAIN moved' :
          /\ moved'[i].row = i /\ moved'[i].of \in DOMAIN products
          /\ products[moved'[i].of] = LegacyRows[i].product
  BY <1>2, <1>4, <1>10, <1>11 DEF Inserting
<1>13. k + 1 \in 1 .. Len(LegacyRows) + 1 /\ k = (k + 1) - 1
  BY <1>4, MigrationAssumption
<1>14. InStep(next)'
  BY <1>2, <1>6, <1>8, <1>11, <1>12, <1>13 DEF InStep, Inserting
<1>15. NothingIsMigratedTwice'
  <2>1. NothingIsMigratedTwice /\ products' = products
    BY <1>1, <1>6, AloneMigrating
  <2>2. \A i, j \in DOMAIN products' : products'[i] = products'[j] => i = j
    BY <2>1 DEF NothingIsMigratedTwice
  <2>3. \A i, j \in DOMAIN moved' : moved'[i].row = moved'[j].row => i = j
    BY <1>12
  <2> QED
    BY <2>2, <2>3 DEF NothingIsMigratedTwice
<1>16. boot' = [boot EXCEPT ![b] = next]
  BY <1>6, <1>7
<1> QED
  BY <1>1, <1>6, <1>9, <1>11, <1>14, <1>15, <1>16, AloneMigrating, MigrationStep

LEMMA ServeKeeps ==
    ASSUME MigrationInvariant, NEW b \in Boots, Serve(b)
    PROVE  MigrationInvariant'
<1>1. boot[b].at = "insert" /\ boot[b].at \in Migrating
  BY DEF Serve, Migrating
<1>2. PICK t : t = boot[b] /\ Inserting(t)
  BY <1>1, AloneMigrating DEF InStep
<1>3. moved \in Seq([row : Nat, of : Nat]) /\ t.next \notin DOMAIN LegacyRows
  BY <1>1, <1>2, AloneMigrating DEF Serve
<1>4. Len(moved) = Len(LegacyRows)
  BY <1>2, <1>3, MigrationAssumption DEF Inserting
<1>5. DOMAIN LegacyRows = DOMAIN moved
  BY <1>3, <1>4, MigrationAssumption
<1>6. Whole
  BY <1>2, <1>5 DEF Whole, Inserting
<1>7. PICK next : next = [at |-> "migrated"]
  OBVIOUS
<1>8. UNCHANGED <<named, archived, products, moved>> /\ boot' = [boot EXCEPT ![b] = next]
  BY <1>7 DEF Serve, Step
<1>9. InStep(next)'
  BY <1>6, <1>7, <1>8 DEF InStep, Whole
<1>10. NothingIsMigratedTwice'
  BY <1>1, <1>8, AloneMigrating DEF NothingIsMigratedTwice
<1> QED
  BY <1>1, <1>8, <1>9, <1>10, AloneMigrating, MigrationStep

LEMMA MigrationInvariantHolds == MigrationSpec => []MigrationInvariant
<1>1. MigrationInit => MigrationInvariant
  BY DEF MigrationInit, MigrationInvariant, InStep, Down, Migrating, NothingIsMigratedTwice
<1>2. MigrationInvariant /\ [MigrationNext]_migrationVars => MigrationInvariant'
  <2> SUFFICES ASSUME MigrationInvariant, [MigrationNext]_migrationVars
               PROVE  MigrationInvariant'
    OBVIOUS
  <2>1. CASE UNCHANGED migrationVars
    BY <2>1 DEF migrationVars, MigrationInvariant, InStep, Inserting, Whole,
                NothingIsMigratedTwice
  <2>2. ASSUME NEW b \in Boots, Archive(b)
        PROVE  MigrationInvariant'
    BY <2>2, QuietActions, ArchiveKeeps
  <2>3. ASSUME NEW b \in Boots,
               \/ Boot(b) \/ Inspect(b) \/ ReadRows(b) \/ Rebuild(b) \/ CreateProduct(b)
               \/ InsertVersionRow(b) \/ Serve(b) \/ Stop(b)
        PROVE  MigrationInvariant'
    BY <2>3, QuietActions, RebuildKeeps, CreateProductKeeps, InsertVersionRowKeeps, ServeKeeps
  <2> QED
    BY <2>1, <2>2, <2>3 DEF MigrationNext
<1> QED
  BY <1>1, <1>2, PTL DEF MigrationSpec

\* No legacy row becomes two versions and no name two products, at any number of
\* replicas that boot, die and boot again.
THEOREM NothingIsMigratedTwiceEver == MigrationSpec => []NothingIsMigratedTwice
<1>1. MigrationInvariant => NothingIsMigratedTwice
  BY DEF MigrationInvariant
<1> QED
  BY <1>1, MigrationInvariantHolds, PTL

\* What a step of one boot leaves of the others.
LEMMA NoRowIsLeft ==
    ASSUME MigrationInvariant, MigrationInvariant', OnlyABrokenOffBootStrandsRows,
           [MigrationNext]_migrationVars
    PROVE  OnlyABrokenOffBootStrandsRows'
<1>1. CASE UNCHANGED migrationVars
  BY <1>1 DEF migrationVars, OnlyABrokenOffBootStrandsRows, Whole, Moving
<1>2. ASSUME NEW b \in Boots, NEW next, boot' = [boot EXCEPT ![b] = next]
      PROVE  boot'[b] = next /\ \A a \in Boots \ {b} : boot'[a] = boot[a]
  BY <1>2 DEF MigrationInvariant
\* A boot that has not renamed the table, or is through, takes nothing from it.
<1>3. ASSUME NEW b \in Boots, NEW next, boot' = [boot EXCEPT ![b] = next], ~Moving(b),
             brokenOff => brokenOff', UNCHANGED <<archived, products, moved>>,
             UNCHANGED named \/ SchemaCreated
      PROVE  OnlyABrokenOffBootStrandsRows'
  <2>1. named # "absent" => named' = named
    BY <1>3 DEF SchemaCreated
  <2>2. Whole => Whole'
    BY <1>3, <2>1 DEF Whole
  <2>3. \A a \in Boots : Moving(a) => Moving(a)'
    BY <1>2, <1>3 DEF Moving
  <2> QED
    BY <1>3, <2>1, <2>2, <2>3 DEF OnlyABrokenOffBootStrandsRows
<1>4. ASSUME NEW b \in Boots, Moving(b)', archived'
      PROVE  OnlyABrokenOffBootStrandsRows'
  BY <1>4 DEF OnlyABrokenOffBootStrandsRows
<1>5. ASSUME NEW b \in Boots, Boot(b) \/ Inspect(b) \/ ReadRows(b)
      PROVE  OnlyABrokenOffBootStrandsRows'
  <2>1. ~Moving(b)
    BY <1>5 DEF Boot, Inspect, ReadRows, Moving, Down
  <2>2. CASE Boot(b)
    BY <1>3, <2>1, <2>2 DEF Boot, Step
  <2>3. CASE Inspect(b)
    BY <1>3, <2>1, <2>3 DEF Inspect, Step
  <2>4. CASE ReadRows(b)
    BY <1>3, <2>1, <2>4 DEF ReadRows, Step
  <2> QED
    BY <1>5, <2>2, <2>3, <2>4
<1>6. ASSUME NEW b \in Boots, Archive(b)
      PROVE  OnlyABrokenOffBootStrandsRows'
  <2>1. CASE boot' = [boot EXCEPT ![b] = [at |-> "rebuild"]] /\ archived'
    <3>1. boot'[b] = [at |-> "rebuild"]
      BY <1>2, <2>1
    <3> QED
      BY <1>4, <2>1, <3>1 DEF Moving
  <2>2. CASE boot' = [boot EXCEPT ![b] = Down] /\ UNCHANGED <<named, archived>>
    <3>1. ~Moving(b) /\ UNCHANGED <<products, moved, brokenOff>>
      BY <1>6 DEF Archive, Moving, Step
    <3> QED
      BY <1>3, <2>2, <3>1
  <2> QED
    BY <1>6, <2>1, <2>2 DEF Archive, Step
<1>7. ASSUME NEW b \in Boots, Rebuild(b) \/ CreateProduct(b) \/ InsertVersionRow(b)
      PROVE  OnlyABrokenOffBootStrandsRows'
  <2>1. archived'
    <3>1. boot[b].at \in Migrating /\ archived' = archived
      BY <1>7 DEF Rebuild, CreateProduct, InsertVersionRow, Migrating
    <3> QED
      BY <3>1, AloneMigrating
  <2>2. Moving(b)'
    <3>1. CASE Rebuild(b)
      <4>1. boot'[b] = [at |-> "insert", next |-> 1, home |-> [n \in {} |-> 0]]
        BY <1>2, <3>1 DEF Rebuild, Step
      <4> QED
        BY <4>1 DEF Moving
    <3>2. CASE CreateProduct(b) \/ InsertVersionRow(b)
      <4>1. boot[b].at = "insert" /\ DOMAIN boot[b] = {"at", "next", "home"}
        BY <3>2 DEF CreateProduct, InsertVersionRow, MigrationInvariant, InStep, Inserting
      <4>2. PICK home, next :
               \/ boot' = [boot EXCEPT ![b] = [boot[b] EXCEPT !.home = home]]
               \/ boot' = [boot EXCEPT ![b] = [boot[b] EXCEPT !.next = next]]
        BY <3>2 DEF CreateProduct, InsertVersionRow, Step
      <4>3. \/ boot'[b] = [boot[b] EXCEPT !.home = home]
            \/ boot'[b] = [boot[b] EXCEPT !.next = next]
        BY <1>2, <4>2
      <4> QED
        BY <4>1, <4>3 DEF Moving
    <3> QED
      BY <1>7, <3>1, <3>2
  <2> QED
    BY <1>4, <2>1, <2>2
<1>8. ASSUME NEW b \in Boots, Serve(b)
      PROVE  OnlyABrokenOffBootStrandsRows'
  <2>1. boot'[b] = [at |-> "migrated"]
    BY <1>2, <1>8 DEF Serve, Step
  <2>2. archived' /\ Whole'
    BY <2>1 DEF MigrationInvariant, InStep, Migrating
  <2> QED
    BY <2>2 DEF OnlyABrokenOffBootStrandsRows
<1>9. ASSUME NEW b \in Boots, Stop(b)
      PROVE  OnlyABrokenOffBootStrandsRows'
  <2>1. CASE Moving(b)
    <3>1. boot[b].at \in Migrating /\ archived' = archived /\ brokenOff'
      BY <1>9, <2>1 DEF Stop, Moving, Migrating
    <3> QED
      BY <3>1, AloneMigrating DEF OnlyABrokenOffBootStrandsRows
  <2>2. CASE ~Moving(b)
    BY <1>3, <1>9, <2>2 DEF Stop
  <2> QED
    BY <2>1, <2>2
<1> QED
  BY <1>1, <1>5, <1>6, <1>7, <1>8, <1>9 DEF MigrationNext

\* However many replicas boot, race and die on the legacy database, every legacy row is
\* kept where it was, being moved, or moved, unless a boot broke off on its way.
THEOREM OnlyABrokenOffBootStrandsRowsAlways ==
    MigrationSpec => []OnlyABrokenOffBootStrandsRows
<1>1. MigrationInit => OnlyABrokenOffBootStrandsRows
  BY DEF MigrationInit, OnlyABrokenOffBootStrandsRows
<1>2. /\ MigrationInvariant /\ MigrationInvariant' /\ OnlyABrokenOffBootStrandsRows
      /\ [MigrationNext]_migrationVars
      => OnlyABrokenOffBootStrandsRows'
  BY NoRowIsLeft
<1> QED
  BY <1>1, <1>2, MigrationInvariantHolds, PTL DEF MigrationSpec
=============================================================================
