--------------------------- MODULE GraphWalkProofs ---------------------------
(***************************************************************************)
(* The two walks over dependency edges answer correctly on every finite    *)
(* edge list and for every order of the rows: the search of is_reachable,  *)
(* whose loop invariant SearchInvariant is inductive as it stands, and the *)
(* memoised recursion of effective_levels, about whose call stack three    *)
(* invariants are proved in turn: its shape, the bounds of the levels in   *)
(* it and, on graphs without cycles, what these levels are.                *)
(***************************************************************************)
EXTENDS ReachabilitySearch, LevelWalk, CommonLemmas

\* What a list holds.
ElementsOf(s) == {s[i] : i \in DOMAIN s}

\* Popping takes the last node off the stack and leaves the others.
LEMMA PopTakesTop ==
    ASSUME NEW S, NEW s \in Seq(S), s # <<>>
    PROVE  LET rest == SubSeq(s, 1, Len(s) - 1)
           IN  /\ rest \in Seq(S)
               /\ s[Len(s)] \in S
               /\ ElementsOf(s) = ElementsOf(rest) \cup {s[Len(s)]}
<1> DEFINE rest == SubSeq(s, 1, Len(s) - 1)
<1>1. Len(s) \in Nat \ {0} /\ DOMAIN s = 1 .. Len(s)
  OBVIOUS
<1>2. rest \in Seq(S) /\ DOMAIN rest = 1 .. Len(s) - 1 /\ \A i \in DOMAIN rest : rest[i] = s[i]
  BY <1>1
<1>3. 1 .. Len(s) = (1 .. Len(s) - 1) \cup {Len(s)}
  BY <1>1
<1>4. ElementsOf(s) = ElementsOf(rest) \cup {s[Len(s)]}
  BY <1>1, <1>2, <1>3 DEF ElementsOf
<1> QED
  BY <1>1, <1>2, <1>4

\* Pushing a list adds its elements.
LEMMA PushAddsElements ==
    ASSUME NEW S, NEW s \in Seq(S), NEW t \in Seq(S)
    PROVE  s \o t \in Seq(S) /\ ElementsOf(s \o t) = ElementsOf(s) \cup ElementsOf(t)
<1>1. /\ s \o t \in Seq(S)
      /\ DOMAIN (s \o t) = 1 .. Len(s) + Len(t)
      /\ \A i \in 1 .. Len(s) : (s \o t)[i] = s[i]
      /\ \A i \in 1 .. Len(t) : (s \o t)[Len(s) + i] = t[i]
  OBVIOUS
<1>2. ElementsOf(s \o t) \subseteq ElementsOf(s) \cup ElementsOf(t)
  <2> SUFFICES ASSUME NEW i \in 1 .. Len(s) + Len(t)
               PROVE  (s \o t)[i] \in ElementsOf(s) \cup ElementsOf(t)
    BY <1>1 DEF ElementsOf
  <2>1. CASE i <= Len(s)
    BY <1>1, <2>1 DEF ElementsOf
  <2>2. CASE i > Len(s)
    <3>1. i - Len(s) \in 1 .. Len(t) /\ i = Len(s) + (i - Len(s))
      BY <2>2
    <3> QED
      BY <1>1, <3>1 DEF ElementsOf
  <2> QED
    BY <2>1, <2>2
<1>3. ElementsOf(s) \subseteq ElementsOf(s \o t)
  <2> SUFFICES ASSUME NEW i \in 1 .. Len(s) PROVE s[i] \in ElementsOf(s \o t)
    BY DEF ElementsOf
  <2>1. i \in 1 .. Len(s) + Len(t)
    OBVIOUS
  <2> QED
    BY <1>1, <2>1 DEF ElementsOf
<1>4. ElementsOf(t) \subseteq ElementsOf(s \o t)
  <2> SUFFICES ASSUME NEW i \in 1 .. Len(t) PROVE t[i] \in ElementsOf(s \o t)
    BY DEF ElementsOf
  <2>1. Len(s) + i \in 1 .. Len(s) + Len(t)
    OBVIOUS
  <2> QED
    BY <1>1, <2>1 DEF ElementsOf
<1> QED
  BY <1>1, <1>2, <1>3, <1>4

\* A listing of a set of nodes is a list of exactly that set.
LEMMA ListingsListAll ==
    ASSUME NEW S \in SUBSET Nodes, NEW l \in Listings(S)
    PROVE  l \in Seq(Nodes) /\ ElementsOf(l) = S
<1>1. Cardinality(S) \in Nat
  BY SearchAssumption, FS_Subset, FS_CardinalityType
<1> QED
  BY <1>1 DEF Listings, ElementsOf
-----------------------------------------------------------------------------
LEMMA SearchInvariantInit == SearchInit(SUBSET (Nodes \X Nodes)) => SearchInvariant
<1> SUFFICES ASSUME SearchInit(SUBSET (Nodes \X Nodes)) PROVE SearchInvariant
  OBVIOUS
<1>1. Pending = {start}
  BY DEF SearchInit, Pending
<1>2. PathExists(start, start)
  BY DEF PathExists
<1> QED
  BY <1>1, <1>2 DEF SearchInit, SearchInvariant

\* A successor of a node that can be reached can be reached.
LEMMA PathsExtend ==
    ASSUME NEW a, NEW e \in graph, PathExists(a, e[1])
    PROVE  PathExists(a, e[2])
BY DEF PathExists

LEMMA SearchInvariantStep ==
    ASSUME SearchInvariant, [SearchNext]_searchVars
    PROVE  SearchInvariant'
<1> USE DEF SearchInvariant
<1>1. CASE UNCHANGED searchVars
  BY <1>1 DEF searchVars, PathExists, Pending
<1>2. CASE SearchNext
  <2>1. graph' = graph /\ start' = start /\ target' = target
    BY <1>2 DEF SearchNext
  <2>2. \A n : PathExists(start, n)' <=> PathExists(start, n)
    BY <2>1 DEF PathExists
  <2>3. ASSUME stack # <<>>
        PROVE  /\ Rest \in Seq(Nodes) /\ Top \in Nodes
               /\ Pending = ElementsOf(Rest) \cup {Top}
    BY <2>3, PopTakesTop DEF Rest, Top, Pending, ElementsOf
  <2>4. Pending' = ElementsOf(stack')
    BY DEF Pending, ElementsOf
  <2>5. CASE Find
    <3>1. Pending' \subseteq Pending /\ stack' \in Seq(Nodes)
      BY <2>3, <2>4, <2>5 DEF Find
    <3>2. PathExists(start, target)
      BY <2>3, <2>5 DEF Find
    <3> QED
      BY <2>1, <2>2, <2>5, <3>1, <3>2 DEF Find
  <2>6. CASE Skip
    <3>1. /\ stack' \in Seq(Nodes)
          /\ Pending = Pending' \cup {Top} /\ Top \in seen
      BY <2>3, <2>4, <2>6 DEF Skip
    <3> QED
      BY <2>1, <2>2, <2>6, <3>1 DEF Skip
  <2>7. CASE Expand
    <3>1. PICK l \in Listings(Neighbours(Top)) : stack' = Rest \o l
      BY <2>7 DEF Expand
    <3>2. Neighbours(Top) \subseteq Nodes
      BY DEF Neighbours
    <3>3. /\ stack' \in Seq(Nodes)
          /\ Pending' = ElementsOf(Rest) \cup Neighbours(Top)
      BY <2>3, <2>4, <2>7, <3>1, <3>2, ListingsListAll, PushAddsElements DEF Expand
    <3>4. \A n \in Neighbours(Top) : PathExists(start, n)
      BY <2>3, <2>7, PathsExtend DEF Neighbours, Expand
    <3>5. \A n \in seen' \cup Pending' : PathExists(start, n)
      BY <2>3, <2>7, <3>3, <3>4 DEF Expand
    <3>6. \A e \in graph : e[1] \in seen' => e[2] \in seen' \cup Pending'
      BY <2>3, <2>7, <3>3 DEF Expand, Neighbours
    <3>7. seen' \subseteq Nodes /\ start \in seen' \cup Pending' /\ target \notin seen'
      BY <2>3, <2>7, <3>3 DEF Expand
    <3> QED
      BY <2>1, <2>2, <2>7, <3>3, <3>5, <3>6, <3>7 DEF Expand
  <2>8. CASE GiveUp
    BY <2>1, <2>2, <2>8 DEF GiveUp, Pending
  <2> QED
    BY <1>2, <2>5, <2>6, <2>7, <2>8 DEF SearchNext
<1> QED
  BY <1>1, <1>2

\* The loop invariant holds on every edge list, cyclic ones included.
THEOREM SearchInvariantAlways == SearchSpec => []SearchInvariant
<1>1. SearchInvariant /\ [SearchNext]_searchVars => SearchInvariant'
  BY SearchInvariantStep
<1> QED
  BY SearchInvariantInit, <1>1, PTL DEF SearchSpec

\* When is_reachable returns, it returns True exactly when there is a path.
THEOREM SearchIsCorrect == SearchSpec => []AnswerIsReachability
<1>1. SearchInvariant => AnswerIsReachability
  <2> SUFFICES ASSUME SearchInvariant, answer = "unreachable"
               PROVE  ~PathExists(start, target)
    BY DEF SearchInvariant, AnswerIsReachability
  <2>1. Pending = {}
    BY DEF SearchInvariant, Pending
  <2>2. seen \in SUBSET Nodes /\ start \in seen /\ target \notin seen
    BY <2>1 DEF SearchInvariant
  <2>3. \A e \in graph : e[1] \in seen => e[2] \in seen
    BY <2>1 DEF SearchInvariant
  <2> QED
    BY <2>2, <2>3 DEF PathExists
<1> QED
  BY <1>1, SearchInvariantAlways, PTL
-----------------------------------------------------------------------------
(***************************************************************************)
(* The level walk: the call stack.                                         *)
(***************************************************************************)
FrameRow == [node : Components, left : SUBSET Components, level : Levels]

\* A frame is on the stack for every node being visited and no other; each was
\* entered once, has not finished, and waits for dependencies of its node only.
StackInvariant ==
    /\ edges \subseteq Components \X Components
    /\ DOMAIN own \subseteq Components /\ OwnLevelsTyped(own)
    /\ calls \in Seq(FrameRow)
    /\ visiting = {calls[i].node : i \in DOMAIN calls}
    /\ \A i, j \in DOMAIN calls : calls[i].node = calls[j].node => i = j
    /\ Len(calls) = Cardinality(visiting)
    /\ visiting \subseteq AllNodes
    /\ visiting \cap DOMAIN memo = {}
    /\ DOMAIN memo \subseteq AllNodes /\ \A n \in DOMAIN memo : memo[n] \in Levels
    /\ \A i \in DOMAIN calls : calls[i].left \subseteq Dependencies(edges, calls[i].node)

\* The shape of a list after its last item was dropped, and after one was added.
LEMMA LastDropped ==
    ASSUME NEW F, NEW s \in Seq(F), s # <<>>
    PROVE  LET rest == SubSeq(s, 1, Len(s) - 1) IN
           /\ Len(s) \in Nat \ {0} /\ DOMAIN s = 1 .. Len(s)
           /\ rest \in Seq(F) /\ Len(rest) = Len(s) - 1
           /\ \A i \in 1 .. Len(s) - 1 : rest[i] = s[i]
<1>1. Len(s) \in Nat \ {0} /\ DOMAIN s = 1 .. Len(s)
  OBVIOUS
<1> QED
  BY <1>1

LEMMA OneAppended ==
    ASSUME NEW F, NEW s \in Seq(F), NEW x \in F
    PROVE  /\ Append(s, x) \in Seq(F)
           /\ Len(s) \in Nat /\ Len(Append(s, x)) = Len(s) + 1
           /\ DOMAIN s = 1 .. Len(s) /\ DOMAIN Append(s, x) = 1 .. Len(s) + 1
           /\ Append(s, x)[Len(s) + 1] = x
           /\ \A i \in 1 .. Len(s) : Append(s, x)[i] = s[i]
OBVIOUS

LEMMA LastReplaced ==
    ASSUME NEW F, NEW s \in Seq(F), s # <<>>, NEW x \in F
    PROVE  LET t == Append(SubSeq(s, 1, Len(s) - 1), x) IN
           /\ t \in Seq(F)
           /\ Len(s) \in Nat \ {0} /\ Len(t) = Len(s)
           /\ DOMAIN s = 1 .. Len(s) /\ DOMAIN t = 1 .. Len(s)
           /\ t[Len(s)] = x
           /\ \A i \in 1 .. Len(s) - 1 : t[i] = s[i]
<1> DEFINE rest == SubSeq(s, 1, Len(s) - 1)
<1>1. /\ Len(s) \in Nat \ {0} /\ DOMAIN s = 1 .. Len(s)
      /\ rest \in Seq(F) /\ Len(rest) = Len(s) - 1
      /\ \A i \in 1 .. Len(s) - 1 : rest[i] = s[i]
  BY LastDropped
<1> HIDE DEF rest
<1>2. /\ Append(rest, x) \in Seq(F)
      /\ Len(Append(rest, x)) = Len(rest) + 1
      /\ DOMAIN Append(rest, x) = 1 .. Len(rest) + 1
      /\ Append(rest, x)[Len(rest) + 1] = x
      /\ \A i \in 1 .. Len(rest) : Append(rest, x)[i] = rest[i]
  <2>1. rest \in Seq(F)
    BY <1>1
  <2> QED
    BY <2>1
<1>3. Len(rest) + 1 = Len(s)
  BY <1>1
<1>4. \A i \in 1 .. Len(s) - 1 : Append(rest, x)[i] = s[i]
  BY <1>1, <1>2
<1> QED
  BY <1>1, <1>2, <1>3, <1>4 DEF rest

\* The innermost frame left, its caller told.
LEMMA FrameLeft ==
    ASSUME NEW F, calls \in Seq(F), calls # <<>>, NEW level,
           \A x \in F : Contribute(x, Inner.node, level) \in F
    PROVE  /\ Answered(level) \in Seq(F)
           /\ Len(calls) \in Nat \ {0} /\ Len(Answered(level)) = Len(calls) - 1
           /\ DOMAIN calls = 1 .. Len(calls) /\ DOMAIN Answered(level) = 1 .. Len(calls) - 1
           /\ Len(calls) > 1 => Answered(level)[Len(calls) - 1] =
                                  Contribute(calls[Len(calls) - 1], Inner.node, level)
           /\ \A i \in 1 .. Len(calls) - 2 : Answered(level)[i] = calls[i]
<1> DEFINE m == Len(calls) - 1
<1>1. /\ Len(calls) \in Nat \ {0} /\ DOMAIN calls = 1 .. Len(calls)
      /\ Outers \in Seq(F) /\ Len(Outers) = m
      /\ \A i \in 1 .. m : Outers[i] = calls[i]
  BY LastDropped DEF Outers
<1>2. CASE m = 0
  <2>1. Outers = <<>>
    BY <1>1, <1>2
  <2>2. Answered(level) = <<>>
    BY <2>1 DEF Answered
  <2>3. <<>> \in Seq(F) /\ Len(<<>>) = 0 /\ DOMAIN <<>> = 1 .. 0
    OBVIOUS
  <2> QED
    BY <1>1, <1>2, <2>2, <2>3
<1>3. CASE m > 0
  <2> DEFINE x == Contribute(Outers[m], Inner.node, level)
  <2>1. m \in Nat \ {0} /\ Outers # <<>>
    BY <1>1, <1>3
  <2>2. Answered(level) = Append(SubSeq(Outers, 1, Len(Outers) - 1), x)
    BY <1>1, <2>1 DEF Answered
  <2>3. Outers[m] \in F /\ Outers[m] = calls[m]
    BY <1>1, <2>1
  <2>4. x \in F
    BY <2>3
  <2> HIDE DEF x
  <2>5. /\ Answered(level) \in Seq(F) /\ Len(Answered(level)) = m
        /\ DOMAIN Answered(level) = 1 .. m
        /\ Answered(level)[m] = x
        /\ \A i \in 1 .. m - 1 : Answered(level)[i] = Outers[i]
    <3>1. Outers \in Seq(F) /\ Outers # <<>> /\ Len(Outers) = m
      BY <1>1, <2>1
    <3> HIDE DEF m
    <3> QED
      BY <2>2, <2>4, <3>1, LastReplaced
  <2> QED
    BY <1>1, <2>1, <2>3, <2>5 DEF x
<1>4. m = 0 \/ m > 0
  BY <1>1
<1> QED
  BY <1>2, <1>3, <1>4, Zenon

\* A new frame, and a frame after an answer.
LEMMA FrameStarts ==
    ASSUME edges \subseteq Components \X Components, OwnLevelsTyped(own), NEW n \in Components
    PROVE  /\ Frame(n) \in FrameRow
           /\ Frame(n).node = n /\ Frame(n).left = Dependencies(edges, n)
           /\ Frame(n).level = Base(n)
<1>1. Dependencies(edges, n) \subseteq Components
  BY DEF Dependencies
<1>2. Base(n) \in Levels
  BY BaseLevelTyped DEF Base
<1> QED
  BY <1>1, <1>2 DEF Frame, FrameRow

LEMMA FrameContinues ==
    \A x \in FrameRow, l \in Levels : \A d :
        /\ Contribute(x, d, l) \in FrameRow
        /\ Contribute(x, d, l).node = x.node
        /\ Contribute(x, d, l).left = x.left \ {d}
        /\ Contribute(x, d, l).level = MaxLevel({x.level, Propagate(l)})
<1> TAKE x \in FrameRow, l \in Levels
<1> TAKE d
<1>1. {x.level, Propagate(l)} \subseteq Levels
  BY PropagateTable DEF FrameRow
<1>2. MaxLevel({x.level, Propagate(l)}) \in Levels
  BY <1>1, MaxLevelIsTheHighest
<1>3. Contribute(x, d, l) = [node |-> x.node, left |-> x.left \ {d},
                            level |-> MaxLevel({x.level, Propagate(l)})]
  BY DEF Contribute
<1>4. x.node \in Components /\ x.left \ {d} \in SUBSET Components
  BY DEF FrameRow
<1> HIDE DEF FrameRow
<1> QED
  BY <1>2, <1>3, <1>4 DEF FrameRow

\* What a step answers a frame about d: the memo, or the base when d is open.
Answers(d, l) ==
    /\ calls # <<>> /\ d \in Inner.left
    /\ \/ d \in DOMAIN memo /\ l = memo[d]
       \/ d \in visiting /\ l = Base(d)
    /\ calls' = Append(Outers, Contribute(Inner, d, l))
    /\ UNCHANGED <<edges, own, visiting, memo>>

\* The steps of a walk, its two ways of answering at once taken together.
LEMMA WalkStep ==
    ASSUME [WalkNext]_walkVars
    PROVE  /\ UNCHANGED <<edges, own>>
           /\ \/ UNCHANGED walkVars
              \/ \E n : Ask(n)
              \/ \E d : Recurse(d)
              \/ \E d, l : Answers(d, l)
              \/ Finish
BY DEF WalkNext, walkVars, Answers, Recall, CutCycle

LEMMA StackInit ==
    WalkInit(SUBSET (Components \X Components), UNION {[S -> Levels] : S \in SUBSET Components})
        => StackInvariant
<1> SUFFICES ASSUME WalkInit(SUBSET (Components \X Components),
                             UNION {[S -> Levels] : S \in SUBSET Components})
             PROVE  StackInvariant
  OBVIOUS
<1>1. DOMAIN own \subseteq Components /\ OwnLevelsTyped(own)
  BY DEF WalkInit, OwnLevelsTyped
<1>2. calls = <<>> /\ visiting = {} /\ DOMAIN memo = {}
  BY DEF WalkInit
<1>3. Len(calls) = 0 /\ Cardinality(visiting) = 0
  BY <1>2, FS_EmptySet
<1>4. /\ calls \in Seq(FrameRow)
      /\ visiting = {calls[i].node : i \in DOMAIN calls} /\ DOMAIN calls = {}
  BY <1>2
<1> QED
  BY <1>1, <1>2, <1>3, <1>4 DEF StackInvariant, WalkInit

\* The nodes of a walk, and what may be answered about them.
LEMMA WalkNodes ==
    ASSUME StackInvariant
    PROVE  /\ AllNodes \subseteq Components /\ IsFiniteSet(visiting)
           /\ \A n : Base(n) \in Levels /\ Dependencies(edges, n) \subseteq AllNodes
           /\ \A d, l : Answers(d, l) => l \in Levels /\ d \in Dependencies(edges, Inner.node)
           /\ calls # <<>> => Inner = calls[Len(calls)] /\ Inner \in FrameRow
                              /\ Len(calls) \in DOMAIN calls /\ Len(calls) \in Nat \ {0}
<1>1. AllNodes \subseteq Components
  BY DEF AllNodes, StackInvariant, Endpoints
<1>2. IsFiniteSet(visiting)
  BY <1>1, WalkAssumption, FS_Subset DEF StackInvariant
<1>3. \A n : Base(n) \in Levels /\ Dependencies(edges, n) \subseteq AllNodes
  BY BaseLevelTyped, DirectDependency DEF Base, StackInvariant, AllNodes
<1>4. ASSUME calls # <<>>
      PROVE  /\ Inner = calls[Len(calls)] /\ Inner \in FrameRow
             /\ Len(calls) \in DOMAIN calls /\ Len(calls) \in Nat \ {0}
  BY <1>4 DEF StackInvariant, Inner
<1>5. ASSUME NEW d, NEW l, Answers(d, l)
      PROVE  l \in Levels /\ d \in Dependencies(edges, Inner.node)
  BY <1>3, <1>4, <1>5 DEF Answers, StackInvariant
<1> QED
  BY <1>1, <1>2, <1>3, <1>4, <1>5

(***************************************************************************)
(* The stack after each kind of step.                                      *)
(***************************************************************************)
LEMMA AskedStack ==
    ASSUME StackInvariant, NEW n, Ask(n)
    PROVE  /\ n \in AllNodes /\ n \notin DOMAIN memo /\ Frame(n) \in FrameRow
           /\ Frame(n).node = n /\ Frame(n).left = Dependencies(edges, n)
           /\ Frame(n).level = Base(n)
           /\ calls' \in Seq(FrameRow) /\ Len(calls') = 1 /\ DOMAIN calls' = {1}
           /\ calls'[1] = Frame(n)
           /\ visiting' = {n} /\ memo' = memo
<1>1. /\ n \in AllNodes /\ n \notin DOMAIN memo /\ n \in Components
      /\ calls' = <<Frame(n)>> /\ visiting' = {n} /\ memo' = memo
  BY WalkNodes DEF Ask
<1>2. /\ Frame(n) \in FrameRow /\ Frame(n).node = n
      /\ Frame(n).left = Dependencies(edges, n) /\ Frame(n).level = Base(n)
  BY <1>1, FrameStarts DEF StackInvariant
<1> QED
  BY <1>1, <1>2

LEMMA AnsweredStack ==
    ASSUME StackInvariant, NEW d, NEW l, Answers(d, l)
    PROVE  /\ l \in Levels /\ d \in Dependencies(edges, Inner.node)
           /\ Len(calls) \in DOMAIN calls /\ Inner = calls[Len(calls)] /\ Inner \in FrameRow
           /\ calls' \in Seq(FrameRow) /\ Len(calls') = Len(calls)
           /\ DOMAIN calls' = DOMAIN calls
           /\ calls'[Len(calls)] = Contribute(Inner, d, l)
           /\ \A i \in DOMAIN calls \ {Len(calls)} : calls'[i] = calls[i]
           /\ visiting' = visiting /\ memo' = memo
<1> DEFINE n == Len(calls)
           x == Contribute(Inner, d, l)
<1>1. /\ l \in Levels /\ d \in Dependencies(edges, Inner.node)
      /\ Inner \in FrameRow /\ Inner = calls[n] /\ n \in DOMAIN calls
  BY WalkNodes DEF Answers
<1>2. x \in FrameRow
  BY <1>1, FrameContinues
<1>3. calls # <<>> /\ calls' = Append(Outers, x) /\ visiting' = visiting /\ memo' = memo
  BY DEF Answers
<1> HIDE DEF x
<1>4. /\ calls' \in Seq(FrameRow) /\ Len(calls') = n /\ n \in Nat \ {0}
      /\ DOMAIN calls = 1 .. n /\ DOMAIN calls' = 1 .. n
      /\ calls'[n] = x /\ \A i \in 1 .. n - 1 : calls'[i] = calls[i]
  <2>1. calls \in Seq(FrameRow)
    BY DEF StackInvariant
  <2> QED
    BY <1>2, <1>3, <2>1, LastReplaced DEF Outers
<1> HIDE DEF n
<1>5. \A i \in DOMAIN calls \ {n} : calls'[i] = calls[i]
  BY <1>4
<1> QED
  BY <1>1, <1>3, <1>4, <1>5 DEF n, x

LEMMA RecursedStack ==
    ASSUME StackInvariant, NEW d, Recurse(d)
    PROVE  /\ d \in AllNodes /\ d \notin DOMAIN memo /\ d \notin visiting
           /\ Frame(d).node = d /\ Frame(d).left = Dependencies(edges, d)
           /\ Frame(d).level = Base(d)
           /\ Len(calls) \in DOMAIN calls /\ d \in calls[Len(calls)].left
           /\ DOMAIN calls = 1 .. Len(calls)
           /\ calls' \in Seq(FrameRow) /\ Len(calls') = Len(calls) + 1
           /\ DOMAIN calls' = DOMAIN calls \cup {Len(calls) + 1}
           /\ calls'[Len(calls) + 1] = Frame(d)
           /\ \A i \in DOMAIN calls : calls'[i] = calls[i]
           /\ visiting' = visiting \cup {d} /\ memo' = memo
<1> DEFINE x == Frame(d)
<1>1. /\ d \in AllNodes /\ d \in Components /\ d \notin DOMAIN memo /\ d \notin visiting
      /\ Len(calls) \in DOMAIN calls /\ d \in calls[Len(calls)].left
      /\ calls' = Append(calls, x) /\ visiting' = visiting \cup {d} /\ memo' = memo
  BY WalkNodes DEF Recurse, StackInvariant
<1>2. x \in FrameRow /\ x.node = d /\ x.left = Dependencies(edges, d) /\ x.level = Base(d)
  BY <1>1, FrameStarts DEF StackInvariant
<1> HIDE DEF x
<1>3. /\ calls' \in Seq(FrameRow) /\ Len(calls) \in Nat /\ Len(calls') = Len(calls) + 1
      /\ DOMAIN calls = 1 .. Len(calls)
      /\ DOMAIN calls' = DOMAIN calls \cup {Len(calls) + 1}
      /\ calls'[Len(calls) + 1] = x /\ \A i \in DOMAIN calls : calls'[i] = calls[i]
  <2>1. calls \in Seq(FrameRow)
    BY DEF StackInvariant
  <2> QED
    BY <1>1, <1>2, <2>1
<1> QED
  BY <1>1, <1>2, <1>3 DEF x

LEMMA FinishedStack ==
    ASSUME StackInvariant, Finish
    PROVE  /\ Len(calls) \in DOMAIN calls /\ Inner = calls[Len(calls)] /\ Inner \in FrameRow
           /\ Inner.left = {} /\ Inner.node \in visiting
           /\ Len(calls) \in Nat \ {0} /\ DOMAIN calls = 1 .. Len(calls)
           /\ calls' \in Seq(FrameRow) /\ Len(calls') = Len(calls) - 1
           /\ DOMAIN calls' = DOMAIN calls \ {Len(calls)}
           /\ \A i \in DOMAIN calls' :
                 calls'[i] = IF i = Len(calls) - 1
                             THEN Contribute(calls[i], Inner.node, Inner.level) ELSE calls[i]
           /\ visiting' = visiting \ {Inner.node}
           /\ DOMAIN memo' = DOMAIN memo \cup {Inner.node}
           /\ \A m \in DOMAIN memo' :
                 memo'[m] = IF m = Inner.node THEN Inner.level ELSE memo[m]
<1> DEFINE n == Len(calls)
           k == Inner.node
           l == Inner.level
<1>1. /\ Inner \in FrameRow /\ Inner = calls[n] /\ n \in DOMAIN calls
      /\ calls # <<>> /\ Inner.left = {}
      /\ calls' = Answered(l) /\ visiting' = visiting \ {k}
      /\ memo' = [m \in DOMAIN memo \cup {k} |-> IF m = k THEN l ELSE memo[m]]
  BY WalkNodes DEF Finish
<1>2. l \in Levels /\ k \in visiting
  BY <1>1 DEF FrameRow, StackInvariant
<1> HIDE DEF l, k
<1>3. \A x \in FrameRow : Contribute(x, k, l) \in FrameRow
  BY <1>2, FrameContinues
<1>4. /\ calls' \in Seq(FrameRow) /\ n \in Nat \ {0} /\ Len(calls') = n - 1
      /\ DOMAIN calls = 1 .. n /\ DOMAIN calls' = 1 .. n - 1
      /\ n > 1 => calls'[n - 1] = Contribute(calls[n - 1], k, l)
      /\ \A i \in 1 .. n - 2 : calls'[i] = calls[i]
  <2>1. \A x \in FrameRow : Contribute(x, Inner.node, l) \in FrameRow
    BY <1>3 DEF k
  <2>2. calls \in Seq(FrameRow)
    BY DEF StackInvariant
  <2> QED
    BY <1>1, <2>1, <2>2, FrameLeft DEF k
<1> HIDE DEF n
<1>5. \A i \in DOMAIN calls' :
         calls'[i] = IF i = n - 1 THEN Contribute(calls[i], k, l) ELSE calls[i]
  BY <1>4
<1>6. DOMAIN calls' = DOMAIN calls \ {n}
  BY <1>4
<1> QED
  BY <1>1, <1>2, <1>4, <1>5, <1>6 DEF n, k, l
-----------------------------------------------------------------------------
LEMMA StackStep ==
    ASSUME StackInvariant, [WalkNext]_walkVars
    PROVE  StackInvariant'
<1>1. /\ UNCHANGED <<edges, own>> /\ AllNodes' = AllNodes
      /\ edges \subseteq Components \X Components
      /\ DOMAIN own \subseteq Components /\ OwnLevelsTyped(own)
      /\ OwnLevelsTyped(own)' /\ calls \in Seq(FrameRow)
  BY WalkStep DEF AllNodes, StackInvariant, OwnLevelsTyped
<1>2. IsFiniteSet(visiting)
  BY WalkNodes
<1>3. /\ \A m \in visiting : \E i \in DOMAIN calls : m = calls[i].node
      /\ \A i \in DOMAIN calls : calls[i].node \in visiting
      /\ \A i, j \in DOMAIN calls : calls[i].node = calls[j].node => i = j
      /\ \A i \in DOMAIN calls : calls[i].left \subseteq Dependencies(edges, calls[i].node)
  BY DEF StackInvariant
<1>4. CASE UNCHANGED walkVars
  BY <1>4 DEF walkVars, StackInvariant, AllNodes, OwnLevelsTyped
<1>5. ASSUME NEW n, Ask(n)
      PROVE  StackInvariant'
  <2>1. /\ n \in AllNodes /\ n \notin DOMAIN memo
        /\ Frame(n).node = n /\ Frame(n).left = Dependencies(edges, n)
        /\ calls' \in Seq(FrameRow) /\ Len(calls') = 1 /\ DOMAIN calls' = {1}
        /\ calls'[1] = Frame(n)
        /\ visiting' = {n} /\ memo' = memo
    BY <1>5, AskedStack
  <2>2. Cardinality(visiting') = 1
    BY <2>1, FS_Singleton
  <2>3. visiting' = {calls'[i].node : i \in DOMAIN calls'}
    BY <2>1
  <2> QED
    BY <1>1, <2>1, <2>2, <2>3 DEF StackInvariant
<1>6. ASSUME NEW d, NEW l, Answers(d, l)
      PROVE  StackInvariant'
  <2> DEFINE n == Len(calls)
             x == Contribute(Inner, d, l)
  <2>1. /\ l \in Levels /\ Inner \in FrameRow /\ Inner = calls[n] /\ n \in DOMAIN calls
        /\ calls' \in Seq(FrameRow) /\ Len(calls') = Len(calls)
        /\ DOMAIN calls' = DOMAIN calls
        /\ calls'[n] = x /\ \A i \in DOMAIN calls \ {n} : calls'[i] = calls[i]
        /\ visiting' = visiting /\ memo' = memo
    BY <1>6, AnsweredStack
  <2>2. x.node = Inner.node /\ x.left = Inner.left \ {d}
    <3>1. Inner \in FrameRow /\ l \in Levels
      BY <2>1
    <3> QED
      BY <3>1, FrameContinues
  <2> HIDE DEF n, x
  <2>3. \A i \in DOMAIN calls : /\ calls'[i].node = calls[i].node
                               /\ calls'[i].left \subseteq calls[i].left
    BY <2>1, <2>2
  <2>4. visiting' = {calls'[i].node : i \in DOMAIN calls'}
    BY <1>3, <2>1, <2>3
  <2> QED
    BY <1>1, <2>1, <2>3, <2>4 DEF StackInvariant
<1>7. ASSUME NEW d, Recurse(d)
      PROVE  StackInvariant'
  <2> DEFINE n == Len(calls) + 1
  <2>1. /\ d \in AllNodes /\ d \notin DOMAIN memo /\ d \notin visiting
        /\ Frame(d).node = d /\ Frame(d).left = Dependencies(edges, d)
        /\ calls' \in Seq(FrameRow) /\ Len(calls') = Len(calls) + 1
        /\ DOMAIN calls' = DOMAIN calls \cup {n}
        /\ calls'[n] = Frame(d) /\ \A i \in DOMAIN calls : calls'[i] = calls[i]
        /\ visiting' = visiting \cup {d} /\ memo' = memo
    BY <1>7, RecursedStack
  <2>2. Cardinality(visiting') = Cardinality(visiting) + 1
    BY <1>2, <2>1, FS_AddElement
  <2> HIDE DEF n
  <2>3. /\ \A i \in DOMAIN calls : calls'[i].node = calls[i].node /\ calls[i].node \in visiting
        /\ calls'[n].node = d /\ n \in DOMAIN calls'
    BY <2>1 DEF StackInvariant
  <2>4. visiting' = {calls'[i].node : i \in DOMAIN calls'}
    BY <1>3, <2>1, <2>3
  <2>5. \A i, j \in DOMAIN calls' : calls'[i].node = calls'[j].node => i = j
    BY <1>3, <2>1, <2>3
  <2>6. \A i \in DOMAIN calls' : calls'[i].left \subseteq Dependencies(edges, calls'[i].node)
    BY <1>3, <2>1, <2>3
  <2>7. /\ visiting' \subseteq AllNodes /\ visiting' \cap DOMAIN memo' = {}
        /\ Len(calls') = Cardinality(visiting')
    BY <2>1, <2>2 DEF StackInvariant
  <2> QED
    BY <1>1, <2>1, <2>4, <2>5, <2>6, <2>7 DEF StackInvariant
<1>8. CASE Finish
  <2> DEFINE n == Len(calls)
             k == Inner.node
             l == Inner.level
  <2>1. /\ n \in DOMAIN calls /\ calls[n].node = k /\ k \in visiting /\ l \in Levels
        /\ calls' \in Seq(FrameRow) /\ Len(calls') = Len(calls) - 1
        /\ DOMAIN calls' = DOMAIN calls \ {n}
        /\ \A i \in DOMAIN calls' :
              calls'[i] = IF i = n - 1 THEN Contribute(calls[i], k, l) ELSE calls[i]
        /\ visiting' = visiting \ {k}
        /\ DOMAIN memo' = DOMAIN memo \cup {k}
        /\ \A m \in DOMAIN memo' : memo'[m] = IF m = k THEN l ELSE memo[m]
    BY <1>8, FinishedStack DEF FrameRow
  <2> HIDE DEF n, k, l
  <2>2. \A i \in DOMAIN calls' : /\ i \in DOMAIN calls /\ i # n
                                /\ calls'[i].node = calls[i].node
                                /\ calls'[i].left \subseteq calls[i].left
    <3> SUFFICES ASSUME NEW i \in DOMAIN calls'
                 PROVE  /\ calls'[i].node = calls[i].node
                        /\ calls'[i].left \subseteq calls[i].left
      BY <2>1
    <3>1. PICK x \in FrameRow : x = calls[i]
      BY <1>1, <2>1
    <3>2. l \in Levels
      BY <2>1
    <3>3. /\ Contribute(x, k, l).node = x.node
          /\ Contribute(x, k, l).left = x.left \ {k}
      BY <3>2, FrameContinues
    <3> QED
      BY <2>1, <3>1, <3>3
  <2>3. \A i \in DOMAIN calls' : calls'[i].node # k
    BY <1>3, <2>1, <2>2
  <2>4. visiting' = {calls'[i].node : i \in DOMAIN calls'}
    BY <1>3, <2>1, <2>2, <2>3
  <2>5. Cardinality(visiting') = Cardinality(visiting) - 1
    BY <1>2, <2>1, FS_RemoveElement
  <2>6. Len(calls') = Cardinality(visiting')
    BY <2>1, <2>5 DEF StackInvariant
  <2>7. \A m \in DOMAIN memo' : memo'[m] \in Levels
    BY <2>1 DEF StackInvariant
  <2>8. /\ visiting' \subseteq AllNodes /\ DOMAIN memo' \subseteq AllNodes
        /\ visiting' \cap DOMAIN memo' = {}
    BY <2>1 DEF StackInvariant
  <2>9. /\ \A i, j \in DOMAIN calls' : calls'[i].node = calls'[j].node => i = j
        /\ \A i \in DOMAIN calls' : calls'[i].left \subseteq Dependencies(edges, calls'[i].node)
    BY <1>3, <2>2
  <2> QED
    BY <1>1, <2>1, <2>4, <2>6, <2>7, <2>8, <2>9 DEF StackInvariant
<1> QED
  BY <1>4, <1>5, <1>6, <1>7, <1>8, WalkStep

LEMMA StackAlways == WalkSpec => []StackInvariant
<1>1. StackInvariant /\ [WalkNext]_walkVars => StackInvariant'
  BY StackStep
<1> QED
  BY StackInit, <1>1, PTL DEF WalkSpec

\* The call stack and the set of nodes being visited describe the same calls, and no
\* finished node is being visited, on any graph, cyclic ones included.
THEOREM WalkTypeInvariant == WalkSpec => []WalkTypeOK
<1>1. StackInvariant => WalkTypeOK
  BY DEF StackInvariant, WalkTypeOK, OwnLevelsTyped
<1> QED
  BY <1>1, StackAlways, PTL
-----------------------------------------------------------------------------
(***************************************************************************)
(* The level walk: bounds of the levels.                                   *)
(***************************************************************************)
HighestBase == MaxLevel({Base(m) : m \in AllNodes})

Within(n, level) == Base(n) <= level /\ level <= HighestBase

BoundsInvariant ==
    /\ \A i \in DOMAIN calls : Within(calls[i].node, calls[i].level)
    /\ \A n \in DOMAIN memo : Within(n, memo[n])

LEMMA HighestBaseTyped ==
    ASSUME StackInvariant
    PROVE  HighestBase \in Levels /\ \A n \in AllNodes : Within(n, Base(n))
<1>1. \A n : Base(n) \in Levels
  BY WalkNodes
<1>2. {Base(m) : m \in AllNodes} \subseteq Levels
  BY <1>1
<1>3. HighestBase \in Levels /\ \A l \in {Base(m) : m \in AllNodes} : l <= HighestBase
  BY <1>2, MaxLevelIsTheHighest DEF HighestBase
<1> QED
  BY <1>1, <1>3, LevelsAreOrdinals DEF Within

\* An answer within the bounds keeps the frame within them.
LEMMA ContributionWithin ==
    ASSUME StackInvariant, NEW x \in FrameRow, NEW d, NEW l \in Levels,
           Within(x.node, x.level), l <= HighestBase
    PROVE  Within(Contribute(x, d, l).node, Contribute(x, d, l).level)
<1> DEFINE h == Contribute(x, d, l).level
           p == Propagate(l)
<1>1. /\ Contribute(x, d, l).node = x.node
      /\ h = MaxLevel({x.level, p})
  BY FrameContinues
<1>2. x.level \in Levels /\ p \in Levels /\ p <= l
  BY PropagateTable DEF FrameRow
<1>3. HighestBase \in Levels /\ Base(x.node) \in Levels
  BY HighestBaseTyped, WalkNodes
<1> HIDE DEF h, p
<1>4. h \in {x.level, p, NONE} /\ x.level <= h
  BY <1>1, <1>2, MaxLevelIsTheHighest
<1>5. Base(x.node) <= h /\ h <= HighestBase
  BY <1>2, <1>3, <1>4, LevelsAreOrdinals DEF Within
<1> QED
  BY <1>1, <1>5 DEF Within, h

LEMMA BoundsStep ==
    ASSUME StackInvariant, BoundsInvariant, [WalkNext]_walkVars
    PROVE  BoundsInvariant'
<1>1. \A n, l : Within(n, l)' <=> Within(n, l)
  BY WalkStep DEF Within, Base, HighestBase, AllNodes
<1>2. \A n \in AllNodes : Within(n, Base(n))
  BY HighestBaseTyped
<1> SUFFICES /\ \A i \in DOMAIN calls' : Within(calls'[i].node, calls'[i].level)
             /\ \A n \in DOMAIN memo' : Within(n, memo'[n])
  BY <1>1 DEF BoundsInvariant
<1> USE DEF BoundsInvariant
<1>3. CASE UNCHANGED walkVars
  BY <1>3 DEF walkVars
<1>4. ASSUME NEW n, Ask(n)
      PROVE  BoundsInvariant'
  <2>1. /\ n \in AllNodes /\ Frame(n).node = n /\ Frame(n).level = Base(n)
        /\ DOMAIN calls' = {1} /\ calls'[1] = Frame(n) /\ memo' = memo
    BY <1>4, AskedStack
  <2> QED
    BY <1>1, <1>2, <2>1
<1>5. ASSUME NEW d, NEW l, Answers(d, l)
      PROVE  BoundsInvariant'
  <2>1. /\ l \in Levels /\ d \in Dependencies(edges, Inner.node)
        /\ Len(calls) \in DOMAIN calls /\ Inner = calls[Len(calls)] /\ Inner \in FrameRow
        /\ DOMAIN calls' = DOMAIN calls
        /\ calls'[Len(calls)] = Contribute(Inner, d, l)
        /\ \A i \in DOMAIN calls \ {Len(calls)} : calls'[i] = calls[i]
        /\ memo' = memo
    BY <1>5, AnsweredStack
  <2>2. d \in AllNodes
    BY <2>1, WalkNodes
  <2>3. l <= HighestBase
    BY <1>2, <1>5, <2>2 DEF Answers, Within
  <2>4. Within(Inner.node, Inner.level)
    BY <2>1
  <2>5. Within(Contribute(Inner, d, l).node, Contribute(Inner, d, l).level)
    BY <2>1, <2>3, <2>4, ContributionWithin
  <2> QED
    BY <1>1, <2>1, <2>5
<1>6. ASSUME NEW d, Recurse(d)
      PROVE  BoundsInvariant'
  <2>1. /\ d \in AllNodes /\ Frame(d).node = d /\ Frame(d).level = Base(d)
        /\ DOMAIN calls' = DOMAIN calls \cup {Len(calls) + 1}
        /\ calls'[Len(calls) + 1] = Frame(d)
        /\ \A i \in DOMAIN calls : calls'[i] = calls[i]
        /\ memo' = memo
    BY <1>6, RecursedStack
  <2> QED
    BY <1>1, <1>2, <2>1
<1>7. CASE Finish
  <2> DEFINE k == Inner.node
             l == Inner.level
  <2>1. /\ Len(calls) \in DOMAIN calls /\ Inner = calls[Len(calls)] /\ Inner \in FrameRow
        /\ DOMAIN calls' = DOMAIN calls \ {Len(calls)}
        /\ \A i \in DOMAIN calls' :
              calls'[i] = IF i = Len(calls) - 1 THEN Contribute(calls[i], k, l) ELSE calls[i]
        /\ DOMAIN memo' = DOMAIN memo \cup {k}
        /\ \A m \in DOMAIN memo' : memo'[m] = IF m = k THEN l ELSE memo[m]
    BY <1>7, FinishedStack
  <2>2. Within(k, l) /\ l \in Levels
    BY <2>1 DEF FrameRow
  <2> HIDE DEF k, l
  <2>3. \A i \in DOMAIN calls' : Within(calls'[i].node, calls'[i].level)
    <3> SUFFICES ASSUME NEW i \in DOMAIN calls'
                 PROVE  Within(calls'[i].node, calls'[i].level)
      OBVIOUS
    <3>1. PICK x \in FrameRow : x = calls[i]
      BY <2>1 DEF StackInvariant
    <3>2. Within(x.node, x.level)
      BY <2>1, <3>1
    <3>3. Within(Contribute(x, k, l).node, Contribute(x, k, l).level)
      BY <2>2, <3>2, ContributionWithin DEF Within
    <3> QED
      BY <2>1, <3>1, <3>2, <3>3
  <2> QED
    BY <1>1, <2>1, <2>2, <2>3
<1> QED
  BY <1>1, <1>3, <1>4, <1>5, <1>6, <1>7, WalkStep

\* On any graph, cyclic ones included, no level is lifted above the highest base.
THEOREM NothingIsLifted == WalkSpec => []NothingIsLiftedAboveTheHighest
<1>1. WalkInit(SUBSET (Components \X Components), UNION {[S -> Levels] : S \in SUBSET Components})
        => BoundsInvariant
  BY DEF WalkInit, BoundsInvariant
<1>2. StackInvariant /\ BoundsInvariant /\ [WalkNext]_walkVars => BoundsInvariant'
  BY BoundsStep
<1>3. StackInvariant /\ BoundsInvariant => NothingIsLiftedAboveTheHighest
  <2> SUFFICES ASSUME StackInvariant, BoundsInvariant, NEW n \in DOMAIN memo
               PROVE  memo[n] >= Base(n) /\ memo[n] <= HighestBase
    BY DEF NothingIsLiftedAboveTheHighest, HighestBase
  <2>1. memo[n] \in Levels /\ Base(n) \in Levels /\ Within(n, memo[n])
    BY WalkNodes DEF StackInvariant, BoundsInvariant
  <2> QED
    BY <2>1, LevelsAreOrdinals DEF Within
<1> QED
  BY <1>1, <1>2, <1>3, StackAlways, PTL DEF WalkSpec
-----------------------------------------------------------------------------
(***************************************************************************)
(* The level walk: the levels themselves, on graphs without cycles.        *)
(***************************************************************************)
Due(n) == FeltLevel(own, edges, n)

\* The highest of a frame's base and of what the dependencies asked so far are due.
DueSoFar(x) ==
    MaxLevel({Base(x.node)} \cup {Propagate(Due(d)) : d \in Dependencies(edges, x.node) \ x.left})

\* Calls follow a path, each caller waits for the one it made, frames have taken
\* every answer into account, and what is finished has its due level.
ResultInvariant ==
    AcyclicGraph(edges) =>
        /\ \A i, j \in DOMAIN calls : i < j => DependsOn(edges, calls[i].node, calls[j].node)
        /\ \A i \in DOMAIN calls : i + 1 \in DOMAIN calls => calls[i + 1].node \in calls[i].left
        /\ \A i \in DOMAIN calls : calls[i].level = DueSoFar(calls[i])
        /\ \A n \in DOMAIN memo : memo[n] = Due(n)

LEMMA DueLevels ==
    ASSUME StackInvariant
    PROVE  /\ \A n : Due(n) \in Levels /\ Base(n) \in Levels
           /\ \A n \in AllNodes :
                 Due(n) = MaxLevel({Base(n)} \cup {Propagate(Due(d)) : d \in Dependencies(edges, n)})
<1>1. OwnLevelsTyped(own)
  BY DEF StackInvariant
<1>2. \A n : Due(n) \in Levels
  BY <1>1, FeltLevelIsTheHighest DEF Due
<1>3. \A n \in AllNodes :
         Due(n) = MaxLevel({Base(n)} \cup {Propagate(Due(d)) : d \in Dependencies(edges, n)})
  BY <1>1, FeltLevelFromDependencies DEF Due, Base, AllNodes
<1> QED
  BY <1>2, <1>3, WalkNodes

\* A frame that has asked nobody, and one that has asked everybody.
LEMMA DueAtTheEnds ==
    ASSUME StackInvariant, NEW x
    PROVE  /\ x.left = Dependencies(edges, x.node) => DueSoFar(x) = Base(x.node)
           /\ x.left = {} /\ x.node \in AllNodes => DueSoFar(x) = Due(x.node)
<1>1. Base(x.node) \in Levels
  BY WalkNodes
<1>2. MaxLevel({Base(x.node)}) = Base(x.node)
  BY <1>1, OnlyOneHighest, LevelsAreOrdinals
<1>3. ASSUME x.left = Dependencies(edges, x.node)
      PROVE  DueSoFar(x) = Base(x.node)
  <2>1. {Propagate(Due(d)) : d \in Dependencies(edges, x.node) \ x.left} = {}
    BY <1>3
  <2> QED
    BY <1>2, <2>1 DEF DueSoFar
<1>4. ASSUME x.left = {}, x.node \in AllNodes
      PROVE  DueSoFar(x) = Due(x.node)
  <2>1. Dependencies(edges, x.node) \ x.left = Dependencies(edges, x.node)
    BY <1>4
  <2> QED
    BY <1>4, <2>1, DueLevels DEF DueSoFar
<1> QED
  BY <1>3, <1>4

\* A due answer keeps a frame's level due.
LEMMA DueContribution ==
    ASSUME StackInvariant, NEW x \in FrameRow, NEW d \in x.left,
           x.left \subseteq Dependencies(edges, x.node), x.level = DueSoFar(x)
    PROVE  Contribute(x, d, Due(d)).level = DueSoFar(Contribute(x, d, Due(d)))
<1> DEFINE y == Contribute(x, d, Due(d))
           S == {Base(x.node)}
                \cup {Propagate(Due(m)) : m \in Dependencies(edges, x.node) \ x.left}
           p == Propagate(Due(d))
<1>1. Due(d) \in Levels
  BY DueLevels
<1>2. y.node = x.node /\ y.left = x.left \ {d} /\ y.level = MaxLevel({x.level, p})
  BY <1>1, FrameContinues
<1>3. S \subseteq Levels /\ p \in Levels
  BY DueLevels, PropagateTable
<1>4. x.level = MaxLevel(S)
  BY DEF DueSoFar
<1>5. {Base(y.node)} \cup {Propagate(Due(m)) : m \in Dependencies(edges, y.node) \ y.left}
         = S \cup {p}
  <2>1. Dependencies(edges, x.node) \ (x.left \ {d}) =
           (Dependencies(edges, x.node) \ x.left) \cup {d}
    OBVIOUS
  <2> HIDE DEF y
  <2> QED
    BY <1>2, <2>1
<1> HIDE DEF y, S, p
<1>6. DueSoFar(y) = MaxLevel(S \cup {p})
  BY <1>5 DEF DueSoFar
<1>7. MaxLevel({MaxLevel(S), p}) = MaxLevel(S \cup {p})
  BY <1>3, HighestOfMore
<1> QED
  BY <1>2, <1>4, <1>6, <1>7 DEF y

\* On a graph without cycles no call asks for a node being visited.
LEMMA NoCycleIsCut ==
    ASSUME StackInvariant, ResultInvariant, AcyclicGraph(edges), NEW d, NEW l, Answers(d, l)
    PROVE  l = Due(d)
<1>1. /\ d \in Dependencies(edges, Inner.node) /\ calls # <<>> /\ Inner = calls[Len(calls)]
      /\ Len(calls) \in DOMAIN calls /\ DOMAIN calls = 1 .. Len(calls)
  <2>1. calls \in Seq(FrameRow)
    BY DEF StackInvariant
  <2> QED
    BY <2>1, WalkNodes DEF Answers
<1>2. d \notin visiting
  <2> SUFFICES ASSUME NEW i \in DOMAIN calls, calls[i].node = d PROVE FALSE
    BY DEF StackInvariant
  <2>1. d \in Endpoints(edges)
    BY <1>1, DirectDependency
  <2>2. CASE i = Len(calls)
    <3>1. DependsOn(edges, d, d)
      BY <1>1, <2>2, DirectDependency
    <3> QED
      BY <2>1, <3>1 DEF AcyclicGraph
  <2>3. CASE i < Len(calls)
    <3>1. DependsOn(edges, d, Inner.node)
      BY <1>1, <2>3 DEF ResultInvariant
    <3>2. DependsOn(edges, d, d)
      BY <1>1, <3>1, PathsJoin
    <3> QED
      BY <2>1, <3>2 DEF AcyclicGraph
  <2> QED
    BY <1>1, <2>2, <2>3
<1> QED
  BY <1>2 DEF Answers, ResultInvariant

LEMMA ResultStep ==
    ASSUME StackInvariant, ResultInvariant, [WalkNext]_walkVars
    PROVE  ResultInvariant'
<1>1. /\ edges' = edges /\ own' = own
      /\ \A n : Due(n)' = Due(n)
      /\ \A x : DueSoFar(x)' = DueSoFar(x)
  BY WalkStep DEF Due, DueSoFar, Base
<1> SUFFICES ASSUME AcyclicGraph(edges)
             PROVE  /\ \A i, j \in DOMAIN calls' :
                          i < j => DependsOn(edges, calls'[i].node, calls'[j].node)
                    /\ \A i \in DOMAIN calls' :
                          i + 1 \in DOMAIN calls' => calls'[i + 1].node \in calls'[i].left
                    /\ \A i \in DOMAIN calls' : calls'[i].level = DueSoFar(calls'[i])
                    /\ \A n \in DOMAIN memo' : memo'[n] = Due(n)
  BY <1>1 DEF ResultInvariant
<1>2. /\ \A i, j \in DOMAIN calls : i < j => DependsOn(edges, calls[i].node, calls[j].node)
      /\ \A i \in DOMAIN calls : i + 1 \in DOMAIN calls => calls[i + 1].node \in calls[i].left
      /\ \A i \in DOMAIN calls : calls[i].level = DueSoFar(calls[i])
      /\ \A n \in DOMAIN memo : memo[n] = Due(n)
  BY DEF ResultInvariant
<1>3. /\ \A i \in DOMAIN calls : /\ calls[i].left \subseteq Dependencies(edges, calls[i].node)
                               /\ calls[i] \in FrameRow
      /\ DOMAIN calls = 1 .. Len(calls) /\ Len(calls) \in Nat
  <2>1. calls \in Seq(FrameRow)
    BY DEF StackInvariant
  <2> QED
    BY <2>1 DEF StackInvariant
<1>4. CASE UNCHANGED walkVars
  <2>1. calls' = calls /\ memo' = memo
    BY <1>4 DEF walkVars
  <2> QED
    BY <1>2, <2>1
<1>5. ASSUME NEW n, Ask(n)
      PROVE  ResultInvariant'
  <2>1. /\ Frame(n).node = n /\ Frame(n).left = Dependencies(edges, n)
        /\ Frame(n).level = Base(n)
        /\ DOMAIN calls' = {1} /\ calls'[1] = Frame(n) /\ memo' = memo
    BY <1>5, AskedStack
  <2>2. Frame(n).level = DueSoFar(Frame(n))
    BY <2>1, DueAtTheEnds
  <2> QED
    BY <1>1, <1>2, <2>1, <2>2 DEF ResultInvariant
<1>6. ASSUME NEW d, NEW l, Answers(d, l)
      PROVE  ResultInvariant'
  <2> DEFINE n == Len(calls)
             x == Contribute(Inner, d, l)
  <2>1. /\ l \in Levels /\ n \in DOMAIN calls /\ Inner = calls[n] /\ Inner \in FrameRow
        /\ DOMAIN calls' = DOMAIN calls
        /\ calls'[n] = x /\ \A i \in DOMAIN calls \ {n} : calls'[i] = calls[i]
        /\ memo' = memo
    BY <1>6, AnsweredStack
  <2>2. l = Due(d) /\ d \in Inner.left
    BY <1>6, NoCycleIsCut DEF Answers
  <2>3. x.node = Inner.node
    <3>1. Inner \in FrameRow /\ l \in Levels
      BY <2>1
    <3> QED
      BY <3>1, FrameContinues
  <2>4. x.level = DueSoFar(x)
    <3>1. /\ Inner \in FrameRow /\ Inner.left \subseteq Dependencies(edges, Inner.node)
          /\ Inner.level = DueSoFar(Inner)
      BY <1>2, <1>3, <2>1
    <3> QED
      BY <2>2, <3>1, DueContribution
  <2> HIDE DEF x
  <2>5. \A i \in DOMAIN calls : calls'[i].node = calls[i].node
    BY <2>1, <2>3
  <2>6. \A i \in DOMAIN calls : i + 1 \in DOMAIN calls => calls'[i] = calls[i]
    BY <1>3, <2>1
  <2> HIDE DEF n
  <2>7. /\ \A i, j \in DOMAIN calls' : i < j => DependsOn(edges, calls'[i].node, calls'[j].node)
        /\ \A i \in DOMAIN calls' :
              i + 1 \in DOMAIN calls' => calls'[i + 1].node \in calls'[i].left
    BY <1>2, <2>1, <2>5, <2>6
  <2>8. \A i \in DOMAIN calls' : calls'[i].level = DueSoFar(calls'[i])
    BY <1>2, <2>1, <2>4
  <2> QED
    BY <1>1, <1>2, <2>1, <2>7, <2>8 DEF ResultInvariant
<1>7. ASSUME NEW d, Recurse(d)
      PROVE  ResultInvariant'
  <2> DEFINE n == Len(calls)
  <2>1. /\ Frame(d).node = d /\ Frame(d).left = Dependencies(edges, d)
        /\ Frame(d).level = Base(d)
        /\ n \in DOMAIN calls /\ d \in calls[n].left
        /\ DOMAIN calls' = DOMAIN calls \cup {n + 1}
        /\ calls'[n + 1] = Frame(d) /\ \A i \in DOMAIN calls : calls'[i] = calls[i]
        /\ memo' = memo
    BY <1>7, RecursedStack
  <2>2. Frame(d).level = DueSoFar(Frame(d))
    BY <2>1, DueAtTheEnds
  <2>3. n \in Nat /\ DOMAIN calls = 1 .. n /\ d \in Dependencies(edges, calls[n].node)
    BY <1>3, <2>1
  <2> HIDE DEF n
  <2>4. \A i \in DOMAIN calls : DependsOn(edges, calls[i].node, d)
    <3> SUFFICES ASSUME NEW i \in DOMAIN calls PROVE DependsOn(edges, calls[i].node, d)
      OBVIOUS
    <3>1. CASE i = n
      BY <2>3, <3>1, DirectDependency
    <3>2. CASE i < n
      <4>1. DependsOn(edges, calls[i].node, calls[n].node)
        BY <1>2, <2>1, <3>2
      <4> QED
        BY <2>3, <4>1, PathsJoin
    <3> QED
      BY <2>3, <3>1, <3>2
  <2>5. \A i, j \in DOMAIN calls' : i < j => DependsOn(edges, calls'[i].node, calls'[j].node)
    <3> SUFFICES ASSUME NEW i \in DOMAIN calls', NEW j \in DOMAIN calls', i < j
                 PROVE  DependsOn(edges, calls'[i].node, calls'[j].node)
      OBVIOUS
    <3>1. i \in DOMAIN calls
      BY <2>1, <2>3
    <3>2. CASE j = n + 1
      BY <2>1, <2>4, <3>1, <3>2
    <3>3. CASE j \in DOMAIN calls
      BY <1>2, <2>1, <3>1, <3>3
    <3> QED
      BY <2>1, <3>2, <3>3
  <2>6. \A i \in DOMAIN calls' :
           i + 1 \in DOMAIN calls' => calls'[i + 1].node \in calls'[i].left
    <3> SUFFICES ASSUME NEW i \in DOMAIN calls', i + 1 \in DOMAIN calls'
                 PROVE  calls'[i + 1].node \in calls'[i].left
      OBVIOUS
    <3>1. CASE i = n
      BY <2>1, <3>1
    <3>2. CASE i # n
      <4>1. i \in DOMAIN calls /\ i + 1 \in DOMAIN calls
        BY <2>1, <2>3, <3>2
      <4> QED
        BY <1>2, <2>1, <4>1
    <3> QED
      BY <3>1, <3>2
  <2>7. \A i \in DOMAIN calls' : calls'[i].level = DueSoFar(calls'[i])
    BY <1>2, <2>1, <2>2
  <2> QED
    BY <1>1, <1>2, <2>1, <2>5, <2>6, <2>7 DEF ResultInvariant
<1>8. CASE Finish
  <2> DEFINE n == Len(calls)
             k == Inner.node
             l == Inner.level
  <2>1. /\ n \in DOMAIN calls /\ Inner = calls[n] /\ Inner \in FrameRow
        /\ Inner.left = {} /\ k \in visiting
        /\ DOMAIN calls' = DOMAIN calls \ {n}
        /\ \A i \in DOMAIN calls' :
              calls'[i] = IF i = n - 1 THEN Contribute(calls[i], k, l) ELSE calls[i]
        /\ DOMAIN memo' = DOMAIN memo \cup {k}
        /\ \A m \in DOMAIN memo' : memo'[m] = IF m = k THEN l ELSE memo[m]
    BY <1>8, FinishedStack
  <2>2. l = Due(k)
    <3>1. l = DueSoFar(Inner) /\ Inner.node \in AllNodes
      BY <1>2, <2>1 DEF StackInvariant
    <3> QED
      BY <2>1, <3>1, DueAtTheEnds
  <2>3. l \in Levels /\ n \in Nat /\ DOMAIN calls = 1 .. n /\ calls[n].node = k
    BY <1>3, <2>1 DEF FrameRow
  <2> HIDE DEF n, k, l
  <2>4. \A i \in DOMAIN calls' : /\ i \in DOMAIN calls /\ calls'[i].node = calls[i].node
                                /\ calls'[i].level = DueSoFar(calls'[i])
    <3> SUFFICES ASSUME NEW i \in DOMAIN calls'
                 PROVE  calls'[i].node = calls[i].node /\ calls'[i].level = DueSoFar(calls'[i])
      BY <2>1
    <3>1. PICK x \in FrameRow : x = calls[i]
      BY <1>3, <2>1
    <3>2. x.left \subseteq Dependencies(edges, x.node) /\ x.level = DueSoFar(x)
      BY <1>2, <1>3, <2>1, <3>1
    <3>3. Contribute(x, k, l).node = x.node
      BY <2>3, FrameContinues
    <3>4. CASE i = n - 1
      <4>1. k \in x.left
        BY <1>2, <2>1, <2>3, <3>1, <3>4
      <4>2. Contribute(x, k, l).level = DueSoFar(Contribute(x, k, l))
        BY <2>2, <3>2, <4>1, DueContribution
      <4> QED
        BY <2>1, <3>1, <3>3, <3>4, <4>2
    <3>5. CASE i # n - 1
      BY <2>1, <3>1, <3>2, <3>5
    <3> QED
      BY <3>4, <3>5
  <2>5. \A i, j \in DOMAIN calls' : i < j => DependsOn(edges, calls'[i].node, calls'[j].node)
    BY <1>2, <2>4
  <2>6. \A i \in DOMAIN calls' :
           i + 1 \in DOMAIN calls' => calls'[i + 1].node \in calls'[i].left
    <3> SUFFICES ASSUME NEW i \in DOMAIN calls', i + 1 \in DOMAIN calls'
                 PROVE  calls'[i + 1].node \in calls'[i].left
      OBVIOUS
    <3>1. i # n - 1
      BY <2>1, <2>3
    <3>2. calls'[i] = calls[i] /\ calls'[i + 1].node = calls[i + 1].node
      BY <2>1, <2>4, <3>1
    <3> QED
      BY <1>2, <2>4, <3>2
  <2>7. \A m \in DOMAIN memo' : memo'[m] = Due(m)
    BY <1>2, <2>1, <2>2
  <2> QED
    BY <1>1, <2>4, <2>5, <2>6, <2>7 DEF ResultInvariant
<1> QED
  BY <1>1, <1>4, <1>5, <1>6, <1>7, <1>8, WalkStep DEF ResultInvariant

\* On every finite graph without cycles, in whatever order its nodes are visited, the
\* walk hands out the level its docstring defines, which is also the one that the
\* recursive definition of the release model gives.
THEOREM WalkIsCorrect == WalkSpec => []WalkComputesFeltLevels
<1>1. WalkInit(SUBSET (Components \X Components), UNION {[S -> Levels] : S \in SUBSET Components})
        => ResultInvariant
  BY DEF WalkInit, ResultInvariant
<1>2. StackInvariant /\ ResultInvariant /\ [WalkNext]_walkVars => ResultInvariant'
  BY ResultStep
<1>3. StackInvariant /\ ResultInvariant => WalkComputesFeltLevels
  <2> SUFFICES ASSUME StackInvariant, ResultInvariant,
                      \A n \in AllNodes : ~DependsOn(edges, n, n), NEW n \in DOMAIN memo
               PROVE  /\ memo[n] = FeltLevel(own, edges, n)
                      /\ memo[n] = EffectiveLevels(own, edges)[n]
    BY DEF WalkComputesFeltLevels
  <2>1. AcyclicGraph(edges)
    BY DEF AcyclicGraph, AllNodes
  <2>2. memo[n] = FeltLevel(own, edges, n)
    BY <2>1 DEF ResultInvariant, Due
  <2>3. OwnLevelsTyped(own) /\ n \in DOMAIN own \cup Endpoints(edges)
    BY DEF StackInvariant, AllNodes
  <2>4. IsFiniteSet(Endpoints(edges))
    BY WalkNodes, WalkAssumption, FS_Subset DEF AllNodes
  <2>5. EffectiveLevels(own, edges)[n] = FeltLevel(own, edges, n)
    BY <2>1, <2>3, <2>4, EffectiveIsFelt
  <2> QED
    BY <2>2, <2>5
<1> QED
  BY <1>1, <1>2, <1>3, StackAlways, PTL DEF WalkSpec
=============================================================================
