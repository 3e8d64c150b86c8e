------------------------------ MODULE LevelWalk ------------------------------
(***************************************************************************)
(* The memoised recursion of effective_levels (app/domain/                 *)
(* bump_propagation.py:55-100) step by step: the call stack, the memo and  *)
(* the set of nodes being visited, over any edges, cyclic ones included.   *)
(*                                                                         *)
(* The order of the outer loop and of each dependency list is the order of *)
(* rows nobody sorted, so both are free.                                   *)
(***************************************************************************)
EXTENDS BumpDerivation, Sequences, FiniteSets

CONSTANT Components

ASSUME WalkAssumption == IsFiniteSet(Components)

VARIABLES
    edges,     \* the edges loaded: a set of pairs
    own,       \* own level of each active component
    calls,     \* the frames of effective(node), innermost last
    visiting,  \* nodes whose call has begun and not ended
    memo       \* node -> finished level

walkVars == <<edges, own, calls, visiting, memo>>
-----------------------------------------------------------------------------
AllNodes == DOMAIN own \cup Endpoints(edges)

Base(n) == BaseLevel(own, n)

\* One activation: the dependencies not asked yet, the highest level so far.
Frame(n) == [node |-> n, left |-> Dependencies(edges, n), level |-> Base(n)]

Inner  == calls[Len(calls)]
Outers == SubSeq(calls, 1, Len(calls) - 1)

\* The innermost frame after dependency d contributed a level.
Contribute(frame, d, level) ==
    [node |-> frame.node, left |-> frame.left \ {d},
     level |-> MaxLevel({frame.level, Propagate(level)})]

WalkInit(G, O) ==
    /\ edges \in G
    /\ own \in O
    /\ calls = <<>>
    /\ visiting = {}
    /\ memo = [n \in {} |-> NONE]

\* The comprehension asks for the next node that has no level yet.
Ask(n) ==
    /\ calls = <<>>
    /\ n \in AllNodes \ DOMAIN memo
    /\ calls' = <<Frame(n)>>
    /\ visiting' = {n}
    /\ UNCHANGED memo

\* A dependency whose level is in the memo.
Recall(d) ==
    /\ calls # <<>>
    /\ d \in Inner.left
    /\ d \in DOMAIN memo
    /\ calls' = Append(Outers, Contribute(Inner, d, memo[d]))
    /\ UNCHANGED <<visiting, memo>>

\* The guard against cycles dropped: a node being visited is entered again.
RecurseUnguarded(d) ==
    /\ calls # <<>>
    /\ d \in Inner.left
    /\ d \notin DOMAIN memo
    /\ d \in visiting
    /\ Len(calls) <= Cardinality(AllNodes)
    /\ calls' = Append(calls, Frame(d))
    /\ UNCHANGED <<visiting, memo>>

\* A dependency that is being visited closes a cycle: only its base counts.
CutCycle(d) ==
    /\ calls # <<>>
    /\ d \in Inner.left
    /\ d \notin DOMAIN memo
    /\ d \in visiting
    /\ calls' = Append(Outers, Contribute(Inner, d, Base(d)))
    /\ UNCHANGED <<visiting, memo>>

Recurse(d) ==
    /\ calls # <<>>
    /\ d \in Inner.left
    /\ d \notin DOMAIN memo \cup visiting
    /\ calls' = Append(calls, Frame(d))
    /\ visiting' = visiting \cup {d}
    /\ UNCHANGED memo

\* The frames once the innermost call answered level to its caller.
Answered(level) ==
    IF Outers = <<>> THEN <<>>
    ELSE LET caller == Outers[Len(Outers)]
         IN  Append(SubSeq(Outers, 1, Len(Outers) - 1),
                    Contribute(caller, Inner.node, level))

\* Memoised before the cyclic contribution is known: base instead of the result.
FinishWithBase ==
    /\ calls # <<>>
    /\ Inner.left = {}
    /\ memo' = [n \in DOMAIN memo \cup {Inner.node} |->
                  IF n = Inner.node THEN Base(n) ELSE memo[n]]
    /\ visiting' = visiting \ {Inner.node}
    /\ calls' = Answered(Inner.level)

\* visiting.discard forgotten.
FinishStillVisiting ==
    /\ calls # <<>>
    /\ Inner.left = {}
    /\ memo' = [n \in DOMAIN memo \cup {Inner.node} |->
                  IF n = Inner.node THEN Inner.level ELSE memo[n]]
    /\ UNCHANGED visiting
    /\ calls' = Answered(Inner.level)

\* All dependencies answered: memoise and return.
Finish ==
    /\ calls # <<>>
    /\ Inner.left = {}
    /\ memo' = [n \in DOMAIN memo \cup {Inner.node} |->
                  IF n = Inner.node THEN Inner.level ELSE memo[n]]
    /\ visiting' = visiting \ {Inner.node}
    /\ calls' = Answered(Inner.level)

WalkNext ==
    /\ \/ \E n \in Components : Ask(n)
       \/ \E d \in Components : Recall(d) \/ CutCycle(d) \/ Recurse(d)
       \/ Finish
    /\ UNCHANGED <<edges, own>>

\* The edges a caller may hand over, and the own levels of the active components.
WalkSpec ==
    /\ WalkInit(SUBSET (Components \X Components),
                UNION {[S -> Levels] : S \in SUBSET Components})
    /\ [][WalkNext]_walkVars

WalkDone == calls = <<>> /\ DOMAIN memo = AllNodes
-----------------------------------------------------------------------------
WalkTypeOK ==
    /\ edges \subseteq Components \X Components
    /\ DOMAIN own \subseteq Components /\ \A n \in DOMAIN own : own[n] \in Levels
    /\ visiting = {calls[i].node : i \in DOMAIN calls}
    /\ Len(calls) = Cardinality(visiting)
    /\ visiting \cap DOMAIN memo = {}
    /\ DOMAIN memo \subseteq AllNodes /\ \A n \in DOMAIN memo : memo[n] \in Levels

\* On the acyclic graphs AddDependency builds, every level the walk hands out is
\* the one its docstring defines, in whatever order it visits the nodes, and the
\* recursive definition the release model uses agrees with it.
WalkComputesFeltLevels ==
    (\A n \in AllNodes : ~DependsOn(edges, n, n)) =>
        \A n \in DOMAIN memo :
            memo[n] = FeltLevel(own, edges, n) /\ memo[n] = EffectiveLevels(own, edges)[n]

\* On any graph, cycles included, propagation is contraction-only
\* (bump_propagation.py:8): no component is lifted above the highest base level.
NothingIsLiftedAboveTheHighest ==
    \A n \in DOMAIN memo :
        /\ memo[n] >= Base(n)
        /\ memo[n] <= MaxLevel({Base(m) : m \in AllNodes})

\* The walk ends on any graph: stored cycles cannot make it recurse for ever.
WalkEnds == <>WalkDone
=============================================================================
