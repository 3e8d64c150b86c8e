-------------------------- MODULE ReachabilitySearch --------------------------
(***************************************************************************)
(* The depth-first search of is_reachable (app/domain/dependency_graph.py) *)
(* step by step, over any edge list: the cycle check that guards it runs   *)
(* on whatever rows the database holds, cyclic or not.                     *)
(*                                                                         *)
(* Edge rows come in no order, and a node's neighbours are pushed once, so *)
(* the order of an adjacency list is chosen when it is pushed.             *)
(***************************************************************************)
EXTENDS Naturals, Sequences, FiniteSets

CONSTANT Nodes

ASSUME SearchAssumption == IsFiniteSet(Nodes)

VARIABLES
    graph,   \* the edges given: a set of pairs
    start,
    target,
    stack,
    seen,
    answer   \* "searching", then what is returned: "reachable" or "unreachable"

searchVars == <<graph, start, target, stack, seen, answer>>
-----------------------------------------------------------------------------
Neighbours(n) == {e[2] : e \in {d \in graph : d[1] = n}}

\* The orders in which a finite set can be listed.
Listings(S) ==
    {l \in [1 .. Cardinality(S) -> S] : \A x \in S : \E i \in DOMAIN l : l[i] = x}

Top  == stack[Len(stack)]
Rest == SubSeq(stack, 1, Len(stack) - 1)

SearchInit(G) ==
    /\ graph \in G
    /\ start \in Nodes
    /\ target \in Nodes
    /\ stack = <<start>>
    /\ seen = {}
    /\ answer = "searching"

\* node == target: return True.
Find ==
    /\ answer = "searching"
    /\ stack # <<>>
    /\ Top = target
    /\ stack' = Rest
    /\ answer' = "reachable"
    /\ UNCHANGED seen

\* A node met before is dropped.
Skip ==
    /\ answer = "searching"
    /\ stack # <<>>
    /\ Top # target
    /\ Top \in seen
    /\ stack' = Rest
    /\ UNCHANGED <<seen, answer>>

\* seen.add forgotten: the neighbours are pushed but the node can be met again.
ExpandUnmarked ==
    /\ answer = "searching"
    /\ stack # <<>>
    /\ Top # target
    /\ Top \notin seen
    /\ \E l \in Listings(Neighbours(Top)) : stack' = Rest \o l
    /\ UNCHANGED <<seen, answer>>

\* Every node is marked when it is pushed, so a pushed node is skipped when met.
ExpandMarkingNeighbours ==
    /\ answer = "searching"
    /\ stack # <<>>
    /\ Top # target
    /\ Top \notin seen
    /\ seen' = seen \cup {Top} \cup Neighbours(Top)
    /\ \E l \in Listings(Neighbours(Top)) : stack' = Rest \o l
    /\ UNCHANGED answer

\* A new node is marked and its neighbours pushed.
Expand ==
    /\ answer = "searching"
    /\ stack # <<>>
    /\ Top # target
    /\ Top \notin seen
    /\ seen' = seen \cup {Top}
    /\ \E l \in Listings(Neighbours(Top)) : stack' = Rest \o l
    /\ UNCHANGED answer

\* The loop ran out of nodes: return False.
GiveUp ==
    /\ answer = "searching"
    /\ stack = <<>>
    /\ answer' = "unreachable"
    /\ UNCHANGED <<stack, seen>>

SearchNext ==
    /\ Find \/ Skip \/ Expand \/ GiveUp
    /\ UNCHANGED <<graph, start, target>>

SearchSpec == SearchInit(SUBSET (Nodes \X Nodes)) /\ [][SearchNext]_searchVars
-----------------------------------------------------------------------------
\* No set closed under the edges has a inside and b outside: b is a, or there is
\* a path from a to b.
PathExists(a, b) ==
    \A S \in SUBSET Nodes :
        a \in S /\ (\A e \in graph : e[1] \in S => e[2] \in S) => b \in S

\* What waits on the stack.
Pending == {stack[i] : i \in DOMAIN stack}

\* The loop invariant of the search: start is met or waiting, whatever a met node
\* depends on is met or waiting too, nothing unreachable is ever met or pushed,
\* and the target is not among the nodes met.
SearchInvariant ==
    /\ graph \subseteq Nodes \X Nodes
    /\ start \in Nodes /\ target \in Nodes
    /\ stack \in Seq(Nodes)
    /\ seen \subseteq Nodes
    /\ answer \in {"searching", "reachable", "unreachable"}
    /\ \A n \in seen \cup Pending : PathExists(start, n)
    /\ answer = "reachable" => PathExists(start, target)
    /\ answer # "reachable" =>
          /\ start \in seen \cup Pending
          /\ target \notin seen
          /\ \A e \in graph : e[1] \in seen => e[2] \in seen \cup Pending
    /\ answer = "unreachable" => stack = <<>>

\* The answer is right on every graph, cyclic ones included: is_reachable returns
\* True exactly "when a path start ~> target exists (trivially true when start ==
\* target)" (dependency_graph.py:28).
AnswerIsReachability ==
    /\ answer = "reachable" => PathExists(start, target)
    /\ answer = "unreachable" => ~PathExists(start, target)

\* The search ends on every graph: a cycle in the stored edges cannot hang the
\* request that runs it, and with it the event loop of the whole process.
SearchEnds == <>(answer # "searching")
=============================================================================
