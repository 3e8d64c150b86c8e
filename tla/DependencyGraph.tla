--------------------------- MODULE DependencyGraph ---------------------------
(***************************************************************************)
(* The dependency edges between the components of one product:             *)
(* POST and DELETE /products/{id}/dependencies, and the /impact report     *)
(* computed from them (app/queries/component_dependencies).                *)
(*                                                                         *)
(* The table's ids are left out: UNIQUE (product, from, to) makes the      *)
(* triple a key, and both handlers look rows up by it.                     *)
(***************************************************************************)
EXTENDS Catalogue, BumpDerivation

VARIABLE dependency   \* table component_dependencies: [product, from, to]

graphVars == <<product, component, dependency, reply>>
-----------------------------------------------------------------------------
EdgeRow == [product : ProductIds, from : ComponentIds, to : ComponentIds]

\* The graph of product p as the queries load it.
EdgesOf(p) == {<<e.from, e.to>> : e \in {d \in dependency : d.product = p}}

\* is_reachable: a is b or depends on it, directly or through others.  Stated
\* as: no closed set separates them.  ReachabilitySearch has the code's search.
Reaches(E, a, b) == \A S \in SUBSET ComponentIds : Closed(E, S) /\ a \in S => b \in S

\* would_create_cycle with its two ends swapped.
ClosesCycleBackwards(E, f, t) == Reaches(E, f, t)

\* would_create_cycle.
ClosesCycle(E, f, t) == Reaches(E, t, f)

DependencyEvent(type, e) == [type |-> type, dependency |-> e]
-----------------------------------------------------------------------------
GraphInit ==
    /\ CatalogueInit
    /\ dependency = {}

\* The 404 cases of a new edge: the product or an endpoint does not exist.
EdgeNotFound(e) ==
    \/ e.product \notin DOMAIN product
    \/ e.from \notin DOMAIN component
    \/ e.from \in DOMAIN component /\ component[e.from] = e.product
          /\ e.to \notin DOMAIN component

\* The check that both ends belong to the product forgotten.
EdgeConflictsWithinProduct(e) ==
    \/ e.from = e.to
    \/ e \in dependency
    \/ ClosesCycle(EdgesOf(e.product), e.from, e.to)

\* The 409 cases, checked in this order: an endpoint of another product, a
\* self-edge, a duplicate, an edge that would close a cycle.
EdgeConflicts(e) ==
    \/ e.from \in DOMAIN component /\ component[e.from] # e.product
    \/ e.to \in DOMAIN component /\ component[e.to] # e.product
    \/ e.from = e.to
    \/ e \in dependency
    \/ ClosesCycle(EdgesOf(e.product), e.from, e.to)

AddDependency(e) ==
    /\ \/ /\ EdgeNotFound(e)
          /\ reply' = NotFound
          /\ UNCHANGED dependency
       \/ /\ ~EdgeNotFound(e)
          /\ EdgeConflicts(e)
          /\ reply' = Conflict
          /\ UNCHANGED dependency
       \/ /\ ~EdgeNotFound(e)
          /\ ~EdgeConflicts(e)
          /\ dependency' = dependency \cup {e}
          /\ reply' = Published(DependencyEvent("dependency.added", e))
    /\ UNCHANGED catalogueVars

RemoveDependency(e) ==
    /\ \/ /\ e \notin dependency
          /\ reply' = NotFound
          /\ UNCHANGED dependency
       \/ /\ e \in dependency
          /\ dependency' = dependency \ {e}
          /\ reply' = Published(DependencyEvent("dependency.removed", e))
    /\ UNCHANGED catalogueVars

EdgeNext == \E e \in EdgeRow : AddDependency(e) \/ RemoveDependency(e)

GraphNext ==
    \/ EdgeNext
    \/ CatalogueNext /\ UNCHANGED dependency

GraphSpec == GraphInit /\ [][GraphNext]_graphVars
-----------------------------------------------------------------------------
\* Only the direct dependents lifted.
ImpactOneStep(p, c) ==
    [d \in {x \in ComponentsOf(p) \ {c} : <<x, c>> \in EdgesOf(p)} |-> MINOR]

\* GET /products/{p}/components/{c}/impact: the components a major change of c
\* would touch, with the level each would feel.
Impact(p, c) ==
    LET own == [d \in ComponentsOf(p) |-> IF d = c THEN MAJOR ELSE NONE]
        effective == EffectiveLevels(own, EdgesOf(p))
    IN  [d \in {x \in ComponentsOf(p) \ {c} : effective[x] # NONE} |-> effective[d]]
-----------------------------------------------------------------------------
(***************************************************************************)
(* Properties.                                                             *)
(***************************************************************************)

\* Every edge row joins two different components of the product it is filed
\* under, so no graph query ever loads an endpoint of another product
\* (add_dependency_query.py:42-47).
GraphTypeOK ==
    /\ CatalogueTypeOK
    /\ dependency \subseteq EdgeRow
    /\ \A e \in dependency :
          /\ {e.from, e.to} \subseteq ComponentsOf(e.product)
          /\ e.from # e.to

\* No component depends on itself through any chain of edges, whatever the order
\* in which edges were added and removed: effective_levels relies on it
\* (bump_propagation.py:89 "edges are DAG-guaranteed at insert time").
Acyclic ==
    \A p \in ProductIds : \A e \in EdgesOf(p) : ~Reaches(EdgesOf(p), e[2], e[1])

\* The /impact report names exactly the transitive dependents of the component
\* ("the propagation walk yields each transitive dependent's projected change
\* level", impact_query.py:24), direct ones at MINOR and the others at PATCH.
ImpactIsTheTransitiveDependents ==
    \A p \in DOMAIN product : \A c \in ComponentsOf(p) :
        /\ DOMAIN Impact(p, c) =
              {d \in ComponentsOf(p) \ {c} : Reaches(EdgesOf(p), d, c)}
        /\ \A d \in DOMAIN Impact(p, c) :
              Impact(p, c)[d] = IF <<d, c>> \in EdgesOf(p) THEN MINOR ELSE PATCH
=============================================================================
