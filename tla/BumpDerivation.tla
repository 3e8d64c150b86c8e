---------------------------- MODULE BumpDerivation ----------------------------
(***************************************************************************)
(* How a release's version follows from what changed (app/domain):         *)
(* classify each component's change, propagate it to dependents, take the  *)
(* maximum, apply it to the product's current version.  Pure operators.    *)
(*                                                                         *)
(* Levels are their ordinals in bump_propagation.py.  A graph is a set of  *)
(* pairs <<from, to>>: from depends on to.                                 *)
(***************************************************************************)
EXTENDS Naturals

NONE  == 0
PATCH == 1
MINOR == 2
MAJOR == 3

Levels == NONE .. MAJOR

\* max_level: the highest of a set of levels, NONE of the empty set.
MaxLevel(S) == CHOOSE m \in Levels : m \in S \cup {NONE} /\ \A l \in S : l <= m

\* A dependent feels a patch as if it were a minor change (a slip in the table).
PropagateRaised(level) == IF level = NONE THEN NONE ELSE MINOR

\* propagate: what a dependency's level contributes to its dependents.
Propagate(level) == CASE level = NONE  -> NONE
                      [] level = PATCH -> PATCH
                      [] level = MINOR -> PATCH
                      [] level = MAJOR -> MINOR

Endpoints(E) == {e[1] : e \in E} \cup {e[2] : e \in E}

Dependencies(E, n) == {e[2] : e \in {d \in E : d[1] = n}}

\* base: the own level of a component, MAJOR of an end of an edge without one.
BaseLevel(own, n) == IF n \in DOMAIN own THEN own[n] ELSE MAJOR

\* effective_levels: own levels lifted along the graph, for every component
\* that has an own level or ends an edge.  Defined for graphs without cycles;
\* the code's guard against a cycle is in LevelWalk.
EffectiveLevels(own, E) ==
    LET effective[n \in DOMAIN own \cup Endpoints(E)] ==
            MaxLevel({BaseLevel(own, n)}
                     \cup {Propagate(effective[d]) : d \in Dependencies(E, n)})
    IN  effective

\* Components that are gone forgotten.
DeriveBumpOfThePresent(own, E, removedAny) ==
    LET effective == EffectiveLevels(own, E)
    IN  MaxLevel({effective[c] : c \in DOMAIN own})

\* derive_product_bump: the maximum over the components with an own level,
\* MAJOR if a component of the previous manifest is gone.
DeriveBump(own, E, removedAny) ==
    LET effective == EffectiveLevels(own, E)
    IN  MaxLevel({effective[c] : c \in DOMAIN own} \cup
                 (IF removedAny THEN {MAJOR} ELSE {}))

\* apply_bump on a core: none repeats it, the others reset what is below.
ApplyBump(core, level) ==
    CASE level = MAJOR -> <<core[1] + 1, 0, 0>>
      [] level = MINOR -> <<core[1], core[2] + 1, 0>>
      [] level = PATCH -> <<core[1], core[2], core[3] + 1>>
      [] OTHER         -> core

\* The prerelease comparison forgotten.
ClassifyCore(prior, current) ==
    CASE prior.core[1] # current.core[1] -> MAJOR
      [] prior.core[1] = current.core[1] /\ prior.core[2] # current.core[2] -> MINOR
      [] prior.core[1] = current.core[1] /\ prior.core[2] = current.core[2]
            /\ prior.core[3] # current.core[3] -> PATCH
      [] OTHER -> NONE

\* classify_change for a component that was in the previous manifest: the
\* highest position that differs, in either direction.
Classify(prior, current) ==
    IF prior.core = current.core /\ prior.pre # current.pre
    THEN PATCH
    ELSE ClassifyCore(prior, current)
-----------------------------------------------------------------------------
(***************************************************************************)
(* What an effective level should be, without recursion.                   *)
(***************************************************************************)

\* S holds everything a member of S depends on.
Closed(E, S) == \A e \in E : e[1] \in S => e[2] \in S

\* a depends on b through one or more edges: no closed set separates the
\* dependencies of a from b.
DependsOn(E, a, b) ==
    \A S \in SUBSET Endpoints(E) : Closed(E, S) /\ Dependencies(E, a) \subseteq S => b \in S

\* The components n depends on through others.
IndirectDependencies(E, n) ==
    {d \in Endpoints(E) : \E y \in Dependencies(E, n) : DependsOn(E, y, d)}

\* The base of n itself, the base of its direct dependencies propagated once, that
\* of the indirect ones twice (propagating again changes nothing any more).
FeltLevel(own, E, n) ==
    MaxLevel({BaseLevel(own, n)}
             \cup {Propagate(BaseLevel(own, d)) : d \in Dependencies(E, n)}
             \cup {Propagate(Propagate(BaseLevel(own, d))) : d \in IndirectDependencies(E, n)})
=============================================================================
