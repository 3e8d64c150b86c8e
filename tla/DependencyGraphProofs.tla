------------------------ MODULE DependencyGraphProofs ------------------------
(***************************************************************************)
(* The dependency graph of every product stays a graph over that product's *)
(* own components and free of cycles, and the impact report names exactly  *)
(* the transitive dependents, for every set of ids.                        *)
(*                                                                         *)
(* An edge <<n, m>> lies on no cycle exactly when a closed set holds m and *)
(* not n; the proof shows how such a witness is found again after an edge  *)
(* was added or removed.                                                   *)
(***************************************************************************)
EXTENDS DependencyGraph, CommonLemmas

\* No edge of E lies on a cycle.
NoCycle(E) == \A e \in E : ~Reaches(E, e[2], e[1])

\* What a request does to the edge rows.
LEMMA EdgeStep ==
    ASSUME GraphTypeOK, [GraphNext]_graphVars
    PROVE  \/ /\ UNCHANGED dependency
              /\ CatalogueTypeOK'
              /\ \A c \in DOMAIN component :
                    c \in DOMAIN component' /\ component'[c] = component[c]
           \/ /\ UNCHANGED catalogueVars
              /\ \E e \in EdgeRow :
                    /\ dependency' = dependency \cup {e}
                    /\ ~EdgeNotFound(e) /\ ~EdgeConflicts(e)
           \/ /\ UNCHANGED catalogueVars
              /\ \E e \in EdgeRow : dependency' = dependency \ {e}
<1>1. CASE CatalogueNext /\ UNCHANGED dependency
  BY <1>1, CatalogueGrows DEF GraphTypeOK
<1>2. CASE EdgeNext
  <2>1. PICK e \in EdgeRow : AddDependency(e) \/ RemoveDependency(e)
    BY <1>2 DEF EdgeNext
  <2>2. CASE UNCHANGED dependency /\ UNCHANGED catalogueVars
    BY <2>2 DEF GraphTypeOK, CatalogueTypeOK, catalogueVars
  <2> QED
    BY <2>1, <2>2 DEF AddDependency, RemoveDependency
<1>3. CASE UNCHANGED graphVars
  BY <1>3 DEF graphVars, GraphTypeOK, CatalogueTypeOK
<1> QED
  BY <1>1, <1>2, <1>3 DEF GraphNext
-----------------------------------------------------------------------------
LEMMA GraphTypeInit == GraphInit => GraphTypeOK
BY CatalogueTypeInit DEF GraphInit, GraphTypeOK

LEMMA GraphTypeStep ==
    ASSUME GraphTypeOK, [GraphNext]_graphVars
    PROVE  GraphTypeOK'
<1>1. CASE /\ UNCHANGED dependency
           /\ CatalogueTypeOK'
           /\ \A c \in DOMAIN component :
                 c \in DOMAIN component' /\ component'[c] = component[c]
  BY <1>1 DEF GraphTypeOK, ComponentsOf
<1>2. ASSUME UNCHANGED catalogueVars, NEW e \in EdgeRow,
             dependency' = dependency \cup {e}, ~EdgeNotFound(e), ~EdgeConflicts(e)
      PROVE  GraphTypeOK'
  <2>1. {e.from, e.to} \subseteq ComponentsOf(e.product) /\ e.from # e.to
    BY <1>2 DEF EdgeNotFound, EdgeConflicts, ComponentsOf
  <2> QED
    BY <1>2, <2>1 DEF GraphTypeOK, CatalogueTypeOK, ComponentsOf, catalogueVars
<1>3. ASSUME UNCHANGED catalogueVars, NEW e \in EdgeRow, dependency' = dependency \ {e}
      PROVE  GraphTypeOK'
  BY <1>3 DEF GraphTypeOK, CatalogueTypeOK, ComponentsOf, catalogueVars
<1> QED
  BY <1>1, <1>2, <1>3, EdgeStep

\* Every edge row joins two different components of its own product.
THEOREM GraphTypeInvariant == GraphSpec => []GraphTypeOK
<1>1. GraphTypeOK /\ [GraphNext]_graphVars => GraphTypeOK'
  BY GraphTypeStep
<1> QED
  BY GraphTypeInit, <1>1, PTL DEF GraphSpec
-----------------------------------------------------------------------------
\* Fewer edges reach fewer components.
LEMMA ReachesShrinks ==
    ASSUME NEW E, NEW F, F \subseteq E, NEW a, NEW b, Reaches(F, a, b)
    PROVE  Reaches(E, a, b)
BY DEF Reaches, Closed

\* Removing edges closes no cycle.
LEMMA RemovingKeepsNoCycle ==
    ASSUME NEW E, NEW F, F \subseteq E, NoCycle(E)
    PROVE  NoCycle(F)
BY ReachesShrinks DEF NoCycle

\* An edge f -> t closes no cycle when f cannot be reached from t.
LEMMA AddingKeepsNoCycle ==
    ASSUME NEW E, NEW f, NEW t, NoCycle(E), ~Reaches(E, t, f)
    PROVE  NoCycle(E \cup {<<f, t>>})
<1> DEFINE E2 == E \cup {<<f, t>>}
<1>1. PICK S0 \in SUBSET ComponentIds : Closed(E, S0) /\ t \in S0 /\ f \notin S0
  BY DEF Reaches
<1>2. Closed(E2, S0)
  BY <1>1 DEF Closed
<1>3. ~Reaches(E2, t, f)
  BY <1>1, <1>2 DEF Reaches
<1>4. ASSUME NEW e \in E
      PROVE  ~Reaches(E2, e[2], e[1])
  <2>1. PICK S1 \in SUBSET ComponentIds : Closed(E, S1) /\ e[2] \in S1 /\ e[1] \notin S1
    BY DEF NoCycle, Reaches
  <2>2. CASE f \notin S1 \/ t \in S1
    <3>1. Closed(E2, S1)
      BY <2>1, <2>2 DEF Closed
    <3> QED
      BY <2>1, <3>1 DEF Reaches
  <2>3. CASE e[1] \in S0
    <3>1. Closed(E2, S1 \cap S0)
      BY <1>1, <2>1 DEF Closed
    <3>2. e[2] \in S0
      BY <1>1, <2>3 DEF Closed
    <3> QED
      BY <2>1, <3>1, <3>2 DEF Reaches
  <2>4. CASE e[1] \notin S0
    <3>1. Closed(E2, S1 \cup S0)
      BY <1>1, <2>1 DEF Closed
    <3> QED
      BY <2>1, <2>4, <3>1 DEF Reaches
  <2> QED
    BY <2>2, <2>3, <2>4
<1>5. \A e \in E2 : ~Reaches(E2, e[2], e[1])
  <2> SUFFICES ASSUME NEW e \in E2 PROVE ~Reaches(E2, e[2], e[1])
    OBVIOUS
  <2>1. CASE e \in E
    BY <1>4, <2>1
  <2>2. CASE e = <<f, t>>
    <3>1. e[1] = f /\ e[2] = t
      BY <2>2
    <3> HIDE DEF E2
    <3> QED
      BY <1>3, <3>1
  <2> QED
    BY <2>1, <2>2
<1> QED
  BY <1>5 DEF NoCycle

LEMMA AcyclicStep ==
    ASSUME GraphTypeOK, Acyclic, [GraphNext]_graphVars
    PROVE  Acyclic'
<1> SUFFICES ASSUME NEW p \in ProductIds
             PROVE  NoCycle(EdgesOf(p)')
  BY DEF Acyclic, NoCycle
<1>1. NoCycle(EdgesOf(p))
  BY DEF Acyclic, NoCycle
<1>2. CASE UNCHANGED dependency
  BY <1>1, <1>2 DEF EdgesOf
<1>3. ASSUME NEW e \in EdgeRow,
             dependency' = dependency \cup {e}, ~EdgeConflicts(e)
      PROVE  NoCycle(EdgesOf(p)')
  <2>1. CASE e.product = p
    <3>1. EdgesOf(p)' = EdgesOf(p) \cup {<<e.from, e.to>>}
      BY <1>3, <2>1 DEF EdgesOf
    <3>2. ~Reaches(EdgesOf(p), e.to, e.from)
      BY <1>3, <2>1 DEF EdgeConflicts, ClosesCycle
    <3> QED
      BY <1>1, <3>1, <3>2, AddingKeepsNoCycle
  <2>2. CASE e.product # p
    <3>1. EdgesOf(p)' = EdgesOf(p)
      BY <1>3, <2>2 DEF EdgesOf
    <3> QED
      BY <1>1, <3>1
  <2> QED
    BY <2>1, <2>2
<1>4. ASSUME NEW e \in EdgeRow, dependency' = dependency \ {e}
      PROVE  NoCycle(EdgesOf(p)')
  <2>1. EdgesOf(p)' \subseteq EdgesOf(p)
    BY <1>4 DEF EdgesOf
  <2> QED
    BY <1>1, <2>1, RemovingKeepsNoCycle
<1> QED
  BY <1>2, <1>3, <1>4, EdgeStep

\* No sequence of added and removed edges ever closes a cycle: the premise of the
\* level walk behind every derived bump and every impact report.
THEOREM AcyclicInvariant == GraphSpec => []Acyclic
<1>1. GraphInit => Acyclic
  BY DEF GraphInit, Acyclic, EdgesOf
<1>2. GraphTypeOK /\ Acyclic /\ [GraphNext]_graphVars => Acyclic'
  BY AcyclicStep
<1> QED
  BY <1>1, <1>2, GraphTypeInvariant, PTL DEF GraphSpec
-----------------------------------------------------------------------------
LEMMA FiniteComponentsAlways == GraphSpec => []FiniteComponents
<1>1. GraphInit => FiniteComponents
  BY FiniteComponentsInit DEF GraphInit
<1>2. FiniteComponents /\ [GraphNext]_graphVars => FiniteComponents'
  BY FiniteComponentsStep
     DEF GraphNext, EdgeNext, AddDependency, RemoveDependency, catalogueVars, graphVars
<1> QED
  BY <1>1, <1>2, PTL DEF GraphSpec

\* The graph of a product is a finite one over its components.
LEMMA GraphOfProduct ==
    ASSUME GraphTypeOK, NEW p
    PROVE  /\ EdgesOf(p) \subseteq ComponentsOf(p) \X ComponentsOf(p)
           /\ Endpoints(EdgesOf(p)) \subseteq ComponentsOf(p)
           /\ ComponentsOf(p) \subseteq DOMAIN component /\ ComponentsOf(p) \subseteq ComponentIds
           /\ FiniteComponents => IsFiniteSet(Endpoints(EdgesOf(p)))
<1>1. ComponentsOf(p) \subseteq DOMAIN component /\ ComponentsOf(p) \subseteq ComponentIds
  BY DEF ComponentsOf, GraphTypeOK, CatalogueTypeOK
<1>2. EdgesOf(p) \subseteq ComponentsOf(p) \X ComponentsOf(p)
  BY DEF EdgesOf, GraphTypeOK
<1>3. Endpoints(EdgesOf(p)) \subseteq ComponentsOf(p)
  BY <1>2 DEF Endpoints
<1> QED
  BY <1>1, <1>2, <1>3, FS_Subset DEF FiniteComponents

\* is_reachable in terms of paths.
LEMMA ReachesIsDependsOn ==
    ASSUME NEW E, E \subseteq ComponentIds \X ComponentIds,
           NEW a \in ComponentIds, NEW b, a # b
    PROVE  Reaches(E, a, b) <=> DependsOn(E, a, b)
<1>1. ASSUME DependsOn(E, a, b), NEW S \in SUBSET ComponentIds, Closed(E, S), a \in S
      PROVE  b \in S
  <2> DEFINE T == S \cap Endpoints(E)
  <2>1. Closed(E, T) /\ Dependencies(E, a) \subseteq T
    BY <1>1 DEF Closed, Dependencies, Endpoints
  <2> QED
    BY <1>1, <2>1 DEF DependsOn
<1>2. ASSUME Reaches(E, a, b), NEW S \in SUBSET Endpoints(E),
             Closed(E, S), Dependencies(E, a) \subseteq S
      PROVE  b \in S
  <2>1. S \cup {a} \in SUBSET ComponentIds
    BY DEF Endpoints
  <2>2. Closed(E, S \cup {a})
    BY <1>2 DEF Closed, Dependencies
  <2> QED
    BY <1>2, <2>1, <2>2 DEF Reaches
<1> QED
  BY <1>1, <1>2 DEF Reaches, DependsOn

\* The cycle check keeps every component from depending on itself.
LEMMA NoCycleIsAcyclic ==
    ASSUME NEW E, E \subseteq ComponentIds \X ComponentIds, NoCycle(E)
    PROVE  AcyclicGraph(E)
<1> SUFFICES ASSUME NEW n \in Endpoints(E), DependsOn(E, n, n) PROVE FALSE
  BY DEF AcyclicGraph
<1> DEFINE S == {x \in Endpoints(E) : \E d \in Dependencies(E, n) : Reaches(E, d, x)}
<1>1. Dependencies(E, n) \subseteq S
  BY DirectDependency DEF Reaches
<1>2. Closed(E, S)
  <2> SUFFICES ASSUME NEW e \in E, e[1] \in S PROVE e[2] \in S
    BY DEF Closed
  <2>1. PICK d \in Dependencies(E, n) : Reaches(E, d, e[1])
    OBVIOUS
  <2>2. Reaches(E, d, e[2])
    BY <2>1 DEF Reaches, Closed
  <2> QED
    BY <2>2 DEF Endpoints
<1>3. n \in S
  BY <1>1, <1>2 DEF DependsOn
<1>4. PICK d \in Dependencies(E, n) : Reaches(E, d, n)
  BY <1>3
<1>5. PICK e \in E : e[1] = n /\ e[2] = d
  BY DEF Dependencies
<1> QED
  BY <1>4, <1>5 DEF NoCycle

\* What of the report is felt: of a component other than c, MINOR when it depends on
\* c directly, PATCH when it does through others, nothing otherwise.
LEMMA ImpactIsFelt ==
    ASSUME NEW E, AcyclicGraph(E), NEW C, Endpoints(E) \subseteq C, NEW c \in C, NEW d \in C, d # c
    PROVE  LET own == [x \in C |-> IF x = c THEN MAJOR ELSE NONE] IN
           FeltLevel(own, E, d) = IF c \in Dependencies(E, d) THEN MINOR
                                  ELSE IF DependsOn(E, d, c) THEN PATCH ELSE NONE
<1> DEFINE own == [x \in C |-> IF x = c THEN MAJOR ELSE NONE]
<1>1. \A x \in C : BaseLevel(own, x) = IF x = c THEN MAJOR ELSE NONE
  BY DEF BaseLevel
<1>2. OwnLevelsTyped(own)
  BY LevelsAreOrdinals DEF OwnLevelsTyped
<1> HIDE DEF own
<1>3. Dependencies(E, d) \subseteq C /\ IndirectDependencies(E, d) \subseteq C
  BY DirectDependency DEF IndirectDependencies
<1>4. /\ FeltLevel(own, E, d) = MaxLevel(FeltAt(own, E, d))
      /\ FeltAt(own, E, d) \subseteq Levels
  BY <1>2, FeltLevelIsTheHighest
<1>5. FeltAt(own, E, d) =
         {NONE} \cup {Propagate(BaseLevel(own, x)) : x \in Dependencies(E, d)}
                \cup {Propagate(Propagate(BaseLevel(own, x))) : x \in IndirectDependencies(E, d)}
  BY <1>1 DEF FeltAt
<1>6. /\ \A x \in C \ {c} : /\ Propagate(BaseLevel(own, x)) = NONE
                            /\ Propagate(Propagate(BaseLevel(own, x))) = NONE
      /\ Propagate(BaseLevel(own, c)) = MINOR
      /\ Propagate(Propagate(BaseLevel(own, c))) = PATCH
  BY <1>1, PropagateTable
<1>7. CASE c \in Dependencies(E, d)
  <2>1. MINOR \in FeltAt(own, E, d)
    BY <1>5, <1>6, <1>7
  <2>2. \A l \in FeltAt(own, E, d) : l \in {NONE, MINOR, PATCH}
    BY <1>3, <1>5, <1>6
  <2>3. \A l \in FeltAt(own, E, d) : l <= MINOR
    BY <2>2, LevelsAreOrdinals
  <2>4. MaxLevel(FeltAt(own, E, d)) = MINOR
    BY <1>4, <2>1, <2>3, OnlyOneHighest
  <2> QED
    BY <1>4, <1>7, <2>4 DEF own
<1>8. CASE c \notin Dependencies(E, d) /\ DependsOn(E, d, c)
  <2>1. PATCH \in FeltAt(own, E, d)
    BY <1>5, <1>6, <1>8, PathsBegin
  <2>2. \A l \in FeltAt(own, E, d) : l \in {NONE, PATCH}
    BY <1>3, <1>5, <1>6, <1>8
  <2>3. \A l \in FeltAt(own, E, d) : l <= PATCH
    BY <2>2, LevelsAreOrdinals
  <2>4. MaxLevel(FeltAt(own, E, d)) = PATCH
    BY <1>4, <2>1, <2>3, OnlyOneHighest
  <2> QED
    BY <1>4, <1>8, <2>4 DEF own
<1>9. CASE c \notin Dependencies(E, d) /\ ~DependsOn(E, d, c)
  <2>1. c \notin IndirectDependencies(E, d)
    BY <1>9, PathsJoin DEF IndirectDependencies
  <2>2. \A l \in FeltAt(own, E, d) : l = NONE
    BY <1>3, <1>5, <1>6, <1>9, <2>1
  <2>3. \A l \in FeltAt(own, E, d) : l <= NONE
    BY <2>2, LevelsAreOrdinals
  <2>4. MaxLevel(FeltAt(own, E, d)) = NONE
    BY <1>4, <2>3, OnlyOneHighest
  <2> QED
    BY <1>4, <1>9, <2>4 DEF own
<1> QED
  BY <1>7, <1>8, <1>9

LEMMA ImpactFollows ==
    ASSUME GraphTypeOK, Acyclic, FiniteComponents
    PROVE  ImpactIsTheTransitiveDependents
<1> SUFFICES ASSUME NEW p \in DOMAIN product, NEW c \in ComponentsOf(p)
             PROVE  /\ DOMAIN Impact(p, c) =
                          {d \in ComponentsOf(p) \ {c} : Reaches(EdgesOf(p), d, c)}
                    /\ \A d \in DOMAIN Impact(p, c) :
                          Impact(p, c)[d] = IF <<d, c>> \in EdgesOf(p) THEN MINOR ELSE PATCH
  BY DEF ImpactIsTheTransitiveDependents
<1> DEFINE C == ComponentsOf(p)
           E == EdgesOf(p)
           own == [x \in C |-> IF x = c THEN MAJOR ELSE NONE]
           felt(d) == IF c \in Dependencies(E, d) THEN MINOR
                      ELSE IF DependsOn(E, d, c) THEN PATCH ELSE NONE
<1>1. /\ E \subseteq C \X C /\ Endpoints(E) \subseteq C /\ C \subseteq ComponentIds
      /\ IsFiniteSet(Endpoints(E))
  BY GraphOfProduct
<1>2. E \subseteq ComponentIds \X ComponentIds
  BY <1>1
<1>3. NoCycle(E)
  BY DEF Acyclic, NoCycle, GraphTypeOK, CatalogueTypeOK
<1>4. AcyclicGraph(E)
  BY <1>2, <1>3, NoCycleIsAcyclic
<1>5. OwnLevelsTyped(own) /\ DOMAIN own = C
  BY LevelsAreOrdinals DEF OwnLevelsTyped
<1>6. \A d \in C \ {c} : EffectiveLevels(own, E)[d] = felt(d)
  <2> SUFFICES ASSUME NEW d \in C \ {c} PROVE EffectiveLevels(own, E)[d] = felt(d)
    OBVIOUS
  <2>1. FeltLevel(own, E, d) = felt(d)
    <3>1. c \in C
      OBVIOUS
    <3> HIDE DEF C, E
    <3> QED
      BY <1>1, <1>4, <3>1, ImpactIsFelt
  <2>2. EffectiveLevels(own, E)[d] = FeltLevel(own, E, d)
    <3>1. d \in DOMAIN own \cup Endpoints(E)
      BY <1>5
    <3> HIDE DEF C, E, own
    <3> QED
      BY <1>1, <1>4, <1>5, <3>1, EffectiveIsFelt
  <2> QED
    BY <2>1, <2>2
<1>7. Impact(p, c) = [d \in {x \in C \ {c} : EffectiveLevels(own, E)[x] # NONE} |->
                         EffectiveLevels(own, E)[d]]
  BY DEF Impact
<1>8. \A d \in C \ {c} : Reaches(E, d, c) <=> DependsOn(E, d, c)
  BY <1>1, <1>2, ReachesIsDependsOn
<1>9. \A d \in C : c \in Dependencies(E, d) <=> <<d, c>> \in E
  BY <1>1 DEF Dependencies
<1>10. \A d \in C : c \in Dependencies(E, d) => DependsOn(E, d, c)
  BY DirectDependency
<1> HIDE DEF C, E, own
<1> QED
  BY <1>6, <1>7, <1>8, <1>9, <1>10, LevelsAreOrdinals DEF C, E

\* Whatever edges were added and removed before, an impact report names the
\* components that depend on the changed one and no other, at the level they feel.
THEOREM ImpactIsExact == GraphSpec => []ImpactIsTheTransitiveDependents
BY ImpactFollows, GraphTypeInvariant, AcyclicInvariant, FiniteComponentsAlways, PTL
=============================================================================
