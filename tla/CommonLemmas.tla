----------------------------- MODULE CommonLemmas -----------------------------
(***************************************************************************)
(* Facts that the proofs of several modules use: about the catalogue's     *)
(* tables, about change levels, and about the levels felt along a graph.   *)
(*                                                                         *)
(* The main one is EffectiveIsFelt: on a finite graph without cycles the   *)
(* recursion of effective_levels has one solution, the closed form         *)
(* FeltLevel.  That the closed form solves it holds on any graph; that it  *)
(* is the only solution needs both conditions, and is shown on a component *)
(* with the fewest dependencies among those where two solutions differ.    *)
(***************************************************************************)
EXTENDS Catalogue, BumpDerivation, FiniteSetTheorems, TLAPS

\* The result of an INSERT is again a table of rows.
LEMMA InsertTyped ==
    ASSUME NEW table, NEW key, NEW Rows, NEW row \in Rows,
           table \in [DOMAIN table -> Rows]
    PROVE  Insert(table, key, row) \in [DOMAIN Insert(table, key, row) -> Rows]
BY DEF Insert

\* Products and components only ever gain rows.
LEMMA CatalogueGrows ==
    ASSUME CatalogueTypeOK, CatalogueNext
    PROVE  /\ CatalogueTypeOK'
           /\ \A p \in DOMAIN product : p \in DOMAIN product' /\ product'[p] = product[p]
           /\ \A c \in DOMAIN component :
                 c \in DOMAIN component' /\ component'[c] = component[c]
<1>1. CASE \E p \in ProductIds, n \in ProductNames : CreateProduct(p, n)
  <2>1. PICK p \in ProductIds, n \in ProductNames : CreateProduct(p, n)
    BY <1>1
  <2>2. CASE UNCHANGED product
    BY <2>1, <2>2 DEF CreateProduct, CatalogueTypeOK
  <2>3. CASE product' = Insert(product, p, [name |-> n, policy |-> "default"])
    <3>1. [name |-> n, policy |-> "default"] \in ProductRow
      BY DEF ProductRow, Policies
    <3>2. product' \in [DOMAIN product' -> ProductRow]
      BY <2>3, <3>1, InsertTyped DEF CatalogueTypeOK
    <3>3. /\ DOMAIN product' = DOMAIN product \cup {p}
          /\ \A q \in DOMAIN product \ {p} : product'[q] = product[q]
      BY <2>3 DEF Insert
    <3>4. component' = component /\ p \notin DOMAIN product
      BY <2>1 DEF CreateProduct
    <3>5. component' \in [DOMAIN component' -> DOMAIN product']
      BY <3>3, <3>4 DEF CatalogueTypeOK
    <3> QED
      BY <3>2, <3>3, <3>4, <3>5 DEF CatalogueTypeOK
  <2> QED
    BY <2>1, <2>2, <2>3 DEF CreateProduct
<1>2. CASE \E c \in ComponentIds, p \in ProductIds : CreateComponent(c, p)
  <2>1. PICK c \in ComponentIds, p \in ProductIds : CreateComponent(c, p)
    BY <1>2
  <2>2. CASE UNCHANGED component
    BY <2>1, <2>2 DEF CreateComponent, CatalogueTypeOK
  <2>3. CASE p \in DOMAIN product /\ component' = Insert(component, c, p)
    <3>1. component' \in [DOMAIN component' -> DOMAIN product]
      BY <2>3, InsertTyped DEF CatalogueTypeOK
    <3>2. /\ DOMAIN component' = DOMAIN component \cup {c}
          /\ \A d \in DOMAIN component \ {c} : component'[d] = component[d]
      BY <2>3 DEF Insert
    <3>3. product' = product /\ c \notin DOMAIN component
      BY <2>1 DEF CreateComponent
    <3> QED
      BY <3>1, <3>2, <3>3 DEF CatalogueTypeOK
  <2> QED
    BY <2>1, <2>2, <2>3 DEF CreateComponent
<1> QED
  BY <1>1, <1>2 DEF CatalogueNext

\* The tables the service starts with are well typed.
LEMMA CatalogueTypeInit == CatalogueInit => CatalogueTypeOK
<1> SUFFICES ASSUME CatalogueInit PROVE CatalogueTypeOK
  OBVIOUS
<1>1. DOMAIN component = {} /\ component \in [DOMAIN component -> DOMAIN product]
  BY DEF CatalogueInit
<1>2. DOMAIN product = LegacyProducts /\ product \in [LegacyProducts -> ProductRow]
  BY DEF CatalogueInit, ProductRow, Policies
<1> QED
  BY <1>1, <1>2, CatalogueAssumption DEF CatalogueTypeOK

\* At any time only finitely many components were created.
FiniteComponents == IsFiniteSet(DOMAIN component)

LEMMA FiniteComponentsInit == CatalogueInit => FiniteComponents
BY FS_EmptySet DEF CatalogueInit, FiniteComponents

LEMMA FiniteComponentsStep ==
    ASSUME FiniteComponents, CatalogueNext \/ UNCHANGED component
    PROVE  FiniteComponents'
<1>1. CASE UNCHANGED component
  BY <1>1 DEF FiniteComponents
<1>2. ASSUME NEW c, NEW p, component' = Insert(component, c, p)
      PROVE  FiniteComponents'
  <2>1. DOMAIN component' = DOMAIN component \cup {c}
    BY <1>2 DEF Insert
  <2> QED
    BY <2>1, FS_AddElement DEF FiniteComponents
<1> QED
  BY <1>1, <1>2 DEF CatalogueNext, CreateProduct, CreateComponent
-----------------------------------------------------------------------------
(***************************************************************************)
(* Change levels.                                                          *)
(***************************************************************************)

LEMMA LevelsAreOrdinals ==
    /\ Levels = {0, 1, 2, 3}
    /\ NONE = 0 /\ PATCH = 1 /\ MINOR = 2 /\ MAJOR = 3
BY DEF Levels, NONE, PATCH, MINOR, MAJOR

\* max_level returns a member of the set, or NONE, that no member exceeds.
LEMMA MaxLevelIsTheHighest ==
    ASSUME NEW S, S \subseteq Levels
    PROVE  /\ MaxLevel(S) \in Levels
           /\ MaxLevel(S) \in S \cup {NONE}
           /\ \A l \in S : l <= MaxLevel(S)
<1>1. \E m \in Levels : m \in S \cup {NONE} /\ \A l \in S : l <= m
  <2>1. CASE 3 \in S
    BY <2>1, LevelsAreOrdinals
  <2>2. CASE 3 \notin S /\ 2 \in S
    BY <2>2, LevelsAreOrdinals
  <2>3. CASE 3 \notin S /\ 2 \notin S /\ 1 \in S
    BY <2>3, LevelsAreOrdinals
  <2>4. CASE S \subseteq {0}
    BY <2>4, LevelsAreOrdinals
  <2> QED
    BY <2>1, <2>2, <2>3, <2>4, LevelsAreOrdinals
<1> QED
  BY <1>1 DEF MaxLevel

\* Only one level is the highest of a set.
LEMMA OnlyOneHighest ==
    ASSUME NEW S, S \subseteq Levels, NEW m \in S \cup {NONE}, \A l \in S : l <= m
    PROVE  MaxLevel(S) = m
<1> DEFINE h == MaxLevel(S)
<1>1. h \in Levels /\ h \in S \cup {NONE} /\ \A l \in S : l <= h
  BY MaxLevelIsTheHighest
<1>2. m \in Levels /\ NONE <= m /\ NONE <= h
  BY <1>1, LevelsAreOrdinals
<1> HIDE DEF h
<1>3. m <= h /\ h <= m
  BY <1>1, <1>2
<1>4. h = m
  BY <1>1, <1>2, <1>3, LevelsAreOrdinals
<1> QED
  BY <1>4 DEF h

\* Levels may be compared one after the other.
LEMMA HighestOfMore ==
    ASSUME NEW S, S \subseteq Levels, NEW l \in Levels
    PROVE  MaxLevel({MaxLevel(S), l}) = MaxLevel(S \cup {l})
<1> DEFINE h == MaxLevel(S)
           m == MaxLevel({h, l})
<1>1. h \in Levels /\ h \in S \cup {NONE} /\ \A k \in S : k <= h
  BY MaxLevelIsTheHighest
<1> HIDE DEF h
<1>2. {h, l} \subseteq Levels
  BY <1>1
<1>3. m \in Levels /\ m \in {h, l, NONE} /\ h <= m /\ l <= m
  BY <1>2, MaxLevelIsTheHighest
<1> HIDE DEF m
<1>4. m \in S \cup {l} \cup {NONE}
  BY <1>1, <1>3
<1>5. \A k \in S \cup {l} : k <= m
  BY <1>1, <1>3, LevelsAreOrdinals
<1>6. MaxLevel(S \cup {l}) = m
  BY <1>4, <1>5, OnlyOneHighest
<1> QED
  BY <1>6 DEF m, h

\* The table of propagate: it keeps order, raises nothing, and is exhausted after
\* two applications.
LEMMA PropagateTable ==
    /\ \A l \in Levels : Propagate(l) \in Levels /\ Propagate(l) <= l
    /\ \A l \in Levels : Propagate(Propagate(Propagate(l))) = Propagate(Propagate(l))
    /\ \A k, l \in Levels : k <= l => Propagate(k) <= Propagate(l)
    /\ Propagate(NONE) = NONE /\ Propagate(MAJOR) = MINOR
    /\ Propagate(Propagate(MAJOR)) = PATCH
<1>1. /\ Propagate(0) = 0 /\ Propagate(1) = 1
      /\ Propagate(2) = 1 /\ Propagate(3) = 2
  BY LevelsAreOrdinals DEF Propagate
<1> QED
  BY <1>1, LevelsAreOrdinals
-----------------------------------------------------------------------------
(***************************************************************************)
(* Paths.                                                                  *)
(***************************************************************************)

\* A dependency of a dependency is depended on.
LEMMA PathsJoin ==
    ASSUME NEW E, NEW a, NEW b, NEW c,
           b \in Dependencies(E, a) \/ DependsOn(E, a, b),
           c \in Dependencies(E, b) \/ DependsOn(E, b, c)
    PROVE  DependsOn(E, a, c)
<1> SUFFICES ASSUME NEW S \in SUBSET Endpoints(E),
                    Closed(E, S), Dependencies(E, a) \subseteq S
             PROVE  c \in S
  BY DEF DependsOn
<1>1. b \in S
  BY DEF DependsOn
<1>2. Dependencies(E, b) \subseteq S
  BY <1>1 DEF Closed, Dependencies
<1> QED
  BY <1>2 DEF DependsOn

\* A direct dependency is depended on.
LEMMA DirectDependency ==
    ASSUME NEW E, NEW a, NEW b \in Dependencies(E, a)
    PROVE  DependsOn(E, a, b) /\ b \in Endpoints(E)
BY DEF DependsOn, Dependencies, Endpoints

\* What is depended on is a direct dependency or one of a direct dependency.
LEMMA PathsBegin ==
    ASSUME NEW E, NEW a, NEW b, DependsOn(E, a, b)
    PROVE  b \in Dependencies(E, a) \/ b \in IndirectDependencies(E, a)
<1> DEFINE S == Dependencies(E, a) \cup IndirectDependencies(E, a)
<1>1. S \subseteq Endpoints(E)
  BY DEF IndirectDependencies, Dependencies, Endpoints
<1>2. Closed(E, S)
  <2> SUFFICES ASSUME NEW e \in E, e[1] \in S PROVE e[2] \in IndirectDependencies(E, a)
    BY DEF Closed
  <2>1. e[2] \in Dependencies(E, e[1]) /\ e[2] \in Endpoints(E)
    BY DEF Dependencies, Endpoints
  <2>2. CASE e[1] \in Dependencies(E, a)
    BY <2>1, <2>2, DirectDependency DEF IndirectDependencies
  <2>3. CASE e[1] \in IndirectDependencies(E, a)
    <3>1. PICK y \in Dependencies(E, a) : DependsOn(E, y, e[1])
      BY <2>3 DEF IndirectDependencies
    <3>2. DependsOn(E, y, e[2])
      BY <2>1, <3>1, PathsJoin
    <3> QED
      BY <2>1, <3>1, <3>2 DEF IndirectDependencies
  <2> QED
    BY <2>2, <2>3
<1>3. b \in S
  BY <1>1, <1>2 DEF DependsOn
<1> QED
  BY <1>3

\* Indirect dependencies are depended on, and are those of the direct ones.
LEMMA IndirectDependency ==
    ASSUME NEW E, NEW a, NEW d \in Dependencies(E, a),
           NEW b, b \in Dependencies(E, d) \/ b \in IndirectDependencies(E, d)
    PROVE  b \in IndirectDependencies(E, a)
<1>1. b \in Endpoints(E)
  BY DEF IndirectDependencies, Dependencies, Endpoints
<1>2. DependsOn(E, d, b)
  <2>1. CASE b \in Dependencies(E, d)
    BY <2>1, DirectDependency
  <2>2. CASE b \in IndirectDependencies(E, d)
    BY <2>2, PathsJoin DEF IndirectDependencies
  <2> QED
    BY <2>1, <2>2
<1> QED
  BY <1>1, <1>2 DEF IndirectDependencies
-----------------------------------------------------------------------------
(***************************************************************************)
(* Felt levels.                                                            *)
(***************************************************************************)

\* Own levels as max_level takes them.
OwnLevelsTyped(own) == \A n \in DOMAIN own : own[n] \in Levels

LEMMA BaseLevelTyped ==
    ASSUME NEW own, OwnLevelsTyped(own), NEW n
    PROVE  BaseLevel(own, n) \in Levels
BY LevelsAreOrdinals DEF OwnLevelsTyped, BaseLevel

\* What reaches n without recursion.
FeltAt(own, E, n) ==
    {BaseLevel(own, n)}
    \cup {Propagate(BaseLevel(own, d)) : d \in Dependencies(E, n)}
    \cup {Propagate(Propagate(BaseLevel(own, d))) : d \in IndirectDependencies(E, n)}

LEMMA FeltLevelIsTheHighest ==
    ASSUME NEW own, OwnLevelsTyped(own), NEW E, NEW n
    PROVE  /\ FeltLevel(own, E, n) = MaxLevel(FeltAt(own, E, n))
           /\ FeltAt(own, E, n) \subseteq Levels
           /\ FeltLevel(own, E, n) \in Levels
           /\ FeltLevel(own, E, n) \in FeltAt(own, E, n) \cup {NONE}
           /\ \A l \in FeltAt(own, E, n) : l <= FeltLevel(own, E, n)
<1>1. FeltLevel(own, E, n) = MaxLevel(FeltAt(own, E, n))
  BY DEF FeltLevel, FeltAt
<1>2. FeltAt(own, E, n) \subseteq Levels
  BY BaseLevelTyped, PropagateTable DEF FeltAt
<1> QED
  BY <1>1, <1>2, MaxLevelIsTheHighest

\* The right-hand side of the recursion: the base of n and what its dependencies
\* contribute under the levels f.
Contributions(own, E, f, n) ==
    {BaseLevel(own, n)} \cup {Propagate(f[d]) : d \in Dependencies(E, n)}

\* f solves the recursion of effective_levels on the nodes of the graph.
Solves(own, E, f) ==
    f = [n \in DOMAIN own \cup Endpoints(E) |-> MaxLevel(Contributions(own, E, f, n))]

\* The closed form solves the recursion, on any graph.
LEMMA FeltLevelsSolve ==
    ASSUME NEW own, OwnLevelsTyped(own), NEW E
    PROVE  Solves(own, E, [n \in DOMAIN own \cup Endpoints(E) |-> FeltLevel(own, E, n)])
<1> DEFINE nodes == DOMAIN own \cup Endpoints(E)
           felt(n) == FeltLevel(own, E, n)
           g == [n \in nodes |-> felt(n)]
<1> SUFFICES ASSUME NEW n \in nodes
             PROVE  MaxLevel(Contributions(own, E, g, n)) = felt(n)
  BY DEF Solves
<1>1. \A m : /\ felt(m) \in Levels /\ felt(m) \in FeltAt(own, E, m) \cup {NONE}
             /\ \A l \in FeltAt(own, E, m) : l <= felt(m)
             /\ BaseLevel(own, m) \in Levels
  BY FeltLevelIsTheHighest, BaseLevelTyped
<1>2. \A d \in Dependencies(E, n) : d \in nodes /\ g[d] = felt(d)
  BY DirectDependency
<1>3. Contributions(own, E, g, n) =
         {BaseLevel(own, n)} \cup {Propagate(felt(d)) : d \in Dependencies(E, n)}
  BY <1>2 DEF Contributions
<1> HIDE DEF felt, g, nodes
<1>4. Contributions(own, E, g, n) \subseteq Levels
  BY <1>1, <1>3, PropagateTable
<1>5. ASSUME NEW d \in Dependencies(E, n)
      PROVE  Propagate(felt(d)) <= felt(n)
  <2>1. CASE felt(d) = BaseLevel(own, d)
    <3>1. Propagate(BaseLevel(own, d)) \in FeltAt(own, E, n)
      BY DEF FeltAt
    <3> QED
      BY <1>1, <2>1, <3>1
  <2>2. ASSUME NEW x \in Dependencies(E, d), felt(d) = Propagate(BaseLevel(own, x))
        PROVE  Propagate(felt(d)) <= felt(n)
    <3>1. x \in IndirectDependencies(E, n)
      BY IndirectDependency
    <3>2. Propagate(Propagate(BaseLevel(own, x))) \in FeltAt(own, E, n)
      BY <3>1 DEF FeltAt
    <3> QED
      BY <1>1, <2>2, <3>2
  <2>3. ASSUME NEW x \in IndirectDependencies(E, d),
               felt(d) = Propagate(Propagate(BaseLevel(own, x)))
        PROVE  Propagate(felt(d)) <= felt(n)
    <3>1. x \in IndirectDependencies(E, n)
      BY IndirectDependency
    <3>2. Propagate(Propagate(BaseLevel(own, x))) \in FeltAt(own, E, n)
      BY <3>1 DEF FeltAt
    <3>3. Propagate(felt(d)) = felt(d)
      BY <1>1, <2>3, PropagateTable
    <3> QED
      BY <1>1, <2>3, <3>2, <3>3
  <2>4. CASE felt(d) = NONE
    <3>1. Propagate(felt(d)) = NONE
      BY <2>4, PropagateTable
    <3> QED
      BY <1>1, <3>1, LevelsAreOrdinals
  <2>5. felt(d) \in FeltAt(own, E, d) \cup {NONE}
    BY <1>1
  <2> QED
    BY <2>1, <2>2, <2>3, <2>4, <2>5 DEF FeltAt
<1>6. ASSUME NEW d \in Dependencies(E, n), NEW l \in Levels,
             l <= felt(d), felt(n) = Propagate(l)
      PROVE  felt(n) \in Contributions(own, E, g, n)
  <2>1. Propagate(l) <= Propagate(felt(d)) /\ Propagate(felt(d)) <= felt(n)
    BY <1>1, <1>5, <1>6, PropagateTable
  <2>2. Propagate(felt(d)) \in Levels /\ felt(n) \in Levels
    BY <1>1, PropagateTable
  <2>3. felt(n) = Propagate(felt(d))
    BY <1>6, <2>1, <2>2, LevelsAreOrdinals
  <2> QED
    BY <1>3, <2>3
<1>7. felt(n) \in Contributions(own, E, g, n) \cup {NONE}
  <2>1. CASE felt(n) = BaseLevel(own, n)
    BY <1>3, <2>1
  <2>2. ASSUME NEW d \in Dependencies(E, n), felt(n) = Propagate(BaseLevel(own, d))
        PROVE  felt(n) \in Contributions(own, E, g, n)
    <3>1. BaseLevel(own, d) \in FeltAt(own, E, d)
      BY DEF FeltAt
    <3> QED
      BY <1>1, <1>6, <2>2, <3>1
  <2>3. ASSUME NEW x \in IndirectDependencies(E, n),
               felt(n) = Propagate(Propagate(BaseLevel(own, x)))
        PROVE  felt(n) \in Contributions(own, E, g, n)
    <3>1. PICK y \in Dependencies(E, n) : DependsOn(E, y, x)
      BY DEF IndirectDependencies
    <3>2. CASE x \in Dependencies(E, y)
      <4>1. Propagate(BaseLevel(own, x)) \in FeltAt(own, E, y)
        BY <3>2 DEF FeltAt
      <4>2. Propagate(BaseLevel(own, x)) \in Levels
        BY <1>1, PropagateTable
      <4> QED
        BY <1>1, <1>6, <2>3, <4>1, <4>2
    <3>3. CASE x \in IndirectDependencies(E, y)
      <4> DEFINE l == Propagate(Propagate(BaseLevel(own, x)))
      <4>1. l \in FeltAt(own, E, y)
        BY <3>3 DEF FeltAt
      <4>2. l \in Levels /\ Propagate(l) = l
        BY <1>1, PropagateTable
      <4> HIDE DEF l
      <4>3. l <= felt(y)
        BY <1>1, <4>1
      <4>4. felt(n) = Propagate(l)
        BY <2>3, <4>2 DEF l
      <4> QED
        BY <1>6, <4>2, <4>3, <4>4
    <3> QED
      BY <3>1, <3>2, <3>3, PathsBegin
  <2> QED
    BY <1>1, <2>1, <2>2, <2>3 DEF FeltAt
<1>8. \A l \in Contributions(own, E, g, n) : l <= felt(n)
  <2>1. BaseLevel(own, n) <= felt(n)
    BY <1>1 DEF FeltAt
  <2> QED
    BY <1>3, <1>5, <2>1
<1> QED
  BY <1>4, <1>7, <1>8, OnlyOneHighest

\* What the closed form gives a node, from what it gives its dependencies.
LEMMA FeltLevelFromDependencies ==
    ASSUME NEW own, OwnLevelsTyped(own), NEW E, NEW n \in DOMAIN own \cup Endpoints(E)
    PROVE  FeltLevel(own, E, n) =
              MaxLevel({BaseLevel(own, n)}
                       \cup {Propagate(FeltLevel(own, E, d)) : d \in Dependencies(E, n)})
<1> DEFINE g == [m \in DOMAIN own \cup Endpoints(E) |-> FeltLevel(own, E, m)]
<1>1. g[n] = MaxLevel(Contributions(own, E, g, n))
  <2>1. Solves(own, E, g)
    BY FeltLevelsSolve
  <2> HIDE DEF g
  <2> QED
    BY <2>1 DEF Solves
<1>2. \A d \in Dependencies(E, n) : g[d] = FeltLevel(own, E, d)
  BY DirectDependency
<1>3. g[n] = FeltLevel(own, E, n)
  OBVIOUS
<1> HIDE DEF g
<1>4. Contributions(own, E, g, n) =
         {BaseLevel(own, n)}
         \cup {Propagate(FeltLevel(own, E, d)) : d \in Dependencies(E, n)}
  BY <1>2 DEF Contributions
<1> QED
  BY <1>1, <1>3, <1>4

\* The levels the model uses solve the recursion, on any graph.
LEMMA EffectiveLevelsSolve ==
    ASSUME NEW own, OwnLevelsTyped(own), NEW E
    PROVE  Solves(own, E, EffectiveLevels(own, E))
<1>1. EffectiveLevels(own, E) = CHOOSE f : Solves(own, E, f)
  BY DEF EffectiveLevels, Solves, Contributions
<1>2. \E f : Solves(own, E, f)
  BY FeltLevelsSolve
<1> QED
  BY <1>1, <1>2

\* No component depends on itself.
AcyclicGraph(E) == \A n \in Endpoints(E) : ~DependsOn(E, n, n)

\* What n depends on.
Reachable(E, n) == {d \in Endpoints(E) : DependsOn(E, n, d)}

\* In a graph without cycles a dependency depends on strictly less.
LEMMA DependenciesDependOnLess ==
    ASSUME NEW E, AcyclicGraph(E), NEW n, NEW d \in Dependencies(E, n)
    PROVE  Reachable(E, d) \subseteq Reachable(E, n) /\ Reachable(E, d) # Reachable(E, n)
<1>1. d \in Reachable(E, n)
  BY DirectDependency DEF Reachable
<1>2. d \notin Reachable(E, d)
  BY DEF AcyclicGraph, Reachable
<1>3. Reachable(E, d) \subseteq Reachable(E, n)
  BY PathsJoin DEF Reachable
<1> QED
  BY <1>1, <1>2, <1>3

\* On a finite graph without cycles the recursion has one solution: among the nodes
\* where two differ, one that depends on least has a dependency where they differ.
LEMMA OnlyOneSolution ==
    ASSUME NEW own, NEW E, IsFiniteSet(Endpoints(E)), AcyclicGraph(E),
           NEW f, Solves(own, E, f), NEW g, Solves(own, E, g)
    PROVE  f = g
<1> DEFINE nodes == DOMAIN own \cup Endpoints(E)
           differ == {n \in nodes : f[n] # g[n]}
           sets == {Reachable(E, n) : n \in differ}
           P == Endpoints(E)
<1>1. ASSUME NEW n \in differ
      PROVE  \E d \in Dependencies(E, n) : d \in differ
  <2> SUFFICES ASSUME \A d \in Dependencies(E, n) : f[d] = g[d]
               PROVE  FALSE
    BY DirectDependency
  <2>1. Contributions(own, E, f, n) = Contributions(own, E, g, n)
    BY DEF Contributions
  <2>2. n \in nodes
    OBVIOUS
  <2>3. f[n] = MaxLevel(Contributions(own, E, f, n))
    BY <2>2 DEF Solves
  <2>4. g[n] = MaxLevel(Contributions(own, E, g, n))
    BY <2>2 DEF Solves
  <2> QED
    BY <2>1, <2>3, <2>4
<1>2. sets \subseteq FiniteSubsetsOf(P)
  BY FS_Subset DEF FiniteSubsetsOf, Reachable
<1>3. ASSUME differ # {}
      PROVE  FALSE
  <2>1. sets # {}
    BY <1>3
  <2>2. PICK least \in sets : \A s \in sets : <<s, least>> \notin StrictSubsetOrdering(P)
    <3>1. IsWellFoundedOn(StrictSubsetOrdering(P), FiniteSubsetsOf(P))
      BY FS_StrictSubsetOrderingWellFounded
    <3> HIDE DEF sets, P
    <3> QED
      BY <1>2, <2>1, <3>1, WFMin
  <2>3. PICK n \in differ : least = Reachable(E, n)
    OBVIOUS
  <2>4. PICK d \in Dependencies(E, n) : d \in differ
    BY <1>1
  <2>5. Reachable(E, d) \in sets
    BY <2>4
  <2>6. <<Reachable(E, d), least>> \in StrictSubsetOrdering(P)
    BY <2>3, DependenciesDependOnLess DEF StrictSubsetOrdering, Reachable
  <2> QED
    BY <2>2, <2>5, <2>6
<1>4. DOMAIN f = nodes /\ DOMAIN g = nodes
  BY DEF Solves
<1>5. f = [n \in nodes |-> f[n]] /\ g = [n \in nodes |-> g[n]]
  BY DEF Solves
<1> QED
  BY <1>3, <1>5

\* effective_levels computes the closed form.
LEMMA EffectiveIsFelt ==
    ASSUME NEW own, OwnLevelsTyped(own),
           NEW E, IsFiniteSet(Endpoints(E)), AcyclicGraph(E),
           NEW n \in DOMAIN own \cup Endpoints(E)
    PROVE  EffectiveLevels(own, E)[n] = FeltLevel(own, E, n)
<1> DEFINE g == [m \in DOMAIN own \cup Endpoints(E) |-> FeltLevel(own, E, m)]
<1>1. Solves(own, E, EffectiveLevels(own, E))
  BY EffectiveLevelsSolve
<1>2. Solves(own, E, g)
  BY FeltLevelsSolve
<1>3. g[n] = FeltLevel(own, E, n)
  OBVIOUS
<1> HIDE DEF g
<1>4. EffectiveLevels(own, E) = g
  BY <1>1, <1>2, OnlyOneSolution
<1> QED
  BY <1>3, <1>4
=============================================================================
