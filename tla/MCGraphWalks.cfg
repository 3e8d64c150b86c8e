SPECIFICATION Spec
CONSTANTS
    Nodes = {c1, c2, c3}
    Components = {c1, c2, c3}
    ProductIds = {p1, p2}
    LegacyProducts = {p1}
    ProductNames = {n1, n2}
    ComponentIds = {c1, c2, c3, c4}
INVARIANTS
    AnswerIsReachability
    WalkTypeOK
    WalkComputesFeltLevels
    GraphTypeOK
    Acyclic
    ImpactIsTheTransitiveDependents
PROPERTIES
    SearchEnds
    WalkEnds
CHECK_DEADLOCK FALSE
