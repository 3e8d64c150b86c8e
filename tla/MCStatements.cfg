SPECIFICATION Spec
CONSTANTS
    r1 = r1
    r2 = r2
    k1 = k1
    none = none
    Replicas <- MCReplicas
    Boots <- MCReplicas
    Components <- MCComponents
    Keys <- MCKeys
    NoKey = none
    MaxVersions = 3
    MaxCuts = 2
    LegacyRows <- MCLegacyRows
INVARIANT KeysRepeatOnlyByOverlap
INVARIANT NothingIsMigratedTwice
INVARIANT OnlyABrokenOffBootStrandsRows
PROPERTY AnUndisturbedWriteHeals
CHECK_DEADLOCK FALSE
