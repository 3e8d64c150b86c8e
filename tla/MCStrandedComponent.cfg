SPECIFICATION VersionSpec
CONSTANTS
    ProductIds = {p1, p2}
    LegacyProducts = {p1}
    ProductNames = {n1, n2}
    ComponentIds = {c1, c2}
    VersionIds = {v1, v2, v3, v4}
    Semvers <- MCSemvers
    NoPrerelease = NoPrerelease
    MaxInteger = 2
SYMMETRY MCSymmetry
INVARIANT ExactlyOneActive
CHECK_DEADLOCK FALSE
