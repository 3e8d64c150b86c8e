SPECIFICATION ReleaseSpec
CONSTANTS
    ProductIds = {p1, p2}
    LegacyProducts = {p1}
    ProductNames = {n1, n2}
    ComponentIds = {c1, c2}
    VersionIds = {v1, v2, v3}
    Semvers <- MCSemvers
    NoPrerelease = NoPrerelease
    MaxInteger = 2
    Keys = {k1}
    NoKey = NoKey
    MaxReleases = 3
SYMMETRY MCSymmetry
PROPERTY NoMaterialChangeDerivesNone
CHECK_DEADLOCK FALSE
