SPECIFICATION FairSpec
CONSTANTS
    Pkgs = {p1, p2}
    Vers = {v1, v2}
    AppVers = {v2}
    None = None
    Workers = {w1, w2}
    Cap = 1
INVARIANTS
    TypeOK
    MirrorsInput
PROPERTIES
    ImplementsCache
    RunEnds
