SPECIFICATION FairSpec
CONSTANTS
    Reqs = {q1, q2, q3}
    Repos = {r1}
    Keys = {k1}
    Mats = {m1}
    Ops = {"read", "write", "delete"}
    MayAbort = FALSE
    NoKey = NoKey
    None = None
PROPERTIES
    EveryRequestEnds
