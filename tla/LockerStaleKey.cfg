SPECIFICATION Spec
CONSTANTS
    Reqs = {q1, q2}
    Repos = {r1}
    Keys = {k1}
    Mats = {m1}
    Ops = {"read", "set_key", "del_key"}
    MayAbort = FALSE
    NoKey = NoKey
    None = None
INVARIANTS
    DeletedKeyUnused
