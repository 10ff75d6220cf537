SPECIFICATION Spec
CONSTANTS
    Reqs = {q1, q2, q3}
    Repos = {r1}
    Keys = {k1}
    Mats = {m1}
    Ops = {"read", "write", "set_key", "del_key", "delete"}
    MayAbort = TRUE
    NoKey = NoKey
    None = None
SYMMETRY Symmetry
INVARIANTS
    NoDeadlock
    HandleExact
    InsideHasHandle
PROPERTIES
    ImplementsAccess
    KeyStableUnderClosures
