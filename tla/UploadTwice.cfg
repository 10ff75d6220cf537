SPECIFICATION Spec
CONSTANTS
    q1 = q1  q2 = q2  a1 = a1  a2 = a2  b1 = b1  c1 = c1  d1 = d1  e1 = e1
    a = a  b = b  c = c  d = d
    Reqs = {q1}
    Hier = "Satm0Flat"
    Rpms = {a1, a2}
    Packages = {a, b, c, d}
    FileName <- FileNameDef
    PackageOf <- PackageOfDef
    Base <- BaseDef
    Owners <- Alone
    Bytes = {x}
    MaxBatch = 2
    Tidy = FALSE
    MayFail = FALSE
    Partial = Partial
    None = None
INVARIANTS DeletedFilesGone
