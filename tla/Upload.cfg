SPECIFICATION Spec
CONSTANTS
    q1 = q1  q2 = q2  a1 = a1  a2 = a2  b1 = b1  c1 = c1  d1 = d1  e1 = e1
    a = a  b = b  c = c  d = d
    Reqs = {q1, q2}
    Hier = "Fedora"
    Rpms = {a1, a2, b1, c1, d1, e1}
    Packages = {a, b, c, d}
    FileName <- FileNameDef
    PackageOf <- PackageOfDef
    Base <- BaseDef
    Owners <- Apart
    Bytes = {x}
    MaxBatch = 2
    Tidy = TRUE
    MayFail = TRUE
    Partial = Partial
    None = None
INVARIANTS
    QuietIsExact
    UploadReplaces
    UploadSparesOthers
    IndexedHasFile
PROPERTIES ImplementsStore
