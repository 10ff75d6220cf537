SPECIFICATION IndexSpec
CONSTANTS
    Pkgs = {p1, p2, p3}
    plain = plain
    app = app
    broken = broken
    own = own
    Vers = {plain, app, broken, own}
    AppVers = {app, broken, own}
    Rpm <- MCRpm
    Numbers <- MCNumbers
    None = None
SYMMETRY Symmetry
INVARIANTS
    TypeOK
    KeysAgree
    SameContent
    DocumentsJoin
    DependenciesSurvive
    AppstreamWellFormed
PROPERTIES
    BatchesAreExact
