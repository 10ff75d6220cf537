SPECIFICATION Spec
CONSTANTS
    Metans = {primary, other}
    Types = {group, mytype}
    Uploads = {u1, u2, u3}
    Pkgs = {p1}
    Sigs = {s1, s2}
    MayRepeat = TRUE
    None = None
SYMMETRY Symmetry
INVARIANTS SettledFilesExist
