SPECIFICATION Spec
CONSTANTS
    Metans = {primary, other}
    Types = {group, mytype}
    Uploads = {u1, u2, u3}
    Pkgs = {p1}
    Sigs = {s1, s2}
    MayRepeat = FALSE
    None = None
SYMMETRY Symmetry
INVARIANTS TypeOK CustomFilesExist PublishedFilesExist SettledIsCurrent
