SPECIFICATION FairSpec
CONSTANTS
    Tasks = {t1}
    Metans = {m1, m2}
    m1 = m1  m2 = m2
    Frags <- FragsDef
    Cap = 1
    Threads = 3
    None = None
INVARIANTS
    TypeOK
    FilesComplete
    NoStandstill
PROPERTIES
    GenerateEnds
    ThreadsReturn
CHECK_DEADLOCK FALSE
