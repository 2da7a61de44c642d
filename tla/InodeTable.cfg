\* Two processes make any four calls; a crashed superblock's spare list.
CONSTANTS
    NINODE = 2
    NINO = 3
    INOPB = 2
    NICINOD = 2
    NDIR = 2
    MAXLINK = 2
    Proc = {p1, p2}
    Name = {a, b}
    Calls = {"open", "creat", "unlink", "link", "sync"}
    MaxCalls = 4
    StaleLength = 1
    Spares <- MCSpares
    NoProc = NoProc
    NoName = NoName
SPECIFICATION Spec
SYMMETRY Symmetry
INVARIANTS
    TypeOK
    RefCount
    NoAlias
    NoLostWakeup
CHECK_DEADLOCK FALSE
