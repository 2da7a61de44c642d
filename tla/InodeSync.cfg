\* An inode is closed and opened again while sync writes it.
CONSTANTS
    NINODE = 3
    NINO = 3
    INOPB = 2
    NICINOD = 2
    NDIR = 2
    MAXLINK = 2
    Proc = {p1, p2}
    Name = {a, b}
    Calls = {"open", "sync"}
    MaxCalls = 3
    StaleLength = 0
    Spares <- MCSpares
    NoProc = NoProc
    NoName = NoName
SPECIFICATION Spec
SYMMETRY Symmetry
INVARIANTS
    Named
CHECK_DEADLOCK FALSE
