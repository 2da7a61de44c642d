\* Nothing but opens and unlinks.
CONSTANTS
    NINODE = 3
    NINO = 3
    INOPB = 2
    NICINOD = 2
    NDIR = 2
    MAXLINK = 2
    Proc = {p1, p2}
    Name = {a, b}
    Calls = {"open", "unlink"}
    MaxCalls = 2
    StaleLength = 0
    Spares <- MCSpares
    NoProc = NoProc
    NoName = NoName
SPECIFICATION Spec
SYMMETRY Symmetry
INVARIANTS
    LockHeld
CHECK_DEADLOCK FALSE
