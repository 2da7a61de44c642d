\* Files come and go; nobody calls sync or link.
CONSTANTS
    NINODE = 3
    NINO = 3
    INOPB = 2
    NICINOD = 2
    NDIR = 1
    MAXLINK = 2
    Proc = {p1, p2}
    Name = {a, b}
    Calls = {"open", "creat", "unlink"}
    MaxCalls = 3
    StaleLength = 1
    Spares <- MCSpares
    NoProc = NoProc
    NoName = NoName
SPECIFICATION FairSpec
INVARIANTS
    Coherent
    Named
PROPERTIES
    CallsEnd
CHECK_DEADLOCK FALSE
