\* A file is linked while its last name goes and its number is reused.
CONSTANTS
    NINODE = 3
    NINO = 3
    INOPB = 2
    NICINOD = 2
    NDIR = 1
    MAXLINK = 2
    Proc = {p1, p2}
    Name = {a, b}
    Calls = {"open", "creat", "unlink", "link"}
    MaxCalls = 3
    StaleLength = 0
    Spares <- MCSpares
    NoProc = NoProc
    NoName = NoName
SPECIFICATION FairSpec
PROPERTIES
    LinkEnds
CHECK_DEADLOCK FALSE
