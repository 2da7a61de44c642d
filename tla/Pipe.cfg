\* A shell, its children, and a pipe of two blocks of one byte.
CONSTANTS
    Proc = {sh, p1, p2}
    Shell = sh
    PIPSIZ = 2
    BSIZE = 1
    MaxCount = 2
    MaxBytes = 3
    MaxEvents = 2
    NoProc = NoProc
SPECIFICATION FairSpec
INVARIANTS
    TypeOK
    Ends
    NoLostWakeup
    Fifo
PROPERTIES
    CallsEnd
    PeerGone
CHECK_DEADLOCK FALSE
