\* As many processes in breada as buffers.
CONSTANTS
    NBUF = 2
    Proc = {p1, p2}
    RkBlk = {r1, r2, r3}
    FdBlk = {}
    BadBlk = {}
    Val = {0}
    Zero = 0
    Calls = {"breada"}
    NoBlk = NoBlk
    NoProc = NoProc
SPECIFICATION FairSpec
PROPERTIES
    ReadAheadNeverHangs
CHECK_DEADLOCK FALSE
