\* The liveness properties; a block past the end, no contents, no read-ahead (see
\* BufferCacheHang).
CONSTANTS
    NBUF = 2
    Proc = {p1, p2}
    RkBlk = {r1, r2}
    FdBlk = {}
    BadBlk = {b1}
    Val = {0}
    Zero = 0
    Calls = {"bread", "getblk", "sync", "reboot"}
    NoBlk = NoBlk
    NoProc = NoProc
SPECIFICATION FairSpec
PROPERTIES
    SleeperWakes
    RebootFinishes
