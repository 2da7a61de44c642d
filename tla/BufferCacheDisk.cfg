\* Two processes, two buffers, a block of the IDE disk and one of a floppy that may
\* fail any transfer, every call.
CONSTANTS
    NBUF = 2
    Proc = {p1, p2}
    RkBlk = {r1}
    FdBlk = {f1}
    BadBlk = {}
    Val = {0, 1}
    Zero = 0
    Calls = {"bread", "getblk", "breada", "sync", "reboot"}
    NoBlk = NoBlk
    NoProc = NoProc
SPECIFICATION Spec
SYMMETRY Symmetry
INVARIANTS
    TypeOK
    FreeListExact
    Exclusive
    NoAlias
    NoLostWakeup
    Coherent
    RebootSaves
PROPERTIES
    RefinesBlockStore
CHECK_DEADLOCK FALSE
