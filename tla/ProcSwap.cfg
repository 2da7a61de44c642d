\* Three processes, two programs, too little core for all of them.
CONSTANTS
    NPROC = 3
    NTEXT = 2
    Prog = {sh, cc}
    NoProg = NoProg
    DBLK = 2
    TSIZE = 1
    NCORE = 5
    NSWAP = 5
    SECTORS = 1
    Images = {2}
    MaxCalls = 5
SPECIFICATION Spec
SYMMETRY Symmetry
INVARIANTS
    TypeOK
    SchedAwake
    CoreOwned
    SwapOwned
    TextCounted
    Family
CHECK_DEADLOCK FALSE
