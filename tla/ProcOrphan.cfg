\* A fork without core in a machine whose swap device fills up.
CONSTANTS
    NPROC = 4
    NTEXT = 2
    Prog = {sh, cc}
    NoProg = NoProg
    DBLK = 2
    TSIZE = 1
    NCORE = 5
    NSWAP = 5
    SECTORS = 1
    Images = {2}
    MaxCalls = 5
SPECIFICATION Spec
SYMMETRY Symmetry
INVARIANTS
    ImageKept
CHECK_DEADLOCK FALSE
