CONSTANTS
    Napper = {p1, p2, p3}
    Naps = {1, 3}
    MaxTime = 3
    FIRST = 2
    LAST = 9
    CELLS = 6
    AreaSizes = {1, 2, 3}
    Callee = {"c1", "c2", "c3", "c4"}
    Times = {0, 1, 2, 4}
    Reader = {"r1", "r2"}
    NoReader = "None"
    NCLIST = 5
    CLBLOCK = 2
    CANBSIZ = 6
    TTYHOG = 4
    Letter = {"a", "b"}
    Key = {"a", "b", "nl", "erase", "kill", "eot", "esc", "intr"}
    RawKey = {"kill"}
    Want = {2}
    MaxTyped = 4
    Filer = {"p1", "p2"}
    DiskFile = {1, 2}
    NBLOCK = 7
    NICFREE = 2
    NADDR = 2
    NINDIR = 3
    FileBlock = {1, 5}
    MaxMoved = 3
    Process = {"p1", "p2"}
    INode = {"f", "tty", "none"}
    Device = {"tty", "none"}
    Dead = {"none"}
    NFILE = 2
    NOFILE = 2
    HALF = 16
    BLOCK = 4
    SeekArgs = {5, 14}
    FileLength <- FileSize
    MaxCalls = 3
    KILL = 9
    INT = 2
    Other = {2}
    KeptSignals = {}
    MaxPosts = 3
    SwapArea = {1, 2}
    MaxPid = 2
    MaxMoves = 4
SPECIFICATION PartsSpec
INVARIANTS
    NoOversleep
    UnitsOnce
    Modifiers
    OnTime
    Attended
    Calls
    Console
    EachOnce
    Programs
    Compiled
    Assembled
CHECK_DEADLOCK FALSE
