------------------------------- MODULE KernelParts -------------------------------
(***************************************************************************)
(* Parts of the kernel that share no state with each other: the resource   *)
(* maps, the keyboard, the callouts, sleep(2), the console's queues, the   *)
(* blocks of files, the calls on files, the signals and psinfo.  Each is a *)
(* module of its own; here they stand beside each other, of any size, for  *)
(* a behavior that is one part's (MCParts) and for what is proved of each. *)
(***************************************************************************)
EXTENDS Integers, FiniteSets

CONSTANTS
    FIRST, LAST, CELLS, AreaSizes,                                          \* ResourceMap
    Callee, Times,                                                          \* Callout
    Napper, Naps, MaxTime,                                                  \* SleepCall
    Reader, NoReader, NCLIST, CLBLOCK, CANBSIZ, TTYHOG, Letter, Key, RawKey, Want, MaxTyped,  \* Tty
    Filer, DiskFile, NBLOCK, NICFREE, NADDR, NINDIR, FileBlock, MaxMoved,   \* FileBlocks
    Process, INode, Device, Dead, NFILE, NOFILE,                            \* FileTable
    HALF, BLOCK, SeekArgs, FileLength, MaxCalls,        \* HALF: a word of an offset
    KILL, INT, Other, KeptSignals, MaxPosts,                                \* Signals
    SwapArea, MaxPid, MaxMoves                                              \* PsInfo

VARIABLES
    part,       \* whose behavior this is
    map, areas,
    shift, down, line, presses,
    callout, calling, due,
    sysclock, tout, napping, deadline,
    rawq, canq, delct, raw, canonb, reader, cpu, fault, typed, got, torn, keys,
    sfree, flock, store, iaddr, large, mover, stale, moved,
    ofile, file, icount, open, cdir, at, alive, made, meant,
    sig, signal, state, posts, sent, late,
    slot, disk, cache, call, answer, moves

Map      == INSTANCE ResourceMap WITH Sizes <- AreaSizes
Keyboard == INSTANCE Keyboard
Callouts == INSTANCE Callout WITH Call <- Callee
Sleep    == INSTANCE SleepCall WITH Proc <- Napper, time <- sysclock, pc <- napping, d <- deadline
Tty      == INSTANCE Tty WITH None <- NoReader, BLOCK <- CLBLOCK, pc <- reader
DiskBlocks == INSTANCE FileBlocks WITH
    Proc <- Filer, File <- DiskFile, Bns <- FileBlock, MaxCalls <- MaxMoved,
    addr <- iaddr, u <- mover, calls <- moved
Files    == INSTANCE FileTable WITH
    Proc <- Process, Inode <- INode, WORD <- HALF, Args <- SeekArgs, Size <- FileLength, calls <- made
Signals  == INSTANCE Signals WITH Proc <- Process, Kept <- KeptSignals
PsInfos  == INSTANCE PsInfo WITH Block <- SwapArea, got <- answer

ASSUME KernelPartsAssumption ==
    /\ Map!MapAssumption /\ Callouts!CalloutAssumption /\ Sleep!SleepAssumption /\ Tty!TtyAssumption
    /\ DiskBlocks!BlocksAssumption
    /\ Files!FileAssumption /\ Signals!SignalAssumption
    /\ 0 \notin SwapArea

----
(* The units of a resource map are free or in one area, and malloc takes   *)
(* the first that fits: see ResourceMap (a set of units under first fit).  *)
UnitsOnce == part = "map" => Map!FirstFit

(* No modifier key sticks: see Keyboard.                                   *)
Modifiers == part = "keyboard" => Keyboard!NoneSticks

(* No callout is late or lost: see Callout.                                *)
OnTime == part = "callouts" => Callouts!OnTime

(* Nobody oversleeps: see SleepCall.                                       *)
NoOversleep == part = "sleep" => Sleep!NoOversleep

(* The console's count of lines is that of the delimiters in its queue and *)
(* nobody sleeps on a line that is there: see Tty.                         *)
Attended == part = "tty" => Tty!Attended

(* Each block of the disk has one use: see FileBlocks.                     *)
EachOnce == part = "blocks" => DiskBlocks!EachOnce

(* References and offsets, signals, and what ps is told: see FileTable,    *)
(* Signals and PsInfo.                                                     *)
Calls ==
    /\ part = "files"   => Files!Counted
    /\ part = "signals" => Signals!Delivered
    /\ part = "psinfo"  => PsInfos!OneInstant
====
