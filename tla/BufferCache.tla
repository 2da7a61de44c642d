----------------------------- MODULE BufferCache -----------------------------
(***************************************************************************)
(* The block buffer cache (DMR/BIO.C) over its two drivers: the IDE disk   *)
(* behind rkstrategy/rkintr (DMR/RK.C), which queues transfers and         *)
(* finishes them from an interrupt, and the BIOS floppy (DMR/FD.C), whose  *)
(* strategy routine finishes the transfer before it returns and is the     *)
(* only one that reports errors.                                           *)
(*                                                                         *)
(* The kernel is not preemptive: a process runs until it sleeps, so "cpu"  *)
(* names the process in the middle of a call and the steps of the others   *)
(* wait for it.  Only the disk interrupt comes between two of its steps.   *)
(* One step is the code from one point where the outside can matter to the *)
(* next.                                                                   *)
(***************************************************************************)
EXTENDS Integers, Sequences, Chain

CONSTANTS
    NBUF,       \* buffers in the pool
    Proc,       \* processes
    RkBlk,      \* blocks inside the rk disk
    FdBlk,      \* blocks inside the floppy
    BadBlk,     \* block numbers past the end of a device
    Val,        \* contents of a block
    Zero,       \* the contents of buffers[] at boot
    Calls,      \* bound: the calls the processes make
    NoBlk,      \* b_dev of a buffer no lookup can match (NODEV, or |= 0xff)
    NoProc

Buf    == 1..NBUF
Block  == RkBlk \cup FdBlk \cup BadBlk
Medium == RkBlk \cup FdBlk
NoBuf    == 0
FreeList == 0       \* the channel &bfreelist; a buffer's channel is itself
NoChan   == -1

ASSUME NBUFAssumption == NBUF \in Nat \ {0}
ASSUME BlockAssumption ==
    /\ RkBlk \cap FdBlk = {} /\ RkBlk \cap BadBlk = {} /\ FdBlk \cap BadBlk = {}
    /\ NoBlk \notin Block
ASSUME ProcAssumption == NoProc \notin Proc
ASSUME ValAssumption == Zero \in Val

Flag  == {"READ", "DONE", "ERROR", "BUSY", "WANTED", "ASYNC", "DELWRI"}
Label == {"user", "getblk", "got", "iowait", "hold", "wwait", "ahead", "join",
          "flush", "drain", "halted"}
Op    == {"none", "bread", "getblk", "breada", "rahead", "sync", "reboot"}

VARIABLES
    flags,      \* b_flags of each buffer
    id,         \* (b_dev, b_blkno) of each buffer
    data,       \* the 512 bytes at b_addr
    avail,      \* bfreelist's av_forw chain, oldest first
    freeWanted, \* B_WANTED in bfreelist.b_flags
    queue,      \* rktab.d_actf .. d_actl
    active,     \* rktab.d_active
    disk,       \* what the media hold
    pc, op,     \* where each process is, and in which call
    blk, ra,    \* the call's blkno and rablkno
    bp, first,  \* the buffer in hand; breada's first buffer
    chan,       \* p_wchan, NoChan when runnable
    cpu,        \* the process inside the kernel, NoProc between switches
    alone       \* history: only reboot has been in the kernel since it began

cache  == <<flags, id, avail, freeWanted>>
device == <<queue, active, disk>>
regs   == <<pc, op, blk, ra, bp, first>>
vars   == <<cache, data, device, regs, chan, cpu, alone>>

Init ==
    /\ flags = [x \in Buf |-> {}]
    /\ id = [x \in Buf |-> NoBlk]
    /\ data = [x \in Buf |-> Zero]
    /\ avail = [i \in 1..NBUF |-> i]
    /\ freeWanted = FALSE
    /\ queue = <<>>
    /\ active = FALSE
    /\ disk \in [Medium -> Val]
    /\ pc = [p \in Proc |-> "user"]
    /\ op = [p \in Proc |-> "none"]
    /\ blk = [p \in Proc |-> NoBlk]
    /\ ra = [p \in Proc |-> NoBlk]
    /\ bp = [p \in Proc |-> NoBuf]
    /\ first = [p \in Proc |-> NoBuf]
    /\ chan = [p \in Proc |-> NoChan]
    /\ cpu = NoProc
    /\ alone = FALSE

----
(* Scheduling: who may step, and where a step leaves the process.          *)

Run(p, l) == pc[p] = l /\ chan[p] = NoChan /\ cpu \in {NoProc, p}

Goto(p, l) ==
    /\ pc' = [pc EXCEPT ![p] = l]
    /\ cpu' = IF l \in {"user", "hold"} THEN NoProc ELSE p

Sleep(p, c) ==
    /\ chan' = [chan EXCEPT ![p] = c]
    /\ cpu' = NoProc

Wakeup(C) == chan' = [q \in Proc |-> IF chan[q] \in C THEN NoChan ELSE chan[q]]

----
(* The routines every call is made of.  "f" is the flag word on entry and  *)
(* "av" the free list on entry, so that a step can chain several of them.  *)

(* A wrong lookup, which skips the buffers in use. *)
IncoreIdle(b) == {x \in Buf : id[x] = b /\ b # NoBlk /\ "BUSY" \notin flags[x]}

Incore(b) == {x \in Buf : id[x] = b /\ b # NoBlk}

(* Wrong releases: the free list's sleepers are forgotten; the delayed     *)
(* mark goes with BUSY; the buffer stays in flight.                        *)
BrelseSilent(x, f, av) ==
    /\ flags' = [flags EXCEPT ![x] = f \ {"WANTED", "BUSY", "ASYNC"}]
    /\ id' = [id EXCEPT ![x] = IF "ERROR" \in f THEN NoBlk ELSE @]
    /\ avail' = Append(av, x)
    /\ UNCHANGED freeWanted
    /\ Wakeup(IF "WANTED" \in f THEN {x} ELSE {})

BrelseLosesDelwri(x, f, av) ==
    /\ flags' = [flags EXCEPT ![x] = f \ {"WANTED", "BUSY", "ASYNC", "DELWRI"}]
    /\ id' = [id EXCEPT ![x] = IF "ERROR" \in f THEN NoBlk ELSE @]
    /\ avail' = Append(av, x)
    /\ freeWanted' = FALSE
    /\ Wakeup((IF "WANTED" \in f THEN {x} ELSE {})
                \cup (IF freeWanted THEN {FreeList} ELSE {}))

BrelseKeepsAsync(x, f, av) ==
    /\ flags' = [flags EXCEPT ![x] = f \ {"WANTED", "BUSY"}]
    /\ id' = [id EXCEPT ![x] = IF "ERROR" \in f THEN NoBlk ELSE @]
    /\ avail' = Append(av, x)
    /\ freeWanted' = FALSE
    /\ Wakeup((IF "WANTED" \in f THEN {x} ELSE {})
                \cup (IF freeWanted THEN {FreeList} ELSE {}))

Brelse(x, f, av) ==
    /\ flags' = [flags EXCEPT ![x] = f \ {"WANTED", "BUSY", "ASYNC"}]
    /\ id' = [id EXCEPT ![x] = IF "ERROR" \in f THEN NoBlk ELSE @]
    /\ avail' = Append(av, x)
    /\ freeWanted' = FALSE
    /\ Wakeup((IF "WANTED" \in f THEN {x} ELSE {})
                \cup (IF freeWanted THEN {FreeList} ELSE {}))

Iodone(x, f, av) ==
    IF "ASYNC" \in f
    THEN Brelse(x, f \cup {"DONE"}, av)
    ELSE /\ flags' = [flags EXCEPT ![x] = (f \cup {"DONE"}) \ {"WANTED"}]
         /\ avail' = av
         /\ Wakeup({x})
         /\ UNCHANGED <<id, freeWanted>>

(* The data moves; v is what the buffer holds. *)
Transfer(x, f, v) ==
    IF "READ" \in f
    THEN data' = [data EXCEPT ![x] = disk[id[x]]] /\ UNCHANGED disk
    ELSE data' = [data EXCEPT ![x] = v] /\ disk' = [disk EXCEPT ![id[x]] = v]

RkStrategy(x, f, av, v) ==
    /\ id[x] \in RkBlk
    /\ queue' = Append(queue, x)
    /\ active' = TRUE
    /\ flags' = [flags EXCEPT ![x] = f]
    /\ data' = [data EXCEPT ![x] = v]
    /\ avail' = av
    /\ UNCHANGED <<id, freeWanted, disk, chan>>

(* The transfer is refused, or has failed FDRETRY times.  A floppy buffer   *)
(* that brelse disassociated (minor 0xff) is refused: there is no such unit. *)
FailStrategy(x, f, av, v) ==
    /\ id[x] \in BadBlk \cup FdBlk \cup {NoBlk}
    /\ data' = [data EXCEPT ![x] = v]
    /\ Iodone(x, f \cup {"ERROR"}, av)
    /\ UNCHANGED device

FdStrategy(x, f, av, v) ==
    /\ id[x] \in FdBlk
    /\ Transfer(x, f, v)
    /\ Iodone(x, f, av)
    /\ UNCHANGED <<queue, active>>

Strategy(x, f, av, v) ==
    \/ RkStrategy(x, f, av, v)
    \/ FailStrategy(x, f, av, v)
    \/ FdStrategy(x, f, av, v)

(* A wrong bwrite: a buffer that was once read is "written" by reading. *)
WriteFlagsKeepRead(f) == f \ {"DONE", "ERROR", "DELWRI"}

(* The flags bwrite hands to the driver. *)
WriteFlags(f) == f \ {"READ", "DONE", "ERROR", "DELWRI"}

(* A wrong interrupt, which does not start the next transfer. *)
RkIntrNoStart ==
    /\ active
    /\ LET x == Head(queue) IN
       /\ Transfer(x, flags[x], data[x])
       /\ queue' = Tail(queue)
       /\ active' = FALSE
       /\ Iodone(x, flags[x], avail)
    /\ cpu # NoProc => pc[cpu] # "halted"
    /\ UNCHANGED <<regs, cpu, alone>>

(* ideintr's last sector, rkintr, and rkstart on what is next. *)
RkIntr ==
    /\ active
    /\ LET x == Head(queue) IN
       /\ Transfer(x, flags[x], data[x])
       /\ queue' = Tail(queue)
       /\ active' = (Tail(queue) # <<>>)
       /\ Iodone(x, flags[x], avail)
    /\ cpu # NoProc => pc[cpu] # "halted"
    /\ UNCHANGED <<regs, cpu, alone>>

----
(* getblk: one step is one turn of its loop.                               *)

Target(p) == IF op[p] = "rahead" THEN ra[p] ELSE blk[p]

GetblkBusy(p) ==
    /\ Run(p, "getblk")
    /\ \E x \in Incore(Target(p)) :
          /\ "BUSY" \in flags[x]
          /\ flags' = [flags EXCEPT ![x] = @ \cup {"WANTED"}]
          /\ Sleep(p, x)
    /\ UNCHANGED <<id, data, avail, freeWanted, device, regs, alone>>

GetblkHit(p) ==
    /\ Run(p, "getblk")
    /\ \E x \in Incore(Target(p)) :
          /\ "BUSY" \notin flags[x]
          /\ flags' = [flags EXCEPT ![x] = @ \cup {"BUSY"}]
          /\ avail' = Without(avail, x)
          /\ bp' = [bp EXCEPT ![p] = x]
    /\ Goto(p, "got")
    /\ UNCHANGED <<id, data, freeWanted, device, op, blk, ra, first, chan, alone>>

GetblkWait(p) ==
    /\ Run(p, "getblk")
    /\ Incore(Target(p)) = {}
    /\ avail = <<>>
    /\ freeWanted' = TRUE
    /\ Sleep(p, FreeList)
    /\ UNCHANGED <<flags, id, data, avail, device, regs, alone>>

(* The oldest buffer is a delayed write: start it and look again. *)
GetblkEvict(p) ==
    /\ Run(p, "getblk")
    /\ Incore(Target(p)) = {}
    /\ avail # <<>>
    /\ LET x == Head(avail) IN
       /\ "DELWRI" \in flags[x]
       /\ Strategy(x, WriteFlags(flags[x] \cup {"BUSY", "ASYNC"}),
                   Without(avail, x), data[x])
    /\ Goto(p, "getblk")
    /\ UNCHANGED <<op, blk, ra, bp, first, alone>>

(* A wrong getblk, which does not look at B_DELWRI. *)
GetblkTakeAny(p) ==
    /\ Run(p, "getblk")
    /\ Incore(Target(p)) = {}
    /\ avail # <<>>
    /\ LET x == Head(avail) IN
       /\ flags' = [flags EXCEPT ![x] = {"BUSY"}]
       /\ id' = [id EXCEPT ![x] = Target(p)]
       /\ avail' = Without(avail, x)
       /\ bp' = [bp EXCEPT ![p] = x]
    /\ Goto(p, "got")
    /\ UNCHANGED <<data, freeWanted, device, op, blk, ra, first, chan, alone>>

GetblkTake(p) ==
    /\ Run(p, "getblk")
    /\ Incore(Target(p)) = {}
    /\ avail # <<>>
    /\ LET x == Head(avail) IN
       /\ "DELWRI" \notin flags[x]
       /\ flags' = [flags EXCEPT ![x] = {"BUSY"}]
       /\ id' = [id EXCEPT ![x] = Target(p)]
       /\ avail' = Without(avail, x)
       /\ bp' = [bp EXCEPT ![p] = x]
    /\ Goto(p, "got")
    /\ UNCHANGED <<data, freeWanted, device, op, blk, ra, first, chan, alone>>

----
(* Entry to a call from the file system.                                   *)

Enter(p, o, l, b, r) ==
    /\ Run(p, "user")
    /\ o \in Calls
    /\ Goto(p, l)
    /\ op' = [op EXCEPT ![p] = o]
    /\ blk' = [blk EXCEPT ![p] = b]
    /\ ra' = [ra EXCEPT ![p] = r]
    /\ UNCHANGED <<cache, data, device, bp, first, chan>>

StartBread(p) ==
    \E b \in Block : Enter(p, "bread", "getblk", b, NoBlk) /\ alone' = FALSE

(* getblk itself: a whole block is about to be overwritten, or NODEV. *)
StartGetblk(p) ==
    \E b \in Block \cup {NoBlk} :
        Enter(p, "getblk", "getblk", b, NoBlk) /\ alone' = FALSE

StartBreada(p) ==
    /\ \E b \in Block, r \in Block \cup {NoBlk} :
          /\ r # b
          /\ Enter(p, "breada", IF Incore(b) = {} THEN "getblk" ELSE "ahead", b, r)
    /\ alone' = FALSE

StartSync(p) == Enter(p, "sync", "flush", NoBlk, NoBlk) /\ alone' = FALSE

StartReboot(p) ==
    /\ Enter(p, "reboot", "flush", NoBlk, NoBlk)
    /\ alone' = (\A q \in Proc \ {p} : pc[q] = "user")

----
(* The buffer getblk returned, by caller.                                  *)

(* bread: done if the block was cached, else read it and wait. *)
GotBread(p) ==
    /\ Run(p, "got") /\ op[p] = "bread"
    /\ LET x == bp[p] IN
       IF "DONE" \in flags[x]
       THEN Goto(p, "hold") /\ UNCHANGED <<cache, data, device, chan>>
       ELSE Goto(p, "iowait") /\ Strategy(x, flags[x] \cup {"READ"}, avail, data[x])
    /\ UNCHANGED <<op, blk, ra, bp, first, alone>>

GotGetblk(p) ==
    /\ Run(p, "got") /\ op[p] = "getblk"
    /\ Goto(p, "hold")
    /\ UNCHANGED <<cache, data, device, op, blk, ra, bp, first, chan, alone>>

(* breada's own block: start the read, do not wait yet. *)
GotBreada(p) ==
    /\ Run(p, "got") /\ op[p] = "breada"
    /\ LET x == bp[p] IN
       /\ first' = [first EXCEPT ![p] = x]
       /\ IF "DONE" \in flags[x]
          THEN UNCHANGED <<cache, data, device, chan>>
          ELSE Strategy(x, flags[x] \cup {"READ"}, avail, data[x])
    /\ bp' = [bp EXCEPT ![p] = NoBuf]
    /\ Goto(p, "ahead")
    /\ UNCHANGED <<op, blk, ra, alone>>

Ahead(p) ==
    /\ Run(p, "ahead")
    /\ IF ra[p] # NoBlk /\ Incore(ra[p]) = {}
       THEN op' = [op EXCEPT ![p] = "rahead"] /\ Goto(p, "getblk")
       ELSE Goto(p, "join") /\ UNCHANGED op
    /\ UNCHANGED <<cache, data, device, blk, ra, bp, first, chan, alone>>

(* The read-ahead block belongs to nobody once its read is started. *)
GotAhead(p) ==
    /\ Run(p, "got") /\ op[p] = "rahead"
    /\ LET x == bp[p] IN
       IF "DONE" \in flags[x]
       THEN Brelse(x, flags[x], avail) /\ UNCHANGED <<data, device>>
       ELSE Strategy(x, flags[x] \cup {"READ", "ASYNC"}, avail, data[x])
    /\ bp' = [bp EXCEPT ![p] = NoBuf]
    /\ Goto(p, "join")
    /\ UNCHANGED <<op, blk, ra, first, alone>>

(* breada's end: bread the block if it was cached at the start, else wait. *)
Join(p) ==
    /\ Run(p, "join")
    /\ op' = [op EXCEPT ![p] = "bread"]
    /\ ra' = [ra EXCEPT ![p] = NoBlk]
    /\ bp' = [bp EXCEPT ![p] = first[p]]
    /\ first' = [first EXCEPT ![p] = NoBuf]
    /\ Goto(p, IF first[p] = NoBuf THEN "getblk" ELSE "iowait")
    /\ UNCHANGED <<cache, data, device, blk, chan, alone>>

(* iowait, for a read (the caller gets the buffer) ... *)
IowaitRead(p) ==
    /\ Run(p, "iowait")
    /\ IF "DONE" \in flags[bp[p]]
       THEN Goto(p, "hold") /\ UNCHANGED chan
       ELSE Sleep(p, bp[p]) /\ UNCHANGED pc
    /\ UNCHANGED <<cache, data, device, op, blk, ra, bp, first, alone>>

----
(* The holder's ways to give the buffer back.                              *)

Leave(p) ==
    /\ bp' = [bp EXCEPT ![p] = NoBuf]
    /\ op' = [op EXCEPT ![p] = "none"]
    /\ blk' = [blk EXCEPT ![p] = NoBlk]
    /\ UNCHANGED <<ra, first, alone>>

HoldRelse(p) ==
    /\ Run(p, "hold")
    /\ Brelse(bp[p], flags[bp[p]], avail)
    /\ Leave(p) /\ Goto(p, "user")
    /\ UNCHANGED <<data, device>>

(* The buffer has a block: nobody writes what getblk(NODEV) gave him.  None *)
(* of the writes looks at B_ERROR, and of their callers only writei does:  *)
(* bmap and iupdat may change a block they could not read.                 *)
Writable(x) == id[x] # NoBlk

(* A delayed write of such a block still has B_ERROR, so brelse            *)
(* disassociates it.  What bmap, alloc and writei delay is inside a device. *)
HoldBdwrite(p) ==
    /\ Run(p, "hold")
    /\ LET x == bp[p] IN
       /\ Writable(x) /\ id[x] \notin BadBlk
       /\ \E v \in Val : data' = [data EXCEPT ![x] = v]
       /\ Brelse(x, flags[x] \cup {"DELWRI", "DONE"}, avail)
    /\ Leave(p) /\ Goto(p, "user")
    /\ UNCHANGED device

(* A wrong bawrite, which leaves B_ASYNC out: nobody will release it. *)
BawriteSync(p) ==
    /\ Run(p, "hold")
    /\ LET x == bp[p] IN
       /\ Writable(x)
       /\ \E v \in Val : Strategy(x, WriteFlags(flags[x]), avail, v)
    /\ Leave(p) /\ Goto(p, "user")

HoldBawrite(p) ==
    /\ Run(p, "hold")
    /\ LET x == bp[p] IN
       /\ Writable(x)
       /\ \E v \in Val :
             Strategy(x, WriteFlags(flags[x] \cup {"ASYNC"}), avail, v)
    /\ Leave(p) /\ Goto(p, "user")

HoldBwrite(p) ==
    /\ Run(p, "hold")
    /\ LET x == bp[p] IN
       /\ Writable(x)
       /\ \E v \in Val : Strategy(x, WriteFlags(flags[x]), avail, v)
    /\ Goto(p, "wwait")
    /\ UNCHANGED <<op, blk, ra, bp, first, alone>>

(* ... iowait for bwrite, which then releases the buffer itself. *)
IowaitWrite(p) ==
    /\ Run(p, "wwait")
    /\ IF "DONE" \in flags[bp[p]]
       THEN /\ Brelse(bp[p], flags[bp[p]], avail)
            /\ Leave(p) /\ Goto(p, "user")
       ELSE /\ Sleep(p, bp[p])
            /\ UNCHANGED <<cache, regs, alone>>
    /\ UNCHANGED <<data, device>>

----
(* bflush(NODEV), from sync and from reboot; reboot's wait; the reset.     *)

DelayedAt(i) == i \in DOMAIN avail /\ "DELWRI" \in flags[avail[i]]

Flush(p) ==
    /\ Run(p, "flush")
    /\ \E i \in DOMAIN avail :
          /\ DelayedAt(i) /\ \A j \in 1 .. i - 1 : ~DelayedAt(j)
          /\ Strategy(avail[i], WriteFlags(flags[avail[i]] \cup {"BUSY", "ASYNC"}),
                      Without(avail, avail[i]), data[avail[i]])
    /\ Goto(p, "flush")
    /\ UNCHANGED <<op, blk, ra, bp, first, alone>>

FlushDone(p) ==
    /\ Run(p, "flush")
    /\ \A i \in DOMAIN avail : ~DelayedAt(i)
    /\ IF op[p] = "sync"
       THEN Leave(p) /\ Goto(p, "user")
       ELSE /\ bp' = [bp EXCEPT ![p] = 1]
            /\ Goto(p, "drain")
            /\ UNCHANGED <<op, blk, ra, first, alone>>
    /\ UNCHANGED <<cache, data, device, chan>>

(* Wrong waits: none at all; one buffer too many. *)
DrainNoWait(p) ==
    /\ Run(p, "drain")
    /\ IF bp[p] = NBUF
       THEN bp' = [bp EXCEPT ![p] = NoBuf] /\ Goto(p, "halted")
       ELSE bp' = [bp EXCEPT ![p] = @ + 1] /\ Goto(p, "drain")
    /\ UNCHANGED <<cache, data, device, op, blk, ra, first, chan, alone>>

DrainPastEnd(p) ==
    /\ Run(p, "drain")
    /\ bp[p] \in Buf => "ASYNC" \notin flags[bp[p]]
    /\ IF bp[p] > NBUF
       THEN bp' = [bp EXCEPT ![p] = NoBuf] /\ Goto(p, "halted")
       ELSE bp' = [bp EXCEPT ![p] = @ + 1] /\ Goto(p, "drain")
    /\ UNCHANGED <<cache, data, device, op, blk, ra, first, chan, alone>>

(* reboot looks at each buffer in turn and waits while it is in flight. *)
Drain(p) ==
    /\ Run(p, "drain")
    /\ LET x == bp[p] IN
       IF "ASYNC" \in flags[x]
       THEN /\ flags' = [flags EXCEPT ![x] = @ \cup {"WANTED"}]
            /\ Sleep(p, x)
            /\ UNCHANGED <<pc, bp>>
       ELSE /\ IF x = NBUF
               THEN bp' = [bp EXCEPT ![p] = NoBuf] /\ Goto(p, "halted")
               ELSE bp' = [bp EXCEPT ![p] = x + 1] /\ Goto(p, "drain")
            /\ UNCHANGED <<flags, chan>>
    /\ UNCHANGED <<id, data, avail, freeWanted, device, op, blk, ra, first, alone>>

(* The machine comes up again: binit, on the disk as it was left. *)
Boot ==
    /\ \E p \in Proc : pc[p] = "halted"
    /\ flags' = [x \in Buf |-> {}]
    /\ id' = [x \in Buf |-> NoBlk]
    /\ avail' = [i \in 1..NBUF |-> i]
    /\ freeWanted' = FALSE
    /\ queue' = <<>>
    /\ active' = FALSE
    /\ pc' = [p \in Proc |-> "user"]
    /\ op' = [p \in Proc |-> "none"]
    /\ blk' = [p \in Proc |-> NoBlk]
    /\ ra' = [p \in Proc |-> NoBlk]
    /\ bp' = [p \in Proc |-> NoBuf]
    /\ first' = [p \in Proc |-> NoBuf]
    /\ chan' = [p \in Proc |-> NoChan]
    /\ cpu' = NoProc
    /\ alone' = FALSE
    /\ data' = [x \in Buf |-> Zero]
    /\ UNCHANGED disk

----
Start(p) ==
    StartBread(p) \/ StartGetblk(p) \/ StartBreada(p) \/ StartSync(p) \/ StartReboot(p)

Getblk(p) ==
    GetblkBusy(p) \/ GetblkHit(p) \/ GetblkWait(p) \/ GetblkEvict(p) \/ GetblkTake(p)

GiveBack(p) == HoldRelse(p) \/ HoldBdwrite(p) \/ HoldBawrite(p) \/ HoldBwrite(p)

(* What a process does once inside the kernel. *)
Step(p) ==
    \/ Getblk(p)
    \/ GotBread(p) \/ GotGetblk(p) \/ GotBreada(p) \/ GotAhead(p)
    \/ Ahead(p) \/ Join(p) \/ IowaitRead(p) \/ IowaitWrite(p)
    \/ GiveBack(p)
    \/ Flush(p) \/ FlushDone(p) \/ Drain(p)

Next == RkIntr \/ Boot \/ \E p \in Proc : Start(p) \/ Step(p)

Spec == Init /\ [][Next]_vars

(* The disk answers, and swtch runs every process that stays runnable: a   *)
(* process woken from PRIBIO beats user mode and equals go round robin, so *)
(* one that is runnable whenever the processor is given up gets its turn.  *)
FairSpec == Spec /\ WF_vars(RkIntr) /\ \A p \in Proc : SF_vars(Step(p))
====
