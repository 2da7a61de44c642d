---------------------------------- MODULE Pipe ----------------------------------
(***************************************************************************)
(* One pipe (KEN/PIPE.C): an unnamed file of at most PIPSIZ bytes with a   *)
(* file structure for each end, read through readp, written through        *)
(* writep, closed through closef and iput, and locked meanwhile by sync    *)
(* (update in KEN/ALLOC.C).  The module begins where pipe() returns.       *)
(*                                                                         *)
(* Bytes are numbered in the order they enter the file, so their order at  *)
(* the other end can be told.  A process gives the processor up only in    *)
(* sleep and in the block I/O of readi, writei and iupdat.                 *)
(***************************************************************************)
EXTENDS Integers, Sequences, FiniteSets

CONSTANTS
    Proc,       \* processes
    Shell,      \* the one that made the pipe
    PIPSIZ,     \* the most bytes in the file (4096)
    BSIZE,      \* bytes to a block (512)
    MaxCount,   \* bound: bytes a read or a write asks for
    MaxBytes,   \* bound: bytes all the writes ask for
    MaxEvents,  \* bound: forks, signals, calls of sync, transfers that fail
    NoProc

ASSUME PipeSizeAssumption ==
    /\ PIPSIZ \in Nat \ {0} /\ BSIZE \in Nat \ {0} /\ PIPSIZ % BSIZE = 0
    /\ MaxCount \in Nat /\ MaxBytes \in Nat /\ MaxEvents \in Nat
ASSUME PipeProcAssumption == IsFiniteSet(Proc) /\ Shell \in Proc /\ NoProc \notin Proc

End   == {"r", "w"}
(* What sleep is called with: the inode, ip+2 and ip+1. *)
Chan  == {"none", "lock", "data", "room"}
Label == {"user", "rloop", "read", "wloop", "write", "sync"}

VARIABLES
    flag,       \* i_flag: LOCK (ILOCK) and WANT (IWANT)
    mode,       \* i_mode: READ (IREAD), somebody sleeps for data, and WRITE
    icount,     \* i_count
    size,       \* i_size1
    roff,       \* the reading file's f_offset[1]
    fcount,     \* f_count of each end's file structure
    file,       \* the bytes in the file
    ofile,      \* the ends each process has open (u_ofile)
    born,       \* the processes forked so far, each of them once
    u,          \* each process's place and registers
    chan,       \* p_wchan
    cpu,        \* the process inside the kernel, NoProc between switches
    wrote,      \* history: bytes put into the file
    got,        \* history: the bytes readers took out, in order
    stolen,     \* history: an iput dropped a lock that somebody held
    bytes,      \* bytes still to be asked for, of MaxBytes
    events      \* events still to come, of MaxEvents

inode  == <<flag, mode, icount, size>>
open   == <<fcount, ofile, born>>
stream == <<wrote, got>>
budget == <<bytes, events>>
vars   == <<inode, roff, open, file, u, chan, cpu, stream, stolen, budget>>

(* Registers of readp and writep: u_count, writep's c, u_offset, the bytes *)
(* of the block in hand, and u_error.                                      *)
Idle == [pc |-> "user", cnt |-> 0, c |-> 0, off |-> 0, n |-> 0, err |-> FALSE]

Init ==
    /\ flag = {} /\ mode = {} /\ icount = 2
    /\ size = 0 /\ roff = 0
    /\ fcount = [e \in End |-> 1]
    /\ ofile = [p \in Proc |-> IF p = Shell THEN End ELSE {}]
    /\ born = {Shell}
    /\ file = [i \in 0..PIPSIZ-1 |-> 0]
    /\ u = [p \in Proc |-> Idle]
    /\ chan = [p \in Proc |-> "none"]
    /\ cpu = NoProc
    /\ wrote = 0 /\ got = <<>> /\ stolen = FALSE
    /\ bytes = MaxBytes /\ events = MaxEvents

-------------------------------------------------------------------------------
At(p, l) == u[p].pc = l /\ chan[p] = "none" /\ cpu \in {NoProc, p}

Goes(p, l, r)  == u' = [u EXCEPT ![p] = [r EXCEPT !.pc = l]] /\ cpu' = p
Waits(p, l, r) == u' = [u EXCEPT ![p] = [r EXCEPT !.pc = l]] /\ cpu' = NoProc
Returns(p)     == u' = [u EXCEPT ![p] = Idle] /\ cpu' = NoProc

(* wakeup() on each channel of C; p itself then sleeps on c. *)
Woken(C) == [q \in Proc |-> IF chan[q] \in C THEN "none" ELSE chan[q]]
Wakeup(C) == chan' = Woken(C)
Sleeps(p, c, C) ==
    /\ chan' = [Woken(C) EXCEPT ![p] = c]
    /\ cpu' = NoProc
    /\ UNCHANGED u

(* prele: unlock, and wake who waited. *)
Prele == flag' = flag \ {"LOCK", "WANT"}
Lockers == IF "WANT" \in flag THEN {"lock"} ELSE {}

Least(S) == CHOOSE x \in S : \A y \in S : x <= y

(* plock finds the pipe locked. *)
PlockWaits(p) ==
    /\ At(p, "rloop") \/ At(p, "wloop")
    /\ "LOCK" \in flag
    /\ flag' = flag \cup {"WANT"}
    /\ Sleeps(p, "lock", {})
    /\ UNCHANGED <<mode, icount, size, roff, open, file, stream, stolen, budget>>

Event == events > 0 /\ events' = events - 1

(* A transfer of k of n bytes: fewer is an error, and counts as an event.  *)
Moves(k, n) == IF k = n THEN UNCHANGED events ELSE Event

-------------------------------------------------------------------------------
(* readp.                                                                  *)

Read(p) ==
    /\ At(p, "user")
    /\ "r" \in ofile[p]
    /\ \E k \in 1..MaxCount : Goes(p, "rloop", [Idle EXCEPT !.cnt = k])
    /\ UNCHANGED <<inode, roff, open, file, chan, stream, stolen, budget>>

(* A wrong reset, of the reader's offset alone. *)
ResetOffset(M) ==
    /\ roff' = 0
    /\ mode' = (IF roff # 0 THEN mode \ {"WRITE"} ELSE mode) \cup M
    /\ UNCHANGED size

(* The reader has caught up: both offsets go back to 0. *)
Reset(M) ==
    /\ roff' = 0 /\ size' = 0
    /\ mode' = (IF roff # 0 THEN mode \ {"WRITE"} ELSE mode) \cup M

Depleted == IF roff # 0 /\ "WRITE" \in mode THEN {"room"} ELSE {}

ReadEof(p) ==
    /\ At(p, "rloop")
    /\ "LOCK" \notin flag /\ roff = size
    /\ icount < 2
    /\ Reset({})
    /\ Prele
    /\ Wakeup(Depleted \cup Lockers)
    /\ Returns(p)
    /\ UNCHANGED <<icount, open, file, stream, stolen, budget>>

ReadWaits(p) ==
    /\ At(p, "rloop")
    /\ "LOCK" \notin flag /\ roff = size
    /\ icount >= 2
    /\ Reset({"READ"})
    /\ Prele
    /\ Sleeps(p, "data", Depleted \cup Lockers)
    /\ UNCHANGED <<icount, open, file, stream, stolen, budget>>

(* What readi asks of the block at off. *)
Piece(off, cnt) == Least({BSIZE - (off % BSIZE), cnt, size - off})

ReadStarts(p) ==
    /\ At(p, "rloop")
    /\ "LOCK" \notin flag /\ roff # size
    /\ IF roff < size
       THEN /\ flag' = flag \cup {"LOCK"}
            /\ Waits(p, "read", [u[p] EXCEPT !.off = roff, !.n = Piece(roff, u[p].cnt)])
            /\ UNCHANGED chan
       ELSE Prele /\ Wakeup(Lockers) /\ Returns(p)
    /\ UNCHANGED <<mode, icount, size, roff, open, file, stream, stolen, budget>>

(* The block is in: iomove copies k of the n bytes, fewer when the user's  *)
(* memory ends (EFAULT).                                                   *)
ReadBlock(p) ==
    /\ At(p, "read")
    /\ \E k \in 0..u[p].n :
          LET off == u[p].off + k
              cnt == u[p].cnt - k
          IN /\ Moves(k, u[p].n)
             /\ got' = got \o [i \in 1..k |-> file[u[p].off + i - 1]]
             /\ IF k = u[p].n /\ cnt # 0 /\ off < size
                THEN /\ Waits(p, "read", [u[p] EXCEPT !.off = off, !.cnt = cnt,
                                                      !.n = Piece(off, cnt)])
                     /\ UNCHANGED <<flag, roff, chan>>
                ELSE /\ roff' = off
                     /\ Prele
                     /\ Wakeup(Lockers)
                     /\ Returns(p)
    /\ UNCHANGED <<mode, icount, size, open, file, wrote, stolen, bytes>>

-------------------------------------------------------------------------------
(* writep.                                                                 *)

Write(p) ==
    /\ At(p, "user")
    /\ "w" \in ofile[p]
    /\ \E k \in 1..MaxCount :
          /\ k <= bytes
          /\ bytes' = bytes - k
          /\ Goes(p, "wloop", [Idle EXCEPT !.c = k])
    /\ UNCHANGED <<inode, roff, open, file, chan, stream, stolen, events>>

(* All done. *)
WriteDone(p) ==
    /\ At(p, "wloop")
    /\ "LOCK" \notin flag /\ u[p].c = 0
    /\ Prele
    /\ Wakeup(Lockers)
    /\ Returns(p)
    /\ UNCHANGED <<mode, icount, size, roff, open, file, stream, stolen, budget>>

(* EPIPE and SIGPIPE: nobody can read it. *)
WriteBroken(p) ==
    /\ At(p, "wloop")
    /\ "LOCK" \notin flag /\ u[p].c # 0 /\ icount < 2
    /\ Prele
    /\ Wakeup(Lockers)
    /\ Returns(p)
    /\ UNCHANGED <<mode, icount, size, roff, open, file, stream, stolen, budget>>

WriteFull(p) ==
    /\ At(p, "wloop")
    /\ "LOCK" \notin flag /\ u[p].c # 0 /\ icount >= 2
    /\ size = PIPSIZ
    /\ mode' = mode \cup {"WRITE"}
    /\ Prele
    /\ Sleeps(p, "room", Lockers)
    /\ UNCHANGED <<icount, size, roff, open, file, stream, stolen, budget>>

(* A wrong share of c: the whole of it. *)
ShareAll(c, off) == c

(* What of c the file has room for. *)
Share(c, off) == Least({c, PIPSIZ - off})

WriteStarts(p) ==
    /\ At(p, "wloop")
    /\ "LOCK" \notin flag /\ u[p].c # 0 /\ icount >= 2
    /\ size # PIPSIZ
    /\ flag' = flag \cup {"LOCK"}
    /\ LET cnt == Share(u[p].c, size) IN
       Waits(p, "write", [u[p] EXCEPT !.off = size, !.cnt = cnt, !.c = @ - cnt,
                                      !.n = Least({BSIZE - (size % BSIZE), cnt})])
    /\ UNCHANGED <<mode, icount, size, roff, open, file, chan, stream, stolen, budget>>

(* A wrong end of writei: the sleeping readers are not told. *)
DataSilent ==
    /\ mode' = mode \ {"READ"}
    /\ Wakeup(Lockers)

(* After writei: prele, and wake readers. *)
Data ==
    /\ mode' = mode \ {"READ"}
    /\ Wakeup(Lockers \cup (IF "READ" \in mode THEN {"data"} ELSE {}))

(* The block is there: iomove takes k of the n bytes from the user, fewer  *)
(* when his memory ends.  bmap may instead find the disk full, which is    *)
(* k = 0.  After an error writei moves one block to a call.                *)
WriteBlock(p) ==
    /\ At(p, "write")
    /\ \E k \in 0..u[p].n :
          LET off == u[p].off + k
              cnt == u[p].cnt - k
              err == u[p].err \/ k < u[p].n
          IN /\ Moves(k, u[p].n)
             /\ file' = [i \in DOMAIN file |->
                           IF i >= u[p].off /\ i < off
                           THEN wrote + 1 + i - u[p].off ELSE file[i]]
             /\ wrote' = wrote + k
             /\ size' = IF size < off THEN off ELSE size
             /\ IF ~err /\ cnt # 0
                THEN /\ Waits(p, "write", [u[p] EXCEPT !.off = off, !.cnt = cnt,
                                              !.n = Least({BSIZE - (off % BSIZE), cnt})])
                     /\ UNCHANGED <<flag, mode, chan>>
                ELSE /\ Prele
                     /\ Data
                     /\ Goes(p, "wloop", [u[p] EXCEPT !.off = 0, !.cnt = 0, !.n = 0,
                                                      !.err = err])
    /\ UNCHANGED <<icount, roff, open, got, stolen, bytes>>

-------------------------------------------------------------------------------
(* What else touches the pipe.                                             *)

(* newproc: the child shares the parent's open files. *)
Fork(p, q) ==
    /\ At(p, "user")
    /\ ofile[p] # {} /\ q \notin born
    /\ Event
    /\ born' = born \cup {q}
    /\ ofile' = [ofile EXCEPT ![q] = ofile[p]]
    /\ fcount' = [e \in End |-> IF e \in ofile[p] THEN fcount[e] + 1 ELSE fcount[e]]
    /\ UNCHANGED <<inode, roff, file, u, chan, cpu, stream, stolen, bytes>>

(* Wrong ends of a file structure: the peer is left asleep, and i_count is *)
(* dropped by every close.                                                 *)
CloseSilent(e) ==
    /\ mode' = {}
    /\ fcount' = [fcount EXCEPT ![e] = @ - 1]
    /\ IF fcount[e] <= 1
       THEN /\ icount' = icount - 1
            /\ Prele
            /\ Wakeup(Lockers)
            /\ stolen' = (stolen \/ "LOCK" \in flag)
       ELSE UNCHANGED <<icount, flag, stolen, chan>>

CloseAlways(e) ==
    /\ mode' = {}
    /\ fcount' = [fcount EXCEPT ![e] = @ - 1]
    /\ icount' = icount - 1
    /\ Prele
    /\ Wakeup({"data", "room"} \cup Lockers)
    /\ stolen' = (stolen \/ "LOCK" \in flag)

(* closef: the last close of an end gives back its reference with iput,    *)
(* which unlocks the inode whoever holds the lock.  (The last reference's  *)
(* iput frees the file; it sleeps, but nobody is left to see it.)          *)
Closef(e) ==
    /\ mode' = {}
    /\ fcount' = [fcount EXCEPT ![e] = @ - 1]
    /\ IF fcount[e] <= 1
       THEN /\ icount' = icount - 1
            /\ Prele
            /\ Wakeup({"data", "room"} \cup Lockers)
            /\ stolen' = (stolen \/ "LOCK" \in flag)
       ELSE /\ Wakeup({"data", "room"})
            /\ UNCHANGED <<icount, flag, stolen>>

(* close, or exit's. *)
Close(p) ==
    /\ At(p, "user")
    /\ \E e \in ofile[p] :
          /\ ofile' = [ofile EXCEPT ![p] = @ \ {e}]
          /\ Closef(e)
    /\ UNCHANGED <<size, roff, born, file, u, cpu, stream, budget>>

(* A signal ends an interruptible sleep: sleep goes to qsav, out of the    *)
(* call.                                                                   *)
Interrupt(p) ==
    /\ chan[p] # "none"
    /\ Event
    /\ chan' = [chan EXCEPT ![p] = "none"]
    /\ u' = [u EXCEPT ![p] = Idle]
    /\ UNCHANGED <<inode, roff, open, file, cpu, stream, stolen, bytes>>

(* update comes to the pipe's inode, locks it without a reference and      *)
(* sleeps in iupdat.                                                       *)
Sync(p) ==
    /\ At(p, "user")
    /\ icount # 0 /\ "LOCK" \notin flag
    /\ Event
    /\ flag' = flag \cup {"LOCK"}
    /\ Waits(p, "sync", Idle)
    /\ UNCHANGED <<mode, icount, size, roff, open, file, chan, stream, stolen, bytes>>

Synced(p) ==
    /\ At(p, "sync")
    /\ Prele
    /\ Wakeup(Lockers)
    /\ Returns(p)
    /\ UNCHANGED <<mode, icount, size, roff, open, file, stream, stolen, budget>>

-------------------------------------------------------------------------------
ReadStep(p)  == ReadEof(p) \/ ReadWaits(p) \/ ReadStarts(p) \/ ReadBlock(p)
WriteStep(p) == WriteDone(p) \/ WriteBroken(p) \/ WriteFull(p)
                \/ WriteStarts(p) \/ WriteBlock(p)
Step(p) == PlockWaits(p) \/ ReadStep(p) \/ WriteStep(p) \/ Synced(p)
User(p) == Read(p) \/ Write(p) \/ Close(p)

Next ==
    \E p \in Proc : Step(p) \/ User(p) \/ Interrupt(p) \/ Sync(p)
                    \/ (\E q \in Proc : Fork(p, q))

Spec == Init /\ [][Next]_vars

(* swtch runs every runnable process again and again, and a program with   *)
(* an end open uses or closes it sooner or later.                          *)
FairSpec == Spec /\ \A p \in Proc : SF_vars(Step(p) \/ User(p))
===============================================================================
