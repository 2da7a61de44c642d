-------------------------------- MODULE ProcSwap --------------------------------
(***************************************************************************)
(* Processes and the memory they live in: fork, exec, exit and wait        *)
(* (KEN/SYS1.C), newproc, swgrow and the swapping process sched            *)
(* (KEN/SLP.C), and the table of shared texts (KEN/TEXT.C).                *)
(*                                                                         *)
(* Core and swap space are sets of free units; malloc's first fit is the   *)
(* least address with room.  p_time only ranks the candidates of sched:    *)
(* here any candidate may be taken, and its tests of age go either way.    *)
(* A step is the code from one point where the process may sleep to the    *)
(* next.  fault names a state the code does not survive: Next stops there. *)
(***************************************************************************)
EXTENDS Integers, FiniteSets

CONSTANTS
    NPROC,      \* slots of proc[] beside the swapping process; 1 is init
    NTEXT,      \* slots of text[]
    Prog,       \* program files
    NoProg,
    DBLK,       \* pages to a process's data block
    TSIZE,      \* pages to a text (x_size)
    NCORE,      \* pages of coremap
    NSWAP,      \* sectors of swapmap
    SECTORS,    \* sectors to a page (PAGESIZ/512)
    Images,     \* the sizes in pages an image may have on the swap device
    MaxCalls    \* bound: forks and execs

ASSUME SwapAssumption ==
    /\ {NPROC, NTEXT, DBLK, TSIZE, NCORE, NSWAP, SECTORS} \subseteq Nat \ {0}
    /\ Images \subseteq 1..DBLK /\ MaxCalls \in Nat /\ NoProg \notin Prog
(* There is core for the bootstrap beside init and its text.               *)
ASSUME CoreAssumption == 1 + DBLK + TSIZE <= NCORE

Proc == 1..NPROC
Slot == 1..NTEXT

VARIABLES
    core, swap, \* the free units of coremap and swapmap
    proc,       \* proc[]
    text,       \* text[]
    u,          \* each process's place in the kernel and its locals
    ilock,      \* who has the inode of each program locked
    run,        \* the process inside the kernel, 0 between switches
    sched,      \* the swapping process: its place, p1, a and ta
    fault,      \* "none", or why the system is lost
    calls       \* forks and execs still to come, of MaxCalls

vars == <<core, swap, proc, text, u, ilock, run, sched, fault, calls>>

(* ref, a history: the process has a share in its text's x_ccount.         *)
Free == [stat |-> "none", load |-> FALSE, lock |-> FALSE, addr |-> 0, size |-> 0,
         img |-> 0, text |-> 0, par |-> 0, chan |-> "none", ref |-> FALSE]
Home == [pc |-> "user", ip |-> NoProg, a |-> 0, da |-> 0, ta |-> 0,
         xp |-> 0, otp |-> 0, for |-> "none"]
NoText == [ip |-> NoProg, count |-> 0, ccount |-> 0, caddr |-> 0, daddr |-> 0]

(* main: one process, in the one page of the icode bootstrap.              *)
Init ==
    /\ core = 2..NCORE /\ swap = 1..NSWAP
    /\ proc = [p \in Proc |-> IF p = 1 THEN [Free EXCEPT !.stat = "run", !.load = TRUE,
                                                 !.addr = 1, !.size = 1]
                                       ELSE Free]
    /\ text = [x \in Slot |-> NoText]
    /\ u = [p \in Proc |-> Home]
    /\ ilock = [g \in Prog |-> 0]
    /\ run = 0
    /\ sched = [pc |-> "loop", p |-> 0, a |-> 0, ta |-> 0]
    /\ fault = "none"
    /\ calls = MaxCalls

----
Run(a, n) == a..a+n-1
Least(S)  == CHOOSE x \in S : \A y \in S : x <= y
Fits(F, n) == {a \in F : Run(a, n) \subseteq F}
Malloc(F, n) == IF Fits(F, n) = {} THEN 0 ELSE Least(Fits(F, n))

(* swsize: the pages an image takes on the swap device, less than the      *)
(* block by the hole between heap and stack.                               *)
ImageSizes(p) == IF proc[p].size = DBLK THEN Images ELSE {proc[p].size}
Block(p) == Run(proc[p].addr, proc[p].size)
ImageWhole(p) == Run(proc[p].addr, proc[p].size * SECTORS)
Image(p) == Run(proc[p].addr, proc[p].img * SECTORS)

(* xccdec: one process less has the text in core; the last frees it.       *)
Xccdec(T, x) ==
    IF x = 0 \/ T[x].ccount = 0 THEN T
    ELSE [T EXCEPT ![x].ccount = @ - 1, ![x].caddr = IF T[x].ccount = 1 THEN 0 ELSE @]
XccFreesCount(x) == IF x # 0 /\ text[x].count = 1 THEN Run(text[x].caddr, TSIZE) ELSE {}
XccFrees(x)  == IF x # 0 /\ text[x].ccount = 1 THEN Run(text[x].caddr, TSIZE) ELSE {}

(* setrun: runnable; the swapper looks again if it is not in core.         *)
Runnable(r) == [r EXCEPT !.stat = "run", !.chan = "none"]
Woken(P, c) == [q \in Proc |-> IF P[q].chan = c THEN Runnable(P[q]) ELSE P[q]]
RunoutNever(b) == sched
Runout(b)   == IF b /\ sched.pc = "runout" THEN [sched EXCEPT !.pc = "loop"] ELSE sched
Asleep(r, s, c) == [r EXCEPT !.stat = s, !.chan = c]
Io(r)       == Asleep(r, "sleep", "io")

At(p, l) == /\ u[p].pc = l /\ run \in {0, p} /\ fault = "none"
            /\ proc[p].stat = "run" /\ proc[p].load
Between  == run = 0 /\ fault = "none"      \* no process is inside the kernel
Goto(p, r, l) == u' = [u EXCEPT ![p] = [r EXCEPT !.pc = l]]
Unlocked(p) == [g \in Prog |-> IF ilock[g] = p THEN 0 ELSE ilock[g]]

(* A program calls the system; the bootstrap does nothing but exec.        *)
Program(p) == At(p, "user") /\ proc[p].text # 0
Call == calls > 0 /\ calls' = calls - 1

----
(* fork.  newproc takes the first free slot; the child shares the text.    *)

Slots == {c \in Proc : proc[c].stat = "none"}
Child(p, a) == [proc[p] EXCEPT !.addr = a, !.par = p]
SharedTextOnce(x) == IF x = 0 THEN text ELSE [text EXCEPT ![x].count = @ + 1]
SharedText(x) == IF x = 0 THEN text
                 ELSE [text EXCEPT ![x].count = @ + 1, ![x].ccount = @ + 1]

Fork(p) ==
    /\ Program(p) /\ Slots # {}
    /\ LET c == Least(Slots)
           a == Malloc(core, proc[p].size)
       IN  /\ a # 0
           /\ core' = core \ Run(a, proc[p].size)
           /\ proc' = [proc EXCEPT ![c] = Child(p, a)]
           /\ u' = [u EXCEPT ![c] = Home]
           /\ run' = 0
    /\ text' = SharedText(proc[p].text)
    /\ Call
    /\ UNCHANGED <<swap, ilock, sched, fault>>

(* No core: the parent idles, and its thread goes on as the child, in the  *)
(* parent's core, to write the child's image to the swap device.           *)
ForkNoCore(p) ==
    /\ Program(p) /\ Slots # {}
    /\ Malloc(core, proc[p].size) = 0
    /\ LET c == Least(Slots)
       IN  /\ proc' = [proc EXCEPT ![p].stat = "idle", ![c] = Child(p, proc[p].addr)]
           /\ u' = [u EXCEPT ![c] = [Home EXCEPT !.pc = "getswap", !.for = "image"]]
           /\ run' = c
    /\ text' = SharedText(proc[p].text)
    /\ Call
    /\ UNCHANGED <<core, swap, ilock, sched, fault>>

----
(* A process writes its own image to the swap device: for a child in       *)
(* newproc ("image"), in swgrow for a text ("text"), and in xalloc to be    *)
(* swapped in with its text ("valve").                                     *)

SwapWaits(p) ==
    /\ At(p, "getswap")
    /\ \E n \in ImageSizes(p) :
        /\ Malloc(swap, n * SECTORS) = 0
        /\ proc' = [proc EXCEPT ![p] = Asleep(@, "sleep", "swapmap")]
    /\ run' = 0
    /\ UNCHANGED <<core, swap, text, u, ilock, sched, fault, calls>>

(* xswap up to the transfer: the text goes, whether or not this process    *)
(* had a share in it.                                                      *)
Unheld(p) == proc[p].text # 0 /\ ~proc[p].ref /\ text[proc[p].text].ccount > 0
Leaving(r, n) == [r EXCEPT !.img = n, !.lock = TRUE, !.ref = r.ref /\ r.text = 0]
Leaves(p) ==
    /\ core' = core \cup XccFrees(proc[p].text)
    /\ text' = Xccdec(text, proc[p].text)
    /\ fault' = IF Unheld(p) THEN "unheld" ELSE fault

SwapSelf(p) ==
    /\ At(p, "getswap")
    /\ \E n \in ImageSizes(p) :
       LET a == Malloc(swap, n * SECTORS)
       IN  /\ a # 0
           /\ swap' = swap \ Run(a, n * SECTORS)
           /\ proc' = [proc EXCEPT ![p] = Io(Leaving(@, n))]
           /\ Goto(p, [u[p] EXCEPT !.a = a], "writing")
    /\ Leaves(p)
    /\ run' = 0
    /\ UNCHANGED <<ilock, sched, calls>>

(* xswap after the transfer.                                               *)
Swapped(r, a) == [r EXCEPT !.addr = a, !.load = FALSE, !.lock = FALSE]

(* newproc's child is made: back to the parent.  Its core stays.           *)
Imaged(p) ==
    /\ At(p, "writing") /\ u[p].for = "image"
    /\ proc' = [proc EXCEPT ![p] = Swapped(@, u[p].a), ![proc[p].par].stat = "run"]
    /\ Goto(p, Home, "user")
    /\ run' = 0
    /\ sched' = Runout(TRUE)
    /\ UNCHANGED <<core, swap, text, ilock, fault, calls>>

(* The others wait for the swapper.  swgrow inflates p_size by what is to  *)
(* be found behind the block, and takes it off again on return.            *)
Need(p) == IF u[p].for = "text" THEN TSIZE ELSE 0

SwappedOut(p) ==
    /\ At(p, "writing") /\ u[p].for # "image"
    /\ core' = core \cup Block(p)
    /\ proc' = [proc EXCEPT ![p] = [Swapped(@, u[p].a) EXCEPT !.size = proc[p].size + Need(p)]]
    /\ Goto(p, [u[p] EXCEPT !.a = 0], "back")
    /\ run' = 0
    /\ sched' = Runout(TRUE)
    /\ UNCHANGED <<swap, text, ilock, fault, calls>>

Back(p) ==
    /\ At(p, "back")
    /\ proc' = [proc EXCEPT ![p].size = @ - Need(p)]
    /\ IF u[p].for = "text"
       THEN Goto(p, [u[p] EXCEPT !.ta = proc[p].addr + proc[p].size - TSIZE], "claim")
       ELSE Goto(p, u[p], "commit")
    /\ run' = p
    /\ UNCHANGED <<core, swap, text, ilock, sched, fault, calls>>

----
(* exec holds the inode of the new program locked to the end.  A process   *)
(* that has the block of a program keeps it; only the bootstrap needs one, *)
(* and alone in the machine it finds the core.                             *)

Exec(p, g) ==
    /\ At(p, "user") /\ ilock[g] = 0
    /\ ilock' = [ilock EXCEPT ![g] = p]
    /\ proc' = [proc EXCEPT ![p] = Io(@)]
    /\ Goto(p, [Home EXCEPT !.ip = g], "header")
    /\ run' = 0
    /\ Call
    /\ UNCHANGED <<core, swap, text, sched, fault>>

Returns(p) == Goto(p, Home, "user") /\ ilock' = Unlocked(p) /\ run' = 0

(* No program, no permission, a file open for writing.                     *)
ExecBad(p) ==
    /\ At(p, "header")
    /\ Returns(p)
    /\ UNCHANGED <<core, swap, proc, text, sched, fault, calls>>

ExecBlock(p) ==
    /\ At(p, "header")
    /\ LET a == Malloc(core, DBLK)
       IN  IF proc[p].size = DBLK
           THEN Goto(p, u[p], "attach") /\ UNCHANGED core
           ELSE core' = core \ Run(a, DBLK) /\ Goto(p, [u[p] EXCEPT !.da = a], "attach")
    /\ run' = p
    /\ UNCHANGED <<swap, proc, text, ilock, sched, fault, calls>>

(* xalloc.  The program's text is in the table ...                         *)
Entry(g) == {x \in Slot : text[x].ip = g}

AttachTo(p, x, a) ==
    LET t  == [u[p] EXCEPT !.xp = x, !.otp = proc[p].text]
        in == text[x].ccount # 0
    IN  IF in
        THEN /\ text' = [text EXCEPT ![x].count = @ + 1, ![x].ccount = @ + 1]
             /\ proc' = [proc EXCEPT ![p].text = x, ![p].ref = TRUE]
             /\ Goto(p, t, "commit") /\ run' = p /\ UNCHANGED core
        ELSE /\ text' = [text EXCEPT ![x].count = @ + 1]
             /\ IF a # 0
                THEN /\ core' = core \ Run(a, TSIZE)
                     /\ proc' = [proc EXCEPT ![p] = Io([@ EXCEPT !.text = x, !.ref = FALSE, !.lock = TRUE])]
                     /\ Goto(p, [t EXCEPT !.ta = a], "reload") /\ run' = 0
                ELSE /\ proc' = [proc EXCEPT ![p].text = x, ![p].ref = FALSE]
                     /\ Goto(p, [t EXCEPT !.for = "valve"], "getswap") /\ run' = p /\ UNCHANGED core

AttachShared(p) ==
    /\ At(p, "attach")
    /\ \E x \in Entry(u[p].ip) : AttachTo(p, x, Malloc(core, TSIZE))
    /\ UNCHANGED <<swap, ilock, sched, fault, calls>>

Reloaded(p) ==
    /\ At(p, "reload")
    /\ LET x == u[p].xp
       IN  /\ fault' = IF text[x].ccount # 0 THEN "twice" ELSE fault
           /\ text' = [text EXCEPT ![x].caddr = u[p].ta, ![x].ccount = @ + 1]
    /\ proc' = [proc EXCEPT ![p].lock = FALSE, ![p].ref = TRUE]
    /\ Goto(p, [u[p] EXCEPT !.ta = 0], "commit")
    /\ run' = p
    /\ UNCHANGED <<core, swap, ilock, sched, calls>>

(* ... or it is not, and takes a free slot, core and swap space.           *)
AttachNew(p) ==
    /\ At(p, "attach") /\ Entry(u[p].ip) = {}
    /\ LET a == Malloc(core, TSIZE)
           t == [u[p] EXCEPT !.otp = proc[p].text]
       IN  IF a # 0
           THEN core' = core \ Run(a, TSIZE) /\ Goto(p, [t EXCEPT !.ta = a], "claim")
           ELSE Goto(p, [t EXCEPT !.for = "text"], "getswap") /\ UNCHANGED core
    /\ run' = p
    /\ UNCHANGED <<swap, proc, text, ilock, sched, fault, calls>>

Claim(p) ==
    /\ At(p, "claim")
    /\ LET S == {x \in Slot : text[x].ip = NoProg}
           d == Malloc(swap, TSIZE * SECTORS)
           x == Least(S)
       IN  \/ /\ S = {} \/ d = 0
              /\ fault' = "panic"
              /\ UNCHANGED <<swap, proc, text, u, run>>
           \/ /\ S # {} /\ d # 0
              /\ swap' = swap \ Run(d, TSIZE * SECTORS)
              /\ text' = [text EXCEPT ![x] = [@ EXCEPT !.ip = u[p].ip, !.count = 1,
                                                      !.caddr = u[p].ta, !.daddr = d]]
              /\ proc' = [proc EXCEPT ![p] = Io([@ EXCEPT !.lock = TRUE])]
              /\ Goto(p, [u[p] EXCEPT !.xp = x], "load")
              /\ run' = 0
              /\ UNCHANGED fault
    /\ UNCHANGED <<core, ilock, sched, calls>>

(* readi fails: all of it is given back, the old image is intact.          *)
LoadFails(p) ==
    /\ At(p, "load")
    /\ LET x == u[p].xp
       IN  /\ text' = [text EXCEPT ![x] = NoText]
           /\ core' = core \cup Run(u[p].ta, TSIZE)
                          \cup (IF proc[p].size = DBLK THEN {} ELSE Run(u[p].da, DBLK))
           /\ swap' = swap \cup Run(text[x].daddr, TSIZE * SECTORS)
    /\ proc' = [proc EXCEPT ![p].lock = FALSE]
    /\ Returns(p)
    /\ UNCHANGED <<sched, fault, calls>>

(* The image is read, then written to the swap device.                     *)
Loaded(p) ==
    /\ At(p, "load")
    /\ proc' = [proc EXCEPT ![p] = Io(@)]
    /\ Goto(p, u[p], "proto")
    /\ run' = 0
    /\ UNCHANGED <<core, swap, text, ilock, sched, fault, calls>>

Proto(p) ==
    /\ At(p, "proto")
    /\ text' = [text EXCEPT ![u[p].xp].ccount = 1]
    /\ proc' = [proc EXCEPT ![p].lock = FALSE, ![p].text = u[p].xp, ![p].ref = TRUE]
    /\ Goto(p, [u[p] EXCEPT !.ta = 0], "commit")
    /\ run' = p
    /\ UNCHANGED <<core, swap, ilock, sched, fault, calls>>

(* xfree: one process less uses the text x.                                *)
XfreeText(x) ==
    IF x = 0 THEN text
    ELSE LET T == Xccdec(text, x)
         IN  IF T[x].count = 1 THEN [T EXCEPT ![x] = NoText] ELSE [T EXCEPT ![x].count = @ - 1]
XfreeSwapCore(x) == IF x # 0 /\ text[x].ccount = 1 THEN Run(text[x].daddr, TSIZE * SECTORS) ELSE {}
XfreeSwap(x) == IF x # 0 /\ text[x].count = 1 THEN Run(text[x].daddr, TSIZE * SECTORS) ELSE {}
XfreeSleeps(x) == x # 0 /\ text[x].count = 1


(* The old image goes.  xfree is called with p_textp at the old text, and  *)
(* leaves it 0 while its iput may sleep to write the inode.                *)
Commit(p) ==
    /\ At(p, "commit")
    /\ LET x == u[p].otp
           same == proc[p].size = DBLK
       IN  /\ core' = core \cup XccFrees(x) \cup (IF same THEN {} ELSE Block(p))
           /\ text' = XfreeText(x)
           /\ swap' = swap \cup XfreeSwap(x)
           /\ Goto(p, [u[p] EXCEPT !.xp = proc[p].text, !.da = IF same THEN proc[p].addr ELSE @],
                   "committed")
           /\ proc' = [proc EXCEPT ![p].text = 0, ![p].size = DBLK,
                                   ![p].addr = IF same THEN @ ELSE u[p].da]
           /\ run' = p
    /\ UNCHANGED <<ilock, sched, fault, calls>>

(* iput sleeps in the middle of that xfree.                                *)
IputWaits(p) ==
    /\ At(p, "committed") /\ u[p].otp # 0 /\ run = p
    /\ text[u[p].otp].count = 0
    /\ proc' = [proc EXCEPT ![p] = Io(@)]
    /\ run' = 0
    /\ UNCHANGED <<core, swap, text, u, ilock, sched, fault, calls>>

(* The new image: da was taken before xfree.                               *)
Committed(p) ==
    /\ At(p, "committed")
    /\ proc' = [proc EXCEPT ![p] = Io([@ EXCEPT !.text = u[p].xp, !.addr = u[p].da])]
    /\ fault' = IF proc[p].addr # u[p].da THEN "moved" ELSE fault
    /\ Goto(p, [Home EXCEPT !.ip = u[p].ip], "args")
    /\ run' = 0
    /\ UNCHANGED <<core, swap, text, ilock, sched, calls>>

ExecDone(p) ==
    /\ At(p, "args")
    /\ Returns(p)
    /\ UNCHANGED <<core, swap, proc, text, sched, fault, calls>>

----
(* exit: xfree, whose iput may sleep; a sector for the status; the zombie. *)

Exit(p) ==
    /\ Program(p) /\ p # 1
    /\ LET x == proc[p].text
       IN  /\ core' = core \cup XccFrees(x)
           /\ text' = XfreeText(x)
           /\ swap' = swap \cup XfreeSwap(x)
           /\ proc' = [proc EXCEPT ![p] =
                  LET r == [@ EXCEPT !.text = 0, !.ref = FALSE]
                  IN  IF XfreeSleeps(x) THEN Io(r) ELSE r]
           /\ run' = IF XfreeSleeps(x) THEN 0 ELSE p
    /\ Goto(p, u[p], "save")
    /\ UNCHANGED <<ilock, sched, fault, calls>>

Save(p) ==
    /\ At(p, "save")
    /\ LET a == Malloc(swap, 1)
       IN  \/ /\ a = 0
              /\ fault' = "panic"
              /\ UNCHANGED <<swap, proc, u, run>>
           \/ /\ a # 0
              /\ swap' = swap \ {a}
              /\ proc' = [proc EXCEPT ![p] = Io(@)]
              /\ Goto(p, [u[p] EXCEPT !.a = a], "die")
              /\ run' = 0
              /\ UNCHANGED fault
    /\ UNCHANGED <<core, text, ilock, sched, calls>>

(* The parent and init are woken, the children become init's.              *)
OrphanedNone(P, p) == P
Orphaned(P, p) == [q \in Proc |-> IF P[q].par = p THEN [P[q] EXCEPT !.par = 1] ELSE P[q]]
Notified(P, p) ==
    [q \in Proc |-> IF q \in {1, P[p].par} /\ P[q].chan = "child" THEN Runnable(P[q]) ELSE P[q]]

Die(p) ==
    /\ At(p, "die")
    /\ core' = core \cup Block(p)
    /\ LET P == [proc EXCEPT ![p].stat = "zombie", ![p].addr = u[p].a]
       IN  /\ proc' = Orphaned(Notified(P, p), p)
           /\ sched' = Runout(\E q \in {1, P[p].par} : P[q].chan = "child" /\ ~P[q].load)
    /\ Goto(p, Home, "user")
    /\ run' = 0
    /\ UNCHANGED <<swap, text, ilock, fault, calls>>

----
(* wait.                                                                   *)
Children(p) == {q \in Proc : proc[q].par = p /\ proc[q].stat # "none"}
Zombies(p)  == {q \in Children(p) : proc[q].stat = "zombie"}

Wait(p) ==
    /\ Program(p) /\ Children(p) # {}
    /\ Goto(p, Home, "wait")
    /\ run' = p
    /\ UNCHANGED <<core, swap, proc, text, ilock, sched, fault, calls>>

WaitSleeps(p) ==
    /\ At(p, "wait") /\ Zombies(p) = {}
    /\ proc' = [proc EXCEPT ![p] = Asleep(@, "wait", "child")]
    /\ run' = 0
    /\ UNCHANGED <<core, swap, text, u, ilock, sched, fault, calls>>

(* bread of the status sleeps; the slot is still the zombie's.             *)
Status(p) ==
    /\ At(p, "wait") /\ Zombies(p) # {}
    /\ Goto(p, [u[p] EXCEPT !.a = Least(Zombies(p))], "reap")
    /\ proc' = [proc EXCEPT ![p] = Io(@)]
    /\ run' = 0
    /\ UNCHANGED <<core, swap, text, ilock, sched, fault, calls>>

Reap(p) ==
    /\ At(p, "reap")
    /\ swap' = swap \cup {proc[u[p].a].addr}
    /\ proc' = [proc EXCEPT ![u[p].a] = Free]
    /\ Goto(p, Home, "user")
    /\ run' = 0
    /\ UNCHANGED <<core, text, ilock, sched, fault, calls>>

(* The program waits for a slow device.                                    *)
Pause(p) ==
    /\ Program(p)
    /\ proc' = [proc EXCEPT ![p] = Asleep(@, "wait", "tty")]
    /\ run' = 0
    /\ UNCHANGED <<core, swap, text, u, ilock, sched, fault, calls>>

(* wakeup at the end of a transfer; psignal, or the slow device, for a     *)
(* process in an interruptible sleep, which leaves the call it is in.      *)
IoDone(p) ==
    /\ Between /\ proc[p].chan = "io"
    /\ proc' = [proc EXCEPT ![p] = Runnable(@)]
    /\ sched' = Runout(~proc[p].load)
    /\ UNCHANGED <<core, swap, text, u, ilock, run, fault, calls>>

Psignal(p) ==
    /\ Between /\ proc[p].stat = "wait"
    /\ proc' = [proc EXCEPT ![p] = Runnable(@)]
    /\ Goto(p, Home, "user")
    /\ sched' = Runout(~proc[p].load)
    /\ UNCHANGED <<core, swap, text, ilock, run, fault, calls>>

----
(* sched.                                                                  *)
Sched(l) == Between /\ sched.pc = l
Sloop == sched' = [sched EXCEPT !.pc = "runin"]

Absent == {p \in Proc : proc[p].stat = "run" /\ ~proc[p].load}
Victims(S) == {p \in Proc : proc[p].load /\ ~proc[p].lock /\ proc[p].stat \in S}
TextIn(p) == proc[p].text = 0 \/ text[proc[p].text].ccount # 0

SchedIdle ==
    /\ Sched("loop") /\ Absent = {}
    /\ sched' = [sched EXCEPT !.pc = "runout"]
    /\ UNCHANGED <<core, swap, proc, text, u, ilock, run, fault, calls>>

(* Core for the block, and for the text if it is not in: both or neither.  *)
Room(p) ==
    LET a == Malloc(core, proc[p].size)
    IN  a # 0 /\ (~TextIn(p) => Malloc(core \ Run(a, proc[p].size), TSIZE) # 0)

SwapIn(p) ==
    /\ Sched("loop") /\ p \in Absent /\ Room(p)
    /\ LET a  == Malloc(core, proc[p].size)
           C  == core \ Run(a, proc[p].size)
           ta == Malloc(C, TSIZE)
           x  == proc[p].text
       IN  IF TextIn(p)
           THEN /\ core' = C
                /\ sched' = [pc |-> "indata", p |-> p, a |-> a, ta |-> 0]
                /\ text' = IF x = 0 THEN text ELSE [text EXCEPT ![x].ccount = @ + 1]
                /\ proc' = [proc EXCEPT ![p].ref = TRUE]
           ELSE /\ core' = C \ Run(ta, TSIZE)
                /\ sched' = [pc |-> "intext", p |-> p, a |-> a, ta |-> ta]
                /\ UNCHANGED <<text, proc>>
    /\ UNCHANGED <<swap, u, ilock, run, fault, calls>>

InText ==
    /\ Sched("intext")
    /\ LET x == proc[sched.p].text
       IN  /\ fault' = IF text[x].ccount # 0 THEN "twice" ELSE fault
           /\ text' = [text EXCEPT ![x].caddr = sched.ta, ![x].ccount = @ + 1]
    /\ proc' = [proc EXCEPT ![sched.p].ref = TRUE]
    /\ sched' = [sched EXCEPT !.pc = "indata", !.ta = 0]
    /\ UNCHANGED <<core, swap, u, ilock, run, calls>>

InData ==
    /\ Sched("indata")
    /\ swap' = swap \cup Image(sched.p)
    /\ proc' = [Woken(proc, "swapmap") EXCEPT ![sched.p].addr = sched.a, ![sched.p].load = TRUE,
                                               ![sched.p].img = 0]
    /\ sched' = [pc |-> "loop", p |-> 0, a |-> 0, ta |-> 0]
    /\ UNCHANGED <<core, text, u, ilock, run, fault, calls>>

(* No room: an idle process goes, or any other if somebody waited long.    *)
Easy == Victims({"wait"})
SwapOut(v) ==
    /\ Sched("loop")
    /\ \E p \in Absent : ~Room(p)
    /\ IF Easy # {} THEN v = Least(Easy) ELSE v \in Victims({"run", "sleep"})
    /\ \E n \in ImageSizes(v) :
       LET a == Malloc(swap, n * SECTORS)
       IN  \/ /\ a = 0
              /\ Sloop
              /\ UNCHANGED <<core, swap, proc, text, fault>>
           \/ /\ a # 0
              /\ swap' = swap \ Run(a, n * SECTORS)
              /\ proc' = [proc EXCEPT ![v] = [Leaving(@, n) EXCEPT !.load = FALSE]]
              /\ core' = core \cup XccFrees(proc[v].text)
              /\ text' = Xccdec(text, proc[v].text)
              /\ fault' = CASE u[v].for = "image" -> "orphan"
                            [] Unheld(v)          -> "unheld"
                            [] OTHER              -> fault
              /\ sched' = [pc |-> "out", p |-> v, a |-> a, ta |-> 0]
    /\ UNCHANGED <<u, ilock, run, calls>>

NobodyOut ==
    /\ Sched("loop")
    /\ Easy = {} /\ \E p \in Absent : ~Room(p)
    /\ Sloop
    /\ UNCHANGED <<core, swap, proc, text, u, ilock, run, fault, calls>>

OutDone ==
    /\ Sched("out")
    /\ core' = core \cup Block(sched.p)
    /\ proc' = [proc EXCEPT ![sched.p] = Swapped(@, sched.a)]
    /\ sched' = [pc |-> "loop", p |-> 0, a |-> 0, ta |-> 0]
    /\ UNCHANGED <<swap, text, u, ilock, run, fault, calls>>

(* The clock, or a process going to an interruptible sleep.                *)
Runin ==
    /\ Sched("runin")
    /\ sched' = [sched EXCEPT !.pc = "loop"]
    /\ UNCHANGED <<core, swap, proc, text, u, ilock, run, fault, calls>>

----
Step(p) ==
    \/ Imaged(p) \/ SwapWaits(p) \/ SwapSelf(p) \/ SwappedOut(p) \/ Back(p)
    \/ ExecBad(p) \/ ExecBlock(p) \/ AttachShared(p) \/ Reloaded(p)
    \/ AttachNew(p) \/ Claim(p) \/ LoadFails(p) \/ Loaded(p) \/ Proto(p)
    \/ Commit(p) \/ IputWaits(p) \/ Committed(p) \/ ExecDone(p)
    \/ Save(p) \/ Die(p) \/ WaitSleeps(p) \/ Status(p) \/ Reap(p)
User(p) ==
    \/ Fork(p) \/ ForkNoCore(p) \/ Exit(p) \/ Wait(p) \/ Pause(p)
    \/ \E g \in Prog : Exec(p, g)
Swapper ==
    \/ SchedIdle \/ InText \/ InData \/ NobodyOut \/ OutDone \/ Runin
    \/ \E p \in Proc : SwapIn(p) \/ SwapOut(p)

Next ==
    \/ \E p \in Proc : Step(p) \/ User(p) \/ IoDone(p) \/ Psignal(p)
    \/ Swapper

Spec == Init /\ [][Next]_vars
====
