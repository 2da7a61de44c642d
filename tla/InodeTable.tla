------------------------------ MODULE InodeTable ------------------------------
(***************************************************************************)
(* The in-core inode table (KEN/IGET.C), the superblock's spare inodes     *)
(* (ialloc, ifree, update in KEN/ALLOC.C) and the calls that use them:     *)
(* open, creat, link, unlink, close, read/write and sync (KEN/NAMI.C,      *)
(* SYS2.C, SYS4.C, FIO.C), on the root file system, whose IDE disk reports *)
(* no errors.  Nothing is mounted, and one directory, the root, holds all  *)
(* the names.                                                              *)
(*                                                                         *)
(* Every buffer cache call may sleep.  A step of a process is the code     *)
(* between two points where it may: "Waits" gives the processor up there,  *)
(* "Goes" keeps it, "Sleeps" waits for a wakeup.                           *)
(***************************************************************************)
EXTENDS Integers, Sequences, FiniteSets

CONSTANTS
    Proc,       \* processes
    NINODE,     \* slots of the inode table
    NINO,       \* inodes on the disk, numbered from 1
    INOPB,      \* inodes to a block of the i-list (16)
    NICINOD,    \* spare inodes the superblock has room for (100)
    NDIR,       \* bound: entries of the directory
    Name,       \* names
    MAXLINK,    \* the most links to a file (127)
    Calls,      \* bound: the system calls the processes make
    MaxCalls,   \* bound: how many of them, closes and transfers apart
    Spares,     \* the lists of spare inodes a mounted superblock may hold
    NoProc, NoName

Slot == 1..NINODE
Ino  == 1..NINO
Off  == 1..NDIR
ROOTINO == 1
Root    == 1            \* rootdir: the slot main() gets it in
NoSlot  == 0
Ilock   == 0            \* the channel &s_ilock; a slot's channel is itself
NoChan  == -1

ASSUME SizeAssumption ==
    /\ NINODE \in Nat \ {0} /\ NINO \in Nat \ {0} /\ INOPB \in Nat \ {0}
    /\ NICINOD \in Nat \ {0} /\ NDIR \in Nat /\ MAXLINK \in Nat \ {0}
    /\ MaxCalls \in Nat
ASSUME ProcAssumption == IsFiniteSet(Proc) /\ NoProc \notin Proc
ASSUME NameAssumption == NoName \notin Name
ASSUME SparesAssumption == Spares \subseteq Seq(Ino \ {ROOTINO})

(* IUPD and IACC differ in the date iupdat sets: UPD is either. *)
Flag  == {"LOCK", "WANT", "UPD"}
Label == {"user", "iget", "iread", "search", "opened", "otrunc", "unlinked",
          "unwrite", "ialloc", "iloop", "allocd", "scan", "mkwrite", "linked",
          "exists", "lkwrite", "lkput", "put", "itrunc", "ibread", "ibwrite",
          "sync", "panic"}
Call  == {"none", "open", "creat", "made", "unlink", "link", "link2", "close", "sync"}

VARIABLES
    flag,       \* i_flag of each slot
    count,      \* i_count
    num,        \* i_number, 0 in a free slot
    node,       \* i_mode (used or not) and i_nlink
    dnode,      \* the same of each inode on the disk
    dir,        \* the directory's entries; one with ino 0 is empty
    spare,      \* s_inode[0 .. s_ninode-1]
    ilock,      \* s_ilock
    updlock,    \* updlock
    u,          \* each process's place and registers
    fd,         \* the inode of its one open file, NoSlot when none is open
    chan,       \* p_wchan, NoChan when runnable
    cpu,        \* the process inside the kernel, NoProc between switches
    left,       \* calls still to be made, of MaxCalls
    lost        \* history: directory references that creat never gave back

table == <<flag, count, num, node>>
super == <<spare, ilock, updlock>>
hist  == <<left, lost>>
vars  == <<table, dnode, dir, super, u, fd, chan, cpu, hist>>

(* What a process has in hand in a call: where it is, the call, the names, *)
(* the directory entry's offset and number, the inodes it refers to (dp    *)
(* the directory, ip the file, lp link's file), the slot or block a loop   *)
(* has come to, and where iget or iput returns.                            *)
Idle == [pc |-> "user", call |-> "none", name |-> NoName, name2 |-> NoName,
         off |-> 0, ino |-> 0, dp |-> NoSlot, ip |-> NoSlot, lp |-> NoSlot,
         k |-> 0, ret |-> "user"]

Empty == [name |-> NoName, ino |-> 0]

(* A consistent disk: every name has its own inode. *)
Init ==
    /\ flag = [s \in Slot |-> {}]
    /\ count = [s \in Slot |-> IF s = Root THEN 1 + Cardinality(Proc) ELSE 0]
    /\ num = [s \in Slot |-> IF s = Root THEN ROOTINO ELSE 0]
    /\ \E files \in SUBSET (Ino \ {ROOTINO}) :
          /\ dnode = [i \in Ino |-> [used |-> i \in files \cup {ROOTINO},
                                     nlink |-> IF i \in files \cup {ROOTINO} THEN 1 ELSE 0]]
          /\ dir \in [Off -> {Empty} \cup [name : Name, ino : files]]
          /\ \A i \in files : Cardinality({o \in Off : dir[o].ino = i}) = 1
          /\ \A o, q \in Off : dir[o] # Empty /\ dir[o].name = dir[q].name => o = q
    /\ node = [s \in Slot |-> IF s = Root THEN [used |-> TRUE, nlink |-> 1]
                                          ELSE [used |-> FALSE, nlink |-> 0]]
    /\ spare \in Spares
    /\ ilock = FALSE
    /\ updlock = FALSE
    /\ u = [p \in Proc |-> Idle]
    /\ fd = [p \in Proc |-> NoSlot]
    /\ chan = [p \in Proc |-> NoChan]
    /\ cpu = NoProc
    /\ left = MaxCalls
    /\ lost = 0

-------------------------------------------------------------------------------
(* Scheduling.                                                             *)

At(p, l) == u[p].pc = l /\ chan[p] = NoChan /\ cpu \in {NoProc, p}

(* On to l with registers r: without a switch, or after one. *)
Goes(p, l, r)  == u' = [u EXCEPT ![p] = [r EXCEPT !.pc = l]] /\ cpu' = p
Waits(p, l, r) == u' = [u EXCEPT ![p] = [r EXCEPT !.pc = l]] /\ cpu' = NoProc
Returns(p)     == u' = [u EXCEPT ![p] = Idle] /\ cpu' = NoProc

Sleeps(p, c) == chan' = [chan EXCEPT ![p] = c] /\ cpu' = NoProc /\ UNCHANGED u

Wakeup(c) == chan' = [q \in Proc |-> IF chan[q] = c THEN NoChan ELSE chan[q]]

(* A wrong prele: the lock is dropped and nobody told. *)
PreleSilent(s, f) ==
    /\ flag' = [flag EXCEPT ![s] = f \ {"LOCK", "WANT"}]
    /\ UNCHANGED chan

(* prele, of a slot whose flags have become f. *)
Prele(s, f) ==
    /\ flag' = [flag EXCEPT ![s] = f \ {"LOCK", "WANT"}]
    /\ IF "WANT" \in f THEN Wakeup(s) ELSE UNCHANGED chan

(* A wrong iput of the directory: the reference stays counted. *)
PutDirKeeps(f) == Prele(Root, f) /\ UNCHANGED count

(* iput(u_pdir): never the last reference, rootdir keeps one. *)
PutDir(f) == Prele(Root, f) /\ count' = [count EXCEPT ![Root] = @ - 1]

-------------------------------------------------------------------------------
(* iget(dev, ino), which leaves the slot in dp for namei and else in ip.   *)

(* A wrong look-up, which passes over locked slots. *)
InCoreUnlocked(i) == {s \in Slot : num[s] = i /\ "LOCK" \notin flag[s]}

InCore(i) == {s \in Slot : num[s] = i}
First(S)  == CHOOSE s \in S : \A t \in S : s <= t
FreeSlots == {s \in Slot : count[s] = 0}

Got(r, s) == IF r.ret = "search" THEN [r EXCEPT !.dp = s] ELSE [r EXCEPT !.ip = s]

(* Back to iget's or iput's caller, whose registers these are. *)
Resume(p, r) ==
    IF r.ret = "user" THEN Returns(p)
                      ELSE Goes(p, r.ret, [r EXCEPT !.ino = 0, !.ret = "user"])

IgetLocked(p) ==
    /\ At(p, "iget")
    /\ InCore(u[p].ino) # {}
    /\ LET s == First(InCore(u[p].ino)) IN
       /\ "LOCK" \in flag[s]
       /\ flag' = [flag EXCEPT ![s] = @ \cup {"WANT"}]
       /\ Sleeps(p, s)
    /\ UNCHANGED <<count, num, node, dnode, dir, super, fd, hist>>

IgetFound(p) ==
    /\ At(p, "iget")
    /\ InCore(u[p].ino) # {}
    /\ LET s == First(InCore(u[p].ino)) IN
       /\ "LOCK" \notin flag[s]
       /\ flag' = [flag EXCEPT ![s] = @ \cup {"LOCK"}]
       /\ count' = [count EXCEPT ![s] = @ + 1]
       /\ IF u[p].ret = "search"
          THEN Waits(p, "search", [Got(u[p], s) EXCEPT !.ino = 0, !.ret = "user"])
          ELSE Resume(p, Got(u[p], s))
    /\ UNCHANGED <<num, node, dnode, dir, super, fd, chan, hist>>

IgetRead(p) ==
    /\ At(p, "iget")
    /\ InCore(u[p].ino) = {} /\ FreeSlots # {}
    /\ LET s == First(FreeSlots) IN
       /\ num' = [num EXCEPT ![s] = u[p].ino]
       /\ flag' = [flag EXCEPT ![s] = {"LOCK"}]
       /\ count' = [count EXCEPT ![s] = @ + 1]
       /\ Waits(p, "iread", Got(u[p], s))
    /\ UNCHANGED <<node, dnode, dir, super, fd, chan, hist>>

(* ENFILE: the table is full. *)
IgetFull(p) ==
    /\ At(p, "iget")
    /\ InCore(u[p].ino) = {} /\ FreeSlots = {}
    /\ Resume(p, u[p])
    /\ UNCHANGED <<table, dnode, dir, super, fd, chan, hist>>

Iread(p) ==
    /\ At(p, "iread")
    /\ node' = [node EXCEPT ![u[p].ip] = dnode[u[p].ino]]
    /\ Resume(p, u[p])
    /\ UNCHANGED <<flag, count, num, dnode, dir, super, fd, chan, hist>>

-------------------------------------------------------------------------------
(* iput(ip).                                                               *)

PutShared(p) ==
    /\ At(p, "put")
    /\ LET s == u[p].ip IN
       /\ count[s] # 1
       /\ Prele(s, flag[s])
       /\ count' = [count EXCEPT ![s] = @ - 1]
    /\ Resume(p, [u[p] EXCEPT !.ip = NoSlot])
    /\ UNCHANGED <<num, node, dnode, dir, super, fd, hist>>

(* The end of iput's last-reference half: the slot is given up. *)
Forget(p) ==
    LET s == u[p].ip IN
    /\ flag' = [flag EXCEPT ![s] = {}]
    /\ IF "WANT" \in flag[s] THEN Wakeup(s) ELSE UNCHANGED chan
    /\ num' = [num EXCEPT ![s] = 0]
    /\ count' = [count EXCEPT ![s] = @ - 1]
    /\ Resume(p, [u[p] EXCEPT !.ip = NoSlot])
    /\ UNCHANGED <<node, dnode, dir, super, fd, hist>>

(* A wrong iput, which forgets an inode others refer to. *)
PutCleanShared(p) ==
    /\ At(p, "put")
    /\ node[u[p].ip].nlink > 0
    /\ "UPD" \notin flag[u[p].ip]
    /\ Forget(p)

PutClean(p) ==
    /\ At(p, "put")
    /\ count[u[p].ip] = 1
    /\ node[u[p].ip].nlink > 0
    /\ "UPD" \notin flag[u[p].ip]
    /\ Forget(p)

(* iupdat works out the inode's block before it sleeps in bread. *)
PutDirty(p) ==
    /\ At(p, "put")
    /\ LET s == u[p].ip IN
       /\ count[s] = 1
       /\ node[s].nlink > 0
       /\ "UPD" \in flag[s]
       /\ flag' = [flag EXCEPT ![s] = @ \cup {"LOCK"}]
       /\ Waits(p, "ibread", [u[p] EXCEPT !.ino = num[s]])
    /\ UNCHANGED <<count, num, node, dnode, dir, super, fd, chan, hist>>

PutUnlinked(p) ==
    /\ At(p, "put")
    /\ LET s == u[p].ip IN
       /\ count[s] = 1
       /\ node[s].nlink <= 0
       /\ flag' = [flag EXCEPT ![s] = @ \cup {"LOCK"}]
    /\ Waits(p, "itrunc", u[p])
    /\ UNCHANGED <<count, num, node, dnode, dir, super, fd, chan, hist>>

(* ifree: a list being refilled or full takes no more. *)
Ifree(i) ==
    spare' = IF ilock \/ Len(spare) >= NICINOD THEN spare ELSE Append(spare, i)

PutTruncated(p) ==
    /\ At(p, "itrunc")
    /\ LET s == u[p].ip IN
       /\ flag' = [flag EXCEPT ![s] = @ \cup {"UPD"}]
       /\ node' = [node EXCEPT ![s].used = FALSE]
       /\ Ifree(num[s])
       /\ Waits(p, "ibread", [u[p] EXCEPT !.ino = num[s]])
    /\ UNCHANGED <<count, num, dnode, dir, ilock, updlock, fd, chan, hist>>

(* iupdat, for iput and for update: the block has been read; it is written *)
(* back at once and stays busy until that is done.                         *)
Iupdat(p) ==
    /\ At(p, "ibread")
    /\ LET s == IF u[p].call = "sync" THEN u[p].k ELSE u[p].ip IN
       dnode' = IF u[p].ino \in Ino THEN [dnode EXCEPT ![u[p].ino] = node[s]] ELSE dnode
    /\ Waits(p, "ibwrite", u[p])
    /\ UNCHANGED <<table, dir, super, fd, chan, hist>>

PutWritten(p) == At(p, "ibwrite") /\ u[p].call # "sync" /\ Forget(p)

-------------------------------------------------------------------------------
(* namei: the directory is searched while it is locked.                    *)

Holding(n) == {o \in Off : dir[o].ino # 0 /\ dir[o].name = n}
Vacant     == {o \in Off : dir[o].ino = 0}

Creates(c) == c \in {"creat", "link2"}

(* Flag 2: the entry is found and the directory, locked, returned; unlink  *)
(* unlocks it and gets the file.                                           *)
SearchUnlink(p) ==
    /\ At(p, "search") /\ u[p].call = "unlink"
    /\ Holding(u[p].name) # {}
    /\ LET o == First(Holding(u[p].name)) IN
       Goes(p, "iget", [u[p] EXCEPT !.name = NoName, !.off = o,
                           !.ino = dir[o].ino, !.ret = "unlinked"])
    /\ Prele(Root, flag[Root])
    /\ UNCHANGED <<count, num, node, dnode, dir, super, fd, hist>>

(* Flags 0 and 1: the directory is put, the file got. *)
SearchFound(p) ==
    /\ At(p, "search") /\ u[p].call # "unlink"
    /\ Holding(u[p].name) # {}
    /\ LET o == First(Holding(u[p].name)) IN
       Goes(p, "iget", [u[p] EXCEPT !.dp = NoSlot, !.name = NoName, !.ino = dir[o].ino,
                           !.ret = CASE u[p].call = "link"  -> "linked"
                                     [] u[p].call = "link2" -> "exists"
                                     [] OTHER               -> "opened"])
    /\ PutDir(flag[Root])
    /\ UNCHANGED <<num, node, dnode, dir, super, fd, hist>>

(* Flag 1, no such entry: the directory stays locked in u_pdir. *)
SearchVacant(p) ==
    /\ At(p, "search") /\ Creates(u[p].call)
    /\ Holding(u[p].name) = {} /\ Vacant # {}
    /\ LET r == [u[p] EXCEPT !.off = First(Vacant)] IN
       IF u[p].call = "creat"
       THEN Goes(p, "ialloc", r)
       ELSE Waits(p, "lkwrite", [r EXCEPT !.ino = num[u[p].lp]])
    /\ UNCHANGED <<table, dnode, dir, super, fd, chan, hist>>

(* No such file, or access to the directory refused. *)
SearchFails(p) ==
    /\ At(p, "search")
    /\ PutDir(flag[Root])
    /\ IF u[p].call = "link2"
       THEN Goes(p, "lkput", [u[p] EXCEPT !.dp = NoSlot, !.name = NoName])
       ELSE Returns(p)
    /\ UNCHANGED <<num, node, dnode, dir, super, fd, hist>>

-------------------------------------------------------------------------------
(* open1: modes and uids are not modelled, so access may refuse anything.  *)

OpenNothing(p) ==
    /\ At(p, "opened") /\ u[p].ip = NoSlot
    /\ Returns(p)
    /\ UNCHANGED <<table, dnode, dir, super, fd, chan, hist>>

OpenRefused(p) ==
    /\ At(p, "opened") /\ u[p].ip # NoSlot /\ u[p].call # "made"
    /\ Goes(p, "put", u[p])
    /\ UNCHANGED <<table, dnode, dir, super, fd, chan, hist>>

OpenTruncates(p) ==
    /\ At(p, "opened") /\ u[p].ip # NoSlot /\ u[p].call = "creat"
    /\ Waits(p, "otrunc", u[p])
    /\ UNCHANGED <<table, dnode, dir, super, fd, chan, hist>>

(* The file is unlocked; with no descriptor left it is put again. *)
OpenDone(p) ==
    LET s == u[p].ip IN
    /\ \/ At(p, "opened") /\ s # NoSlot /\ u[p].call # "creat" /\ Prele(s, flag[s])
       \/ At(p, "otrunc") /\ Prele(s, flag[s] \cup {"UPD"})
    /\ IF fd[p] = NoSlot
       THEN fd' = [fd EXCEPT ![p] = s] /\ Returns(p)
       ELSE Goes(p, "put", u[p]) /\ UNCHANGED fd
    /\ UNCHANGED <<count, num, node, dnode, dir, super, hist>>

-------------------------------------------------------------------------------
(* unlink, once it has the file, whose directory it no longer has locked.  *)

UnlinkPanics(p) ==
    /\ At(p, "unlinked") /\ u[p].ip = NoSlot
    /\ Goes(p, "panic", u[p])
    /\ UNCHANGED <<table, dnode, dir, super, fd, chan, hist>>

UnlinkWrites(p) ==
    /\ At(p, "unlinked") /\ u[p].ip # NoSlot
    /\ Waits(p, "unwrite", u[p])
    /\ UNCHANGED <<table, dnode, dir, super, fd, chan, hist>>

(* i_nlink is an unsigned char; a wrong one has a sign. *)
FewerSigned(n) == n - 1
Fewer(n) == (n - 1) % 256

(* The entry found before is cleared, the directory put, the file put. *)
Unlink(p) ==
    /\ At(p, "unwrite")
    /\ dir' = [dir EXCEPT ![u[p].off] = Empty]
    /\ LET s == u[p].ip
           d == flag[Root] \cup {"UPD"} IN
       /\ node' = [node EXCEPT ![s].nlink = Fewer(@)]
       /\ flag' = [flag EXCEPT ![s] = @ \cup {"UPD"}, ![Root] = d \ {"LOCK", "WANT"}]
       /\ IF "WANT" \in d THEN Wakeup(Root) ELSE UNCHANGED chan
       /\ count' = [count EXCEPT ![Root] = @ - 1]
    /\ Goes(p, "put", [u[p] EXCEPT !.dp = NoSlot, !.off = 0])
    /\ UNCHANGED <<num, dnode, super, fd, hist>>

-------------------------------------------------------------------------------
(* ialloc and maknode, for creat.                                          *)

IallocWaits(p) ==
    /\ At(p, "ialloc") /\ ilock
    /\ Sleeps(p, Ilock)
    /\ UNCHANGED <<table, dnode, dir, super, fd, hist>>

IallocEnters(p) ==
    /\ At(p, "ialloc") /\ ~ilock
    /\ Goes(p, "iloop", u[p])
    /\ UNCHANGED <<table, dnode, dir, super, fd, chan, hist>>

IallocPops(p) ==
    /\ At(p, "iloop") /\ spare # <<>>
    /\ spare' = SubSeq(spare, 1, Len(spare) - 1)
    /\ Goes(p, "iget", [u[p] EXCEPT !.ino = spare[Len(spare)], !.ret = "allocd"])
    /\ UNCHANGED <<table, dnode, dir, ilock, updlock, fd, chan, hist>>

IallocScans(p) ==
    /\ At(p, "iloop") /\ spare = <<>>
    /\ ilock' = TRUE
    /\ Waits(p, "scan", [u[p] EXCEPT !.k = 1])
    /\ UNCHANGED <<table, dnode, dir, spare, updlock, fd, chan, hist>>

(* One block of the i-list: the inodes free on the disk and not in core    *)
(* are put on the list, in order, until it is full; at least one is before *)
(* the test.                                                               *)
Unused(k) ==
    {i \in Ino : /\ (k - 1) * INOPB < i /\ i <= k * INOPB
                /\ ~dnode[i].used /\ InCore(i) = {}}

Nth(S, n) == CHOOSE i \in S : Cardinality({h \in S : h < i}) = n - 1

Refill(k) ==
    LET room == IF Len(spare) < NICINOD THEN NICINOD - Len(spare) ELSE 1
        n == Cardinality(Unused(k))
    IN  spare \o [j \in 1..(IF n < room THEN n ELSE room) |-> Nth(Unused(k), j)]

LastBlock(k) == k * INOPB >= NINO

Scan(p) ==
    /\ At(p, "scan")
    /\ LET k == u[p].k IN
       /\ spare' = Refill(k)
       /\ IF LastBlock(k) \/ Len(Refill(k)) >= NICINOD
          THEN /\ ilock' = FALSE
               /\ Wakeup(Ilock)
               /\ IF Refill(k) # <<>>
                  THEN Goes(p, "iloop", [u[p] EXCEPT !.k = 0]) /\ UNCHANGED lost
                  ELSE Returns(p) /\ lost' = lost + 1
          ELSE /\ Waits(p, "scan", [u[p] EXCEPT !.k = k + 1])
               /\ UNCHANGED <<ilock, chan, lost>>
    /\ UNCHANGED <<table, dnode, dir, updlock, fd, left>>

(* maknode gives up on a full table as it does on a full disk: u_pdir is   *)
(* neither unlocked nor put.                                               *)
AllocNothing(p) ==
    /\ At(p, "allocd") /\ u[p].ip = NoSlot
    /\ Returns(p)
    /\ lost' = lost + 1
    /\ UNCHANGED <<table, dnode, dir, super, fd, chan, left>>

(* "Inode was allocated after all." *)
AllocUsed(p) ==
    /\ At(p, "allocd") /\ u[p].ip # NoSlot
    /\ node[u[p].ip].used
    /\ Goes(p, "put", [u[p] EXCEPT !.ret = "iloop"])
    /\ UNCHANGED <<table, dnode, dir, super, fd, chan, hist>>

(* A wrong maknode, which does not mark the new inode modified. *)
MaknodeClean(p) ==
    /\ At(p, "allocd") /\ u[p].ip # NoSlot
    /\ ~node[u[p].ip].used
    /\ node' = [node EXCEPT ![u[p].ip] = [used |-> TRUE, nlink |-> 1]]
    /\ Waits(p, "mkwrite", [u[p] EXCEPT !.ino = num[u[p].ip]])
    /\ UNCHANGED <<flag, count, num, dnode, dir, super, fd, chan, hist>>

Maknode(p) ==
    /\ At(p, "allocd") /\ u[p].ip # NoSlot
    /\ ~node[u[p].ip].used
    /\ LET s == u[p].ip IN
       /\ node' = [node EXCEPT ![s] = [used |-> TRUE, nlink |-> 1]]
       /\ flag' = [flag EXCEPT ![s] = @ \cup {"UPD"}]
       /\ Waits(p, "mkwrite", [u[p] EXCEPT !.ino = num[s]])
    /\ UNCHANGED <<count, num, dnode, dir, super, fd, chan, hist>>

(* wdir *)
Enters(p) ==
    dir' = [dir EXCEPT ![u[p].off] = [name |-> u[p].name, ino |-> u[p].ino]]

WdirNew(p) ==
    /\ At(p, "mkwrite")
    /\ Enters(p)
    /\ PutDir(flag[Root] \cup {"UPD"})
    /\ Goes(p, "opened", [u[p] EXCEPT !.dp = NoSlot, !.call = "made",
                             !.name = NoName, !.off = 0, !.ino = 0])
    /\ UNCHANGED <<num, node, dnode, super, fd, hist>>

-------------------------------------------------------------------------------
(* link: the file is unlocked, "to avoid possibly hanging the namei", with *)
(* no look at IWANT.                                                       *)

LinkNothing(p) ==
    /\ At(p, "linked") /\ u[p].ip = NoSlot
    /\ Returns(p)
    /\ UNCHANGED <<table, dnode, dir, super, fd, chan, hist>>

LinkTooMany(p) ==
    /\ At(p, "linked") /\ u[p].ip # NoSlot
    /\ node[u[p].ip].nlink >= MAXLINK
    /\ Goes(p, "put", u[p])
    /\ UNCHANGED <<table, dnode, dir, super, fd, chan, hist>>

LinkSecond(p) ==
    /\ At(p, "linked") /\ u[p].ip # NoSlot
    /\ node[u[p].ip].nlink < MAXLINK
    /\ flag' = [flag EXCEPT ![u[p].ip] = @ \ {"LOCK"}]
    /\ Goes(p, "iget", [u[p] EXCEPT !.call = "link2", !.name = u[p].name2, !.name2 = NoName,
                            !.lp = u[p].ip, !.ip = NoSlot,
                            !.ino = ROOTINO, !.ret = "search"])
    /\ UNCHANGED <<count, num, node, dnode, dir, super, fd, chan, hist>>

LinkExists(p) ==
    /\ At(p, "exists")
    /\ IF u[p].ip = NoSlot
       THEN Goes(p, "lkput", u[p])
       ELSE Goes(p, "put", [u[p] EXCEPT !.ret = "lkput"])
    /\ UNCHANGED <<table, dnode, dir, super, fd, chan, hist>>

WdirLink(p) ==
    /\ At(p, "lkwrite")
    /\ Enters(p)
    /\ LET s == u[p].lp
           d == flag[Root] \cup {"UPD"} IN
       /\ node' = [node EXCEPT ![s].nlink = (@ + 1) % 256]
       /\ flag' = [flag EXCEPT ![s] = @ \cup {"UPD"}, ![Root] = d \ {"LOCK", "WANT"}]
       /\ IF "WANT" \in d THEN Wakeup(Root) ELSE UNCHANGED chan
       /\ count' = [count EXCEPT ![Root] = @ - 1]
    /\ Goes(p, "lkput", [u[p] EXCEPT !.dp = NoSlot, !.name = NoName, !.off = 0, !.ino = 0])
    /\ UNCHANGED <<num, dnode, super, fd, hist>>

LinkPut(p) ==
    /\ At(p, "lkput")
    /\ Goes(p, "put", [u[p] EXCEPT !.ip = u[p].lp, !.lp = NoSlot])
    /\ UNCHANGED <<table, dnode, dir, super, fd, chan, hist>>

-------------------------------------------------------------------------------
(* update, the inode half of sync.                                         *)

SyncSkip(p) ==
    /\ At(p, "sync") /\ u[p].k \in Slot
    /\ LET s == u[p].k IN
       \/ /\ "LOCK" \in flag[s]
          /\ UNCHANGED <<flag, chan>>
       \/ /\ flag[s] \cap {"LOCK", "UPD"} = {}
          /\ Prele(s, flag[s])
    /\ Goes(p, "sync", [u[p] EXCEPT !.k = @ + 1])
    /\ UNCHANGED <<count, num, node, dnode, dir, super, fd, hist>>

(* The slot is locked but no reference to it is taken. *)
SyncInode(p) ==
    /\ At(p, "sync") /\ u[p].k \in Slot
    /\ LET s == u[p].k IN
       /\ "LOCK" \notin flag[s] /\ "UPD" \in flag[s]
       /\ flag' = [flag EXCEPT ![s] = @ \cup {"LOCK"}]
       /\ Waits(p, "ibread", [u[p] EXCEPT !.ino = num[s]])
    /\ UNCHANGED <<count, num, node, dnode, dir, super, fd, chan, hist>>

SyncWritten(p) ==
    /\ At(p, "ibwrite") /\ u[p].call = "sync"
    /\ Prele(u[p].k, flag[u[p].k])
    /\ Goes(p, "sync", [u[p] EXCEPT !.k = @ + 1])
    /\ UNCHANGED <<count, num, node, dnode, dir, super, fd, hist>>

SyncDone(p) ==
    /\ At(p, "sync") /\ u[p].k > NINODE
    /\ updlock' = FALSE
    /\ Returns(p)
    /\ UNCHANGED <<table, dnode, dir, spare, ilock, fd, chan, hist>>

-------------------------------------------------------------------------------
(* System calls.                                                           *)

Counted == left > 0 /\ left' = left - 1 /\ UNCHANGED lost

(* The path calls begin with namei's iget of the directory. *)
StartPath(p) ==
    /\ At(p, "user") /\ Counted
    /\ \E c \in Calls \cap {"open", "creat", "unlink", "link"}, n, m \in Name :
          /\ c # "link" => m = n
          /\ Goes(p, "iget", [Idle EXCEPT !.call = c, !.name = n,
                                 !.name2 = IF c = "link" THEN m ELSE NoName,
                                 !.ino = ROOTINO, !.ret = "search"])
    /\ UNCHANGED <<table, dnode, dir, super, fd, chan>>

StartSync(p) ==
    /\ At(p, "user") /\ "sync" \in Calls /\ Counted
    /\ IF updlock
       THEN Returns(p) /\ UNCHANGED updlock
       ELSE Goes(p, "sync", [Idle EXCEPT !.call = "sync", !.k = 1]) /\ updlock' = TRUE
    /\ UNCHANGED <<table, dnode, dir, spare, ilock, fd, chan>>

(* read and write do not lock the inode they mark. *)
ReadWrite(p) ==
    /\ At(p, "user") /\ fd[p] # NoSlot
    /\ "UPD" \notin flag[fd[p]]
    /\ flag' = [flag EXCEPT ![fd[p]] = @ \cup {"UPD"}]
    /\ Returns(p)
    /\ UNCHANGED <<count, num, node, dnode, dir, super, fd, chan, hist>>

(* closef puts an inode it has not locked. *)
Close(p) ==
    /\ At(p, "user") /\ fd[p] # NoSlot
    /\ Goes(p, "put", [Idle EXCEPT !.call = "close", !.ip = fd[p]])
    /\ fd' = [fd EXCEPT ![p] = NoSlot]
    /\ UNCHANGED <<table, dnode, dir, super, chan, hist>>

-------------------------------------------------------------------------------
Iget(p)  == IgetLocked(p) \/ IgetFound(p) \/ IgetRead(p) \/ IgetFull(p) \/ Iread(p)
Iput(p)  == PutShared(p) \/ PutClean(p) \/ PutDirty(p) \/ PutUnlinked(p)
              \/ PutTruncated(p) \/ Iupdat(p) \/ PutWritten(p)
Namei(p) == SearchUnlink(p) \/ SearchFound(p) \/ SearchVacant(p) \/ SearchFails(p)
Open(p)  == OpenNothing(p) \/ OpenRefused(p) \/ OpenTruncates(p) \/ OpenDone(p)
UnlinkStep(p) == UnlinkPanics(p) \/ UnlinkWrites(p) \/ Unlink(p)
Ialloc(p) == IallocWaits(p) \/ IallocEnters(p) \/ IallocPops(p) \/ IallocScans(p)
               \/ Scan(p) \/ AllocNothing(p) \/ AllocUsed(p) \/ Maknode(p) \/ WdirNew(p)
Link(p) == LinkNothing(p) \/ LinkTooMany(p) \/ LinkSecond(p) \/ LinkExists(p)
             \/ WdirLink(p) \/ LinkPut(p)
Sync(p) == SyncSkip(p) \/ SyncInode(p) \/ SyncWritten(p) \/ SyncDone(p)

Step(p) == Iget(p) \/ Iput(p) \/ Namei(p) \/ Open(p) \/ UnlinkStep(p)
             \/ Ialloc(p) \/ Link(p) \/ Sync(p)

Start(p) == StartPath(p) \/ StartSync(p) \/ ReadWrite(p) \/ Close(p)

Next == \E p \in Proc : Start(p) \/ Step(p)

Spec == Init /\ [][Next]_vars

(* A runnable process gets the processor: see BufferCache. *)
FairSpec == Spec /\ \A p \in Proc : SF_vars(Step(p))
===============================================================================
