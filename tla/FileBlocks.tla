------------------------------- MODULE FileBlocks -------------------------------
(***************************************************************************)
(* The free list of a device (alloc and free, KEN/ALLOC.C) and what takes  *)
(* from it and gives back: bmap (SUBR.C) as writei calls it, and itrunc    *)
(* (IGET.C).  The superblock has the first of the free blocks, the rest    *)
(* are in a chain of blocks, each of which lists the ones before it.       *)
(*                                                                         *)
(* A step is the code between two sleeps, in the cache or on s_flock.  One *)
(* process at a time works on a file; the kernel does not see to that.     *)
(***************************************************************************)
EXTENDS Integers, Sequences, SequencesExt, FiniteSets

CONSTANTS
    Proc, File,
    NBLOCK,     \* data blocks
    NICFREE,    \* free blocks the superblock lists (100)
    NADDR,      \* addresses in an inode (8)
    NINDIR,     \* addresses in a block (256)
    Bns,        \* the blocks of a file that are written
    MaxCalls    \* bound: writes and truncations

BlocksAssumption ==
    /\ NBLOCK \in Nat \ {0} /\ MaxCalls \in Nat
    /\ NICFREE \in Nat \ {0, 1} /\ NADDR \in Nat \ {0, 1}
    /\ NINDIR \in Nat /\ NICFREE < NINDIR /\ NADDR <= NINDIR
    /\ File \subseteq Nat \ {0}
    /\ Bns \subseteq 0..(NADDR - 1 + NINDIR) * NINDIR - 1     \* bmap refuses others: EFBIG

Block == 1..NBLOCK

VARIABLES
    sfree,      \* s_free[0 .. s_nfree-1]
    flock,      \* s_flock
    store,      \* what chain and indirect blocks hold
    addr,       \* i_addr of each file, from 0
    large,      \* ILARG
    u,          \* each process's place and registers
    stale,      \* an indirect block was given to a file but never written
    calls
vars == <<sfree, flock, store, addr, large, u, stale, calls>>

NoFile == 0
Idle == [pc |-> "user", f |-> NoFile, bn |-> 0, bno |-> 0, ret |-> "user",
         tab |-> 0, fresh |-> FALSE, k |-> 0, todo |-> <<>>]
Zeros == [k \in 0..NINDIR-1 |-> 0]

(* free, block by block, makes the list.                                   *)
Init ==
    /\ LET rest == NBLOCK % NICFREE
       IN  sfree = [j \in 1..(rest + 1) |-> NBLOCK - rest + (j - 1)]
    /\ store = [b \in Block |-> IF b % NICFREE = 0 THEN [j \in 1..NICFREE |-> b - NICFREE + (j - 1)]
                               ELSE Zeros]
    /\ flock = FALSE
    /\ addr = [f \in File |-> [i \in 0..NADDR-1 |-> 0]]
    /\ large = [f \in File |-> FALSE]
    /\ u = [p \in Proc |-> Idle]
    /\ stale = FALSE /\ calls = 0

-------------------------------------------------------------------------------
At(p, l)    == u[p].pc = l /\ ~stale     \* what follows a stale block is not modelled
Goes(p, r)  == u' = [u EXCEPT ![p] = r]
To(p, l)    == [u[p] EXCEPT !.pc = l]
disk        == <<store, addr, large>>

(* alloc: the last of the list; when that empties it, it is the chain's    *)
(* next block, and the list is read from it.  bno = 0 is "no space".       *)
alloc(p) ==
    /\ At(p, "alloc") /\ ~flock
    /\ IF sfree = <<>> \/ Last(sfree) = 0
       THEN /\ sfree' = <<>>
            /\ Goes(p, [u[p] EXCEPT !.pc = u[p].ret, !.bno = 0])
            /\ UNCHANGED flock
       ELSE /\ sfree' = Front(sfree)
            /\ flock' = (Len(sfree) = 1)
            /\ Goes(p, [u[p] EXCEPT !.pc = IF Len(sfree) = 1 THEN "reload" ELSE u[p].ret,
                                    !.bno = Last(sfree)])
    /\ UNCHANGED <<disk, stale, calls>>
Reload(p) ==
    /\ At(p, "reload")
    /\ sfree' = store[u[p].bno]
    /\ flock' = FALSE
    /\ Goes(p, To(p, u[p].ret))
    /\ UNCHANGED <<disk, stale, calls>>

(* free: into the list, or, when that is full, the list into the block.    *)
FreeOver(p) ==
    /\ At(p, "free") /\ ~flock
    /\ sfree' = Append(IF sfree = <<>> \/ Len(sfree) >= NICFREE THEN <<0>> ELSE sfree, u[p].bno)
    /\ Goes(p, To(p, "trunc")) /\ UNCHANGED <<flock, disk, stale, calls>>
free(p) ==
    /\ At(p, "free") /\ ~flock
    /\ IF Len(sfree) >= NICFREE
       THEN flock' = TRUE /\ Goes(p, To(p, "spill")) /\ UNCHANGED sfree
       ELSE /\ sfree' = Append(IF sfree = <<>> THEN <<0>> ELSE sfree, u[p].bno)
            /\ Goes(p, To(p, "trunc")) /\ UNCHANGED flock
    /\ UNCHANGED <<disk, stale, calls>>
Spill(p) ==
    /\ At(p, "spill")
    /\ store' = [store EXCEPT ![u[p].bno] = sfree]
    /\ sfree' = <<>>
    /\ Goes(p, To(p, "spilled"))
    /\ UNCHANGED <<flock, addr, large, stale, calls>>
Spilled(p) ==
    /\ At(p, "spilled")
    /\ sfree' = <<u[p].bno>> /\ flock' = FALSE
    /\ Goes(p, To(p, "trunc"))
    /\ UNCHANGED <<disk, stale, calls>>

-------------------------------------------------------------------------------
(* writei, as far as the map of the file goes.                             *)
Busy(f) == \E p \in Proc : u[p].f = f

writei(p, f, n) ==
    /\ At(p, "user") /\ ~Busy(f) /\ calls < MaxCalls /\ calls' = calls + 1
    /\ LET r == [Idle EXCEPT !.f = f, !.bn = n]
       IN  Goes(p, IF large[f] THEN [r EXCEPT !.pc = "large"]
                   ELSE IF n >= NADDR THEN [r EXCEPT !.pc = "alloc", !.ret = "convert"]
                   ELSE IF addr[f][n] = 0 THEN [r EXCEPT !.pc = "alloc", !.ret = "small"]
                   ELSE Idle)
    /\ UNCHANGED <<sfree, flock, disk, stale>>

NoSpace(p, l) ==
    /\ At(p, l) /\ u[p].bno = 0
    /\ stale' = (stale \/ u[p].fresh)
    /\ Goes(p, Idle) /\ UNCHANGED <<sfree, flock, disk, calls>>

Small(p) ==
    /\ At(p, "small") /\ u[p].bno # 0
    /\ addr' = [addr EXCEPT ![u[p].f][u[p].bn] = u[p].bno]
    /\ Goes(p, Idle) /\ UNCHANGED <<sfree, flock, store, large, stale, calls>>

(* A small file becomes large: its addresses move to a block.              *)
Convert(p) ==
    /\ At(p, "convert") /\ u[p].bno # 0
    /\ LET f == u[p].f
       IN  /\ store' = [store EXCEPT ![u[p].bno] = [k \in 0..NINDIR-1 |-> IF k < NADDR THEN addr[f][k] ELSE 0]]
           /\ addr' = [addr EXCEPT ![f] = [i \in 0..NADDR-1 |-> IF i = 0 THEN u[p].bno ELSE 0]]
           /\ large' = [large EXCEPT ![f] = TRUE]
    /\ Goes(p, [To(p, "large") EXCEPT !.bno = 0])
    /\ UNCHANGED <<sfree, flock, stale, calls>>

(* The last address of a large file is of a block of blocks of addresses.  *)
Index(n) == IF n \div NINDIR >= NADDR - 1 THEN NADDR - 1 ELSE n \div NINDIR
Double(n) == Index(n) = NADDR - 1

Large(p) ==
    /\ At(p, "large")
    /\ LET nb == addr[u[p].f][Index(u[p].bn)]
           next == IF Double(u[p].bn) THEN "double" ELSE "single"
       IN  Goes(p, IF nb = 0 THEN [To(p, "alloc") EXCEPT !.ret = "indirect"]
                             ELSE [To(p, next) EXCEPT !.tab = nb])
    /\ UNCHANGED <<sfree, flock, disk, stale, calls>>
Indirect(p) ==
    /\ At(p, "indirect") /\ u[p].bno # 0
    /\ addr' = [addr EXCEPT ![u[p].f][Index(u[p].bn)] = u[p].bno]
    /\ Goes(p, [To(p, IF Double(u[p].bn) THEN "double" ELSE "single") EXCEPT
                    !.tab = u[p].bno, !.fresh = TRUE, !.bno = 0])
    /\ UNCHANGED <<sfree, flock, store, large, stale, calls>>

(* tab is in hand: what it holds is zeros if it is fresh.                  *)
Table(p) == IF u[p].fresh THEN Zeros ELSE store[u[p].tab]
Slot2(p) == u[p].bn \div NINDIR - (NADDR - 1)

DoubleFetch(p) ==
    /\ At(p, "double")
    /\ LET nb == Table(p)[Slot2(p)]
       IN  Goes(p, IF nb = 0 THEN [To(p, "alloc") EXCEPT !.ret = "second"]
                             ELSE [To(p, "single") EXCEPT !.tab = nb, !.fresh = FALSE])
    /\ UNCHANGED <<sfree, flock, disk, stale, calls>>
Second(p) ==
    /\ At(p, "second") /\ u[p].bno # 0
    /\ store' = [store EXCEPT ![u[p].tab] = [Table(p) EXCEPT ![Slot2(p)] = u[p].bno]]
    /\ Goes(p, [To(p, "single") EXCEPT !.tab = u[p].bno, !.fresh = TRUE, !.bno = 0])
    /\ UNCHANGED <<sfree, flock, addr, large, stale, calls>>
Single(p) ==
    /\ At(p, "single")
    /\ Goes(p, IF Table(p)[u[p].bn % NINDIR] = 0 THEN [To(p, "alloc") EXCEPT !.ret = "data"] ELSE Idle)
    /\ UNCHANGED <<sfree, flock, disk, stale, calls>>
Data(p) ==
    /\ At(p, "data") /\ u[p].bno # 0
    /\ store' = [store EXCEPT ![u[p].tab] = [Table(p) EXCEPT ![u[p].bn % NINDIR] = u[p].bno]]
    /\ Goes(p, Idle) /\ UNCHANGED <<sfree, flock, addr, large, stale, calls>>

-------------------------------------------------------------------------------
(* itrunc: from the last address to the first; under each, from the last   *)
(* word to the first, what it refers to before itself.                     *)
Words(b) ==
    FlattenSeq([k \in 1..NINDIR |-> IF store[b][NINDIR - k] = 0 THEN <<>> ELSE <<store[b][NINDIR - k]>>])
Below(i, b) == IF i = NADDR - 1 THEN Append(Words(b), b) ELSE <<b>>
Under(f, i) ==
    LET a == addr[f][i]
    IN  IF a = 0 THEN <<>>
        ELSE IF ~large[f] THEN <<a>>
        ELSE Append(FlattenSeq([k \in 1..NINDIR |->
                 IF store[a][NINDIR - k] = 0 THEN <<>> ELSE Below(i, store[a][NINDIR - k])]), a)

itrunc(p, f) ==
    /\ At(p, "user") /\ ~Busy(f) /\ calls < MaxCalls /\ calls' = calls + 1
    /\ Goes(p, [Idle EXCEPT !.pc = "trunc", !.f = f, !.k = NADDR - 1, !.todo = Under(f, NADDR - 1)])
    /\ UNCHANGED <<sfree, flock, disk, stale>>
Trunc(p) ==
    /\ At(p, "trunc")
    /\ LET f == u[p].f  k == u[p].k
       IN  IF u[p].todo # <<>>
           THEN /\ Goes(p, [To(p, "free") EXCEPT !.bno = Head(u[p].todo), !.todo = Tail(@)])
                /\ UNCHANGED <<addr, large>>
           ELSE /\ addr' = [addr EXCEPT ![f][k] = 0]
                /\ IF k = 0
                   THEN Goes(p, Idle) /\ large' = [large EXCEPT ![f] = FALSE]
                   ELSE /\ Goes(p, [u[p] EXCEPT !.k = k - 1, !.todo = Under(f, k - 1)])
                        /\ UNCHANGED large
    /\ UNCHANGED <<sfree, flock, store, stale, calls>>

Returns == {"small", "convert", "indirect", "second", "data"}
Step(p) ==
    \/ alloc(p) \/ Reload(p) \/ free(p) \/ Spill(p) \/ Spilled(p)
    \/ Small(p) \/ Convert(p) \/ Large(p) \/ Indirect(p) \/ DoubleFetch(p) \/ Second(p)
    \/ Single(p) \/ Data(p) \/ Trunc(p)
    \/ \E l \in Returns : NoSpace(p, l)
    \/ \E f \in File : itrunc(p, f) \/ \E n \in Bns : writei(p, f, n)
Next == \E p \in Proc : Step(p)
Spec == Init /\ [][Next]_vars

-------------------------------------------------------------------------------
(* Where blocks are: a way to find each, and the block.  The list, from    *)
(* the superblock on; while s_flock is held, from the block being read or  *)
(* written.                                                                *)
Holder == {p \in Proc : u[p].pc \in {"reload", "spilled"}}
InList ==
    LET start == IF Holder = {} THEN sfree ELSE store[u[CHOOSE p \in Holder : TRUE].bno]
        c[k \in 0..NBLOCK] ==
            IF k = 0 THEN start
            ELSE LET l == c[k - 1] IN IF l = <<>> \/ Head(l) = 0 THEN <<>> ELSE store[Head(l)]
    IN  UNION {LET l == c[k] IN {<<<<-1, k, j>>, l[j]>> : j \in DOMAIN l} : k \in 0..NBLOCK}

InHand == {<<<<p>>, u[p].bno>> : p \in {q \in Proc :
              u[q].pc \in {"reload", "free", "spill", "spilled"} \cup Returns}}

(* In a file; of one that is truncated, what is still to free.             *)
Held(b) == IF \E p \in Proc : u[p].fresh /\ u[p].tab = b THEN Zeros ELSE store[b]
Freeing(f) == {p \in Proc : u[p].f = f /\ u[p].pc \in {"trunc", "free", "spill", "spilled"}}
Inside(places) == UNION {LET t == Held(x[2]) IN {<<Append(x[1], k), t[k]>> : k \in 0..NINDIR-1} : x \in places}
Some(places) == {x \in places : x[2] # 0}
InFile(f) ==
    LET last == IF Freeing(f) = {} THEN NADDR - 1 ELSE u[CHOOSE p \in Freeing(f) : TRUE].k - 1
        tops == Some({<<<<f, i>>, addr[f][i]>> : i \in 0..last})
        mids == IF large[f] THEN Some(Inside(tops)) ELSE {}
        lows == Some(Inside({x \in mids : x[1][2] = NADDR - 1}))
    IN  tops \cup mids \cup lows \cup UNION {{<<<<-2, f, j>>, u[p].todo[j]>> : j \in DOMAIN u[p].todo} : p \in Freeing(f)}

(* Every block is in exactly one place: once in the free list, or once in  *)
(* one file, or in the hand of the one process that takes it or frees it.  *)
(* No block is lost, none is given twice, while others allocate and free   *)
(* as the list is read from the chain or written to it.                    *)
EachOnce ==
    LET all == Some(InList \cup InHand \cup UNION {InFile(f) : f \in File})
    IN  ~stale => Cardinality(all) = NBLOCK /\ {x[2] : x \in all} = Block
===============================================================================
