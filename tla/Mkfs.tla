----------------------------------- MODULE Mkfs -----------------------------------
(***************************************************************************)
(* mkfs: a file system made from a prototype, which lists a directory's    *)
(* files one after the other up to "$".  A file of the prototype is a      *)
(* token; Blocks tells how many blocks a regular one has.                  *)
(***************************************************************************)
EXTENDS Integers, Sequences, FiniteSets

CONSTANTS FSIZE, ISIZE,             \* s_fsize, s_isize
          NICFREE, ENTRIES, INOPB,  \* free blocks, entries, inodes in a block
          NADDR, NINDIR,
          F_N, F_M,                 \* the free list's interleaving
          Blocks

Low == ISIZE + 2
Zero == [k \in 0..(INOPB - 1) |-> <<>>]

----
(* s: the super block's free list, the disk, the last inode given out and  *)
(* the place in the prototype; in bno the block just allocated.            *)
bfree(s, bno) ==
    IF Len(s.free) >= NICFREE THEN [s EXCEPT !.disk[bno] = s.free, !.free = <<bno>>]
    ELSE [s EXCEPT !.free = Append(@, bno)]
allocUnchained(s) == [s EXCEPT !.bno = s.free[Len(s.free)], !.free = IF Len(@) = 1 THEN <<0>> ELSE SubSeq(@, 1, Len(@) - 1)]
Taken(s, n) ==
    IF s.free[n] = 0 THEN [s EXCEPT !.bno = 0, !.bad = TRUE]
    ELSE [s EXCEPT !.bno = s.free[n], !.free = IF n = 1 THEN s.disk[s.free[n]] ELSE SubSeq(@, 1, n - 1)]
alloc(s) == Taken(s, Len(s.free))

(* The order of the blocks in a group of F_N, every F_M'th.                *)
adr == LET Free(taken, i) == CHOOSE k \in 0..(F_N - 1) : ((i + k) % F_N) \notin taken /\ \A m \in 0..(k - 1) : ((i + m) % F_N) \in taken
           f[j \in 0..F_N] == IF j = 0 THEN <<>>
                              ELSE LET i == IF j = 1 THEN 0 ELSE f[j - 1][j - 1] + F_M
                                   IN  Append(f[j - 1], (i + Free({f[j - 1][k] : k \in 1..(j - 1)}, i)) % F_N)
       IN  f[F_N]
RECURSIVE Singly(_, _, _), Group(_, _, _), Grouped(_, _)
Singly(s, i, stop) == IF i < Low \/ i = stop THEN s ELSE Singly(bfree(s, i), i - 1, stop)
Group(s, i, j)     == IF j > F_N THEN s ELSE Group(bfree(s, i - adr[j]), i, j + 1)
Grouped(s, i)      == IF i >= Low + F_N THEN Grouped(Group(s, i, 1), i - F_N) ELSE Singly(s, i, Low - 1)
Aligned == LET all == {i \in Low..(FSIZE - 1) : (i + 1) % F_N = 0} IN IF all = {} THEN Low - 1 ELSE CHOOSE i \in all : \A k \in all : k <= i
bflist(s) == Grouped(Singly(bfree(s, 0), FSIZE - 1, Aligned), Aligned)

----
(* x: s, and the inode in with the blocks of its file so far.              *)
newblk(x, s) == [
    s  |-> [s EXCEPT !.disk[s.bno] = x.in.db, !.bad = @ \/ Len(x.in.ib) + 1 >= NINDIR],
    in |-> [x.in EXCEPT !.db = <<>>, !.ib = Append(@, s.bno)]]
Flushed(x) == newblk(x, alloc(x.s))
Filled(x)  == IF Len(x.in.db) >= ENTRIES THEN Flushed(x) ELSE x
entry(x, ino, name) == Filled([x EXCEPT !.in.db = Append(@, <<ino, name>>)])

RECURSIVE Regular(_, _, _), Listed(_), cfile(_, _)
Regular(x, k, n) == IF k > n THEN x ELSE Regular(Flushed([x EXCEPT !.in.db = <<"data", x.in.ino, k>>, !.in.size = k]), k + 1, n)

(* An entry names the inode that its file is about to get; a directory     *)
(* adds to the links of the one it is in.                                  *)
Links(s, ts) == IF ts[s.at] = "dir" THEN 1 ELSE 0
Child(x, ts) == Listed([x EXCEPT !.s = cfile(x.s, x.in.ino), !.in.nlink = @ + Links(x.s, ts)])
Listed(x) ==
    IF x.s.ts[x.s.at] = "$" THEN [x EXCEPT !.s.at = @ + 1]
    ELSE Child([entry(x, x.s.ino + 1, x.s.at) EXCEPT !.in.size = @ + 1], x.s.ts)
Directory(x, par) ==
    Listed([entry(entry(x, IF par = 0 THEN x.in.ino ELSE par, ".."), x.in.ino, ".") EXCEPT
            !.in.size = 2, !.in.nlink = @ + (IF par = 0 THEN 2 ELSE 1)])
Contents(x, t, par) ==
    CASE t = "dir" -> Directory(x, par)
      [] t = "special" -> [x EXCEPT !.in.ib = <<>>, !.in.size = 0]
      [] t \in DOMAIN Blocks -> Regular(x, 1, Blocks[t])

(* The inode: a large file's addresses are in a block of their own.        *)
Indirect(x, s) == [s |-> [s EXCEPT !.disk[s.bno] = x.in.ib], in |-> [x.in EXCEPT !.ib = <<s.bno>>, !.large = TRUE]]
Addressed(x) == IF Len(x.in.ib) > NADDR THEN Indirect(x, alloc(x.s)) ELSE x
Written(x) == LET i == x.in.ino + 2 * INOPB - 1 IN [x.s EXCEPT !.disk[i \div INOPB][i % INOPB] = x.in]
Rest(x) == Written(Addressed(IF x.in.db # <<>> THEN Flushed(x) ELSE x))
Inode(ino, par, t) == [ino |-> ino, kind |-> t, nlink |-> IF par = 0 THEN 0 ELSE 1, size |-> 0, db |-> <<>>, ib |-> <<>>, large |-> FALSE]
cfile(s, par) ==
    Rest(Contents([s  |-> [s EXCEPT !.ino = @ + 1, !.at = @ + 1, !.bad = @ \/ (s.ino + 1) \div INOPB > ISIZE],
                   in |-> Inode(s.ino + 1, par, s.ts[s.at])], s.ts[s.at], par))
mkfs(ts) ==
    cfile(bflist([free |-> <<>>, disk |-> [b \in 0..(FSIZE - 1) |-> IF b \in 2..(ISIZE + 1) THEN Zero ELSE <<>>],
                  ino |-> 0, at |-> 1, bno |-> 0, bad |-> FALSE, ts |-> ts]), 0)

----
(* What the prototype says: its files are the tokens but "$".              *)
Depth(ts) == LET f[i \in 0..Len(ts)] == IF i = 0 THEN 0 ELSE f[i - 1] + (CASE ts[i] = "dir" -> 1 [] ts[i] = "$" -> -1 [] OTHER -> 0) IN f
Whole(ts)   == ts # <<>> /\ ts[1] = "dir" /\ Depth(ts)[Len(ts)] = 0 /\ \A i \in 1..(Len(ts) - 1) : Depth(ts)[i] > 0
FilesOf(ts) == {p \in DOMAIN ts : ts[p] # "$"}
Number(ts, p) == Cardinality({q \in FilesOf(ts) : q <= p})
Above(ts, p) == {q \in FilesOf(ts) : q < p /\ ts[q] = "dir" /\ \A m \in q..(p - 1) : Depth(ts)[m] >= Depth(ts)[q]}
In(ts, p)  == LET a == Above(ts, p) IN IF a = {} THEN p ELSE CHOOSE q \in a : \A r \in a : r <= q
Children(ts, p) == {q \in FilesOf(ts) : q # p /\ In(ts, q) = p}
Sizes(ts) == [p \in FilesOf(ts) |-> IF ts[p] = "dir" THEN 2 + Cardinality(Children(ts, p)) ELSE IF ts[p] = "special" THEN 0 ELSE Blocks[ts[p]]]
Takes(ts, p, n) == IF ts[p] = "dir" THEN (n + ENTRIES - 1) \div ENTRIES ELSE n
Needs(ts) == LET n(p) == Takes(ts, p, Sizes(ts)[p])
                 sum[p \in 0..Len(ts)] == IF p = 0 THEN 0 ELSE IF p \notin FilesOf(ts) THEN sum[p - 1]
                                          ELSE sum[p - 1] + n(p) + (IF n(p) > NADDR THEN 1 ELSE 0)
             IN  sum[Len(ts)]
MustFail(ts) == Needs(ts) > FSIZE - Low \/ \E p \in FilesOf(ts) : Takes(ts, p, Sizes(ts)[p]) >= NINDIR

Means(ts, p) ==
    IF ts[p] = "dir" THEN {<<Number(ts, In(ts, p)), "..">>, <<Number(ts, p), ".">>} \cup {<<Number(ts, q), q>> : q \in Children(ts, p)}
    ELSE IF ts[p] = "special" THEN {} ELSE {<<"data", Number(ts, p), k>> : k \in 1..Blocks[ts[p]]}

(* What the disk says.                                                     *)
InodeOf(s, n) == s.disk[(n + 2 * INOPB - 1) \div INOPB][(n - 1) % INOPB]
BlocksOf(s, in) == IF in.large THEN s.disk[in.ib[1]] ELSE in.ib
Reads(s, in) ==
    IF in.kind = "dir" THEN UNION {{s.disk[b][k] : k \in DOMAIN s.disk[b]} : b \in {BlocksOf(s, in)[i] : i \in DOMAIN BlocksOf(s, in)}}
    ELSE {s.disk[BlocksOf(s, in)[i]] : i \in DOMAIN BlocksOf(s, in)}
Uses(s, in) == (IF in.large THEN in.ib ELSE <<>>) \o BlocksOf(s, in)
RECURSIVE FreeList(_, _)
FreeList(s, free) == IF Len(free) = 1 THEN (IF free[1] = 0 THEN <<>> ELSE free \o FreeList(s, s.disk[free[1]])) ELSE IF free[1] = 0 THEN Tail(free) ELSE Tail(free) \o FreeList(s, <<free[1]>>)
RECURSIVE AllUsed(_, _)
AllUsed(s, n) == IF n = 0 THEN FreeList(s, s.free) ELSE Uses(s, InodeOf(s, n)) \o AllUsed(s, n - 1)
Partition(q) == Len(q) = FSIZE - Low /\ {q[i] : i \in DOMAIN q} = Low..(FSIZE - 1)

InodeRight(s, ts, p, in) ==
    /\ in.kind = ts[p] /\ in.size = Sizes(ts)[p] /\ in.large <=> Takes(ts, p, Sizes(ts)[p]) > NADDR
    /\ Reads(s, in) = Means(ts, p)
    /\ in.nlink = Cardinality({q \in FilesOf(ts) : ts[q] = "dir" /\ In(ts, q) = p}) + (IF ts[p] = "dir" THEN 1 ELSE 0) + (IF p = 1 THEN 0 ELSE 1)
Image(s, ts) ==
    /\ s.bad <=> MustFail(ts)
    /\ ~s.bad => Partition(AllUsed(s, s.ino)) /\ \A p \in FilesOf(ts) : InodeRight(s, ts, p, InodeOf(s, Number(ts, p)))
(* The image holds the prototype's tree and every other block is free      *)
(* once; mkfs gives up only when it does not fit.  Left out: more files    *)
(* than inodes, which are refused too late.                                *)
ImageRight(ts) == (Whole(ts) /\ Cardinality(FilesOf(ts)) <= ISIZE * INOPB) => Image(mkfs(ts), ts)
====
