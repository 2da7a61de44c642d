------------------------------- MODULE PipeProofs -------------------------------
(***************************************************************************)
(* The pipe's invariant, for every number of processes and every size.     *)
(*                                                                         *)
(* IInv is inductive.  Its heart is LockOK: the lock excludes readers,     *)
(* writers and sync from one another until a last close takes it away      *)
(* (stolen), and by then an end is shut for ever, so nobody sleeps for the *)
(* other side any more; OffsetOK and BytesOK follow the one who holds the  *)
(* lock.  There is one lemma per action, above them lemmas for what        *)
(* several actions share, below them what the invariant gives.             *)
(***************************************************************************)
EXTENDS PipeInv, FiniteSetTheorems, SequenceTheorems, TLAPS

USE DEF End, Chan, Label

(* Where a process may hold the lock. *)
Busy == {"read", "write", "sync"}

(* Least of two numbers is one of them and below both. *)
LEMMA LeastOfTwo ==
    ASSUME NEW a \in Int, NEW b \in Int
    PROVE  Least({a, b}) \in {a, b} /\ Least({a, b}) <= a /\ Least({a, b}) <= b
  <1>1. \E x \in {a, b} : \A y \in {a, b} : x <= y BY DEF Least
  <1> QED BY <1>1 DEF Least

(* Least of three numbers is one of them and below all. *)
LEMMA LeastOfThree ==
    ASSUME NEW a \in Int, NEW b \in Int, NEW c \in Int
    PROVE  /\ Least({a, b, c}) \in {a, b, c}
           /\ Least({a, b, c}) <= a /\ Least({a, b, c}) <= b /\ Least({a, b, c}) <= c
  <1>1. \E x \in {a, b, c} : \A y \in {a, b, c} : x <= y
    <2>1. CASE a <= b /\ a <= c BY <2>1
    <2>2. CASE b <= a /\ b <= c BY <2>2
    <2>3. CASE c <= a /\ c <= b BY <2>3
    <2> QED BY <2>1, <2>2, <2>3
  <1> QED BY <1>1 DEF Least

(* What readi asks of a block lies within the count and within the file. *)
LEMMA PieceFits ==
    ASSUME NEW off \in Nat, NEW cnt \in Nat, size \in Nat, off < size
    PROVE  Piece(off, cnt) \in 0..cnt /\ off + Piece(off, cnt) <= size
  <1> DEFINE rest == BSIZE - (off % BSIZE)
  <1>1. rest \in Nat BY PipeSizeAssumption
  <1>2. Piece(off, cnt) = Least({rest, cnt, size - off}) BY DEF Piece, rest
  <1> HIDE DEF rest
  <1>3. /\ Least({rest, cnt, size - off}) \in {rest, cnt, size - off}
        /\ Least({rest, cnt, size - off}) <= cnt
        /\ Least({rest, cnt, size - off}) <= size - off
    <2>1. size - off \in Int /\ cnt \in Int /\ rest \in Int BY <1>1
    <2> QED BY <2>1, LeastOfThree
  <1> QED BY <1>1, <1>2, <1>3

(* What writei puts into a block lies within the count. *)
LEMMA BlockFits ==
    ASSUME NEW off \in Nat, NEW cnt \in Nat
    PROVE  Least({BSIZE - (off % BSIZE), cnt}) \in 0..cnt
  <1> DEFINE rest == BSIZE - (off % BSIZE)
  <1>1. rest \in Nat BY PipeSizeAssumption
  <1> HIDE DEF rest
  <1>2. Least({rest, cnt}) \in {rest, cnt} /\ Least({rest, cnt}) <= cnt BY <1>1, LeastOfTwo
  <1>3. Least({rest, cnt}) \in 0..cnt BY <1>1, <1>2
  <1> QED BY <1>3 DEF rest

(* p's registers become r, at l; nobody else's change. *)
Becomes(p, l, r) ==
    /\ u' \in [Proc -> Registers]
    /\ u'[p].pc = l /\ u'[p].cnt = r.cnt /\ u'[p].c = r.c
    /\ u'[p].off = r.off /\ u'[p].n = r.n
    /\ \A q \in Proc \ {p} : u'[q] = u[q]

(* Goes and Waits set p's registers and leaves the others'. *)
LEMMA Registered ==
    ASSUME TypeOK, NEW p \in Proc, NEW l \in Label, NEW r \in Registers,
           u' = [u EXCEPT ![p] = [r EXCEPT !.pc = l]] PROVE Becomes(p, l, r)
  <1>1. [r EXCEPT !.pc = l] \in Registers BY DEF Registers
  <1>2. u \in [Proc -> Registers] BY DEF TypeOK, Registers
  <1>3. u' \in [Proc -> Registers] /\ u'[p] = [r EXCEPT !.pc = l]
        /\ \A q \in Proc \ {p} : u'[q] = u[q] BY <1>1, <1>2
  <1> QED BY <1>3 DEF Becomes, Registers

(* The registers of a process in its program are registers. *)
LEMMA IdleIs == Idle \in Registers /\ Idle.pc = "user"
  BY PipeSizeAssumption DEF Idle, Registers

(* A call returns. *)
LEMMA Returned ==
    ASSUME TypeOK, NEW p \in Proc, u' = [u EXCEPT ![p] = Idle]
    PROVE  Becomes(p, "user", Idle)
  <1>1. u' \in [Proc -> Registers] /\ u'[p] = Idle
        /\ \A q \in Proc \ {p} : u'[q] = u[q] BY IdleIs DEF TypeOK
  <1> QED BY <1>1, IdleIs DEF Becomes

(* wakeup wakes who sleeps on its channels, and nobody else. *)
LEMMA WokenIs ==
    ASSUME TypeOK, NEW C, Wakeup(C)
    PROVE  /\ chan' \in [Proc -> Chan]
           /\ \A q \in Proc : chan'[q] = IF chan[q] \in C THEN "none" ELSE chan[q]
  BY DEF TypeOK, Wakeup, Woken

(* sleep: p is on its channel, the others as wakeup left them. *)
LEMMA AsleepIs ==
    ASSUME TypeOK, NEW p \in Proc, NEW c \in Chan, NEW C, Sleeps(p, c, C)
    PROVE  /\ chan' \in [Proc -> Chan] /\ chan'[p] = c
           /\ \A q \in Proc \ {p} : chan'[q] = IF chan[q] \in C THEN "none" ELSE chan[q]
           /\ UNCHANGED u /\ cpu' = NoProc BY DEF TypeOK, Sleeps, Woken

-------------------------------------------------------------------------------
(* What keeps each part of the invariant. *)

EndsSame == UNCHANGED <<fcount, ofile, icount>>
(* No file structure changes: the counts agree as before. *)
LEMMA EndsKept == ASSUME Ends, EndsSame PROVE Ends' BY DEF Ends, EndsSame, Holders

(* Nobody begins, ends or moves a transfer. *)
SameTransfers ==
    \A q \in Proc : \/ u'[q] = u[q]
                    \/ u[q].pc \notin Busy /\ u'[q].pc \notin Busy

(* Transfers stay inside the file that stays or is emptied. *)
LEMMA TransferKept ==
    ASSUME TypeOK, TransferOK, SameTransfers, UNCHANGED file, size' \in {0, size}
    PROVE  TransferOK'
  <1>1. \A i \in 0..size'-1 : file'[i] # 0
    <2>1. CASE size' = size BY <2>1 DEF TransferOK
    <2>2. CASE size' = 0 BY <2>2
    <2> QED BY <2>1, <2>2
  <1>2. \A p \in Proc : u'[p].pc \in {"read", "write"} => u'[p] = u[p]
    BY DEF SameTransfers, Busy
  <1> QED BY <1>1, <1>2 DEF TransferOK

(* The lock and those who hold it are as before. *)
LEMMA LockKept ==
    ASSUME LockOK, SameTransfers, "LOCK" \in flag' <=> "LOCK" \in flag,
           UNCHANGED <<stolen, icount>> PROVE LockOK'
  <1>1. Locking' = Locking BY DEF Locking, SameTransfers, Busy
  <1> QED BY <1>1 DEF LockOK

(* The reader's and the writer's places are as before. *)
LEMMA OffsetKept ==
    ASSUME OffsetOK, SameTransfers, ~stolen' => ~stolen, UNCHANGED <<roff, size>>
    PROVE  OffsetOK' BY DEF OffsetOK, SameTransfers, Busy

(* The one who reads is the one Place means. *)
LEMMA PlaceIs ==
    ASSUME LockOK, ~stolen
    PROVE  /\ \A p \in Proc : u[p].pc = "read" => Place = u[p].off
           /\ (\A p \in Proc : u[p].pc # "read") => Place = roff
  <1>1. ASSUME NEW p \in Proc, u[p].pc = "read" PROVE Place = u[p].off
    <2>1. \A q \in Proc : u[q].pc = "read" => q = p BY <1>1 DEF LockOK, Locking
    <2>2. (CHOOSE q \in Proc : u[q].pc = "read") = p BY <1>1, <2>1
    <2> QED BY <1>1, <2>2 DEF Place
  <1> QED BY <1>1 DEF Place

(* The same of the next state. *)
LEMMA PlaceNext ==
    ASSUME LockOK', ~stolen'
    PROVE  /\ \A p \in Proc : u'[p].pc = "read" => Place' = u'[p].off
           /\ (\A p \in Proc : u'[p].pc # "read") => Place' = roff'
  <1>1. ASSUME NEW p \in Proc, u'[p].pc = "read" PROVE Place' = u'[p].off
    <2>1. \A q \in Proc : u'[q].pc = "read" => q = p BY <1>1 DEF LockOK, Locking
    <2>2. (CHOOSE q \in Proc : u'[q].pc = "read") = p BY <1>1, <2>1
    <2> QED BY <1>1, <2>2 DEF Place
  <1> QED BY <1>1 DEF Place

(* The bytes in the file and those taken from it are as before. *)
LEMMA BytesKept ==
    ASSUME LockOK, BytesOK, LockOK', SameTransfers, ~stolen' => ~stolen,
           UNCHANGED <<size, roff, file, stream>> PROVE BytesOK'
  <1> SUFFICES ASSUME ~stolen' PROVE BytesOK' BY DEF BytesOK
  <1>1. Place' = Place BY PlaceIs, PlaceNext DEF SameTransfers, Busy
  <1> QED BY <1>1 DEF BytesOK, stream

(* A step that touches neither the ends nor the file nor a transfer. *)
Aside ==
    /\ EndsSame /\ SameTransfers
    /\ "LOCK" \in flag' <=> "LOCK" \in flag
    /\ UNCHANGED <<stolen, size, roff, file, stream>>

(* Such a step keeps the invariant if it keeps the parts that speak of     *)
(* types, open ends and sleepers.                                          *)
LEMMA AsideKeeps ==
    ASSUME IInv, Aside, TypeOK', OpenOK', SleepOK', NoLostWakeup' PROVE IInv'
  <1>1. Ends' BY EndsKept DEF IInv, Aside
  <1>2. TransferOK' BY TransferKept DEF IInv, Aside
  <1>3. LockOK' BY LockKept DEF IInv, Aside, EndsSame
  <1>4. OffsetOK' BY OffsetKept DEF IInv, Aside
  <1>5. BytesOK' BY <1>3, BytesKept DEF IInv, Aside
  <1> QED BY <1>1, <1>2, <1>3, <1>4, <1>5 DEF IInv

-------------------------------------------------------------------------------
(* One lemma per action. *)

(* plock: asleep for the lock that somebody holds. *)
LEMMA PlockWaitsKeeps ==
    ASSUME IInv, NEW p \in Proc, PlockWaits(p) PROVE IInv'
  <1> USE DEF IInv
  <1>1. /\ chan' \in [Proc -> Chan] /\ chan'[p] = "lock"
        /\ \A q \in Proc \ {p} : chan'[q] = chan[q]
        /\ UNCHANGED u /\ cpu' = NoProc
    <2>1. "lock" \in Chan /\ Sleeps(p, "lock", {}) BY DEF PlockWaits
    <2> QED BY <2>1, AsleepIs
  <1>2. u[p].pc \in {"rloop", "wloop"} /\ "LOCK" \in flag /\ flag' = flag \cup {"WANT"}
    BY DEF PlockWaits, At
  <1>3. UNCHANGED <<mode, icount, size, roff, fcount, ofile, born, file, wrote, got, stolen, bytes, events>>
    BY DEF PlockWaits, open, stream, budget
  <1>4. TypeOK' BY <1>1, <1>2, <1>3 DEF TypeOK
  <1>5. Aside BY <1>1, <1>2, <1>3 DEF Aside, EndsSame, SameTransfers, stream
  <1>6. OpenOK' BY <1>1, <1>3 DEF OpenOK
  <1>7. SleepOK' BY <1>1, <1>2 DEF SleepOK
  <1>8. NoLostWakeup'
    <2>1. Locking' = Locking /\ Locking # {} BY <1>1, <1>2 DEF Locking, LockOK
    <2> QED BY <1>1, <1>2, <1>3, <2>1 DEF NoLostWakeup
  <1> QED BY <1>4, <1>5, <1>6, <1>7, <1>8, AsideKeeps

(* read puts the process into readp's loop. *)
LEMMA ReadIs ==
    ASSUME TypeOK, NEW p \in Proc, Read(p) PROVE \E r \in Registers : Becomes(p, "rloop", r)
  <1>1. PICK k \in 1..MaxCount : Goes(p, "rloop", [Idle EXCEPT !.cnt = k]) BY DEF Read
  <1>2. [Idle EXCEPT !.cnt = k] \in Registers BY IdleIs, PipeSizeAssumption DEF Registers
  <1> QED BY <1>1, <1>2, Registered DEF Goes

(* read and write: from the user's program into the loop of their call. *)
Enters(p, l, e) ==
    /\ At(p, "user") /\ e \in ofile[p]
    /\ \E r \in Registers : Becomes(p, l, r)
    /\ cpu' = p
    /\ UNCHANGED <<flag, mode, icount, size, roff, fcount, ofile, born, file, chan, stream, stolen>>

(* A call of read or write keeps the invariant: it touches nothing of the  *)
(* pipe's.                                                                 *)
LEMMA EntersKeeps ==
    ASSUME IInv, NEW p \in Proc, Enters(p, "rloop", "r") \/ Enters(p, "wloop", "w"),
           bytes' \in 0..MaxBytes, events' \in 0..MaxEvents PROVE IInv'
  <1> USE DEF IInv
  <1>1. /\ u' \in [Proc -> Registers]
        /\ \/ u'[p].pc = "rloop" /\ "r" \in ofile[p]
           \/ u'[p].pc = "wloop" /\ "w" \in ofile[p]
        /\ \A q \in Proc \ {p} : u'[q] = u[q] BY DEF Enters, Becomes
  <1>2. u[p].pc = "user" /\ chan[p] = "none" BY DEF Enters, At
  <1>3. UNCHANGED <<flag, mode, icount, size, roff, fcount, ofile, born, file, chan, wrote, got, stolen>>
        /\ cpu' = p BY DEF Enters, stream
  <1>4. TypeOK' BY <1>1, <1>3 DEF TypeOK
  <1>5. Aside BY <1>1, <1>2, <1>3 DEF Aside, EndsSame, SameTransfers, Busy, stream
  <1>6. OpenOK' BY <1>1, <1>3 DEF OpenOK
  <1>7. SleepOK' BY <1>1, <1>2, <1>3 DEF SleepOK
  <1>8. NoLostWakeup'
    <2>1. Locking' = Locking /\ \A q \in Proc : u'[q].pc = "write" <=> u[q].pc = "write"
      BY <1>1, <1>2 DEF Locking
    <2> QED BY <1>3, <2>1 DEF NoLostWakeup
  <1> QED BY <1>4, <1>5, <1>6, <1>7, <1>8, AsideKeeps

(* read: the call. *)
LEMMA ReadKeeps ==
    ASSUME IInv, NEW p \in Proc, Read(p) PROVE IInv'
  <1>1. TypeOK BY DEF IInv
  <1>2. Enters(p, "rloop", "r") BY <1>1, ReadIs DEF Enters, Read, Goes, inode, open
  <1>3. bytes' = bytes /\ events' = events BY DEF Read, budget
  <1> QED BY <1>1, <1>2, <1>3, EntersKeeps DEF TypeOK

(* write: the call. *)
LEMMA WriteKeeps ==
    ASSUME IInv, NEW p \in Proc, Write(p) PROVE IInv'
  <1>1. TypeOK BY DEF IInv
  <1>2. PICK k \in 1..MaxCount : k <= bytes /\ bytes' = bytes - k
                                 /\ Goes(p, "wloop", [Idle EXCEPT !.c = k]) BY DEF Write
  <1>3. [Idle EXCEPT !.c = k] \in Registers BY IdleIs, PipeSizeAssumption DEF Registers
  <1>4. \E r \in Registers : Becomes(p, "wloop", r) BY <1>1, <1>2, <1>3, Registered DEF Goes
  <1>5. Enters(p, "wloop", "w") BY <1>2, <1>4 DEF Enters, Write, Goes, inode, open
  <1>6. bytes' \in 0..MaxBytes /\ events' = events
    BY <1>1, <1>2, PipeSizeAssumption DEF Write, TypeOK
  <1> QED BY <1>1, <1>5, <1>6, EntersKeeps DEF TypeOK

(* A call that finds nothing to do, and returns. *)
Leaves(p) ==
    /\ u[p].pc \in {"rloop", "wloop"} /\ chan[p] = "none" /\ "LOCK" \notin flag
    /\ Prele /\ Wakeup(Lockers) /\ Returns(p)
    /\ UNCHANGED <<mode, icount, size, roff, open, file, stream, stolen, budget>>

(* It keeps the invariant: it gives back a lock nobody holds. *)
LEMMA LeavesKeeps ==
    ASSUME IInv, NEW p \in Proc, Leaves(p) PROVE IInv'
  <1> USE DEF IInv
  <1>1. /\ u' \in [Proc -> Registers] /\ u'[p].pc = "user"
        /\ \A q \in Proc \ {p} : u'[q] = u[q]
        /\ cpu' = NoProc BY Returned DEF Leaves, Returns, Becomes
  <1>2. /\ chan' \in [Proc -> Chan]
        /\ \A q \in Proc : chan'[q] \in {chan[q], "none"} BY WokenIs DEF Leaves, TypeOK
  <1>3. /\ UNCHANGED <<mode, icount, size, roff, fcount, ofile, born, file, wrote, got, stolen, bytes, events>>
        /\ flag' = flag \ {"LOCK", "WANT"} BY DEF Leaves, Prele, open, stream, budget
  <1>4. u[p].pc \in {"rloop", "wloop"} /\ chan[p] = "none" /\ "LOCK" \notin flag
    BY DEF Leaves
  <1>5. TypeOK' BY <1>1, <1>2, <1>3 DEF TypeOK
  <1>6. Aside BY <1>1, <1>3, <1>4 DEF Aside, EndsSame, SameTransfers, Busy, stream
  <1>7. OpenOK' BY <1>1, <1>3 DEF OpenOK
  <1>8. SleepOK' BY <1>1, <1>2, <1>4 DEF SleepOK
  <1>9. NoLostWakeup'
    <2>1. \A q \in Proc : u'[q].pc = "write" <=> u[q].pc = "write" BY <1>1, <1>4
    <2>2. \A q \in Proc : chan'[q] # "none" => chan[q] = chan'[q] BY <1>2
    <2> QED BY <1>3, <1>4, <2>1, <2>2 DEF NoLostWakeup
  <1> QED BY <1>5, <1>6, <1>7, <1>8, <1>9, AsideKeeps

(* writep: nothing is left to write. *)
LEMMA WriteDoneKeeps ==
    ASSUME IInv, NEW p \in Proc, WriteDone(p) PROVE IInv'
  BY LeavesKeeps DEF WriteDone, Leaves, At

(* writep: no reader is left. *)
LEMMA WriteBrokenKeeps ==
    ASSUME IInv, NEW p \in Proc, WriteBroken(p) PROVE IInv'
  BY LeavesKeeps DEF WriteBroken, Leaves, At

(* writep: the file is full; the reader who resets it will see IWRITE. *)
LEMMA WriteFullKeeps ==
    ASSUME IInv, NEW p \in Proc, WriteFull(p) PROVE IInv'
  <1> USE DEF IInv
  <1>1. /\ chan' \in [Proc -> Chan] /\ chan'[p] = "room"
        /\ \A q \in Proc \ {p} : chan'[q] \in {chan[q], "none"}
        /\ UNCHANGED u /\ cpu' = NoProc
    <2>1. "room" \in Chan /\ Sleeps(p, "room", Lockers) BY DEF WriteFull
    <2> QED BY <2>1, AsleepIs
  <1>2. /\ u[p].pc = "wloop" /\ "LOCK" \notin flag /\ icount >= 2 /\ size = PIPSIZ
        /\ mode' = mode \cup {"WRITE"} /\ flag' = flag \ {"LOCK", "WANT"}
    BY DEF WriteFull, At, Prele
  <1>3. UNCHANGED <<icount, size, roff, fcount, ofile, born, file, wrote, got, stolen, bytes, events>>
    BY DEF WriteFull, open, stream, budget
  <1>4. TypeOK' BY <1>1, <1>2, <1>3 DEF TypeOK
  <1>5. Aside BY <1>1, <1>2, <1>3 DEF Aside, EndsSame, SameTransfers, stream
  <1>6. OpenOK' BY <1>1, <1>3 DEF OpenOK
  <1>7. SleepOK' BY <1>1, <1>2 DEF SleepOK
  <1>8. NoLostWakeup'
    <2>1. \A q \in Proc \ {p} : chan'[q] # "none" => chan[q] = chan'[q] BY <1>1
    <2>2. icount = 2 BY <1>2 DEF TypeOK
    <2> QED BY <1>1, <1>2, <1>3, <2>1, <2>2 DEF NoLostWakeup
  <1> QED BY <1>4, <1>5, <1>6, <1>7, <1>8, AsideKeeps

(* The reader has caught up: the file is empty again, and no transfer is   *)
(* under way in it.                                                        *)
Emptied(p) ==
    /\ u[p].pc = "rloop" /\ chan[p] = "none" /\ "LOCK" \notin flag /\ roff = size
    /\ roff' = 0 /\ size' = 0 /\ "LOCK" \notin flag'
    /\ UNCHANGED <<icount, open, file, stream, stolen>>

(* Resetting both offsets keeps the bytes in order, for none was left. *)
LEMMA EmptiedKeeps ==
    ASSUME IInv, NEW p \in Proc, Emptied(p), SameTransfers,
           TypeOK', OpenOK', SleepOK', NoLostWakeup' PROVE IInv'
  <1> USE DEF IInv
  <1>1. Ends' BY EndsKept DEF Emptied, EndsSame, open
  <1>2. TransferOK' BY TransferKept DEF Emptied
  <1>3. LockOK' BY LockKept DEF Emptied
  <1>4. ~stolen => \A q \in Proc : u'[q].pc \notin Busy
    BY DEF Emptied, LockOK, Locking, SameTransfers, Busy
  <1>5. OffsetOK' BY <1>4 DEF OffsetOK, Emptied, Busy
  <1>6. BytesOK'
    <2> SUFFICES ASSUME ~stolen' PROVE BytesOK' BY DEF BytesOK
    <2>1. ~stolen /\ \A q \in Proc : u[q].pc # "read" /\ u'[q].pc # "read"
      BY <1>4 DEF Emptied, LockOK, Locking, Busy
    <2>2. Place = roff /\ Place' = roff' BY <1>3, <2>1, PlaceIs, PlaceNext
    <2> QED BY <2>1, <2>2 DEF BytesOK, Emptied, TypeOK, stream
  <1> QED BY <1>1, <1>2, <1>3, <1>5, <1>6

(* readp: end of file; nobody sleeps in a pipe with one end. *)
LEMMA ReadEofKeeps ==
    ASSUME IInv, NEW p \in Proc, ReadEof(p) PROVE IInv'
  <1> USE DEF IInv
  <1>1. /\ u' \in [Proc -> Registers] /\ u'[p].pc = "user"
        /\ \A q \in Proc \ {p} : u'[q] = u[q]
        /\ cpu' = NoProc BY Returned DEF ReadEof, Returns, Becomes
  <1>2. /\ chan' \in [Proc -> Chan]
        /\ \A q \in Proc : chan'[q] \in {chan[q], "none"} BY WokenIs DEF ReadEof, TypeOK
  <1>3. /\ u[p].pc = "rloop" /\ chan[p] = "none" /\ "LOCK" \notin flag /\ icount < 2
        /\ flag' = flag \ {"LOCK", "WANT"} /\ mode' \subseteq mode /\ size' = 0 /\ roff' = 0
    BY DEF ReadEof, At, Prele, Reset
  <1>4. UNCHANGED <<icount, fcount, ofile, born, file, wrote, got, stolen, bytes, events>>
    BY DEF ReadEof, open, stream, budget
  <1>5. TypeOK' BY <1>1, <1>2, <1>3, <1>4, PipeSizeAssumption DEF TypeOK
  <1>6. Emptied(p) /\ SameTransfers
    BY <1>1, <1>3, <1>4 DEF Emptied, SameTransfers, Busy, ReadEof, open, stream
  <1>7. OpenOK' BY <1>1, <1>4 DEF OpenOK
  <1>8. SleepOK' BY <1>1, <1>2, <1>3 DEF SleepOK
  <1>9. NoLostWakeup'
    <2>1. \A q \in Proc : chan[q] = "none" BY <1>3 DEF NoLostWakeup, TypeOK
    <2> QED BY <1>2, <2>1 DEF NoLostWakeup
  <1> QED BY <1>5, <1>6, <1>7, <1>8, <1>9, EmptiedKeeps

(* readp: nothing to read; the sleeping writers are woken if the file was  *)
(* full.                                                                   *)
LEMMA ReadWaitsKeeps ==
    ASSUME IInv, NEW p \in Proc, ReadWaits(p) PROVE IInv'
  <1> USE DEF IInv
  <1>1. /\ chan' \in [Proc -> Chan] /\ chan'[p] = "data"
        /\ \A q \in Proc \ {p} :
              chan'[q] = IF chan[q] \in Depleted \cup Lockers THEN "none" ELSE chan[q]
        /\ UNCHANGED u /\ cpu' = NoProc
    <2>1. "data" \in Chan /\ Sleeps(p, "data", Depleted \cup Lockers) BY DEF ReadWaits
    <2> QED BY <2>1, AsleepIs
  <1>2. /\ u[p].pc = "rloop" /\ chan[p] = "none" /\ "LOCK" \notin flag /\ icount >= 2
        /\ roff = size /\ flag' = flag \ {"LOCK", "WANT"} /\ size' = 0 /\ roff' = 0
        /\ mode' = (IF roff # 0 THEN mode \ {"WRITE"} ELSE mode) \cup {"READ"}
    BY DEF ReadWaits, At, Prele, Reset
  <1>3. UNCHANGED <<icount, fcount, ofile, born, file, wrote, got, stolen, bytes, events>>
    BY DEF ReadWaits, open, stream, budget
  <1>4. TypeOK' BY <1>1, <1>2, <1>3, PipeSizeAssumption DEF TypeOK
  <1>5. Emptied(p) /\ SameTransfers
    BY <1>1, <1>2, <1>3 DEF Emptied, SameTransfers, Busy, ReadWaits, open, stream
  <1>6. OpenOK' BY <1>1, <1>3 DEF OpenOK
  <1>7. SleepOK' BY <1>1, <1>2 DEF SleepOK
  <1>8. NoLostWakeup'
    <2>1. icount' = 2 BY <1>2, <1>3 DEF TypeOK
    <2>2. \A q \in Proc : chan[q] # "lock" BY <1>2 DEF NoLostWakeup
    <2>3. ASSUME NEW q \in Proc, chan[q] = "room" PROVE "room" \in Depleted
      BY <1>2, <2>3, PipeSizeAssumption DEF NoLostWakeup, Depleted
    <2>4. \A q \in Proc : chan'[q] \in {"none", "data"} BY <1>1, <2>2, <2>3 DEF TypeOK
    <2> QED BY <1>2, <2>1, <2>4 DEF NoLostWakeup
  <1> QED BY <1>4, <1>5, <1>6, <1>7, <1>8, EmptiedKeeps

(* The lock is taken, kept for the next block, or given back by its owner. *)
LEMMA LockTaken ==
    ASSUME LockOK, NEW p \in Proc, "LOCK" \notin flag, "LOCK" \in flag',
           u'[p].pc \in Busy, \A q \in Proc \ {p} : u'[q] = u[q],
           UNCHANGED <<stolen, icount>> PROVE LockOK' BY DEF LockOK, Locking, Busy

(* The holder goes on with the next block. *)
LEMMA LockStays ==
    ASSUME LockOK, NEW p \in Proc, u[p].pc \in Busy, u'[p].pc \in Busy,
           \A q \in Proc \ {p} : u'[q] = u[q],
           UNCHANGED <<flag, stolen, icount>> PROVE LockOK'
  <1>1. Locking' = Locking BY DEF Locking, Busy
  <1> QED BY <1>1 DEF LockOK

(* The holder gives it back, and nobody has it. *)
LEMMA LockFreed ==
    ASSUME LockOK, NEW p \in Proc, u[p].pc \in Busy, u'[p].pc \notin Busy,
           \A q \in Proc \ {p} : u'[q] = u[q], "LOCK" \notin flag',
           UNCHANGED <<stolen, icount>> PROVE LockOK'
  <1>1. ~stolen => Locking = {p} BY DEF LockOK, Locking, Busy
  <1>2. ~stolen => Locking' = {} BY <1>1 DEF Locking, Busy
  <1> QED BY <1>2 DEF LockOK

(* readp locks the pipe and asks for the first block. *)
LEMMA ReadBegins ==
    ASSUME IInv, NEW p \in Proc, ReadStarts(p), roff < size PROVE IInv'
  <1> USE DEF IInv
  <1> DEFINE n == Piece(roff, u[p].cnt)
             r == [u[p] EXCEPT !.off = roff, !.n = n]
  <1>1. /\ u[p].pc = "rloop" /\ chan[p] = "none" /\ "LOCK" \notin flag
        /\ flag' = flag \cup {"LOCK"} /\ Waits(p, "read", r) BY DEF ReadStarts, At
  <1>2. UNCHANGED <<mode, icount, size, roff, fcount, ofile, born, file, chan, wrote, got, stolen, bytes, events>>
    BY DEF ReadStarts, open, stream, budget
  <1>3. u[p] \in Registers /\ roff \in Nat /\ size \in 0..PIPSIZ /\ u[p].cnt \in 0..MaxCount
    BY PipeSizeAssumption DEF TypeOK, Registers
  <1>4. n \in 0..u[p].cnt /\ roff + n <= size
    <2>1. u[p].cnt \in Nat /\ size \in Nat BY <1>3, PipeSizeAssumption
    <2> QED BY <1>3, <2>1, PieceFits
  <1> HIDE DEF n
  <1>5. r \in Registers /\ r.off = roff /\ r.n = n /\ r.cnt = u[p].cnt
    <2>1. roff \in 0..PIPSIZ /\ n \in 0..MaxCount BY <1>3, <1>4, PipeSizeAssumption
    <2> QED BY <1>3, <2>1 DEF Registers
  <1>6. Becomes(p, "read", r) /\ cpu' = NoProc
    <2> HIDE DEF r
    <2> QED BY <1>1, <1>5, Registered DEF Waits
  <1> HIDE DEF r
  <1>7. /\ u' \in [Proc -> Registers] /\ u'[p].pc = "read"
        /\ u'[p].off = roff /\ u'[p].n <= u'[p].cnt /\ roff + u'[p].n <= size /\ u'[p].n \in Nat
        /\ \A q \in Proc \ {p} : u'[q] = u[q]
    BY <1>3, <1>4, <1>5, <1>6, PipeSizeAssumption DEF Becomes
  <1>8. TypeOK' BY <1>1, <1>2, <1>6, <1>7 DEF TypeOK
  <1>9. Ends' BY <1>2, EndsKept DEF EndsSame
  <1>10. OpenOK' BY <1>1, <1>2, <1>7 DEF OpenOK
  <1>11. SleepOK' BY <1>1, <1>2, <1>7 DEF SleepOK
  <1>12. TransferOK'
    <2>1. /\ u'[p].off + u'[p].n <= PIPSIZ
          /\ \A i \in 0 .. u'[p].off + u'[p].n - 1 : file[i] # 0
      BY <1>3, <1>7, PipeSizeAssumption DEF TransferOK
    <2> QED BY <1>2, <1>7, <2>1 DEF TransferOK
  <1>13. LockOK' BY <1>1, <1>2, <1>7, LockTaken DEF Busy
  <1>14. NoLostWakeup'
    <2>1. \A q \in Proc : u'[q].pc = "write" <=> u[q].pc = "write" BY <1>1, <1>7
    <2>2. p \in Locking' BY <1>7 DEF Locking
    <2> QED BY <1>1, <1>2, <2>1, <2>2 DEF NoLostWakeup
  <1>15. OffsetOK' BY <1>1, <1>2, <1>3, <1>7 DEF OffsetOK, LockOK, Locking
  <1>16. BytesOK'
    <2> SUFFICES ASSUME ~stolen' PROVE BytesOK' BY DEF BytesOK
    <2>1. ~stolen /\ \A q \in Proc : u[q].pc # "read" BY <1>1, <1>2 DEF LockOK, Locking
    <2>2. Place = roff /\ Place' = roff BY <1>7, <1>13, <2>1, PlaceIs, PlaceNext
    <2> QED BY <1>2, <2>1, <2>2 DEF BytesOK
  <1> QED BY <1>8, <1>9, <1>10, <1>11, <1>12, <1>13, <1>14, <1>15, <1>16

(* readp: beyond plock with something to read, or with the offset past the *)
(* end.                                                                    *)
LEMMA ReadStartsKeeps ==
    ASSUME IInv, NEW p \in Proc, ReadStarts(p) PROVE IInv'
  <1>1. CASE roff < size BY <1>1, ReadBegins
  <1>2. CASE ~ (roff < size) BY <1>2, LeavesKeeps DEF ReadStarts, Leaves, At
  <1> QED BY <1>1, <1>2

(* What iomove adds to the bytes read.                                     *)
LEMMA Taken ==
    ASSUME NEW S, NEW s \in Seq(S), NEW k \in Nat, NEW f, NEW o \in Nat,
           \A i \in 1..k : f[o + i - 1] \in S
    PROVE  LET t == s \o [i \in 1..k |-> f[o + i - 1]]
           IN  /\ t \in Seq(S) /\ Len(t) = Len(s) + k
               /\ \A i \in 1..Len(s) : t[i] = s[i]
               /\ \A i \in Len(s) + 1 .. Len(s) + k : t[i] = f[o + i - Len(s) - 1]
  <1> DEFINE x == [i \in 1..k |-> f[o + i - 1]]
  <1>1. x \in Seq(S) BY SeqDef
  <1>2. Len(x) = k
    <2>1. DOMAIN x = 1..k /\ DOMAIN x = 1..Len(x) /\ Len(x) \in Nat BY <1>1, LenProperties
    <2> QED BY <2>1
  <1>3. \A i \in 1..k : x[i] = f[o + i - 1] OBVIOUS
  <1> HIDE DEF x
  <1>4. Len(s) \in Nat BY LenProperties
  <1>5. /\ s \o x \in Seq(S) /\ Len(s \o x) = Len(s) + k
        /\ \A i \in 1 .. Len(s) + k :
              (s \o x)[i] = IF i <= Len(s) THEN s[i] ELSE x[i - Len(s)]
    BY <1>1, <1>2, ConcatProperties
  <1>6. \A i \in 1..Len(s) : (s \o x)[i] = s[i] BY <1>4, <1>5
  <1>7. ASSUME NEW i \in Len(s) + 1 .. Len(s) + k PROVE (s \o x)[i] = f[o + i - Len(s) - 1]
    <2>1. i - Len(s) \in 1..k /\ i \in 1..Len(s) + k /\ ~(i <= Len(s)) BY <1>4
    <2> QED BY <1>3, <1>4, <1>5, <2>1
  <1>8. LET t == s \o x
        IN  /\ t \in Seq(S) /\ Len(t) = Len(s) + k
            /\ \A i \in 1..Len(s) : t[i] = s[i]
            /\ \A i \in Len(s) + 1 .. Len(s) + k : t[i] = f[o + i - Len(s) - 1]
    BY <1>5, <1>6, <1>7
  <1> QED BY <1>8 DEF x

(* k bytes of the block go to the user: what both outcomes share. *)
Takes(p, k) ==
    /\ u[p].pc = "read" /\ chan[p] = "none" /\ k \in 0..u[p].n
    /\ got' = got \o [i \in 1..k |-> file[u[p].off + i - 1]]
    /\ UNCHANGED <<mode, icount, size, open, file, wrote, stolen, bytes>>
    /\ events' \in 0..MaxEvents
    /\ cpu' = NoProc

(* readi goes on with the next block, or has done. *)
ReadOn(p, k) ==
    /\ Takes(p, k)
    /\ u[p].cnt - k # 0 /\ u[p].off + k < size /\ k = u[p].n
    /\ u' = [u EXCEPT ![p] =
               [[u[p] EXCEPT !.off = u[p].off + k, !.cnt = u[p].cnt - k,
                             !.n = Piece(u[p].off + k, u[p].cnt - k)] EXCEPT !.pc = "read"]]
    /\ UNCHANGED <<flag, roff, chan>>

ReadEnds(p, k) ==
    /\ Takes(p, k)
    /\ roff' = u[p].off + k
    /\ Prele /\ Wakeup(Lockers)
    /\ u' = [u EXCEPT ![p] = Idle]

(* readi's step is one of the two. *)
LEMMA ReadBlockCases ==
    ASSUME TypeOK, NEW p \in Proc, ReadBlock(p)
    PROVE  \E k \in 0..u[p].n : ReadOn(p, k) \/ ReadEnds(p, k)
  <1>1. PICK k \in 0..u[p].n :
          LET off == u[p].off + k
              cnt == u[p].cnt - k
          IN /\ Moves(k, u[p].n)
             /\ got' = got \o [i \in 1..k |-> file[u[p].off + i - 1]]
             /\ IF k = u[p].n /\ cnt # 0 /\ off < size
                THEN /\ Waits(p, "read", [u[p] EXCEPT !.off = off, !.cnt = cnt,
                                                      !.n = Piece(off, cnt)])
                     /\ UNCHANGED <<flag, roff, chan>>
                ELSE /\ roff' = off
                     /\ Prele
                     /\ Wakeup(Lockers)
                     /\ Returns(p) BY DEF ReadBlock
  <1>2. events' \in 0..MaxEvents BY <1>1, PipeSizeAssumption DEF Moves, Event, TypeOK
  <1>3. Takes(p, k) BY <1>1, <1>2 DEF Takes, ReadBlock, At, Waits, Returns
  <1>4. CASE k = u[p].n /\ u[p].cnt - k # 0 /\ u[p].off + k < size
    BY <1>1, <1>3, <1>4 DEF ReadOn, Waits
  <1>5. CASE ~(k = u[p].n /\ u[p].cnt - k # 0 /\ u[p].off + k < size)
    BY <1>1, <1>3, <1>5 DEF ReadEnds, Returns
  <1> QED BY <1>4, <1>5

(* The parts both outcomes keep alike, and the bytes taken. *)
LEMMA TakesKeeps ==
    ASSUME IInv, NEW p \in Proc, NEW k \in 0..u[p].n, Takes(p, k)
    PROVE  /\ k \in Nat /\ u[p].off + k \in 0..PIPSIZ
           /\ Ends'
           /\ got' \in Seq(Nat \ {0}) /\ Len(got') = Len(got) + k
           /\ \A i \in 1..Len(got) : got'[i] = got[i]
           /\ \A i \in Len(got) + 1 .. Len(got) + k :
                 got'[i] = file[u[p].off + i - Len(got) - 1]
  <1> USE DEF IInv
  <1>1. /\ u[p].off \in Nat /\ u[p].n \in Nat /\ u[p].off + u[p].n <= PIPSIZ
        /\ \A i \in 0 .. u[p].off + u[p].n - 1 : file[i] # 0
    BY PipeSizeAssumption DEF Takes, TransferOK, TypeOK, Registers
  <1>2. k \in Nat /\ u[p].off + k \in 0..PIPSIZ BY <1>1, PipeSizeAssumption
  <1>3. ASSUME NEW i \in 1..k PROVE file[u[p].off + i - 1] \in Nat \ {0}
    <2>1. u[p].off + i - 1 \in 0 .. u[p].off + u[p].n - 1 /\ u[p].off + i - 1 \in 0..PIPSIZ-1
      BY <1>1, PipeSizeAssumption
    <2> QED BY <1>1, <2>1 DEF TypeOK
  <1>4. Ends' BY EndsKept DEF Takes, EndsSame, open
  <1>5. got \in Seq(Nat \ {0}) BY DEF TypeOK
  <1> QED BY <1>1, <1>2, <1>3, <1>4, <1>5, Taken DEF Takes

(* The bytes read and those left, before and after k of them are moved. *)
LEMMA Advance ==
    ASSUME NEW l \in Nat, NEW k \in Nat, NEW o \in Nat, NEW z \in Nat, NEW w, o + k <= z,
           NEW s, NEW t, NEW f,
           l + z - o = w,
           \A i \in 1..l : s[i] = i,
           \A i \in o..z-1 : f[i] = l + 1 + i - o,
           \A i \in 1..l : t[i] = s[i],
           \A i \in l+1 .. l+k : t[i] = f[o + i - l - 1]
    PROVE  /\ (l + k) + z - (o + k) = w
           /\ \A i \in 1 .. l+k : t[i] = i
           /\ \A i \in o+k .. z-1 : f[i] = (l + k) + 1 + i - (o + k)
  <1>1. ASSUME NEW i \in 1 .. l+k PROVE t[i] = i
    <2>1. CASE i <= l BY <2>1
    <2>2. CASE i > l
      <3>1. o + i - l - 1 \in o..z-1 /\ i \in l+1 .. l+k BY <2>2
      <3>2. f[o + i - l - 1] = l + 1 + (o + i - l - 1) - o BY <3>1
      <3> QED BY <3>1, <3>2
    <2> QED BY <2>1, <2>2
  <1>2. \A i \in o+k .. z-1 : f[i] = (l + k) + 1 + i - (o + k) OBVIOUS
  <1> QED BY <1>1, <1>2

(* readi goes on to the next block. *)
LEMMA ReadOnKeeps ==
    ASSUME IInv, NEW p \in Proc, NEW k \in 0..u[p].n, ReadOn(p, k) PROVE IInv'
  <1> USE DEF IInv
  <1> DEFINE off == u[p].off + k
             cnt == u[p].cnt - k
             n == Piece(off, cnt)
             r == [u[p] EXCEPT !.off = off, !.cnt = cnt, !.n = n]
  <1>1. /\ Takes(p, k) /\ off < size /\ k = u[p].n
        /\ u' = [u EXCEPT ![p] = [r EXCEPT !.pc = "read"]]
        /\ UNCHANGED <<flag, roff, chan>> BY DEF ReadOn
  <1>2. /\ UNCHANGED <<mode, icount, size, fcount, ofile, born, file, wrote, stolen, bytes>>
        /\ u[p].pc = "read" /\ events' \in 0..MaxEvents /\ cpu' = NoProc
    BY <1>1 DEF Takes, open
  <1>3. /\ k \in Nat /\ off \in 0..PIPSIZ /\ Ends'
        /\ got' \in Seq(Nat \ {0}) /\ Len(got') = Len(got) + k
        /\ \A i \in 1..Len(got) : got'[i] = got[i]
        /\ \A i \in Len(got) + 1 .. Len(got) + k :
              got'[i] = file[u[p].off + i - Len(got) - 1] BY <1>1, TakesKeeps
  <1>4. /\ u[p] \in Registers /\ u[p].cnt \in 0..MaxCount /\ u[p].off \in Nat
        /\ size \in 0..PIPSIZ /\ Len(got) \in Nat
    BY PipeSizeAssumption, LenProperties DEF TypeOK, Registers
  <1>5. cnt \in 0..MaxCount
    <2>1. k <= u[p].cnt BY <1>1, <1>2 DEF TransferOK
    <2> QED BY <1>3, <1>4, <2>1, PipeSizeAssumption
  <1>6. n \in 0..cnt /\ off + n <= size
    <2>1. cnt \in Nat /\ off \in Nat /\ size \in Nat BY <1>3, <1>4, <1>5, PipeSizeAssumption
    <2> HIDE DEF off, cnt
    <2> QED BY <1>1, <2>1, PieceFits
  <1>7. off = u[p].off + k OBVIOUS
  <1> HIDE DEF off, cnt, n
  <1>8. r \in Registers /\ r.off = off /\ r.n = n /\ r.cnt = cnt
    <2>1. n \in 0..MaxCount BY <1>5, <1>6, PipeSizeAssumption
    <2> QED BY <1>3, <1>4, <1>5, <2>1 DEF Registers
  <1>9. Becomes(p, "read", r)
    <2> HIDE DEF r
    <2> QED BY <1>1, <1>8, Registered
  <1>10. /\ u' \in [Proc -> Registers] /\ u'[p].pc = "read"
         /\ u'[p].off = off /\ u'[p].n = n /\ u'[p].cnt = cnt
         /\ \A q \in Proc \ {p} : u'[q] = u[q] BY <1>8, <1>9 DEF Becomes
  <1> HIDE DEF r
  <1>11. TypeOK' BY <1>1, <1>2, <1>3, <1>10 DEF TypeOK
  <1>12. OpenOK' BY <1>2, <1>10 DEF OpenOK
  <1>13. SleepOK' BY <1>1, <1>2, <1>10 DEF SleepOK
  <1>14. TransferOK'
    <2>1. /\ off + n <= PIPSIZ /\ n <= cnt
          /\ \A i \in 0 .. off + n - 1 : file[i] # 0
      BY <1>3, <1>4, <1>5, <1>6, PipeSizeAssumption DEF TransferOK
    <2> QED BY <1>2, <1>10, <2>1 DEF TransferOK
  <1>15. LockOK' BY <1>1, <1>2, <1>10, LockStays DEF Busy
  <1>16. NoLostWakeup'
    <2>1. \A q \in Proc : u'[q].pc = "write" <=> u[q].pc = "write" BY <1>2, <1>10
    <2>2. Locking' = Locking BY <1>2, <1>10 DEF Locking
    <2> QED BY <1>1, <1>2, <2>1, <2>2 DEF NoLostWakeup
  <1>17. OffsetOK'
    <2> SUFFICES ASSUME ~stolen PROVE OffsetOK' BY <1>2 DEF OffsetOK
    <2>1. roff <= u[p].off /\ roff < size /\ roff \in Nat
      BY <1>2, PipeSizeAssumption DEF OffsetOK, TypeOK
    <2>2. roff <= off BY <1>3, <1>4, <1>7, <2>1
    <2> QED BY <1>1, <1>2, <1>6, <1>10, <2>1, <2>2 DEF OffsetOK
  <1>18. BytesOK'
    <2> SUFFICES ASSUME ~stolen' PROVE BytesOK' BY DEF BytesOK
    <2>1. Place = u[p].off /\ Place' = off BY <1>2, <1>10, <1>15, PlaceIs, PlaceNext
    <2>2. /\ Len(got) + size - u[p].off = wrote
          /\ \A i \in 1..Len(got) : got[i] = i
          /\ \A i \in u[p].off..size-1 : file[i] = Len(got) + 1 + i - u[p].off
      BY <1>2, <2>1 DEF BytesOK
    <2>3. u[p].off + k <= size BY <1>1, <1>7, <1>3, <1>4
    <2>4. /\ Len(got') + size - off = wrote
          /\ \A i \in 1..Len(got') : got'[i] = i
          /\ \A i \in off..size-1 : file[i] = Len(got') + 1 + i - off
      <3> DEFINE l == Len(got)
                 o == u[p].off
      <3>1. l \in Nat /\ o \in Nat /\ size \in Nat /\ off = o + k /\ Len(got') = l + k
        BY <1>3, <1>4, <1>7, PipeSizeAssumption
      <3>2. /\ l + size - o = wrote /\ o + k <= size
            /\ \A i \in 1..l : got[i] = i
            /\ \A i \in o..size-1 : file[i] = l + 1 + i - o
            /\ \A i \in 1..l : got'[i] = got[i]
            /\ \A i \in l+1 .. l+k : got'[i] = file[o + i - l - 1] BY <1>3, <2>2, <2>3
      <3> HIDE DEF l, o
      <3>3. k \in Nat BY <1>3
      <3> QED BY <3>1, <3>2, <3>3, Advance
    <2> QED BY <1>2, <2>1, <2>4 DEF BytesOK
  <1> QED BY <1>3, <1>11, <1>12, <1>13, <1>14, <1>15, <1>16, <1>17, <1>18

(* readi ends; readp moves the offset on and unlocks the pipe. *)
LEMMA ReadEndsKeeps ==
    ASSUME IInv, NEW p \in Proc, NEW k \in 0..u[p].n, ReadEnds(p, k) PROVE IInv'
  <1> USE DEF IInv
  <1> DEFINE off == u[p].off + k
  <1>1. /\ Takes(p, k) /\ roff' = off /\ Wakeup(Lockers)
        /\ u' = [u EXCEPT ![p] = Idle] /\ flag' = flag \ {"LOCK", "WANT"}
    BY DEF ReadEnds, Prele
  <1>2. /\ UNCHANGED <<mode, icount, size, fcount, ofile, born, file, wrote, stolen, bytes>>
        /\ u[p].pc = "read" /\ chan[p] = "none" /\ events' \in 0..MaxEvents /\ cpu' = NoProc
    BY <1>1 DEF Takes, open
  <1>3. /\ k \in Nat /\ off \in 0..PIPSIZ /\ Ends'
        /\ got' \in Seq(Nat \ {0}) /\ Len(got') = Len(got) + k
        /\ \A i \in 1..Len(got) : got'[i] = got[i]
        /\ \A i \in Len(got) + 1 .. Len(got) + k :
              got'[i] = file[u[p].off + i - Len(got) - 1] BY <1>1, TakesKeeps
  <1>4. /\ u[p].off \in Nat /\ u[p].n \in Nat /\ roff \in Nat
        /\ size \in 0..PIPSIZ /\ Len(got) \in Nat
    BY PipeSizeAssumption, LenProperties DEF TypeOK, Registers
  <1>5. off = u[p].off + k OBVIOUS
  <1> HIDE DEF off
  <1>6. /\ u' \in [Proc -> Registers] /\ u'[p].pc = "user"
        /\ \A q \in Proc \ {p} : u'[q] = u[q] BY <1>1, Returned DEF Becomes
  <1>7. /\ chan' \in [Proc -> Chan]
        /\ \A q \in Proc : chan'[q] = IF chan[q] \in Lockers THEN "none" ELSE chan[q]
    BY <1>1, WokenIs
  <1>8. TypeOK' BY <1>1, <1>2, <1>3, <1>6, <1>7 DEF TypeOK
  <1>9. OpenOK' BY <1>2, <1>6 DEF OpenOK
  <1>10. SleepOK' BY <1>2, <1>6, <1>7 DEF SleepOK
  <1>11. TransferOK' BY <1>2, <1>6 DEF TransferOK
  <1>12. LockOK' BY <1>1, <1>2, <1>6, LockFreed DEF Busy
  <1>13. ~stolen => Locking = {p} BY <1>2 DEF LockOK, Locking
  <1>14. NoLostWakeup'
    <2>1. ASSUME NEW q \in Proc PROVE chan'[q] # "data"
      <3> SUFFICES ASSUME chan[q] = "data" PROVE FALSE BY <1>7
      <3>1. ~stolen BY DEF NoLostWakeup, LockOK
      <3>2. \A s \in Proc : u[s].pc # "write" BY <1>2, <1>13, <3>1 DEF Locking
      <3>3. roff = size /\ roff < size BY <1>2, <3>1, <3>2 DEF NoLostWakeup, OffsetOK
      <3> QED BY <1>4, <3>3
    <2>2. ASSUME NEW q \in Proc PROVE chan'[q] # "lock" BY <1>7 DEF NoLostWakeup, Lockers
    <2>3. ASSUME NEW q \in Proc, chan'[q] = "room" PROVE chan[q] = "room" BY <1>7, <2>3
    <2> QED BY <1>2, <2>1, <2>2, <2>3 DEF NoLostWakeup
  <1>15. OffsetOK'
    <2> SUFFICES ASSUME ~stolen PROVE OffsetOK' BY <1>2 DEF OffsetOK
    <2>1. u[p].off + u[p].n <= size BY <1>2 DEF OffsetOK
    <2>2. off <= size BY <1>3, <1>4, <1>5, <2>1
    <2>3. \A q \in Proc : u'[q].pc \notin {"read", "write"} BY <1>6, <1>13 DEF Locking
    <2> QED BY <1>1, <1>2, <2>2, <2>3 DEF OffsetOK
  <1>16. BytesOK'
    <2> SUFFICES ASSUME ~stolen' PROVE BytesOK' BY DEF BytesOK
    <2>1. \A q \in Proc : u'[q].pc # "read" BY <1>2, <1>6, <1>13 DEF Locking
    <2>2. Place = u[p].off /\ Place' = off BY <1>1, <1>2, <1>12, <2>1, PlaceIs, PlaceNext
    <2>3. /\ Len(got) + size - u[p].off = wrote
          /\ \A i \in 1..Len(got) : got[i] = i
          /\ \A i \in u[p].off..size-1 : file[i] = Len(got) + 1 + i - u[p].off
      BY <1>2, <2>2 DEF BytesOK
    <2>4. u[p].off + u[p].n <= size BY <1>2 DEF OffsetOK
    <2>5. u[p].off + k <= size BY <1>3, <1>4, <2>4
    <2>6. /\ Len(got') + size - off = wrote
          /\ \A i \in 1..Len(got') : got'[i] = i
          /\ \A i \in off..size-1 : file[i] = Len(got') + 1 + i - off
      <3> DEFINE l == Len(got)
                 o == u[p].off
      <3>1. l \in Nat /\ o \in Nat /\ size \in Nat /\ off = o + k /\ Len(got') = l + k
        BY <1>3, <1>4, <1>5, PipeSizeAssumption
      <3>2. /\ l + size - o = wrote /\ o + k <= size
            /\ \A i \in 1..l : got[i] = i
            /\ \A i \in o..size-1 : file[i] = l + 1 + i - o
            /\ \A i \in 1..l : got'[i] = got[i]
            /\ \A i \in l+1 .. l+k : got'[i] = file[o + i - l - 1] BY <1>3, <2>3, <2>5
      <3> HIDE DEF l, o
      <3>3. k \in Nat BY <1>3
      <3> QED BY <3>1, <3>2, <3>3, Advance
    <2> QED BY <1>2, <2>2, <2>6 DEF BytesOK
  <1> QED BY <1>3, <1>8, <1>9, <1>10, <1>11, <1>12, <1>14, <1>15, <1>16

(* readp: a block has been read. *)
LEMMA ReadBlockKeeps ==
    ASSUME IInv, NEW p \in Proc, ReadBlock(p) PROVE IInv'
  <1>1. \E k \in 0..u[p].n : ReadOn(p, k) \/ ReadEnds(p, k) BY ReadBlockCases DEF IInv
  <1> QED BY <1>1, ReadOnKeeps, ReadEndsKeeps

(* writep: there is room; it locks the pipe and writes its share at the    *)
(* end.                                                                    *)
LEMMA WriteStartsKeeps ==
    ASSUME IInv, NEW p \in Proc, WriteStarts(p) PROVE IInv'
  <1> USE DEF IInv
  <1> DEFINE cnt == Share(u[p].c, size)
             n == Least({BSIZE - (size % BSIZE), cnt})
             r == [u[p] EXCEPT !.off = size, !.cnt = cnt, !.c = u[p].c - cnt, !.n = n]
  <1>1. /\ u[p].pc = "wloop" /\ chan[p] = "none" /\ "LOCK" \notin flag
        /\ flag' = flag \cup {"LOCK"} /\ Waits(p, "write", r)
        /\ size # PIPSIZ BY DEF WriteStarts, At
  <1>2. UNCHANGED <<mode, icount, size, roff, fcount, ofile, born, file, chan, wrote, got, stolen, bytes, events>>
    BY DEF WriteStarts, open, stream, budget
  <1>3. /\ u[p] \in Registers /\ size \in Nat /\ PIPSIZ \in Nat /\ size <= PIPSIZ
        /\ u[p].c \in Nat /\ u[p].c <= MaxCount BY PipeSizeAssumption DEF TypeOK, Registers
  <1>4. cnt \in Nat /\ cnt <= u[p].c /\ size + cnt <= PIPSIZ
    <2> DEFINE room == PIPSIZ - size
    <2>1. room \in Nat BY <1>3
    <2>2. cnt = Least({u[p].c, room}) BY DEF Share
    <2> HIDE DEF room, cnt
    <2>3. /\ Least({u[p].c, room}) \in {u[p].c, room}
          /\ Least({u[p].c, room}) <= u[p].c /\ Least({u[p].c, room}) <= room
      <3>1. u[p].c \in Int /\ room \in Int BY <1>3, <2>1
      <3> QED BY <3>1, LeastOfTwo
    <2>4. cnt \in Nat /\ cnt <= u[p].c /\ cnt <= room BY <1>3, <2>1, <2>2, <2>3
    <2> QED BY <1>3, <2>4 DEF room
  <1> HIDE DEF cnt
  <1>5. n \in 0..cnt BY <1>3, <1>4, BlockFits
  <1> HIDE DEF n
  <1>6. r \in Registers /\ r.off = size /\ r.n = n /\ r.cnt = cnt
    <2>1. size \in 0..PIPSIZ /\ cnt \in 0..MaxCount /\ n \in 0..MaxCount
          /\ u[p].c - cnt \in 0..MaxCount BY <1>3, <1>4, <1>5, PipeSizeAssumption
    <2> QED BY <1>3, <2>1 DEF Registers
  <1>7. Becomes(p, "write", r) /\ cpu' = NoProc
    <2> HIDE DEF r
    <2> QED BY <1>1, <1>6, Registered DEF Waits
  <1>8. /\ u' \in [Proc -> Registers] /\ u'[p].pc = "write"
        /\ u'[p].off = size /\ u'[p].n = n /\ u'[p].cnt = cnt
        /\ \A q \in Proc \ {p} : u'[q] = u[q] BY <1>6, <1>7 DEF Becomes
  <1> HIDE DEF r
  <1>9. TypeOK' BY <1>1, <1>2, <1>7, <1>8 DEF TypeOK
  <1>10. Ends' BY <1>2, EndsKept DEF EndsSame
  <1>11. OpenOK' BY <1>1, <1>2, <1>8 DEF OpenOK
  <1>12. SleepOK' BY <1>1, <1>2, <1>8 DEF SleepOK
  <1>13. TransferOK' BY <1>2, <1>4, <1>5, <1>8 DEF TransferOK
  <1>14. LockOK' BY <1>1, <1>2, <1>8, LockTaken DEF Busy
  <1>15. NoLostWakeup'
    <2>1. p \in Locking' /\ \E q \in Proc : u'[q].pc = "write" BY <1>8 DEF Locking
    <2> QED BY <1>1, <1>2, <2>1 DEF NoLostWakeup
  <1>16. OffsetOK' BY <1>1, <1>2, <1>3, <1>8 DEF OffsetOK, LockOK, Locking
  <1>17. BytesOK'
    <2> SUFFICES ASSUME ~stolen' PROVE BytesOK' BY DEF BytesOK
    <2>1. ~stolen /\ \A q \in Proc : u[q].pc # "read" /\ u'[q].pc # "read"
      BY <1>1, <1>2, <1>8 DEF LockOK, Locking
    <2>2. Place = roff /\ Place' = roff BY <1>2, <1>14, <2>1, PlaceIs, PlaceNext
    <2> QED BY <1>2, <2>1, <2>2 DEF BytesOK
  <1> QED BY <1>9, <1>10, <1>11, <1>12, <1>13, <1>14, <1>15, <1>16, <1>17

(* k bytes of the user's go into the block: what both outcomes share. *)
Puts(p, k) ==
    /\ u[p].pc = "write" /\ chan[p] = "none" /\ k \in 0..u[p].n
    /\ file' = [i \in DOMAIN file |->
                  IF i >= u[p].off /\ i < u[p].off + k
                  THEN wrote + 1 + i - u[p].off ELSE file[i]]
    /\ wrote' = wrote + k
    /\ size' = IF size < u[p].off + k THEN u[p].off + k ELSE size
    /\ UNCHANGED <<icount, roff, open, got, stolen, bytes>>
    /\ events' \in 0..MaxEvents

(* writei goes on with the next block, or has done. *)
WriteOn(p, k) ==
    /\ Puts(p, k)
    /\ k = u[p].n /\ u[p].cnt - k # 0
    /\ u' = [u EXCEPT ![p] =
               [[u[p] EXCEPT !.off = u[p].off + k, !.cnt = u[p].cnt - k,
                             !.n = Least({BSIZE - ((u[p].off + k) % BSIZE), u[p].cnt - k})]
                EXCEPT !.pc = "write"]]
    /\ cpu' = NoProc
    /\ UNCHANGED <<flag, mode, chan>>

WriteEnds(p, k) ==
    /\ Puts(p, k)
    /\ Prele /\ Data
    /\ \E e \in BOOLEAN :
          u' = [u EXCEPT ![p] =
                  [[u[p] EXCEPT !.off = 0, !.cnt = 0, !.n = 0, !.err = e] EXCEPT !.pc = "wloop"]]
    /\ cpu' = p

(* writei's step is one of the two. *)
LEMMA WriteBlockCases ==
    ASSUME TypeOK, NEW p \in Proc, WriteBlock(p)
    PROVE  \E k \in 0..u[p].n : WriteOn(p, k) \/ WriteEnds(p, k)
  <1>1. PICK k \in 0..u[p].n :
          LET off == u[p].off + k
              cnt == u[p].cnt - k
              err == u[p].err \/ k < u[p].n
          IN /\ Moves(k, u[p].n)
             /\ file' = [i \in DOMAIN file |->
                           IF i >= u[p].off /\ i < off
                           THEN wrote + 1 + i - u[p].off ELSE file[i]]
             /\ wrote' = wrote + k
             /\ size' = IF size < off THEN off ELSE size
             /\ IF ~err /\ cnt # 0
                THEN /\ Waits(p, "write", [u[p] EXCEPT !.off = off, !.cnt = cnt,
                                              !.n = Least({BSIZE - (off % BSIZE), cnt})])
                     /\ UNCHANGED <<flag, mode, chan>>
                ELSE /\ Prele
                     /\ Data
                     /\ Goes(p, "wloop", [u[p] EXCEPT !.off = 0, !.cnt = 0, !.n = 0,
                                                      !.err = err]) BY DEF WriteBlock
  <1>2. events' \in 0..MaxEvents BY <1>1, PipeSizeAssumption DEF Moves, Event, TypeOK
  <1>3. Puts(p, k) BY <1>1, <1>2 DEF Puts, WriteBlock, At
  <1>4. u[p].err \in BOOLEAN /\ u[p].n \in Nat /\ k \in Nat
    BY PipeSizeAssumption DEF TypeOK, Registers
  <1> DEFINE err == u[p].err \/ k < u[p].n
  <1>5. CASE ~err /\ u[p].cnt - k # 0
    <2>1. k = u[p].n BY <1>4, <1>5
    <2> QED BY <1>1, <1>3, <1>5, <2>1 DEF WriteOn, Waits
  <1>6. CASE ~(~err /\ u[p].cnt - k # 0)
    <2>1. err \in BOOLEAN BY <1>4
    <2> QED BY <1>1, <1>3, <1>6, <2>1 DEF WriteEnds, Goes
  <1> QED BY <1>5, <1>6

(* What is in the file afterwards. *)
LEMMA PutsKeeps ==
    ASSUME IInv, NEW p \in Proc, NEW k \in 0..u[p].n, Puts(p, k)
    PROVE  /\ k \in Nat /\ k <= u[p].cnt /\ u[p].off + k \in 0..PIPSIZ
           /\ Ends'
           /\ file' \in [0..PIPSIZ-1 -> Nat] /\ wrote' \in Nat
           /\ size' \in 0..PIPSIZ /\ size <= size'
           /\ \A i \in 0..PIPSIZ-1 : file[i] # 0 => file'[i] # 0
           /\ \A i \in 0 .. u[p].off + k - 1 : file'[i] # 0
           /\ \A i \in 0 .. size' - 1 : file'[i] # 0
  <1> USE DEF IInv
  <1> DEFINE o == u[p].off
  <1>1. /\ o \in Nat /\ u[p].n \in Nat /\ u[p].cnt \in Nat /\ u[p].n <= u[p].cnt
        /\ o + u[p].cnt <= PIPSIZ /\ PIPSIZ \in Nat
        /\ \A i \in 0..o-1 : file[i] # 0
    BY PipeSizeAssumption DEF Puts, TransferOK, TypeOK, Registers
  <1>2. k \in Nat /\ k <= u[p].cnt /\ o + k \in 0..PIPSIZ BY <1>1
  <1>3. /\ DOMAIN file = 0..PIPSIZ-1 /\ wrote \in Nat /\ size \in 0..PIPSIZ
        /\ \A i \in 0..PIPSIZ-1 : file[i] \in Nat BY DEF TypeOK
  <1>4. file' = [i \in 0..PIPSIZ-1 |->
                   IF i >= o /\ i < o + k THEN wrote + 1 + i - o ELSE file[i]]
    BY <1>3 DEF Puts
  <1> HIDE DEF o
  <1>5. file' \in [0..PIPSIZ-1 -> Nat]
    <2>1. ASSUME NEW i \in 0..PIPSIZ-1
          PROVE  (IF i >= o /\ i < o + k THEN wrote + 1 + i - o ELSE file[i]) \in Nat
      BY <1>1, <1>2, <1>3
    <2> QED BY <1>4, <2>1
  <1>6. \A i \in 0..PIPSIZ-1 :
           /\ i >= o /\ i < o + k => file'[i] = wrote + 1 + i - o
           /\ ~(i >= o /\ i < o + k) => file'[i] = file[i] BY <1>4
  <1>7. \A i \in 0..PIPSIZ-1 : file[i] # 0 => file'[i] # 0 BY <1>1, <1>2, <1>3, <1>6
  <1>8. \A i \in 0 .. o + k - 1 : file'[i] # 0
    <2> TAKE i \in 0 .. o + k - 1
    <2>1. i \in 0..PIPSIZ-1 BY <1>1, <1>2
    <2>2. CASE i >= o
      <3>1. i < o + k /\ i \in Int /\ o \in Int BY <1>1, <1>2
      <3>2. file'[i] = wrote + 1 + i - o BY <1>6, <2>1, <2>2, <3>1
      <3> QED BY <1>3, <2>2, <3>1, <3>2
    <2>3. CASE ~(i >= o) BY <1>1, <1>2, <1>6, <2>1, <2>3
    <2> QED BY <2>2, <2>3
  <1>9. size' = (IF size < o + k THEN o + k ELSE size) BY DEF Puts, o
  <1>10. size' \in 0..PIPSIZ /\ size <= size' BY <1>1, <1>2, <1>3, <1>9
  <1>11. \A i \in 0..size'-1 : file'[i] # 0
    <2>1. CASE size < o + k
      <3>1. size' = o + k BY <1>9, <2>1
      <3>2. 0..size'-1 = 0 .. o + k - 1 BY <1>1, <1>2, <1>10, <3>1
      <3> QED BY <1>8, <3>2
    <2>2. CASE ~(size < o + k) BY <1>1, <1>3, <1>7, <1>9, <2>2 DEF TransferOK
    <2> QED BY <2>1, <2>2
  <1>12. wrote' \in Nat /\ Ends' BY <1>2, <1>3, EndsKept DEF Puts, EndsSame, open
  <1> QED BY <1>2, <1>5, <1>7, <1>8, <1>10, <1>11, <1>12 DEF o

(* Whoever else is inside stays inside the file. *)
LEMMA OthersInside ==
    ASSUME IInv, NEW p \in Proc, NEW k \in 0..u[p].n, Puts(p, k),
           \A q \in Proc \ {p} : u'[q] = u[q]
    PROVE  \A q \in Proc \ {p} :
              /\ u'[q].pc \in {"read", "write"} => u'[q].n <= u'[q].cnt
              /\ u'[q].pc = "read" =>
                    /\ u'[q].off + u'[q].n <= PIPSIZ
                    /\ \A i \in 0 .. u'[q].off + u'[q].n - 1 : file'[i] # 0
              /\ u'[q].pc = "write" =>
                    /\ u'[q].off + u'[q].cnt <= PIPSIZ
                    /\ \A i \in 0 .. u'[q].off - 1 : file'[i] # 0
  <1> TAKE q \in Proc \ {p}
  <1>1. u'[q] = u[q] /\ u[q].off \in Nat /\ u[q].n \in Nat /\ u[q].cnt \in Nat /\ PIPSIZ \in Nat
    <2>1. u[q] \in Registers /\ u'[q] = u[q] BY DEF IInv, TypeOK
    <2> QED BY <2>1, PipeSizeAssumption DEF Registers
  <1>2. \A i \in 0..PIPSIZ-1 : file[i] # 0 => file'[i] # 0 BY PutsKeeps
  <1>3. CASE u[q].pc = "read" BY <1>1, <1>2, <1>3 DEF IInv, TransferOK
  <1>4. CASE u[q].pc = "write" BY <1>1, <1>2, <1>4 DEF IInv, TransferOK
  <1> QED BY <1>1, <1>3, <1>4

(* The bytes put are the next ones, after those the file holds. *)
LEMMA PutsInOrder ==
    ASSUME IInv, NEW p \in Proc, NEW k \in 0..u[p].n, Puts(p, k), LockOK',
           \A q \in Proc \ {p} : u'[q] = u[q], u'[p].pc # "read"
    PROVE  BytesOK' /\ (~stolen => size' = u[p].off + k /\ Locking = {p})
  <1> USE DEF IInv
  <1>1. /\ u[p].pc = "write" /\ UNCHANGED <<roff, got, stolen>> /\ wrote' = wrote + k
        /\ size' = IF size < u[p].off + k THEN u[p].off + k ELSE size BY DEF Puts
  <1> SUFFICES ASSUME ~stolen PROVE BytesOK' /\ size' = u[p].off + k /\ Locking = {p}
    BY <1>1 DEF BytesOK
  <1>2. Locking = {p} BY <1>1 DEF LockOK, Locking
  <1>3. \A q \in Proc : u[q].pc # "read" /\ u'[q].pc # "read" BY <1>1, <1>2 DEF Locking
  <1>4. Place = roff /\ Place' = roff BY <1>1, <1>3, PlaceIs, PlaceNext
  <1> DEFINE l == Len(got)
             o == u[p].off
  <1>5. k \in Nat /\ size \in Nat /\ roff \in Nat /\ wrote \in Nat /\ o = size
        /\ roff <= size /\ o + k <= PIPSIZ /\ PIPSIZ \in Nat
    <2>1. PIPSIZ \in Nat /\ size \in Nat /\ roff \in Nat /\ wrote \in Nat
      BY PipeSizeAssumption DEF TypeOK
    <2>2. k \in Nat /\ u[p].off + k \in 0..PIPSIZ BY PutsKeeps
    <2>3. roff <= size /\ u[p].off = size BY <1>1 DEF OffsetOK
    <2> QED BY <2>1, <2>2, <2>3
  <1>6. l \in Nat BY LenProperties DEF TypeOK
  <1>7. size' = size + k BY <1>1, <1>5
  <1>8. /\ l + size - roff = wrote /\ \A i \in 1..l : got[i] = i
        /\ \A i \in roff..size-1 : file[i] = l + 1 + i - roff BY <1>4 DEF BytesOK
  <1>9. \A i \in 0..PIPSIZ-1 :
           /\ i >= o /\ i < o + k => file'[i] = wrote + 1 + i - o
           /\ ~(i >= o /\ i < o + k) => file'[i] = file[i] BY DEF Puts, TypeOK
  <1> HIDE DEF l, o
  <1>10. l + size' - roff = wrote' BY <1>1, <1>5, <1>6, <1>7, <1>8
  <1>11. ASSUME NEW i \in roff..size'-1 PROVE file'[i] = l + 1 + i - roff
    <2>1. i \in 0..PIPSIZ-1 BY <1>5, <1>7
    <2>2. CASE i < size BY <1>5, <1>8, <1>9, <2>1, <2>2
    <2>3. CASE ~(i < size)
      <3>1. file'[i] = wrote + 1 + i - size BY <1>5, <1>7, <1>9, <2>1, <2>3
      <3>2. wrote = l + size - roff BY <1>8
      <3> QED BY <1>5, <1>6, <3>1, <3>2
    <2> QED BY <2>2, <2>3
  <1>12. BytesOK' BY <1>1, <1>4, <1>8, <1>10, <1>11 DEF BytesOK, l
  <1> QED BY <1>2, <1>5, <1>7, <1>12 DEF o

(* writei goes on to the next block. *)
LEMMA WriteOnKeeps ==
    ASSUME IInv, NEW p \in Proc, NEW k \in 0..u[p].n, WriteOn(p, k) PROVE IInv'
  <1> USE DEF IInv
  <1> DEFINE off == u[p].off + k
             cnt == u[p].cnt - k
             n == Least({BSIZE - (off % BSIZE), cnt})
             r == [u[p] EXCEPT !.off = off, !.cnt = cnt, !.n = n]
  <1>1. /\ Puts(p, k) /\ u' = [u EXCEPT ![p] = [r EXCEPT !.pc = "write"]]
        /\ cpu' = NoProc /\ UNCHANGED <<flag, mode, chan>> BY DEF WriteOn
  <1>2. /\ u[p].pc = "write" /\ chan[p] = "none" /\ events' \in 0..MaxEvents
        /\ UNCHANGED <<icount, roff, fcount, ofile, born, got, stolen, bytes>>
    BY <1>1 DEF Puts, open
  <1>3. /\ k \in Nat /\ k <= u[p].cnt /\ off \in 0..PIPSIZ /\ Ends'
        /\ file' \in [0..PIPSIZ-1 -> Nat] /\ wrote' \in Nat
        /\ size' \in 0..PIPSIZ /\ size <= size'
        /\ \A i \in 0 .. off - 1 : file'[i] # 0
        /\ \A i \in 0 .. size' - 1 : file'[i] # 0
    <2>1. Puts(p, k) BY <1>1
    <2>2. /\ k \in Nat /\ k <= u[p].cnt /\ u[p].off + k \in 0..PIPSIZ /\ Ends'
          /\ file' \in [0..PIPSIZ-1 -> Nat] /\ wrote' \in Nat
          /\ size' \in 0..PIPSIZ /\ size <= size'
          /\ \A i \in 0 .. size' - 1 : file'[i] # 0 BY <2>1, PutsKeeps
    <2>3. \A i \in 0 .. u[p].off + k - 1 : file'[i] # 0 BY <2>1, PutsKeeps
    <2>4. off \in 0..PIPSIZ /\ off = u[p].off + k BY <2>2
    <2> HIDE DEF off
    <2>5. 0 .. off - 1 = 0 .. u[p].off + k - 1
      <3>1. u[p] \in Registers BY DEF TypeOK
      <3>2. u[p].off \in Nat BY <3>1, PipeSizeAssumption DEF Registers
      <3>3. k \in Nat /\ off \in Nat BY <2>2, <2>4, PipeSizeAssumption
      <3> QED BY <2>4, <3>2, <3>3
    <2> QED BY <2>2, <2>3, <2>4, <2>5
  <1>4. /\ u[p] \in Registers /\ u[p].cnt \in 0..MaxCount /\ u[p].off \in Nat
        /\ size \in 0..PIPSIZ /\ u[p].off + u[p].cnt <= PIPSIZ /\ PIPSIZ \in Nat
    <2>1. u[p] \in Registers /\ size \in 0..PIPSIZ BY DEF TypeOK
    <2>2. u[p].off + u[p].cnt <= PIPSIZ BY <1>2 DEF TransferOK
    <2>3. u[p].cnt \in 0..MaxCount /\ u[p].off \in Nat /\ PIPSIZ \in Nat
      BY <2>1, PipeSizeAssumption DEF Registers
    <2> QED BY <2>1, <2>2, <2>3
  <1>5. cnt \in 0..MaxCount /\ off + cnt <= PIPSIZ
    <2>1. k \in Nat /\ k <= u[p].cnt BY <1>3
    <2> QED BY <1>4, <2>1, PipeSizeAssumption
  <1> HIDE DEF off, cnt
  <1>6. n \in 0..cnt
    <2>1. cnt \in Nat /\ off \in Nat BY <1>3, <1>5, PipeSizeAssumption
    <2> QED BY <2>1, BlockFits
  <1> HIDE DEF n
  <1>7. r \in Registers /\ r.off = off /\ r.n = n /\ r.cnt = cnt
    <2>1. n \in 0..MaxCount BY <1>5, <1>6, PipeSizeAssumption
    <2> QED BY <1>3, <1>4, <1>5, <2>1 DEF Registers
  <1>8. Becomes(p, "write", r)
    <2> HIDE DEF r
    <2> QED BY <1>1, <1>7, Registered
  <1>9. /\ u' \in [Proc -> Registers] /\ u'[p].pc = "write"
        /\ u'[p].off = off /\ u'[p].n = n /\ u'[p].cnt = cnt
        /\ \A q \in Proc \ {p} : u'[q] = u[q] BY <1>7, <1>8 DEF Becomes
  <1> HIDE DEF r
  <1>10. TypeOK' BY <1>1, <1>2, <1>3, <1>9 DEF TypeOK
  <1>11. OpenOK' BY <1>2, <1>9 DEF OpenOK
  <1>12. SleepOK' BY <1>1, <1>2, <1>9 DEF SleepOK
  <1>13. TransferOK'
    <2>1. n <= cnt BY <1>5, <1>6
    <2>2. \A q \in Proc \ {p} :
              /\ u'[q].pc \in {"read", "write"} => u'[q].n <= u'[q].cnt
              /\ u'[q].pc = "read" =>
                    /\ u'[q].off + u'[q].n <= PIPSIZ
                    /\ \A i \in 0 .. u'[q].off + u'[q].n - 1 : file'[i] # 0
              /\ u'[q].pc = "write" =>
                    /\ u'[q].off + u'[q].cnt <= PIPSIZ
                    /\ \A i \in 0 .. u'[q].off - 1 : file'[i] # 0
      BY <1>1, <1>9, OthersInside
    <2> QED BY <1>3, <1>5, <1>9, <2>1, <2>2 DEF TransferOK
  <1>14. LockOK' BY <1>1, <1>2, <1>9, LockStays DEF Busy
  <1>15. NoLostWakeup'
    <2>1. Locking' = Locking /\ \E q \in Proc : u'[q].pc = "write" BY <1>2, <1>9 DEF Locking
    <2>2. size = PIPSIZ => size' = PIPSIZ BY <1>3, <1>4
    <2> QED BY <1>1, <1>2, <2>1, <2>2 DEF NoLostWakeup
  <1>16. BytesOK' /\ (~stolen => size' = off /\ Locking = {p})
    BY <1>1, <1>9, <1>14, PutsInOrder DEF off
  <1>17. OffsetOK'
    <2> SUFFICES ASSUME ~stolen PROVE OffsetOK' BY <1>2 DEF OffsetOK
    <2>1. \A q \in Proc : q # p => u'[q].pc \notin {"read", "write"}
      BY <1>9, <1>16 DEF Locking
    <2>2. roff <= size' BY <1>3, <1>4, PipeSizeAssumption DEF OffsetOK, TypeOK
    <2> QED BY <1>2, <1>9, <1>16, <2>1, <2>2 DEF OffsetOK
  <1> QED BY <1>3, <1>10, <1>11, <1>12, <1>13, <1>14, <1>15, <1>16, <1>17

(* writei ends; writep unlocks the pipe and wakes the readers. *)
LEMMA WriteEndsKeeps ==
    ASSUME IInv, NEW p \in Proc, NEW k \in 0..u[p].n, WriteEnds(p, k) PROVE IInv'
  <1> USE DEF IInv
  <1>1. PICK e \in BOOLEAN :
          u' = [u EXCEPT ![p] =
                  [[u[p] EXCEPT !.off = 0, !.cnt = 0, !.n = 0, !.err = e] EXCEPT !.pc = "wloop"]]
    BY DEF WriteEnds
  <1> DEFINE r == [u[p] EXCEPT !.off = 0, !.cnt = 0, !.n = 0, !.err = e]
             C == Lockers \cup (IF "READ" \in mode THEN {"data"} ELSE {})
  <1>2. /\ Puts(p, k) /\ cpu' = p /\ flag' = flag \ {"LOCK", "WANT"}
        /\ mode' = mode \ {"READ"} /\ Wakeup(C) BY DEF WriteEnds, Prele, Data
  <1>3. /\ u[p].pc = "write" /\ chan[p] = "none" /\ events' \in 0..MaxEvents
        /\ UNCHANGED <<icount, roff, fcount, ofile, born, got, stolen, bytes>>
    BY <1>2 DEF Puts, open
  <1>4. /\ u[p].off + k \in 0..PIPSIZ /\ Ends'
        /\ file' \in [0..PIPSIZ-1 -> Nat] /\ wrote' \in Nat
        /\ size' \in 0..PIPSIZ /\ size <= size' /\ size \in 0..PIPSIZ /\ PIPSIZ \in Nat
        /\ \A i \in 0 .. size' - 1 : file'[i] # 0
    BY <1>2, PutsKeeps, PipeSizeAssumption DEF TypeOK
  <1>5. r \in Registers
    <2>1. u[p] \in Registers /\ 0 \in 0..PIPSIZ /\ 0 \in 0..MaxCount
      BY PipeSizeAssumption DEF TypeOK
    <2>2. e \in BOOLEAN BY <1>1
    <2> QED BY <2>1, <2>2 DEF Registers
  <1>6. Becomes(p, "wloop", r)
    <2>1. u' = [u EXCEPT ![p] = [r EXCEPT !.pc = "wloop"]] BY <1>1
    <2> HIDE DEF r
    <2> QED BY <1>5, <2>1, Registered
  <1>7. /\ u' \in [Proc -> Registers] /\ u'[p].pc = "wloop"
        /\ \A q \in Proc \ {p} : u'[q] = u[q] BY <1>6 DEF Becomes
  <1>8. /\ chan' \in [Proc -> Chan]
        /\ \A q \in Proc : chan'[q] = IF chan[q] \in C THEN "none" ELSE chan[q]
    BY <1>2, WokenIs
  <1> HIDE DEF r
  <1>9. TypeOK' BY <1>2, <1>3, <1>4, <1>7, <1>8 DEF TypeOK
  <1>10. OpenOK' BY <1>3, <1>7 DEF OpenOK
  <1>11. SleepOK'
    <2>1. chan'[p] = "none" /\ \A q \in Proc : chan'[q] \in {chan[q], "none"} BY <1>3, <1>8
    <2> QED BY <1>7, <2>1 DEF SleepOK
  <1>12. TransferOK'
    <2>1. \A q \in Proc \ {p} :
              /\ u'[q].pc \in {"read", "write"} => u'[q].n <= u'[q].cnt
              /\ u'[q].pc = "read" =>
                    /\ u'[q].off + u'[q].n <= PIPSIZ
                    /\ \A i \in 0 .. u'[q].off + u'[q].n - 1 : file'[i] # 0
              /\ u'[q].pc = "write" =>
                    /\ u'[q].off + u'[q].cnt <= PIPSIZ
                    /\ \A i \in 0 .. u'[q].off - 1 : file'[i] # 0
      BY <1>2, <1>7, OthersInside
    <2> QED BY <1>4, <1>7, <2>1 DEF TransferOK
  <1>13. LockOK' BY <1>2, <1>3, <1>7, LockFreed DEF Busy
  <1>14. NoLostWakeup'
    <2>1. \A q \in Proc : chan'[q] # "data" /\ chan'[q] # "lock"
      BY <1>8 DEF NoLostWakeup, Lockers
    <2>2. \A q \in Proc : chan'[q] = "room" => chan[q] = "room" BY <1>8
    <2>3. size = PIPSIZ => size' = PIPSIZ BY <1>4
    <2> QED BY <1>2, <1>3, <2>1, <2>2, <2>3 DEF NoLostWakeup
  <1>15. BytesOK' /\ (~stolen => Locking = {p}) BY <1>2, <1>7, <1>13, PutsInOrder
  <1>16. OffsetOK'
    <2> SUFFICES ASSUME ~stolen PROVE OffsetOK' BY <1>3 DEF OffsetOK
    <2>1. \A q \in Proc : u'[q].pc \notin {"read", "write"} BY <1>7, <1>15 DEF Locking
    <2>2. roff <= size' BY <1>4, PipeSizeAssumption DEF OffsetOK, TypeOK
    <2> QED BY <1>3, <2>1, <2>2 DEF OffsetOK
  <1> QED BY <1>4, <1>9, <1>10, <1>11, <1>12, <1>13, <1>14, <1>15, <1>16

(* writep: a block has been written. *)
LEMMA WriteBlockKeeps ==
    ASSUME IInv, NEW p \in Proc, WriteBlock(p) PROVE IInv'
  <1>1. \E k \in 0..u[p].n : WriteOn(p, k) \/ WriteEnds(p, k) BY WriteBlockCases DEF IInv
  <1> QED BY <1>1, WriteOnKeeps, WriteEndsKeeps

(* A signal takes a sleeper out of its call. *)
LEMMA InterruptKeeps ==
    ASSUME IInv, NEW p \in Proc, Interrupt(p) PROVE IInv'
  <1> USE DEF IInv
  <1>1. /\ u' \in [Proc -> Registers] /\ u'[p].pc = "user"
        /\ \A q \in Proc \ {p} : u'[q] = u[q] BY Returned DEF Interrupt, Becomes
  <1>2. /\ chan[p] # "none" /\ chan' = [chan EXCEPT ![p] = "none"]
        /\ events' \in 0..MaxEvents
        /\ UNCHANGED <<flag, mode, icount, size, roff, fcount, ofile, born, file, cpu, wrote, got, stolen, bytes>>
    BY PipeSizeAssumption DEF Interrupt, Event, TypeOK, inode, open, stream
  <1>3. u[p].pc \in {"rloop", "wloop"} BY <1>2 DEF SleepOK, TypeOK
  <1>4. /\ chan' \in [Proc -> Chan] /\ chan'[p] = "none"
        /\ \A q \in Proc \ {p} : chan'[q] = chan[q] BY <1>2 DEF TypeOK
  <1>5. TypeOK' BY <1>1, <1>2, <1>4 DEF TypeOK
  <1>6. Aside BY <1>1, <1>2, <1>3 DEF Aside, EndsSame, SameTransfers, Busy, stream
  <1>7. OpenOK' BY <1>1, <1>2 DEF OpenOK
  <1>8. SleepOK' BY <1>1, <1>4 DEF SleepOK
  <1>9. NoLostWakeup'
    <2>1. Locking' = Locking /\ \A q \in Proc : u'[q].pc = "write" <=> u[q].pc = "write"
      BY <1>1, <1>3 DEF Locking
    <2> QED BY <1>2, <1>4, <2>1 DEF NoLostWakeup
  <1> QED BY <1>5, <1>6, <1>7, <1>8, <1>9, AsideKeeps

(* sync comes and goes beside the readers and writers. *)
Syncs(p) ==
    /\ u[p].pc \in {"user", "sync"} /\ u'[p].pc \in {"user", "sync"}
    /\ \A q \in Proc \ {p} : u'[q] = u[q]
    /\ UNCHANGED <<mode, icount, size, roff, open, file, stream, stolen, bytes>>
    /\ chan' \in [Proc -> Chan] /\ chan[p] = "none"
    /\ \A q \in Proc : chan'[q] \in {chan[q], "none"}

(* They keep the invariant if they keep the lock's part of it. *)
LEMMA SyncsKeeps ==
    ASSUME IInv, NEW p \in Proc, Syncs(p), TypeOK', LockOK',
           (\E q \in Proc : chan'[q] = "lock") =>
               {"LOCK", "WANT"} \subseteq flag' /\ Locking' # {} PROVE IInv'
  <1> USE DEF IInv
  <1>1. \A q \in Proc : /\ u'[q].pc = "read" \/ u[q].pc = "read" => u'[q] = u[q]
                        /\ u'[q].pc = "write" \/ u[q].pc = "write" => u'[q] = u[q]
    BY DEF Syncs
  <1>2. /\ UNCHANGED <<mode, icount, size, roff, fcount, ofile, born, file, wrote, got, stolen>>
        /\ \A q \in Proc : chan'[q] \in {chan[q], "none"} BY DEF Syncs, open, stream
  <1>3. Ends' BY <1>2, EndsKept DEF EndsSame
  <1>4. OpenOK' BY <1>2 DEF OpenOK, Syncs
  <1>5. SleepOK' BY <1>2 DEF SleepOK, Syncs
  <1>6. TransferOK' BY <1>1, <1>2 DEF TransferOK
  <1>7. NoLostWakeup' BY <1>1, <1>2 DEF NoLostWakeup
  <1>8. OffsetOK' BY <1>1, <1>2 DEF OffsetOK
  <1>9. BytesOK'
    <2> SUFFICES ASSUME ~stolen' PROVE BytesOK' BY DEF BytesOK
    <2>1. Place' = Place BY <1>1, <1>2, PlaceIs, PlaceNext
    <2> QED BY <1>2, <2>1 DEF BytesOK
  <1> QED BY <1>3, <1>4, <1>5, <1>6, <1>7, <1>8, <1>9

(* update locks the pipe. *)
LEMMA SyncKeeps ==
    ASSUME IInv, NEW p \in Proc, Sync(p) PROVE IInv'
  <1> USE DEF IInv
  <1>1. Becomes(p, "sync", Idle) BY IdleIs, Registered DEF Sync, Waits
  <1>2. /\ u[p].pc = "user" /\ chan[p] = "none" /\ "LOCK" \notin flag
        /\ flag' = flag \cup {"LOCK"} /\ cpu' = NoProc /\ events' \in 0..MaxEvents
        /\ UNCHANGED <<mode, icount, size, roff, open, file, chan, stream, stolen, bytes>>
    BY PipeSizeAssumption DEF Sync, At, Waits, Event, TypeOK
  <1>3. /\ u' \in [Proc -> Registers] /\ u'[p].pc = "sync"
        /\ \A q \in Proc \ {p} : u'[q] = u[q] BY <1>1 DEF Becomes
  <1>4. Syncs(p) BY <1>2, <1>3 DEF Syncs, TypeOK
  <1>5. TypeOK' BY <1>2, <1>3 DEF TypeOK, open, stream
  <1>6. LockOK' BY <1>2, <1>3, LockTaken DEF Busy
  <1>7. \A q \in Proc : chan'[q] # "lock" BY <1>2 DEF NoLostWakeup
  <1> QED BY <1>4, <1>5, <1>6, <1>7, SyncsKeeps

(* update unlocks it. *)
LEMMA SyncedKeeps ==
    ASSUME IInv, NEW p \in Proc, Synced(p) PROVE IInv'
  <1> USE DEF IInv
  <1>1. /\ u' \in [Proc -> Registers] /\ u'[p].pc = "user"
        /\ \A q \in Proc \ {p} : u'[q] = u[q]
        /\ cpu' = NoProc BY Returned DEF Synced, Returns, Becomes
  <1>2. /\ u[p].pc = "sync" /\ chan[p] = "none" /\ flag' = flag \ {"LOCK", "WANT"}
        /\ UNCHANGED <<mode, icount, size, roff, open, file, stream, stolen, budget>>
    BY DEF Synced, At, Prele
  <1>3. /\ chan' \in [Proc -> Chan]
        /\ \A q \in Proc : chan'[q] = IF chan[q] \in Lockers THEN "none" ELSE chan[q]
    BY WokenIs DEF Synced
  <1>4. Syncs(p) BY <1>1, <1>2, <1>3 DEF Syncs, budget
  <1>5. TypeOK' BY <1>1, <1>2, <1>3 DEF TypeOK, open, stream, budget
  <1>6. LockOK' BY <1>1, <1>2, LockFreed DEF Busy
  <1>7. \A q \in Proc : chan'[q] # "lock" BY <1>3 DEF NoLostWakeup, Lockers
  <1> QED BY <1>4, <1>5, <1>6, <1>7, SyncsKeeps

(* Who has an end open is a finite set. *)
LEMMA HoldersFinite == ASSUME NEW e PROVE IsFiniteSet(Holders(e))
  <1>1. Holders(e) \subseteq Proc BY DEF Holders
  <1> QED BY <1>1, FS_Subset, PipeProcAssumption

(* An end that somebody has open has an f_count. *)
LEMMA HeldCounted ==
    ASSUME TypeOK, Ends, NEW p \in Proc, NEW e \in ofile[p]
    PROVE  e \in End /\ fcount[e] \in Nat /\ fcount[e] >= 1
  <1>1. e \in End /\ fcount[e] \in Nat BY DEF TypeOK
  <1>2. Holders(e) # {} BY DEF Holders
  <1>3. fcount[e] # 0 BY <1>1, <1>2, HoldersFinite, FS_EmptySet DEF Ends
  <1> QED BY <1>1, <1>3

(* A step that changes who has the pipe open, and no transfer. *)
LEMMA OpensKeeps ==
    ASSUME IInv, UNCHANGED <<u, size, roff, file, stream>>, ~stolen' => ~stolen,
           TypeOK', Ends', OpenOK', SleepOK', LockOK', NoLostWakeup' PROVE IInv'
  <1>1. SameTransfers BY DEF SameTransfers
  <1>2. TransferOK' BY <1>1, TransferKept DEF IInv
  <1>3. OffsetOK' BY <1>1, OffsetKept DEF IInv
  <1>4. BytesOK' BY <1>1, BytesKept DEF IInv
  <1> QED BY <1>2, <1>3, <1>4 DEF IInv

(* newproc: one more holder of each end, and one more in its f_count. *)
LEMMA ForkKeeps ==
    ASSUME IInv, NEW p \in Proc, NEW q \in Proc, Fork(p, q) PROVE IInv'
  <1> USE DEF IInv
  <1>1. /\ q \notin born /\ born' = born \cup {q} /\ events' \in 0..MaxEvents
        /\ ofile' = [ofile EXCEPT ![q] = ofile[p]]
        /\ fcount' = [e \in End |-> IF e \in ofile[p] THEN fcount[e] + 1 ELSE fcount[e]]
        /\ ofile[p] # {} /\ u[p].pc = "user"
    BY PipeSizeAssumption DEF Fork, Event, TypeOK, At
  <1>2. UNCHANGED <<flag, mode, icount, size, roff, file, u, chan, cpu, wrote, got, stolen, bytes>>
    BY DEF Fork, inode, stream
  <1>3. ofile \in [Proc -> SUBSET End] /\ fcount \in [End -> Nat] /\ born \in SUBSET Proc
    BY DEF TypeOK
  <1>4. ofile[q] = {} /\ q # p /\ p \in born BY <1>1 DEF OpenOK
  <1>5. /\ ofile' \in [Proc -> SUBSET End] /\ ofile'[q] = ofile[p]
        /\ \A s \in Proc \ {q} : ofile'[s] = ofile[s] BY <1>1, <1>3
  <1>6. fcount' \in [End -> Nat] BY <1>1, <1>3
  <1>7. TypeOK' BY <1>1, <1>2, <1>5, <1>6 DEF TypeOK
  <1>8. Ends'
    <2>1. ASSUME NEW e \in End PROVE fcount'[e] = Cardinality(Holders(e)')
      <3>1. fcount[e] = Cardinality(Holders(e)) BY DEF Ends
      <3>2. CASE e \in ofile[p]
        <4>1. Holders(e)' = Holders(e) \cup {q} /\ q \notin Holders(e)
          BY <1>4, <1>5, <3>2 DEF Holders
        <4>2. Cardinality(Holders(e) \cup {q}) = Cardinality(Holders(e)) + 1
          BY <4>1, HoldersFinite, FS_AddElement
        <4> QED BY <1>1, <3>1, <3>2, <4>1, <4>2
      <3>3. CASE e \notin ofile[p]
        <4>1. Holders(e)' = Holders(e) BY <1>4, <1>5, <3>3 DEF Holders
        <4> QED BY <1>1, <3>1, <3>3, <4>1
      <3> QED BY <3>2, <3>3
    <2>2. ASSUME NEW e \in End PROVE fcount'[e] > 0 <=> fcount[e] > 0
      <3>1. CASE e \in ofile[p] BY <1>1, <3>1, HeldCounted
      <3>2. CASE e \notin ofile[p] BY <1>1, <3>2
      <3> QED BY <3>1, <3>2
    <2>3. {e \in End : fcount'[e] > 0} = {e \in End : fcount[e] > 0} BY <2>2
    <2> HIDE DEF IInv
    <2>4. icount' = Cardinality({e \in End : fcount'[e] > 0}) BY <1>2, <2>3 DEF Ends, IInv
    <2> QED BY <2>1, <2>4 DEF Ends
  <1>9. OpenOK' BY <1>1, <1>2, <1>4, <1>5 DEF OpenOK
  <1>10. SleepOK' BY <1>2 DEF SleepOK
  <1>11. LockOK' /\ NoLostWakeup' BY <1>2 DEF LockOK, NoLostWakeup, Locking
  <1> QED BY <1>2, <1>7, <1>8, <1>9, <1>10, <1>11, OpensKeeps DEF stream

(* closef: one holder fewer, every sleeper for data or room woken, and the *)
(* lock gone with an end's last close.                                     *)
LEMMA CloseKeeps ==
    ASSUME IInv, NEW p \in Proc, Close(p) PROVE IInv'
  <1> USE DEF IInv
  <1>1. PICK e \in ofile[p] : ofile' = [ofile EXCEPT ![p] = @ \ {e}] /\ Closef(e)
    BY DEF Close
  <1>2. /\ UNCHANGED <<size, roff, born, file, u, cpu, wrote, got, bytes, events>>
        /\ u[p].pc = "user" /\ chan[p] = "none" BY DEF Close, At, stream, budget
  <1>3. e \in End /\ fcount[e] \in Nat /\ fcount[e] >= 1 BY HeldCounted
  <1>4. /\ mode' = {} /\ fcount' = [fcount EXCEPT ![e] = @ - 1]
        /\ \/ /\ fcount[e] = 1 /\ icount' = icount - 1
              /\ flag' = flag \ {"LOCK", "WANT"}
              /\ Wakeup({"data", "room"} \cup Lockers)
              /\ stolen' = (stolen \/ "LOCK" \in flag)
           \/ /\ fcount[e] > 1 /\ Wakeup({"data", "room"})
              /\ UNCHANGED <<icount, flag, stolen>> BY <1>1, <1>3 DEF Closef, Prele
  <1>5. ofile \in [Proc -> SUBSET End] /\ fcount \in [End -> Nat] /\ icount \in 0..2 /\ stolen \in BOOLEAN
    BY DEF TypeOK
  <1>6. /\ ofile' \in [Proc -> SUBSET End] /\ ofile'[p] = ofile[p] \ {e}
        /\ \A s \in Proc \ {p} : ofile'[s] = ofile[s] BY <1>1, <1>5
  <1>7. /\ fcount' \in [End -> Nat] /\ fcount'[e] = fcount[e] - 1
        /\ \A d \in End \ {e} : fcount'[d] = fcount[d] BY <1>3, <1>4, <1>5
  <1>8. ASSUME NEW C, Wakeup(C)
        PROVE  /\ chan' \in [Proc -> Chan]
               /\ \A q \in Proc : chan'[q] = IF chan[q] \in C THEN "none" ELSE chan[q]
    BY <1>8, WokenIs
  <1>9. /\ chan' \in [Proc -> Chan]
        /\ \A q \in Proc : chan'[q] \in {chan[q], "none"} /\ chan'[q] \notin {"data", "room"}
    <2>1. CASE Wakeup({"data", "room"} \cup Lockers) BY <1>8, <2>1
    <2>2. CASE Wakeup({"data", "room"}) BY <1>8, <2>2
    <2> QED BY <1>4, <2>1, <2>2
  <1> DEFINE Up == {d \in End : fcount[d] > 0}
  <1>10. e \in Up /\ IsFiniteSet(Up) /\ icount = Cardinality(Up)
    <2>1. IsFiniteSet(End)
      <3>1. IsFiniteSet({}) /\ IsFiniteSet({} \cup {"r"}) /\ IsFiniteSet({} \cup {"r"} \cup {"w"})
        BY FS_EmptySet, FS_AddElement
      <3>2. End = {} \cup {"r"} \cup {"w"} OBVIOUS
      <3> QED BY <3>1, <3>2
    <2>2. Up \subseteq End OBVIOUS
    <2>3. e \in Up BY <1>3
    <2> QED BY <2>1, <2>2, <2>3, FS_Subset DEF Ends
  <1>11. {d \in End : fcount'[d] > 0} = IF fcount[e] = 1 THEN Up \ {e} ELSE Up
    BY <1>3, <1>5, <1>7
  <1>12. icount' = Cardinality({d \in End : fcount'[d] > 0}) /\ icount' \in 0..2
    <2> HIDE DEF Up, IInv
    <2>1. Cardinality(Up \ {e}) = Cardinality(Up) - 1 /\ Cardinality(Up \ {e}) \in Nat
      <3>1. IsFiniteSet(Up \ {e}) BY <1>10, FS_RemoveElement
      <3> QED BY <1>10, <3>1, FS_RemoveElement, FS_CardinalityType
    <2>2. CASE fcount[e] = 1
      <3>1. icount' = icount - 1 BY <1>4, <2>2
      <3> QED BY <1>5, <1>10, <1>11, <2>1, <2>2, <3>1
    <2>3. CASE fcount[e] # 1
      <3>1. icount' = icount BY <1>4, <2>3
      <3> QED BY <1>5, <1>10, <1>11, <2>3, <3>1
    <2> QED BY <2>2, <2>3
  <1> HIDE DEF Up
  <1>13. TypeOK'
    <2>1. flag' \in SUBSET {"LOCK", "WANT"} /\ mode' \in SUBSET {"READ", "WRITE"} /\ stolen' \in BOOLEAN
      BY <1>4, <1>5 DEF TypeOK
    <2> QED BY <1>2, <1>6, <1>7, <1>9, <1>12, <2>1 DEF TypeOK
  <1>14. Ends'
    <2>1. ASSUME NEW d \in End PROVE fcount'[d] = Cardinality(Holders(d)')
      <3>1. fcount[d] = Cardinality(Holders(d)) BY DEF Ends
      <3>2. CASE d = e
        <4>1. Holders(d)' = Holders(d) \ {p} /\ p \in Holders(d) BY <1>6, <3>2 DEF Holders
        <4>2. Cardinality(Holders(d) \ {p}) = Cardinality(Holders(d)) - 1
          BY <4>1, HoldersFinite, FS_RemoveElement
        <4> QED BY <1>7, <3>1, <3>2, <4>1, <4>2
      <3>3. CASE d # e
        <4>1. Holders(d)' = Holders(d) BY <1>6, <3>3 DEF Holders
        <4> QED BY <1>7, <3>1, <3>3, <4>1
      <3> QED BY <3>2, <3>3
    <2> HIDE DEF IInv
    <2> QED BY <1>12, <2>1 DEF Ends
  <1>15. OpenOK' BY <1>2, <1>6 DEF OpenOK
  <1>16. SleepOK' BY <1>2, <1>9 DEF SleepOK
  <1>17. LockOK'
    <2>1. Locking' = Locking BY <1>2 DEF Locking
    <2>2. CASE UNCHANGED <<icount, flag, stolen>> BY <2>1, <2>2 DEF LockOK
    <2>3. CASE /\ icount' = icount - 1 /\ flag' = flag \ {"LOCK", "WANT"}
               /\ stolen' = (stolen \/ "LOCK" \in flag)
      <3>1. icount' < 2 /\ "LOCK" \notin flag' BY <1>5, <2>3
      <3>2. ~stolen' => ~stolen /\ "LOCK" \notin flag BY <2>3
      <3>3. ~stolen' => Locking = {} BY <3>2 DEF LockOK
      <3> QED BY <2>1, <3>1, <3>3 DEF LockOK
    <2> QED BY <1>4, <2>2, <2>3
  <1>18. NoLostWakeup'
    <2>1. Locking' = Locking BY <1>2 DEF Locking
    <2>2. ASSUME NEW q \in Proc, chan'[q] = "lock"
          PROVE  {"LOCK", "WANT"} \subseteq flag' /\ Locking # {}
      <3>1. {"LOCK", "WANT"} \subseteq flag /\ Locking # {} /\ chan[q] = "lock"
        BY <1>9, <2>2 DEF NoLostWakeup
      <3>2. CASE Wakeup({"data", "room"} \cup Lockers) BY <1>8, <2>2, <3>1, <3>2 DEF Lockers
      <3>3. CASE UNCHANGED flag BY <3>1, <3>3
      <3> QED BY <1>4, <3>2, <3>3
    <2> QED BY <1>9, <2>1, <2>2 DEF NoLostWakeup
  <1>19. ~stolen' => ~stolen BY <1>4
  <1> QED BY <1>2, <1>13, <1>14, <1>15, <1>16, <1>17, <1>18, <1>19, OpensKeeps DEF stream

(* Both ends are two. *)
LEMMA BothEnds == Cardinality(End) = 2
  <1>1. Cardinality({"r"}) = 1 /\ IsFiniteSet({"r"}) BY FS_Singleton
  <1>2. Cardinality({"r"} \cup {"w"}) = Cardinality({"r"}) + 1 BY <1>1, FS_AddElement
  <1>3. End = {"r"} \cup {"w"} OBVIOUS
  <1> QED BY <1>1, <1>2, <1>3

(* What pipe() leaves behind satisfies the invariant. *)
LEMMA InitHolds == ASSUME Init PROVE IInv
  <1> USE DEF Init
  <1>1. /\ ofile \in [Proc -> SUBSET End] /\ ofile[Shell] = End
        /\ \A p \in Proc \ {Shell} : ofile[p] = {} BY PipeProcAssumption
  <1>2. /\ u \in [Proc -> Registers] /\ \A p \in Proc : u[p].pc = "user"
        /\ chan \in [Proc -> Chan] /\ \A p \in Proc : chan[p] = "none" BY IdleIs
  <1>3. TypeOK
    <2>1. got \in Seq(Nat \ {0}) BY EmptySeq
    <2>2. size \in 0..PIPSIZ /\ roff \in 0..PIPSIZ /\ bytes \in 0..MaxBytes /\ events \in 0..MaxEvents
      BY PipeSizeAssumption
    <2>3. file \in [0..PIPSIZ-1 -> Nat] /\ fcount \in [End -> Nat] OBVIOUS
    <2>4. /\ flag \in SUBSET {"LOCK", "WANT"} /\ mode \in SUBSET {"READ", "WRITE"}
          /\ icount \in 0..2 /\ wrote \in Nat OBVIOUS
    <2>6. stolen \in BOOLEAN OBVIOUS
    <2>5. born \in SUBSET Proc /\ cpu \in Proc \cup {NoProc} BY PipeProcAssumption
    <2> HIDE DEF Init
    <2> QED BY <1>1, <1>2, <2>1, <2>2, <2>3, <2>4, <2>5, <2>6 DEF TypeOK
  <1>4. Ends
    <2>1. ASSUME NEW e \in End PROVE fcount[e] = 1 /\ Cardinality(Holders(e)) = 1
      <3>1. Holders(e) = {Shell} BY <1>1, PipeProcAssumption DEF Holders
      <3> QED BY <3>1, FS_Singleton
    <2>2. {e \in End : fcount[e] > 0} = End BY <2>1
    <2> QED BY <2>1, <2>2, BothEnds DEF Ends
  <1>5. OpenOK /\ SleepOK BY <1>1, <1>2 DEF OpenOK, SleepOK
  <1>6. TransferOK /\ LockOK /\ OffsetOK /\ NoLostWakeup
    BY <1>2 DEF TransferOK, LockOK, OffsetOK, NoLostWakeup, Locking
  <1>7. BytesOK
    <2>1. Place = 0 BY <1>2 DEF Place
    <2>2. Len(got) = 0 BY EmptySeq
    <2> QED BY <2>1, <2>2 DEF BytesOK
  <1> QED BY <1>3, <1>4, <1>5, <1>6, <1>7 DEF IInv

(* A step elsewhere in the system keeps the invariant. *)
LEMMA StutterKeeps == ASSUME IInv, UNCHANGED vars PROVE IInv'
  <1>1. UNCHANGED <<flag, mode, icount, size, roff, fcount, ofile, born, file, u, chan,
                    cpu, wrote, got, stolen, bytes, events>>
    BY DEF vars, inode, open, stream, budget
  <1>2. Aside BY <1>1 DEF Aside, EndsSame, SameTransfers, stream
  <1>3. TypeOK' BY <1>1 DEF IInv, TypeOK
  <1>4. OpenOK' /\ SleepOK' BY <1>1 DEF IInv, OpenOK, SleepOK
  <1>5. NoLostWakeup' BY <1>1 DEF IInv, NoLostWakeup, Locking
  <1> QED BY <1>2, <1>3, <1>4, <1>5, AsideKeeps

(* Every step keeps the invariant. *)
LEMMA NextKeeps == ASSUME IInv, [Next]_vars PROVE IInv'
  <1>1. CASE UNCHANGED vars BY <1>1, StutterKeeps
  <1>2. CASE Next
    <2>1. PICK p \in Proc : Step(p) \/ User(p) \/ Interrupt(p) \/ Sync(p)
                            \/ (\E q \in Proc : Fork(p, q)) BY <1>2 DEF Next
    <2>2. CASE PlockWaits(p) BY <2>2, PlockWaitsKeeps
    <2>3. CASE ReadStep(p)
      BY <2>3, ReadEofKeeps, ReadWaitsKeeps, ReadStartsKeeps, ReadBlockKeeps DEF ReadStep
    <2>4. CASE WriteStep(p)
      BY <2>4, WriteDoneKeeps, WriteBrokenKeeps, WriteFullKeeps, WriteStartsKeeps, WriteBlockKeeps DEF
        WriteStep
    <2>5. CASE Synced(p) BY <2>5, SyncedKeeps
    <2>6. CASE User(p) BY <2>6, ReadKeeps, WriteKeeps, CloseKeeps DEF User
    <2>7. CASE Interrupt(p) BY <2>7, InterruptKeeps
    <2>8. CASE Sync(p) BY <2>8, SyncKeeps
    <2>9. CASE \E q \in Proc : Fork(p, q) BY <2>9, ForkKeeps
    <2> QED BY <2>1, <2>2, <2>3, <2>4, <2>5, <2>6, <2>7, <2>8, <2>9 DEF Step
  <1> QED BY <1>1, <1>2

-------------------------------------------------------------------------------
(* What the invariant gives. *)

(* The inductive invariant holds in every reachable state, for every       *)
(* number of processes, size of pipe and block, and count.                 *)
THEOREM PipeInvariant == Spec => []IInv
  <1>1. Init => IInv BY InitHolds
  <1>2. IInv /\ [Next]_vars => IInv' BY NextKeeps
  <1> QED BY <1>1, <1>2, PTL DEF Spec

(* Every variable keeps its type; the bytes taken are bytes put. *)
THEOREM TypeCorrect == Spec => []TypeOK
  <1>1. IInv => TypeOK BY DEF IInv
  <1> QED BY <1>1, PipeInvariant, PTL

(* f_count and i_count tell who is left (PIPE.C:91-96, 139-149). *)
THEOREM EndsCounted == Spec => []Ends
  <1>1. IInv => Ends BY DEF IInv
  <1> QED BY <1>1, PipeInvariant, PTL

(* Nobody sleeps on a pipe without a waker to come (PIPE.C:86-104,         *)
(* 139-165).                                                               *)
THEOREM WakeupsDue == Spec => []NoLostWakeup
  <1>1. IInv => NoLostWakeup BY DEF IInv
  <1> QED BY <1>1, PipeInvariant, PTL

(* A sequence that counts. *)
LEMMA Counts ==
    ASSUME NEW s \in Seq(Nat), NEW n \in Nat, Len(s) = n, \A i \in 1..n : s[i] = i
    PROVE  s = [i \in 1..n |-> i]
  <1>1. s = [i \in 1..n |-> s[i]]
    <2>1. DOMAIN s = 1..n BY LenProperties
    <2>2. s = [i \in DOMAIN s |-> s[i]] BY SeqDef
    <2> QED BY <2>1, <2>2
  <1> QED BY <1>1

(* The next byte's place is inside the file. *)
LEMMA PlaceInFile ==
    ASSUME IInv, ~stolen PROVE Place \in Nat /\ Place <= size /\ size \in 0..PIPSIZ
  <1>1. size \in 0..PIPSIZ /\ roff \in Nat /\ PIPSIZ \in Nat
    BY PipeSizeAssumption DEF IInv, TypeOK
  <1>2. CASE \E p \in Proc : u[p].pc = "read"
    <2>1. PICK p \in Proc : u[p].pc = "read" BY <1>2
    <2>2. Place = u[p].off BY <2>1, PlaceIs DEF IInv
    <2>3. u[p] \in Registers BY DEF IInv, TypeOK
    <2>4. u[p].off \in Nat /\ u[p].n \in Nat BY <2>3, PipeSizeAssumption DEF Registers
    <2>5. u[p].off + u[p].n <= size BY <2>1 DEF IInv, OffsetOK
    <2> QED BY <1>1, <2>2, <2>4, <2>5
  <1>3. CASE ~ \E p \in Proc : u[p].pc = "read"
    <2>1. Place = roff BY <1>3, PlaceIs DEF IInv
    <2> QED BY <1>1, <2>1 DEF IInv, OffsetOK
  <1> QED BY <1>2, <1>3

(* Fifo is the invariant's BytesOK in one equation. *)
LEMMA FifoHolds == ASSUME IInv PROVE Fifo
  <1> SUFFICES ASSUME ~stolen
               PROVE  got \o [i \in 1 .. size - Place |-> file[Place + i - 1]]
                      = [i \in 1..wrote |-> i] BY DEF Fifo
  <1> DEFINE pl == Place
             k == size - pl
             t == got \o [i \in 1..k |-> file[pl + i - 1]]
  <1>1. pl \in Nat /\ pl <= size /\ size \in Nat /\ size <= PIPSIZ /\ PIPSIZ \in Nat
    BY PlaceInFile, PipeSizeAssumption
  <1>2. /\ Len(got) + size - pl = wrote
        /\ \A i \in 1..Len(got) : got[i] = i
        /\ \A i \in pl..size-1 : file[i] = Len(got) + 1 + i - pl BY DEF IInv, BytesOK
  <1>3. got \in Seq(Nat \ {0}) /\ wrote \in Nat /\ \A i \in 0..PIPSIZ-1 : file[i] \in Nat
    BY DEF IInv, TypeOK
  <1> HIDE DEF pl
  <1>4. k \in Nat /\ Len(got) \in Nat /\ got \in Seq(Nat)
    BY <1>1, <1>3, LenProperties, SeqDef
  <1>5. k = size - pl OBVIOUS
  <1> HIDE DEF k
  <1>6. \A i \in 1..k : file[pl + i - 1] \in Nat BY <1>1, <1>3, <1>4, <1>5
  <1>7. /\ t \in Seq(Nat) /\ Len(t) = Len(got) + k
        /\ \A i \in 1..Len(got) : t[i] = got[i]
        /\ \A i \in Len(got) + 1 .. Len(got) + k : t[i] = file[pl + i - Len(got) - 1]
    BY <1>1, <1>4, <1>6, Taken
  <1> HIDE DEF t
  <1>8. Len(t) = wrote BY <1>1, <1>2, <1>4, <1>5, <1>7
  <1>9. ASSUME NEW i \in 1..wrote PROVE t[i] = i
    <2>1. CASE i <= Len(got) BY <1>2, <1>3, <1>4, <1>7, <2>1
    <2>2. CASE ~(i <= Len(got))
      <3>1. /\ pl + i - Len(got) - 1 \in pl..size-1
            /\ i \in Len(got) + 1 .. Len(got) + k BY <1>1, <1>2, <1>3, <1>4, <1>5, <2>2
      <3>2. t[i] = file[pl + i - Len(got) - 1] BY <1>7, <3>1
      <3>3. file[pl + i - Len(got) - 1] = Len(got) + 1 + (pl + i - Len(got) - 1) - pl
        BY <1>2, <3>1
      <3> QED BY <1>1, <1>4, <3>2, <3>3
    <2> QED BY <2>1, <2>2
  <1>10. t = [i \in 1..wrote |-> i] BY <1>3, <1>7, <1>8, <1>9, Counts
  <1> QED BY <1>10 DEF t, k, pl

(* Bytes come out once and in the order they went in, over resets, faults  *)
(* and signals, unless a last close has dropped somebody's lock.           *)
THEOREM BytesInOrder == Spec => []Fifo
  <1>1. IInv => Fifo BY FifoHolds
  <1> QED BY <1>1, PipeInvariant, PTL

(* One open end is the whole of i_count when the other has no holder. *)
LEMMA OtherShut ==
    ASSUME IInv, icount < 2, NEW p \in Proc, NEW e \in End, NEW d \in End, d # e,
           e \in ofile[p] PROVE Holders(d) = {}
  <1> SUFFICES ASSUME NEW q \in Holders(d) PROVE FALSE OBVIOUS
  <1>1. q \in Proc /\ d \in ofile[q] BY DEF Holders
  <1>2. fcount[e] > 0 /\ fcount[d] > 0
    <2>1. fcount[e] \in Nat /\ fcount[e] >= 1 BY HeldCounted DEF IInv
    <2>2. fcount[d] \in Nat /\ fcount[d] >= 1 BY <1>1, HeldCounted DEF IInv
    <2> QED BY <2>1, <2>2
  <1>3. {c \in End : fcount[c] > 0} = End BY <1>2
  <1>4. icount = 2 BY <1>3, BothEnds DEF IInv, Ends
  <1> QED BY <1>4

(* End of file: the writers are gone and everything has been read. *)
LEMMA EofMeansGone ==
    ASSUME IInv, NEW p \in Proc, ReadEof(p)
    PROVE  Holders("w") = {} /\ (~stolen => got = [i \in 1..wrote |-> i])
  <1>1. u[p].pc = "rloop" /\ "LOCK" \notin flag /\ roff = size /\ icount < 2
    BY DEF ReadEof, At
  <1>2. Holders("w") = {} BY <1>1, OtherShut DEF IInv, OpenOK
  <1>3. ASSUME ~stolen PROVE got = [i \in 1..wrote |-> i]
    <2>1. Place = roff BY <1>1, <1>3, PlaceIs DEF IInv, LockOK, Locking
    <2>2. size \in Nat /\ got \in Seq(Nat) /\ wrote \in Nat /\ Len(got) \in Nat
      BY <1>3, PipeSizeAssumption, SeqDef, LenProperties DEF IInv, TypeOK
    <2>3. Len(got) = wrote /\ \A i \in 1..Len(got) : got[i] = i
      BY <1>1, <1>3, <2>1, <2>2 DEF IInv, BytesOK
    <2> QED BY <2>2, <2>3, Counts
  <1> QED BY <1>2, <1>3

(* A broken pipe: the readers are gone. *)
LEMMA BrokenMeansGone ==
    ASSUME IInv, NEW p \in Proc, WriteBroken(p) PROVE Holders("r") = {}
  <1>1. u[p].pc = "wloop" /\ icount < 2 BY DEF WriteBroken, At
  <1> QED BY <1>1, OtherShut DEF IInv, OpenOK

(* End of file and a broken pipe are reported only when they are true      *)
(* (PIPE.C:91-96, 139-149).                                                *)
THEOREM PeerIsGone == Spec => PeerGone
  <1>1. IInv /\ [Next]_vars =>
          [\A p \in Proc :
             /\ ReadEof(p) => /\ Holders("w") = {}
                              /\ ~stolen => got = [i \in 1..wrote |-> i]
             /\ WriteBroken(p) => Holders("r") = {}]_vars BY EofMeansGone, BrokenMeansGone
  <1> QED BY <1>1, PipeInvariant, PTL DEF Spec, PeerGone
===============================================================================
