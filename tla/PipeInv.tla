--------------------------------- MODULE PipeInv ---------------------------------
(* What a pipe promises. *)
EXTENDS Pipe

Registers == [pc : Label, cnt : 0..MaxCount, c : 0..MaxCount,
              off : 0..PIPSIZ, n : 0..MaxCount, err : BOOLEAN]
TypeOK ==
    /\ flag \in SUBSET {"LOCK", "WANT"} /\ mode \in SUBSET {"READ", "WRITE"}
    /\ icount \in 0..2
    /\ size \in 0..PIPSIZ /\ roff \in 0..PIPSIZ
    /\ fcount \in [End -> Nat]
    /\ ofile \in [Proc -> SUBSET End]
    /\ born \in SUBSET Proc
    /\ file \in [0..PIPSIZ-1 -> Nat]
    /\ u \in [Proc -> Registers]
    /\ chan \in [Proc -> Chan]
    /\ cpu \in Proc \cup {NoProc}
    /\ wrote \in Nat
    /\ got \in Seq(Nat \ {0})
    /\ stolen \in BOOLEAN
    /\ bytes \in 0..MaxBytes /\ events \in 0..MaxEvents

Holders(e) == {p \in Proc : e \in ofile[p]}
Locking == {p \in Proc : u[p].pc \in {"read", "write", "sync"}}

(* An end's f_count is the number of processes that have it open, and      *)
(* i_count the number of open ends: readp and writep take i_count < 2 to   *)
(* mean that the other side is gone (PIPE.C:91-96, 139-149).               *)
Ends ==
    /\ \A e \in End : fcount[e] = Cardinality(Holders(e))
    /\ icount = Cardinality({e \in End : fcount[e] > 0})

(* Nobody sleeps without a waker: for data only while the pipe is empty or *)
(* a writer is inside with IREAD to see, for room only while it is full    *)
(* and IWRITE is set, both only while the other side is open; for the lock *)
(* only while someone holds it who will see IWANT.                         *)
NoLostWakeup ==
    \A p \in Proc :
       /\ chan[p] = "data" =>
             /\ "READ" \in mode /\ icount = 2
             /\ roff = size \/ \E q \in Proc : u[q].pc = "write"
       /\ chan[p] = "room" => "WRITE" \in mode /\ icount = 2 /\ size = PIPSIZ
       /\ chan[p] = "lock" => {"LOCK", "WANT"} \subseteq flag /\ Locking # {}

(* Where the next byte comes from: a reader's own place while it reads. *)
Place == IF \E p \in Proc : u[p].pc = "read"
         THEN u[CHOOSE p \in Proc : u[p].pc = "read"].off ELSE roff

(* Every byte comes out once and in order: what was taken, followed by     *)
(* what the file still holds, is what was put in - over all resets of the  *)
(* two offsets (PIPE.C:75-85), faults and signals, as long as no last      *)
(* close has unlocked the pipe under another process.                      *)
Fifo ==
    ~stolen => got \o [i \in 1 .. size - Place |-> file[Place + i - 1]]
               = [i \in 1..wrote |-> i]

(* i_count < 2 is taken for the other side's end, and it is: end of file   *)
(* comes when nobody can write any more and all that was written has been  *)
(* read (PIPE.C:91-96), a broken pipe when nobody can read (139-149).      *)
PeerGone ==
    [][\A p \in Proc :
          /\ ReadEof(p) => /\ Holders("w") = {}
                           /\ ~stolen => got = [i \in 1..wrote |-> i]
          /\ WriteBroken(p) => Holders("r") = {}]_vars

-------------------------------------------------------------------------------
(* The inductive invariant behind them.                                    *)

(* Who has an end open was forked; who reads or writes has his end open.   *)
OpenOK ==
    /\ \A p \in Proc : ofile[p] # {} => p \in born
    /\ \A p \in Proc : u[p].pc \in {"rloop", "read"} => "r" \in ofile[p]
    /\ \A p \in Proc : u[p].pc \in {"wloop", "write"} => "w" \in ofile[p]

(* Nobody sleeps but in readp or writep, for what it waits for there.      *)
SleepOK ==
    \A p \in Proc :
       /\ chan[p] = "data" => u[p].pc = "rloop"
       /\ chan[p] = "room" => u[p].pc = "wloop"
       /\ chan[p] = "lock" => u[p].pc \in {"rloop", "wloop"}

(* A transfer stays inside the file, and nothing is read that was not      *)
(* written: true even of those whose lock was stolen.                      *)
TransferOK ==
    /\ \A i \in 0..size-1 : file[i] # 0
    /\ \A p \in Proc : u[p].pc \in {"read", "write"} => u[p].n <= u[p].cnt
    /\ \A p \in Proc : u[p].pc = "read" =>
          /\ u[p].off + u[p].n <= PIPSIZ
          /\ \A i \in 0 .. u[p].off + u[p].n - 1 : file[i] # 0
    /\ \A p \in Proc : u[p].pc = "write" =>
          /\ u[p].off + u[p].cnt <= PIPSIZ
          /\ \A i \in 0 .. u[p].off - 1 : file[i] # 0

(* The lock excludes until a last close takes it away; then an end is shut *)
(* for ever.                                                               *)
LockOK ==
    /\ "LOCK" \in flag => Locking # {}
    /\ stolen => icount < 2
    /\ ~stolen => /\ Locking # {} => "LOCK" \in flag
                  /\ \A p, q \in Locking : p = q

(* Where the one who holds the lock is in the file.                        *)
OffsetOK ==
    ~stolen =>
       /\ roff <= size
       /\ \A p \in Proc : u[p].pc = "read" => roff <= u[p].off /\ u[p].off + u[p].n <= size /\ roff < size
       /\ \A p \in Proc : u[p].pc = "write" => u[p].off = size

(* Fifo, byte by byte.                                                     *)
BytesOK ==
    ~stolen =>
       /\ Len(got) + size - Place = wrote
       /\ \A i \in 1..Len(got) : got[i] = i
       /\ \A i \in Place..size-1 : file[i] = Len(got) + 1 + i - Place

IInv == TypeOK /\ Ends /\ OpenOK /\ SleepOK /\ TransferOK /\ LockOK
        /\ NoLostWakeup /\ OffsetOK /\ BytesOK

-------------------------------------------------------------------------------
InCall(p) == u[p].pc # "user"

(* Those whom p waits for: who has the other end open. *)
Peers(p) == Holders(IF u[p].pc = "rloop" THEN "w" ELSE "r")

Stuck(p) ==
    /\ u[p].pc \in {"rloop", "wloop"}
    /\ Peers(p) # {}
    /\ \A q \in Peers(p) : chan[q] # "none"

(* A read, a write or a sync ends, unless the other end is open and all    *)
(* who have it are asleep for ever themselves (a process may wait for data *)
(* only it could write): no order of reads, writes, closes and signals     *)
(* leaves a sleeper whom a live peer has passed by.                        *)
CallsEnd == \A p \in Proc : <>[]InCall(p) => <>[]Stuck(p)
===============================================================================
