---------------------------- MODULE BufferCacheInv ----------------------------
(***************************************************************************)
(* What is claimed of the buffer cache: its safety invariants, its liveness *)
(* and the mapping under which it implements BlockStore.                    *)
(***************************************************************************)
EXTENDS BufferCache

CacheTypeOK ==
    /\ flags \in [Buf -> SUBSET Flag]
    /\ id \in [Buf -> Block \cup {NoBlk}]
    /\ data \in [Buf -> Val]
    /\ avail \in Seq(Buf)
    /\ freeWanted \in BOOLEAN
    /\ queue \in Seq(Buf)
    /\ active \in BOOLEAN
    /\ disk \in [Medium -> Val]

ProcTypeOK ==
    /\ pc \in [Proc -> Label]
    /\ op \in [Proc -> Op]
    /\ blk \in [Proc -> Block \cup {NoBlk}]
    /\ ra \in [Proc -> Block \cup {NoBlk}]
    /\ bp \in [Proc -> Buf \cup {NoBuf}]
    /\ first \in [Proc -> Buf \cup {NoBuf}]
    /\ chan \in [Proc -> Buf \cup {FreeList, NoChan}]
    /\ cpu \in Proc \cup {NoProc}
    /\ alone \in BOOLEAN

(* Every variable has its type: no register leaves the pool (reboot's scan *)
(* stops at the last buffer), no flag word has an unknown bit.             *)
TypeOK == CacheTypeOK /\ ProcTypeOK

(* The buffers a process must give back (reboot's loop variable is none). *)
Owned(p) ==
    (IF pc[p] = "drain" THEN {first[p]} ELSE {bp[p], first[p]}) \ {NoBuf}

(* BUF.H: a buffer is on the available list if and only if it is not BUSY, *)
(* and it is there once, so getblk can never hand out a buffer in use.     *)
FreeListExact ==
    /\ IsInjective(avail)
    /\ \A x \in Buf : x \in Range(avail) <=> "BUSY" \notin flags[x]

(* The driver's queue, linked through the same pointers as the free list,  *)
(* holds only busy buffers whose transfer is not done, each of them once,  *)
(* and the drive works if and only if there is something on it: rkintr     *)
(* finds a buffer, and no queued transfer was left unstarted.              *)
QueueExact ==
    /\ IsInjective(queue)
    /\ \A x \in Range(queue) :
          /\ "BUSY" \in flags[x] /\ "DONE" \notin flags[x]
          /\ id[x] \in RkBlk
    /\ active <=> queue # <<>>

(* A busy buffer has exactly one owner: one process, or the driver alone   *)
(* when the transfer is asynchronous and iodone will release it.           *)
Exclusive ==
    /\ \A p, q \in Proc : p # q => Owned(p) \cap Owned(q) = {}
    /\ \A p \in Proc : bp[p] # NoBuf => bp[p] # first[p]
    /\ \A x \in Buf :
          "BUSY" \in flags[x] <=>
              "ASYNC" \in flags[x] \/ \E p \in Proc : x \in Owned(p)
    /\ \A x \in Buf :
          "ASYNC" \in flags[x] =>
              x \in Range(queue) /\ \A p \in Proc : x \notin Owned(p)

(* At most one buffer is associated with a block: two would be two caches  *)
(* of the same data.                                                       *)
NoAlias == \A x, y \in Buf : id[x] = id[y] /\ id[x] # NoBlk => x = y

(* Nobody sleeps on something that will not wake him: on a busy buffer     *)
(* somebody marked WANTED, on a transfer in the driver's hands, or on an   *)
(* empty free list marked WANTED.                                          *)
NoLostWakeup ==
    \A p \in Proc :
        /\ chan[p] = FreeList => freeWanted /\ avail = <<>>
        /\ chan[p] \in Buf =>
              LET f == flags[chan[p]] IN
              \/ pc[p] \in {"getblk", "drain"} /\ {"BUSY", "WANTED"} \subseteq f
              \/ /\ pc[p] \in {"iowait", "wwait"} /\ chan[p] = bp[p]
                 /\ chan[p] \in Range(queue) /\ "ASYNC" \notin f

(* A buffer with valid contents that is not marked for writing agrees with *)
(* the medium: no write the cache has accepted can be forgotten when the   *)
(* buffer is reassigned, and a bwrite that returned is on the disk.        *)
Coherent ==
    \A x \in Buf :
        /\ id[x] \in Medium /\ "DONE" \in flags[x]
        /\ flags[x] \cap {"ERROR", "DELWRI"} = {}
        => data[x] = disk[id[x]]

(* What the program counter says of the registers. *)
RegistersOK ==
    \A p \in Proc :
        /\ pc[p] \in {"got", "iowait", "hold", "wwait", "drain"} <=> bp[p] # NoBuf
        /\ first[p] # NoBuf =>
              \/ pc[p] \in {"ahead", "join"}
              \/ pc[p] \in {"getblk", "got"} /\ op[p] = "rahead"
        /\ chan[p] # NoChan => pc[p] \in {"getblk", "iowait", "wwait", "drain"}

(* The transfers processes wait for are in the driver's hands; a buffer    *)
(* that may still be handed to the driver is not.                          *)
TransfersOK ==
    \A p \in Proc :
        /\ pc[p] \in {"iowait", "wwait"} /\ "DONE" \notin flags[bp[p]]
              => bp[p] \in Range(queue)
        /\ first[p] # NoBuf /\ "DONE" \notin flags[first[p]]
              => first[p] \in Range(queue)
        /\ pc[p] \in {"got", "hold"} => bp[p] \notin Range(queue)

(* The inductive invariant: what it says of the buffers, of the processes. *)
CacheOK == CacheTypeOK /\ FreeListExact /\ QueueExact /\ NoAlias /\ Coherent
ProcOK == ProcTypeOK /\ RegistersOK /\ Exclusive /\ TransfersOK /\ NoLostWakeup
IInv == CacheOK /\ ProcOK

(* A delayed write has its data, and its block unless its read had failed; *)
(* an error leaves the block with its holder, and never a queued transfer. *)
MarkOK(x) ==
    /\ "DELWRI" \in flags[x] => "DONE" \in flags[x] /\ ("ERROR" \in flags[x] <=> id[x] = NoBlk)
    /\ "ERROR" \in flags[x] => "BUSY" \in flags[x] \/ id[x] = NoBlk
    /\ x \in Range(queue) => "ERROR" \notin flags[x]
MarksOK ==
    /\ \A x \in Buf : MarkOK(x)
    /\ \A p \in Proc : pc[p] = "got" => "ERROR" \notin flags[bp[p]]

(* How far a reboot with the kernel to itself has come: nothing is left    *)
(* delayed, then the buffers are out of flight one by one.                 *)
RebootOK ==
    alone => \E r \in Proc :
        /\ op[r] = "reboot" /\ pc[r] \in {"flush", "drain", "halted"}
        /\ \A q \in Proc \ {r} : pc[q] = "user"
        /\ pc[r] # "flush" => \A x \in Buf : "DELWRI" \notin flags[x]
        /\ pc[r] = "drain" => \A x \in 1 .. bp[r] - 1 : "ASYNC" \notin flags[x]
        /\ pc[r] = "halted" => cpu = r /\ \A x \in Buf : "ASYNC" \notin flags[x]

----
(* The value of a block, wherever it is. *)

Valid(x) ==
    /\ "ERROR" \notin flags[x]
    /\ "DONE" \in flags[x] \/ (x \in Range(queue) /\ "READ" \notin flags[x])

Store == [b \in Medium |->
            IF \E x \in Incore(b) : Valid(x)
            THEN data[CHOOSE x \in Incore(b) : Valid(x)]
            ELSE disk[b]]

Owner == [b \in Medium |->
            IF \E p \in Proc : \E x \in Owned(p) : id[x] = b
            THEN CHOOSE p \in Proc : \E x \in Owned(p) : id[x] = b
            ELSE NoProc]

Halted == \E p \in Proc : pc[p] = "halted"

(* reboot (SYS4.C) promises that every delayed write reaches the disk      *)
(* before the reset, as long as nothing else is in the kernel: at the      *)
(* reset the rk disk holds the current value of each of its blocks.        *)
RebootSaves ==
    alone /\ Halted =>
        \A b \in RkBlk : disk[b] = Store[b]

BS == INSTANCE BlockStore WITH
        Block <- Medium, Fallible <- FdBlk,
        store <- Store, durable <- disk, owner <- Owner

(* The cache and its drivers implement one register per block. *)
RefinesBlockStore == BS!Spec

(* Whoever sleeps is woken, whatever the others do, unless the machine is  *)
(* reset first.                                                            *)
SleeperWakes == \A p \in Proc : chan[p] # NoChan ~> chan[p] = NoChan \/ Halted

(* reboot gets to the reset when nothing else enters the kernel: none of   *)
(* the buffers it waits for stays in flight.                               *)
RebootFinishes ==
    \A p \in Proc :
        (op[p] = "reboot" /\ alone) ~> (pc[p] = "halted" \/ ~alone)

(* What the comment on incore says it is for ("mainly to avoid getting     *)
(* hung up on a wait in breada"): a process whose read-ahead waits in      *)
(* getblk, holding its own block, always gets on.                          *)
ReadAheadNeverHangs ==
    \A p \in Proc :
        (op[p] = "rahead" /\ chan[p] # NoChan) ~> (op[p] # "rahead" \/ Halted)
====
