--------------------------- MODULE BufferCacheProofs ---------------------------
(***************************************************************************)
(* The inductive invariant of the buffer cache, for any pool, any number   *)
(* of processes and any devices.  First what the shared routines do to the *)
(* buffers, in terms of sets; then what their users may assume of the      *)
(* buffer they pass; then one lemma per action.                            *)
(***************************************************************************)
EXTENDS BufferCacheInv, ChainLemmas

----
(* The outcomes of handing buffer x with flags f to a routine that finds   *)
(* av on the free list.                                                    *)

Errors == {{}, {"ERROR"}}

(* x is on the driver's queue. *)
HandedOver(x, f, av) ==
    /\ flags' = [flags EXCEPT ![x] = f]
    /\ IsChain(queue', Buf) /\ Range(queue') = Range(queue) \cup {x}
    /\ active' = TRUE /\ queue' # <<>>
    /\ id[x] \in RkBlk
    /\ avail' = av
    /\ data' \in [Buf -> Val]
    /\ \A y \in Buf \ {x} : data'[y] = data[y]
    /\ UNCHANGED <<id, freeWanted, chan, disk>>

(* x is done, with error or without, and still its owner's. *)
Completed(x, f, av, e) ==
    /\ "ASYNC" \notin f
    /\ flags' = [flags EXCEPT ![x] = (f \cup e \cup {"DONE"}) \ {"WANTED"}]
    /\ avail' = av
    /\ Wakeup({x})
    /\ UNCHANGED <<id, freeWanted>>

(* x is on the free list. *)
Freed(x, f, av) ==
    /\ flags' = [flags EXCEPT ![x] = f \ {"WANTED", "BUSY", "ASYNC"}]
    /\ id' = [id EXCEPT ![x] = IF "ERROR" \in f THEN NoBlk ELSE @]
    /\ IsChain(avail', Buf) /\ Range(avail') = Range(av) \cup {x}
    /\ freeWanted' = FALSE
    /\ Wakeup((IF "WANTED" \in f THEN {x} ELSE {})
                \cup (IF freeWanted THEN {FreeList} ELSE {}))

(* The transfer is over: nothing but x and its block has changed, and they *)
(* agree unless the device reported an error.                              *)
Moved(x, e) ==
    /\ data' \in [Buf -> Val] /\ disk' \in [Medium -> Val]
    /\ \A y \in Buf \ {x} : data'[y] = data[y]
    /\ \A b \in Medium \ {id[x]} : disk'[b] = disk[b]
    /\ e = {} => data'[x] = disk'[id[x]]

(* brelse puts the buffer on the free list, whatever its flags.            *)
LEMMA BrelseFrees ==
    ASSUME NEW x \in Buf, NEW f, NEW av, IsChain(av, Buf), x \notin Range(av),
           Brelse(x, f, av) PROVE Freed(x, f, av) BY ChainAppend DEF Brelse, Freed

(* A transfer makes the buffer and its block agree and touches no other.   *)
LEMMA TransferMoves ==
    ASSUME CacheTypeOK, NEW x \in Buf, NEW f, NEW v \in Val, id[x] \in Medium,
           Transfer(x, f, v) PROVE Moved(x, {}) BY DEF Transfer, Moved, CacheTypeOK

(* iodone releases an asynchronous buffer and completes any other.         *)
LEMMA IodoneOutcome ==
    ASSUME NEW x \in Buf, NEW f, NEW av, NEW e \in Errors,
           IsChain(av, Buf), x \notin Range(av), Iodone(x, f \cup e, av)
    PROVE  \/ Completed(x, f, av, e)
           \/ "ASYNC" \in f /\ Freed(x, f \cup e \cup {"DONE"}, av)
  <1>1. "ASYNC" \in f \cup e <=> "ASYNC" \in f BY DEF Errors
  <1>2. CASE "ASYNC" \in f
    <2>1. Brelse(x, f \cup e \cup {"DONE"}, av) BY <1>1, <1>2 DEF Iodone
    <2> QED BY <1>2, <2>1, BrelseFrees
  <1>3. CASE "ASYNC" \notin f BY <1>1, <1>3 DEF Iodone, Completed
  <1> QED BY <1>2, <1>3

(* A strategy routine queues the buffer, or finishes with it at once.      *)
LEMMA StrategyOutcome ==
    ASSUME CacheTypeOK, NEW x \in Buf, NEW f, NEW av, NEW v \in Val,
           IsChain(av, Buf), x \notin Range(av),
           IsChain(queue, Buf), x \notin Range(queue),
           Strategy(x, f, av, v)
    PROVE  \/ HandedOver(x, f, av)
           \/ \E e \in Errors :
                 /\ \/ Completed(x, f, av, e)
                    \/ "ASYNC" \in f /\ Freed(x, f \cup e \cup {"DONE"}, av)
                 /\ Moved(x, e)
                 /\ UNCHANGED <<queue, active>>
  <1>1. CASE RkStrategy(x, f, av, v)
    <2>1. queue' = Append(queue, x) BY <1>1 DEF RkStrategy
    <2>2. /\ IsChain(queue', Buf) /\ Range(queue') = Range(queue) \cup {x}
          /\ queue' # <<>> BY <2>1, ChainAppend
    <2>3. HandedOver(x, f, av) BY <1>1, <2>2 DEF RkStrategy, HandedOver, CacheTypeOK
    <2> QED BY <2>3
  <1>2. CASE FailStrategy(x, f, av, v)
    <2>1. {"ERROR"} \in Errors /\ {"ERROR"} # {} BY DEF Errors
    <2>2. Iodone(x, f \cup {"ERROR"}, av) /\ UNCHANGED <<queue, active, disk>>
          /\ data' = [data EXCEPT ![x] = v] BY <1>2 DEF FailStrategy, device
    <2>3. Moved(x, {"ERROR"}) BY <2>1, <2>2 DEF Moved, CacheTypeOK
    <2> QED BY <2>1, <2>2, <2>3, IodoneOutcome
  <1>3. CASE FdStrategy(x, f, av, v)
    <2>1. {} \in Errors /\ f \cup {} = f BY DEF Errors
    <2>2. /\ id[x] \in Medium /\ Transfer(x, f, v)
          /\ Iodone(x, f, av) /\ UNCHANGED <<queue, active>> BY <1>3 DEF FdStrategy, Medium
    <2>3. Moved(x, {}) BY <2>2, TransferMoves
    <2> QED BY <2>1, <2>2, <2>3, IodoneOutcome
  <1> QED BY <1>1, <1>2, <1>3 DEF Strategy

----
(* Each outcome keeps the buffers in order. *)

(* The free list the routine found is the real one without x. *)
FreeBut(av, x) == IsChain(av, Buf) /\ Range(av) = Range(avail) \ {x}

(* x has left the driver's queue, if it was there. *)
Dequeued(x) ==
    /\ IsChain(queue', Buf) /\ Range(queue') = Range(queue) \ {x}
    /\ active' \in BOOLEAN /\ (active' <=> queue' # <<>>)

(* Queueing a busy buffer keeps the buffers in order.                      *)
LEMMA HandedOverKeepsCache ==
    ASSUME CacheOK, NEW x \in Buf, NEW f \in SUBSET Flag, NEW av, FreeBut(av, x),
           "BUSY" \in f, "DONE" \notin f, HandedOver(x, f, av) PROVE CacheOK'
  <1> USE DEF CacheOK, HandedOver, FreeBut
  <1>1. CacheTypeOK' BY DEF CacheTypeOK, IsChain
  <1>2. FreeListExact' BY DEF CacheTypeOK, FreeListExact, IsChain
  <1>3. QueueExact' BY DEF CacheTypeOK, QueueExact, IsChain
  <1>4. NoAlias' /\ Coherent' BY DEF CacheTypeOK, NoAlias, Coherent
  <1> QED BY <1>1, <1>2, <1>3, <1>4

(* Completing a transfer keeps the buffers in order.                       *)
LEMMA CompletedKeepsCache ==
    ASSUME CacheOK, NEW x \in Buf, NEW f \in SUBSET Flag, NEW av, FreeBut(av, x),
           NEW e \in Errors, "BUSY" \in f, Completed(x, f, av, e), Moved(x, e), Dequeued(x) PROVE CacheOK'
  <1> USE DEF CacheOK, Completed, FreeBut, Moved, Dequeued
  <1>1. e \subseteq {"ERROR"} /\ {"ERROR", "DONE"} \subseteq Flag BY DEF Errors, Flag
  <1>2. CacheTypeOK' BY <1>1 DEF CacheTypeOK, IsChain
  <1>3. FreeListExact' BY <1>1 DEF CacheTypeOK, FreeListExact, IsChain
  <1>4. QueueExact' BY <1>1 DEF CacheTypeOK, QueueExact, IsChain
  <1>5. NoAlias' BY DEF NoAlias
  <1>6. Coherent'
    <2> SUFFICES ASSUME NEW y \in Buf, id[y] \in Medium, "DONE" \in flags'[y],
                        "ERROR" \notin flags'[y], "DELWRI" \notin flags'[y]
                 PROVE  data'[y] = disk'[id[y]] BY DEF Coherent
    <2>1. CASE y = x BY <2>1, <1>1 DEF CacheTypeOK, Errors
    <2>2. CASE y # x
      <3>1. id[y] # id[x] BY <2>2, BlockAssumption DEF NoAlias, Medium, Block
      <3> QED BY <2>2, <3>1 DEF CacheTypeOK, Coherent
    <2> QED BY <2>1, <2>2
  <1> QED BY <1>2, <1>3, <1>4, <1>5, <1>6

(* Releasing a buffer that agrees with its block keeps them in order.      *)
LEMMA FreedKeepsCache ==
    ASSUME CacheOK, NEW x \in Buf, NEW f \in SUBSET Flag, NEW av, FreeBut(av, x),
           Freed(x, f, av), Dequeued(x),
           data' \in [Buf -> Val], disk' \in [Medium -> Val],
           \A y \in Buf \ {x} : data'[y] = data[y],
           \A b \in Medium \ {id[x]} : disk'[b] = disk[b],
           id[x] \in Medium /\ "DONE" \in f /\ f \cap {"ERROR", "DELWRI"} = {}
              => data'[x] = disk'[id[x]] PROVE CacheOK'
  <1> USE DEF CacheOK, Freed, FreeBut, Dequeued
  <1>1. CacheTypeOK' BY DEF CacheTypeOK, IsChain
  <1>2. FreeListExact' BY DEF CacheTypeOK, FreeListExact, IsChain
  <1>3. QueueExact' BY DEF CacheTypeOK, QueueExact, IsChain
  <1>4. NoAlias' BY DEF CacheTypeOK, NoAlias
  <1>5. Coherent'
    <2> SUFFICES ASSUME NEW y \in Buf, id'[y] \in Medium, "DONE" \in flags'[y],
                        "ERROR" \notin flags'[y], "DELWRI" \notin flags'[y]
                 PROVE  data'[y] = disk'[id'[y]] BY DEF Coherent
    <2>0. id'[y] # NoBlk BY BlockAssumption DEF Medium, Block
    <2>1. CASE y = x BY <2>0, <2>1 DEF CacheTypeOK
    <2>2. CASE y # x
      <3>1. id'[y] = id[y] /\ id[y] # id[x] BY <2>0, <2>2 DEF CacheTypeOK, NoAlias
      <3> QED BY <2>2, <3>1 DEF CacheTypeOK, Coherent
    <2> QED BY <2>1, <2>2
  <1> QED BY <1>1, <1>2, <1>3, <1>4, <1>5


(* Any driver, any outcome: the buffers stay in order.                     *)
LEMMA StrategyKeepsCache ==
    ASSUME CacheOK, NEW x \in Buf, NEW f \in SUBSET Flag, NEW av, FreeBut(av, x),
           NEW v \in Val, x \notin Range(queue), "BUSY" \in f, "DONE" \notin f,
           Strategy(x, f, av, v) PROVE CacheOK'
  <1>1. /\ CacheTypeOK /\ IsChain(queue, Buf)
        /\ IsChain(av, Buf) /\ x \notin Range(av) BY DEF CacheOK, CacheTypeOK, QueueExact, FreeBut, IsChain
  <1>2. CASE HandedOver(x, f, av) BY <1>2, HandedOverKeepsCache
  <1>3. ASSUME NEW e \in Errors, Moved(x, e), UNCHANGED <<queue, active>>,
               Completed(x, f, av, e) \/ Freed(x, f \cup e \cup {"DONE"}, av) PROVE CacheOK'
    <2>1. Dequeued(x) BY <1>1, <1>3 DEF Dequeued, CacheOK, CacheTypeOK, QueueExact
    <2>2. f \cup e \cup {"DONE"} \in SUBSET Flag BY DEF Errors, Flag
    <2>3. CASE Completed(x, f, av, e) BY <1>3, <2>1, <2>3, CompletedKeepsCache
    <2>4. CASE Freed(x, f \cup e \cup {"DONE"}, av)
      <3>1. (f \cup e \cup {"DONE"}) \cap {"ERROR", "DELWRI"} = {} => e = {} BY DEF Errors
      <3>2. /\ data' \in [Buf -> Val] /\ disk' \in [Medium -> Val]
            /\ \A y \in Buf \ {x} : data'[y] = data[y]
            /\ \A b \in Medium \ {id[x]} : disk'[b] = disk[b]
            /\ e = {} => data'[x] = disk'[id[x]] BY <1>3 DEF Moved
      <3> QED BY <2>1, <2>2, <2>4, <3>1, <3>2, FreedKeepsCache
    <2> QED BY <1>3, <2>3, <2>4
  <1> QED BY <1>1, <1>2, <1>3, StrategyOutcome

(* So does a release by a process.                                         *)
LEMMA BrelseKeepsCache ==
    ASSUME CacheOK, NEW x \in Buf, NEW f \in SUBSET Flag, NEW av, FreeBut(av, x),
           x \notin Range(queue), Brelse(x, f, av), UNCHANGED device,
           data' \in [Buf -> Val], \A y \in Buf \ {x} : data'[y] = data[y],
           id[x] \in Medium /\ "DONE" \in f /\ f \cap {"ERROR", "DELWRI"} = {}
              => data'[x] = disk[id[x]] PROVE CacheOK'
  <1>1. Freed(x, f, av) BY BrelseFrees DEF FreeBut
  <1>2. Dequeued(x) BY DEF Dequeued, CacheOK, CacheTypeOK, QueueExact, device, IsChain
  <1>3. disk' = disk /\ disk' \in [Medium -> Val] BY DEF device, CacheOK, CacheTypeOK
  <1> QED BY <1>1, <1>2, <1>3, FreedKeepsCache

----
(* What a step may assume of the buffer it has in its hands, and of one it *)
(* finds on the free list.                                                 *)

(* The buffer in hand is busy, off the free list, and nobody else's.       *)
LEMMA InHand ==
    ASSUME IInv, NEW p \in Proc, pc[p] \in {"got", "iowait", "hold", "wwait"}
    PROVE  /\ bp[p] \in Buf /\ bp[p] \in Owned(p)
           /\ flags[bp[p]] \in SUBSET Flag
           /\ "BUSY" \in flags[bp[p]] /\ "ASYNC" \notin flags[bp[p]]
           /\ FreeBut(avail, bp[p])
           /\ bp[p] # first[p]
           /\ \A q \in Proc \ {p} :
                 /\ first[q] # bp[p]
                 /\ bp[q] = bp[p] => pc[q] = "drain"
  <1>1. bp[p] \in Buf /\ flags[bp[p]] \in SUBSET Flag
    BY DEF IInv, ProcOK, CacheOK, ProcTypeOK, CacheTypeOK, RegistersOK
  <1>2. bp[p] \in Owned(p) /\ bp[p] # NoBuf BY <1>1 DEF Owned, Buf, NoBuf
  <1>3. "BUSY" \in flags[bp[p]] /\ "ASYNC" \notin flags[bp[p]] /\ bp[p] # first[p]
    BY <1>1, <1>2 DEF IInv, ProcOK, Exclusive
  <1>4. FreeBut(avail, bp[p]) BY <1>1, <1>3 DEF IInv, CacheOK, CacheTypeOK, FreeListExact, FreeBut, IsChain
  <1>5. \A q \in Proc \ {p} : bp[p] \notin Owned(q) BY <1>2 DEF IInv, ProcOK, Exclusive
  <1> QED BY <1>1, <1>2, <1>3, <1>4, <1>5 DEF Owned

(* A buffer on the free list is nobody's, and nobody sleeps for it.        *)
LEMMA OnFreeList ==
    ASSUME IInv, NEW x \in Range(avail)
    PROVE  /\ x \in Buf /\ flags[x] \in SUBSET Flag
           /\ "BUSY" \notin flags[x] /\ "ASYNC" \notin flags[x]
           /\ x \notin Range(queue)
           /\ FreeBut(Without(avail, x), x)
           /\ \A q \in Proc : x \notin Owned(q) /\ chan[q] # x
           /\ \A q \in Proc : first[q] # x /\ (bp[q] = x => pc[q] = "drain")
           /\ \A q \in Proc : chan[q] # FreeList
  <1>1. IsChain(avail, Buf) BY DEF IInv, CacheOK, CacheTypeOK, FreeListExact, IsChain
  <1>2. x \in Buf /\ avail # <<>> BY <1>1, ChainRange
  <1>3. "BUSY" \notin flags[x] /\ x \notin Range(queue) /\ flags[x] \in SUBSET Flag
    BY <1>2 DEF IInv, CacheOK, CacheTypeOK, FreeListExact, QueueExact
  <1>4. "ASYNC" \notin flags[x] /\ \A q \in Proc : x \notin Owned(q)
    BY <1>2, <1>3 DEF IInv, ProcOK, Exclusive
  <1>5. \A q \in Proc : chan[q] # x /\ chan[q] # FreeList BY <1>2, <1>3 DEF IInv, ProcOK, NoLostWakeup
  <1>6. FreeBut(Without(avail, x), x) BY <1>1, ChainWithout DEF FreeBut
  <1>7. \A q \in Proc : first[q] # x /\ (bp[q] = x => pc[q] = "drain") BY <1>2, <1>4 DEF Owned, Buf, NoBuf
  <1> QED BY <1>2, <1>3, <1>4, <1>5, <1>6, <1>7

----
(* Ownership after a step: nothing has changed hands, or only buffer x,    *)
(* between process p, the driver and the free list.                        *)

(* Who owned what before the step owns it after.                           *)
LEMMA NothingMoves ==
    ASSUME Exclusive, \A q \in Proc : Owned(q)' = Owned(q),
           \A q \in Proc : bp'[q] # NoBuf => bp'[q] # first'[q],
           \A y \in Buf : /\ "BUSY" \in flags'[y] <=> "BUSY" \in flags[y]
                          /\ "ASYNC" \in flags'[y] <=> "ASYNC" \in flags[y]
                          /\ "ASYNC" \in flags[y] => y \in Range(queue')
    PROVE  Exclusive' BY DEF Exclusive

(* Only x has changed owner.                                               *)
LEMMA OneMoves ==
    ASSUME Exclusive, NEW p \in Proc, NEW x \in Buf,
           \A q \in Proc \ {p} : Owned(q)' = Owned(q) /\ x \notin Owned(q),
           Owned(p)' \ {x} = Owned(p) \ {x},
           \A q \in Proc : bp'[q] # NoBuf => bp'[q] # first'[q],
           \A y \in Buf \ {x} : /\ "BUSY" \in flags'[y] <=> "BUSY" \in flags[y]
                                /\ "ASYNC" \in flags'[y] <=> "ASYNC" \in flags[y]
                                /\ "ASYNC" \in flags[y] => y \in Range(queue'),
           "BUSY" \in flags'[x] <=> "ASYNC" \in flags'[x] \/ x \in Owned(p)',
           "ASYNC" \in flags'[x] => x \in Range(queue') /\ x \notin Owned(p)' PROVE Exclusive'
  <1>1. \A y \in Buf \ {x} : \A q \in Proc : y \in Owned(q)' <=> y \in Owned(q) OBVIOUS
  <1>2. \A q \in Proc \ {p} : x \notin Owned(q)' OBVIOUS
  <1>3. \A q, r \in Proc : q # r => Owned(q)' \cap Owned(r)' = {}
    <2> SUFFICES ASSUME NEW q \in Proc, NEW r \in Proc, q # r,
                        NEW y \in Owned(q)', y \in Owned(r)' PROVE FALSE OBVIOUS
    <2>1. y # x BY <1>2
    <2>2. y \in Owned(q) /\ y \in Owned(r) BY <2>1
    <2> QED BY <2>2 DEF Exclusive
  <1>4. \A y \in Buf : "BUSY" \in flags'[y] <=>
                          "ASYNC" \in flags'[y] \/ \E q \in Proc : y \in Owned(q)'
    BY <1>1, <1>2 DEF Exclusive
  <1>5. \A y \in Buf : "ASYNC" \in flags'[y] =>
                          y \in Range(queue') /\ \A q \in Proc : y \notin Owned(q)'
    BY <1>1, <1>2 DEF Exclusive
  <1> QED BY <1>3, <1>4, <1>5 DEF Exclusive

----
(* The steps that leave the buffers alone. *)

(* What does not touch the buffers keeps them in order.                    *)
LEMMA IdleKeepsCache ==
    ASSUME CacheOK, UNCHANGED <<cache, data, device>> PROVE CacheOK'
  BY DEF CacheOK, CacheTypeOK, FreeListExact, QueueExact, NoAlias, Coherent, cache, device, Incore

(* Entering the kernel disturbs nothing.                                   *)
LEMMA EnterKeeps ==
    ASSUME IInv, NEW p \in Proc, NEW o \in {"bread", "getblk", "breada", "sync", "reboot"},
           NEW l \in {"getblk", "ahead", "flush"},
           NEW b \in Block \cup {NoBlk}, NEW r \in Block \cup {NoBlk},
           Enter(p, o, l, b, r), alone' \in BOOLEAN PROVE IInv'
  <1> USE DEF Enter, Run, Goto, IInv, ProcOK
  <1>1. CacheOK' BY IdleKeepsCache
  <1>2. ProcTypeOK' BY DEF ProcTypeOK, Op, Label
  <1>3. RegistersOK' BY DEF RegistersOK, ProcTypeOK
  <1>4. Exclusive'
    <2>1. \A q \in Proc : Owned(q)' = Owned(q) BY DEF Owned, ProcTypeOK, RegistersOK
    <2>2. UNCHANGED <<flags, queue, bp, first>> BY DEF cache, device
    <2> QED BY <2>1, <2>2, NothingMoves DEF Exclusive
  <1>5. TransfersOK' BY DEF TransfersOK, ProcTypeOK, cache, device
  <1>6. NoLostWakeup' BY DEF NoLostWakeup, ProcTypeOK, cache, device, Buf, NoChan, FreeList
  <1> QED BY <1>1, <1>2, <1>3, <1>4, <1>5, <1>6

(* Every call enters the kernel that way.                                  *)
LEMMA StartKeeps ==
    ASSUME IInv, NEW p \in Proc, Start(p) PROVE IInv'
  <1>1. CASE StartBread(p) BY <1>1, EnterKeeps DEF StartBread
  <1>2. CASE StartGetblk(p) BY <1>2, EnterKeeps DEF StartGetblk
  <1>3. CASE StartBreada(p) BY <1>3, EnterKeeps DEF StartBreada
  <1>4. CASE StartSync(p) BY <1>4, EnterKeeps DEF StartSync
  <1>5. CASE StartReboot(p) BY <1>5, EnterKeeps DEF StartReboot
  <1> QED BY <1>1, <1>2, <1>3, <1>4, <1>5 DEF Start

(* The end of breada moves the buffer from one register to the other.      *)
LEMMA JoinKeeps ==
    ASSUME IInv, NEW p \in Proc, Join(p) PROVE IInv'
  <1> USE DEF Join, Run, Goto, IInv, ProcOK
  <1>1. CacheOK' BY IdleKeepsCache
  <1>2. ProcTypeOK' BY DEF ProcTypeOK, Op, Label
  <1>3. RegistersOK' BY DEF RegistersOK, ProcTypeOK
  <1>4. Exclusive'
    <2>1. \A q \in Proc : Owned(q)' = Owned(q) BY DEF Owned, ProcTypeOK, RegistersOK
    <2>2. UNCHANGED <<flags, queue>> BY DEF cache, device
    <2>3. \A q \in Proc : bp'[q] # NoBuf => bp'[q] # first'[q] BY DEF Exclusive, ProcTypeOK
    <2> QED BY <2>1, <2>2, <2>3, NothingMoves DEF Exclusive
  <1>5. TransfersOK' BY DEF TransfersOK, ProcTypeOK, RegistersOK, cache, device
  <1>6. NoLostWakeup' BY DEF NoLostWakeup, ProcTypeOK, cache, device, Buf, NoChan, FreeList
  <1> QED BY <1>1, <1>2, <1>3, <1>4, <1>5, <1>6

(* getblk reassigns the oldest buffer.                                     *)
LEMMA GetblkTakeKeeps ==
    ASSUME IInv, NEW p \in Proc, GetblkTake(p) PROVE IInv'
  <1> DEFINE x == Head(avail)
  <1>1. x \in Range(avail) BY ChainTail DEF GetblkTake, IInv, CacheOK, CacheTypeOK, FreeListExact, IsChain
  <1>2. /\ x \in Buf /\ flags[x] \in SUBSET Flag
        /\ "BUSY" \notin flags[x] /\ "ASYNC" \notin flags[x]
        /\ x \notin Range(queue)
        /\ FreeBut(Without(avail, x), x)
        /\ \A q \in Proc : x \notin Owned(q) /\ chan[q] # x
        /\ \A q \in Proc : first[q] # x /\ (bp[q] = x => pc[q] = "drain")
        /\ \A q \in Proc : chan[q] # FreeList BY <1>1, OnFreeList
  <1> USE <1>2 DEF GetblkTake, Run, Goto, IInv, ProcOK, CacheOK
  <1> HIDE DEF x
  <1>10. flags' = [flags EXCEPT ![x] = {"BUSY"}] /\ id' = [id EXCEPT ![x] = Target(p)]
         /\ avail' = Without(avail, x) /\ bp' = [bp EXCEPT ![p] = x] BY DEF x
  <1>3. CacheTypeOK' BY <1>10 DEF CacheTypeOK, device, FreeBut, IsChain, Target, ProcTypeOK, Flag
  <1>4. FreeListExact' BY <1>10 DEF CacheTypeOK, FreeListExact, FreeBut, IsChain
  <1>5. QueueExact' BY <1>10 DEF CacheTypeOK, QueueExact, device
  <1>6. NoAlias' BY <1>10 DEF CacheTypeOK, NoAlias, Incore
  <1>7. Coherent' BY <1>10 DEF CacheTypeOK, Coherent, device
  <1>8. ProcTypeOK' BY <1>10 DEF ProcTypeOK, Label
  <1>9. RegistersOK' BY <1>10 DEF RegistersOK, ProcTypeOK, NoBuf, Buf
  <1>11. Exclusive'
    <2>1. Owned(p)' \ {x} = Owned(p) \ {x} /\ x \in Owned(p)'
      BY <1>10 DEF Owned, ProcTypeOK, RegistersOK, NoBuf, Buf
    <2>2. \A q \in Proc \ {p} : Owned(q)' = Owned(q) BY <1>10 DEF Owned, ProcTypeOK
    <2>3. \A q \in Proc : bp'[q] # NoBuf => bp'[q] # first'[q] BY <1>10 DEF Exclusive, ProcTypeOK
    <2>4. /\ UNCHANGED queue /\ flags'[x] = {"BUSY"}
          /\ \A y \in Buf \ {x} : flags'[y] = flags[y] BY <1>10 DEF CacheTypeOK, device
    <2> QED BY <2>1, <2>2, <2>3, <2>4, OneMoves DEF Exclusive
  <1>12. TransfersOK' BY <1>10 DEF TransfersOK, CacheTypeOK, ProcTypeOK, RegistersOK, device
  <1>13. NoLostWakeup'
    BY <1>10 DEF NoLostWakeup, CacheTypeOK, ProcTypeOK, Buf, NoChan, FreeList, device, NoBuf
  <1> QED BY <1>3, <1>4, <1>5, <1>6, <1>7, <1>8, <1>9, <1>11, <1>12, <1>13

(* getblk takes the cached buffer off the free list.                       *)
LEMMA GetblkHitKeeps ==
    ASSUME IInv, NEW p \in Proc, GetblkHit(p) PROVE IInv'
  <1>1. PICK x \in Incore(Target(p)) :
          /\ "BUSY" \notin flags[x]
          /\ flags' = [flags EXCEPT ![x] = @ \cup {"BUSY"}]
          /\ avail' = Without(avail, x)
          /\ bp' = [bp EXCEPT ![p] = x] BY DEF GetblkHit
  <1>2. x \in Range(avail) BY <1>1 DEF IInv, CacheOK, FreeListExact, Incore
  <1>3. /\ x \in Buf /\ flags[x] \in SUBSET Flag
        /\ "BUSY" \notin flags[x] /\ "ASYNC" \notin flags[x]
        /\ x \notin Range(queue)
        /\ FreeBut(Without(avail, x), x)
        /\ \A q \in Proc : x \notin Owned(q) /\ chan[q] # x
        /\ \A q \in Proc : first[q] # x /\ (bp[q] = x => pc[q] = "drain")
        /\ \A q \in Proc : chan[q] # FreeList BY <1>2, OnFreeList
  <1> USE <1>1, <1>3 DEF GetblkHit, Run, Goto, IInv, ProcOK, CacheOK
  <1>4. CacheTypeOK' BY DEF CacheTypeOK, device, FreeBut, IsChain, Flag
  <1>5. FreeListExact' BY DEF CacheTypeOK, FreeListExact, FreeBut, IsChain
  <1>6. QueueExact' /\ NoAlias' /\ Coherent' BY DEF CacheTypeOK, QueueExact, NoAlias, Coherent, device
  <1>7. ProcTypeOK' BY DEF ProcTypeOK, Label
  <1>8. RegistersOK' BY DEF RegistersOK, ProcTypeOK, NoBuf, Buf
  <1>9. Exclusive'
    <2>1. Owned(p)' \ {x} = Owned(p) \ {x} /\ x \in Owned(p)'
      BY DEF Owned, ProcTypeOK, RegistersOK, NoBuf, Buf
    <2>2. \A q \in Proc \ {p} : Owned(q)' = Owned(q) BY DEF Owned, ProcTypeOK
    <2>3. \A q \in Proc : bp'[q] # NoBuf => bp'[q] # first'[q] BY DEF Exclusive, ProcTypeOK
    <2>4. /\ UNCHANGED queue /\ flags'[x] = flags[x] \cup {"BUSY"}
          /\ \A y \in Buf \ {x} : flags'[y] = flags[y] BY DEF CacheTypeOK, device
    <2> QED BY <2>1, <2>2, <2>3, <2>4, OneMoves DEF Exclusive
  <1>10. TransfersOK' BY DEF TransfersOK, CacheTypeOK, ProcTypeOK, RegistersOK, device
  <1>11. NoLostWakeup' BY DEF NoLostWakeup, CacheTypeOK, ProcTypeOK, Buf, NoChan, FreeList, device, NoBuf
  <1> QED BY <1>4, <1>5, <1>6, <1>7, <1>8, <1>9, <1>10, <1>11

----
(* Going to sleep.                                                         *)

(* Setting WANTED is harmless to the buffers.                              *)
LEMMA WantedKeepsCache ==
    ASSUME CacheOK, NEW x \in Buf, flags' = [flags EXCEPT ![x] = @ \cup {"WANTED"}],
           UNCHANGED <<id, data, avail, freeWanted, device>> PROVE CacheOK'
  <1> USE DEF CacheOK, device
  <1>1. CacheTypeOK' BY DEF CacheTypeOK, Flag
  <1>2. FreeListExact' BY DEF CacheTypeOK, FreeListExact
  <1>3. QueueExact' BY DEF CacheTypeOK, QueueExact
  <1>4. NoAlias' /\ Coherent' BY DEF CacheTypeOK, NoAlias, Coherent
  <1> QED BY <1>1, <1>2, <1>3, <1>4

(* A process in getblk or in reboot's scan marks a busy buffer and sleeps. *)
LEMMA WaitKeepsProc ==
    ASSUME IInv, NEW p \in Proc, pc[p] \in {"getblk", "drain"}, NEW x \in Buf,
           "BUSY" \in flags[x], flags' = [flags EXCEPT ![x] = @ \cup {"WANTED"}],
           Sleep(p, x), UNCHANGED <<id, data, avail, freeWanted, device, regs, alone>> PROVE ProcOK'
  <1> USE DEF IInv, ProcOK, CacheOK, Sleep, regs, device
  <1>1. ProcTypeOK' BY DEF ProcTypeOK
  <1>2. RegistersOK' BY DEF RegistersOK, ProcTypeOK
  <1>3. Exclusive'
    <2>1. \A q \in Proc : Owned(q)' = Owned(q) BY DEF Owned
    <2>2. \A y \in Buf : /\ "BUSY" \in flags'[y] <=> "BUSY" \in flags[y]
                         /\ "ASYNC" \in flags'[y] <=> "ASYNC" \in flags[y] BY DEF CacheTypeOK
    <2> QED BY <2>1, <2>2, NothingMoves DEF Exclusive
  <1>4. TransfersOK' BY DEF TransfersOK, CacheTypeOK, ProcTypeOK, RegistersOK, Buf, NoBuf
  <1>5. NoLostWakeup' BY DEF NoLostWakeup, ProcTypeOK, CacheTypeOK, Buf, NoChan, FreeList
  <1> QED BY <1>1, <1>2, <1>3, <1>4, <1>5

(* getblk waits for a busy buffer.                                         *)
LEMMA GetblkBusyKeeps ==
    ASSUME IInv, NEW p \in Proc, GetblkBusy(p) PROVE IInv'
  <1>1. PICK x \in Buf : /\ "BUSY" \in flags[x] /\ Sleep(p, x)
                         /\ flags' = [flags EXCEPT ![x] = @ \cup {"WANTED"}] BY DEF GetblkBusy, Incore
  <1>2. pc[p] = "getblk" /\ UNCHANGED <<id, data, avail, freeWanted, device, regs, alone>>
    BY DEF GetblkBusy, Run
  <1>3. CacheOK' BY <1>1, <1>2, WantedKeepsCache DEF IInv
  <1>4. ProcOK' BY <1>1, <1>2, WaitKeepsProc
  <1> QED BY <1>3, <1>4 DEF IInv

(* getblk waits for the empty free list.                                   *)
LEMMA GetblkWaitKeeps ==
    ASSUME IInv, NEW p \in Proc, GetblkWait(p) PROVE IInv'
  <1> USE DEF IInv, ProcOK, CacheOK, GetblkWait, Sleep, Run, regs, device
  <1>1. CacheOK' BY DEF CacheTypeOK, FreeListExact, QueueExact, NoAlias, Coherent
  <1>2. ProcTypeOK' BY DEF ProcTypeOK
  <1>3. RegistersOK' BY DEF RegistersOK, ProcTypeOK
  <1>4. Exclusive'
    <2>1. \A q \in Proc : Owned(q)' = Owned(q) BY DEF Owned
    <2> QED BY <2>1, NothingMoves DEF Exclusive
  <1>5. TransfersOK' BY DEF TransfersOK
  <1>6. NoLostWakeup' BY DEF NoLostWakeup, ProcTypeOK, Buf, NoChan, FreeList
  <1> QED BY <1>1, <1>2, <1>3, <1>4, <1>5, <1>6

(* reboot waits for a buffer in flight, or looks at the next.              *)
LEMMA DrainKeeps ==
    ASSUME IInv, NEW p \in Proc, Drain(p) PROVE IInv'
  <1>1. bp[p] \in Buf /\ pc[p] = "drain" /\ chan[p] = NoChan
    BY DEF IInv, ProcOK, ProcTypeOK, RegistersOK, Drain, Run
  <1>2. CASE "ASYNC" \in flags[bp[p]]
    <2>1. /\ flags' = [flags EXCEPT ![bp[p]] = @ \cup {"WANTED"}] /\ Sleep(p, bp[p])
          /\ UNCHANGED <<id, data, avail, freeWanted, device, regs, alone>> BY <1>2 DEF Drain, regs
    <2>2. "BUSY" \in flags[bp[p]] BY <1>1, <1>2 DEF IInv, ProcOK, Exclusive
    <2>3. CacheOK' BY <1>1, <2>1, WantedKeepsCache DEF IInv
    <2>4. ProcOK' BY <1>1, <2>1, <2>2, WaitKeepsProc
    <2> QED BY <2>3, <2>4 DEF IInv
  <1>3. CASE "ASYNC" \notin flags[bp[p]]
    <2> USE <1>1, <1>3, NBUFAssumption DEF IInv, ProcOK, Drain, Goto
    <2>1. UNCHANGED <<cache, data, device, op, blk, ra, first, chan, alone>> BY DEF cache
    <2>2. CacheOK' BY <2>1, IdleKeepsCache
    <2>3. ProcTypeOK' BY DEF ProcTypeOK, Label, Buf, NoBuf
    <2>4. first[p] = NoBuf BY DEF RegistersOK
    <2>5. RegistersOK' BY DEF RegistersOK, ProcTypeOK, Buf, NoBuf
    <2>6. Exclusive'
      <3>1. \A q \in Proc : Owned(q)' = Owned(q) BY <2>4 DEF Owned, ProcTypeOK, NoBuf
      <3>2. \A q \in Proc : bp'[q] # NoBuf => bp'[q] # first'[q] BY <2>4 DEF Exclusive, ProcTypeOK
      <3>3. UNCHANGED <<flags, queue>> BY <2>1 DEF cache, device
      <3> QED BY <3>1, <3>2, <3>3, NothingMoves DEF Exclusive
    <2>7. TransfersOK' BY <2>1, <2>4 DEF TransfersOK, ProcTypeOK, cache, device
    <2>8. NoLostWakeup' BY <2>1 DEF NoLostWakeup, ProcTypeOK, cache, device, Buf, NoChan, FreeList
    <2> QED BY <2>2, <2>3, <2>5, <2>6, <2>7, <2>8
  <1> QED BY <1>2, <1>3

----
(* More steps that leave the buffers alone.                                *)

(* A plain getblk returns.                                                 *)
LEMMA GotGetblkKeeps ==
    ASSUME IInv, NEW p \in Proc, GotGetblk(p) PROVE IInv'
  <1> USE DEF GotGetblk, Run, Goto, IInv, ProcOK
  <1>1. UNCHANGED <<cache, data, device>> OBVIOUS
  <1>2. CacheOK' BY <1>1, IdleKeepsCache
  <1>3. ProcTypeOK' BY DEF ProcTypeOK, Op, Label
  <1>4. RegistersOK' BY DEF RegistersOK, ProcTypeOK
  <1>5. Exclusive'
    <2>1. \A q \in Proc : Owned(q)' = Owned(q) BY DEF Owned, ProcTypeOK, RegistersOK
    <2>2. UNCHANGED <<flags, queue>> BY <1>1 DEF cache, device
    <2>3. \A q \in Proc : bp'[q] # NoBuf => bp'[q] # first'[q] BY DEF Exclusive, ProcTypeOK, RegistersOK
    <2> QED BY <2>1, <2>2, <2>3, NothingMoves DEF Exclusive
  <1>6. TransfersOK' BY <1>1 DEF TransfersOK, ProcTypeOK, RegistersOK, cache, device
  <1>7. NoLostWakeup'
    BY <1>1 DEF NoLostWakeup, ProcTypeOK, RegistersOK, TransfersOK, cache, device, Buf, NoChan, FreeList
  <1> QED BY <1>2, <1>3, <1>4, <1>5, <1>6, <1>7

(* breada decides whether to read ahead.                                   *)
LEMMA AheadKeeps ==
    ASSUME IInv, NEW p \in Proc, Ahead(p) PROVE IInv'
  <1> USE DEF Ahead, Run, Goto, IInv, ProcOK
  <1>1. UNCHANGED <<cache, data, device>> OBVIOUS
  <1>2. CacheOK' BY <1>1, IdleKeepsCache
  <1>3. ProcTypeOK' BY DEF ProcTypeOK, Op, Label
  <1>4. RegistersOK' BY DEF RegistersOK, ProcTypeOK
  <1>5. Exclusive'
    <2>1. \A q \in Proc : Owned(q)' = Owned(q) BY DEF Owned, ProcTypeOK, RegistersOK
    <2>2. UNCHANGED <<flags, queue>> BY <1>1 DEF cache, device
    <2>3. \A q \in Proc : bp'[q] # NoBuf => bp'[q] # first'[q] BY DEF Exclusive, ProcTypeOK, RegistersOK
    <2> QED BY <2>1, <2>2, <2>3, NothingMoves DEF Exclusive
  <1>6. TransfersOK' BY <1>1 DEF TransfersOK, ProcTypeOK, RegistersOK, cache, device
  <1>7. NoLostWakeup'
    BY <1>1 DEF NoLostWakeup, ProcTypeOK, RegistersOK, TransfersOK, cache, device, Buf, NoChan, FreeList
  <1> QED BY <1>2, <1>3, <1>4, <1>5, <1>6, <1>7

(* iowait sleeps only on a transfer the driver still has.                  *)
LEMMA IowaitReadKeeps ==
    ASSUME IInv, NEW p \in Proc, IowaitRead(p) PROVE IInv'
  <1>1. UNCHANGED <<cache, data, device, op, blk, ra, bp, first, alone>> BY DEF IowaitRead
  <1>2. CacheOK' BY <1>1, IdleKeepsCache DEF IInv
  <1>3. pc[p] = "iowait" /\ chan[p] = NoChan BY DEF IowaitRead, Run
  <1>4. /\ bp[p] \in Buf /\ "BUSY" \in flags[bp[p]] /\ "ASYNC" \notin flags[bp[p]] BY <1>3, InHand
  <1>5. \/ /\ pc' = [pc EXCEPT ![p] = "hold"] /\ cpu' = NoProc /\ UNCHANGED chan
           /\ "DONE" \in flags[bp[p]]
        \/ /\ chan' = [chan EXCEPT ![p] = bp[p]] /\ cpu' = NoProc /\ UNCHANGED pc
           /\ "DONE" \notin flags[bp[p]] BY DEF IowaitRead, Goto, Sleep
  <1> USE <1>1, <1>3, <1>4, <1>5 DEF IInv, ProcOK, CacheOK
  <1>6. ProcTypeOK' BY DEF ProcTypeOK, Label
  <1>7. RegistersOK' BY DEF RegistersOK, ProcTypeOK
  <1>8. Exclusive'
    <2>1. \A q \in Proc : Owned(q)' = Owned(q) BY DEF Owned, ProcTypeOK, RegistersOK
    <2> QED BY <2>1, NothingMoves DEF Exclusive, cache, device
  <1>9. TransfersOK' BY DEF TransfersOK, QueueExact, ProcTypeOK, cache, device
  <1>10. NoLostWakeup' BY DEF NoLostWakeup, ProcTypeOK, TransfersOK, cache, device, Buf, NoChan, FreeList
  <1> QED BY <1>2, <1>6, <1>7, <1>8, <1>9, <1>10

(* bflush finds no more delayed writes.                                    *)
LEMMA FlushDoneKeeps ==
    ASSUME IInv, NEW p \in Proc, FlushDone(p) PROVE IInv'
  <1> USE DEF FlushDone, Run, Goto, Leave, IInv, ProcOK
  <1>1. UNCHANGED <<cache, data, device>> OBVIOUS
  <1>2. CacheOK' BY <1>1, IdleKeepsCache
  <1>3. ProcTypeOK' BY NBUFAssumption DEF ProcTypeOK, Op, Label, Buf, NoBuf
  <1>4. RegistersOK' BY DEF RegistersOK, ProcTypeOK, Buf, NoBuf
  <1>5. Exclusive'
    <2>1. \A q \in Proc : Owned(q)' = Owned(q) BY DEF Owned, ProcTypeOK, RegistersOK
    <2>2. UNCHANGED <<flags, queue>> BY <1>1 DEF cache, device
    <2>3. \A q \in Proc : bp'[q] # NoBuf => bp'[q] # first'[q]
      BY DEF Exclusive, ProcTypeOK, RegistersOK, NoBuf
    <2> QED BY <2>1, <2>2, <2>3, NothingMoves DEF Exclusive
  <1>6. TransfersOK' BY <1>1 DEF TransfersOK, ProcTypeOK, RegistersOK, cache, device
  <1>7. NoLostWakeup'
    BY <1>1 DEF NoLostWakeup, ProcTypeOK, RegistersOK, TransfersOK, cache, device, Buf, NoChan, FreeList
  <1> QED BY <1>2, <1>3, <1>4, <1>5, <1>6, <1>7

----
(* An owner starts a transfer he will wait for.                            *)

(* Only x has changed, and it is still busy; whoever slept on it still     *)
(* sleeps only if it is marked; it is done or in the driver's hands.       *)
Started(x) ==
    /\ \A y \in Buf \ {x} : flags'[y] = flags[y]
    /\ "BUSY" \in flags'[x] /\ "ASYNC" \notin flags'[x]
    /\ Range(queue) \subseteq Range(queue')
    /\ Range(queue') \subseteq Range(queue) \cup {x}
    /\ "DONE" \in flags'[x] \/ x \in Range(queue')
    /\ UNCHANGED <<avail, freeWanted>>
    /\ chan' \in [Proc -> Buf \cup {FreeList, NoChan}]
    /\ \A q \in Proc : /\ chan'[q] \in {chan[q], NoChan}
                       /\ chan'[q] = x => "WANTED" \in flags'[x]

(* Such a transfer is queued, or has been completed.                       *)
LEMMA OwnerStarts ==
    ASSUME IInv, NEW p \in Proc, pc[p] \in {"got", "hold"},
           NEW f \in SUBSET Flag, {"BUSY"} \subseteq f, f \cap {"ASYNC", "DONE"} = {},
           "WANTED" \in flags[bp[p]] => "WANTED" \in f,
           NEW v \in Val, Strategy(bp[p], f, avail, v) PROVE CacheOK' /\ Started(bp[p])
  <1> DEFINE x == bp[p]
  <1>1. /\ x \in Buf /\ FreeBut(avail, x) /\ "ASYNC" \notin flags[x]
        /\ \A q \in Proc \ {p} : bp[q] = x => pc[q] = "drain" BY InHand
  <1>2. x \notin Range(queue) BY DEF IInv, ProcOK, TransfersOK
  <1>3. CacheOK' BY <1>1, <1>2, StrategyKeepsCache DEF IInv
  <1>4. \A q \in Proc : chan[q] = x => "WANTED" \in f BY <1>1, <1>2 DEF IInv, ProcOK, NoLostWakeup
  <1>5. chan \in [Proc -> Buf \cup {FreeList, NoChan}] /\ flags \in [Buf -> SUBSET Flag]
    BY DEF IInv, ProcOK, CacheOK, ProcTypeOK, CacheTypeOK
  <1>0. "BUSY" \in f /\ "ASYNC" \notin f /\ "DONE" \notin f OBVIOUS
  <1> HIDE DEF x
  <1>6. ASSUME HandedOver(x, f, avail) PROVE Started(x)
    <2>1. flags'[x] = f /\ \A y \in Buf \ {x} : flags'[y] = flags[y] BY <1>1, <1>5, <1>6 DEF HandedOver
    <2>2. /\ Range(queue') = Range(queue) \cup {x}
          /\ avail' = avail /\ freeWanted' = freeWanted /\ chan' = chan BY <1>6 DEF HandedOver
    <2> QED BY <1>0, <1>4, <1>5, <2>1, <2>2 DEF Started
  <1>7. ASSUME NEW e \in Errors, Completed(x, f, avail, e), UNCHANGED <<queue, active>> PROVE Started(x)
    <2>1. flags'[x] = (f \cup e \cup {"DONE"}) \ {"WANTED"} BY <1>1, <1>5, <1>7 DEF Completed
    <2>2. "BUSY" \in flags'[x] /\ "DONE" \in flags'[x] /\ "ASYNC" \notin flags'[x] BY <2>1 DEF Errors
    <2>3. \A q \in Proc : chan'[q] = IF chan[q] = x THEN NoChan ELSE chan[q] BY <1>7 DEF Completed, Wakeup
    <2>4. x # NoChan BY <1>1 DEF Buf, NoChan
    <2>5. chan' \in [Proc -> Buf \cup {FreeList, NoChan}] BY <1>5, <1>7 DEF Completed, Wakeup
    <2> QED BY <1>5, <1>7, <2>2, <2>3, <2>4, <2>5 DEF Completed, Started
  <1>8. Strategy(x, f, avail, v) /\ IsChain(queue, Buf) /\ CacheTypeOK
        /\ IsChain(avail, Buf) /\ x \notin Range(avail)
    BY <1>1 DEF IInv, CacheOK, CacheTypeOK, QueueExact, FreeBut, IsChain, x
  <1>9. Started(x) BY <1>0, <1>1, <1>2, <1>6, <1>7, <1>8, StrategyOutcome
  <1> QED BY <1>3, <1>9 DEF x

(* The owner goes on to wait for it, or keeps it as breada's first buffer. *)
LEMMA StartedKeeps ==
    ASSUME IInv, NEW p \in Proc, pc[p] \in {"got", "hold"}, chan[p] = NoChan,
           CacheOK', Started(bp[p]), ProcTypeOK', RegistersOK',
           pc'[p] \in {"iowait", "wwait", "ahead"},
           \A q \in Proc \ {p} : /\ pc'[q] = pc[q] /\ bp'[q] = bp[q]
                                 /\ first'[q] = first[q],
           \/ bp'[p] = bp[p] /\ first'[p] = first[p]
           \/ bp'[p] = NoBuf /\ first'[p] = bp[p] /\ first[p] = NoBuf
    PROVE  IInv'
  <1> DEFINE x == bp[p]
  <1>1. /\ x \in Buf /\ x \in Owned(p) /\ "BUSY" \in flags[x] /\ "ASYNC" \notin flags[x]
        /\ x # first[p]
        /\ \A q \in Proc \ {p} : first[q] # x /\ (bp[q] = x => pc[q] = "drain") BY InHand
  <1>2. Started(x) /\ x # NoBuf BY <1>1 DEF Buf, NoBuf
  <1>3. Exclusive'
    <2>1. \A q \in Proc : Owned(q)' = Owned(q) BY DEF Owned
    <2>2. \A q \in Proc : bp'[q] # NoBuf => bp'[q] # first'[q] BY <1>1 DEF IInv, ProcOK, Exclusive
    <2> QED BY <1>1, <1>2, <2>1, <2>2, NothingMoves DEF IInv, ProcOK, Exclusive, Started
  <1> HIDE DEF x
  <1>4. TransfersOK'
    <2> SUFFICES ASSUME NEW q \in Proc
                 PROVE  /\ pc'[q] \in {"iowait", "wwait"} /\ "DONE" \notin flags'[bp'[q]]
                              => bp'[q] \in Range(queue')
                        /\ first'[q] # NoBuf /\ "DONE" \notin flags'[first'[q]]
                              => first'[q] \in Range(queue')
                        /\ pc'[q] \in {"got", "hold"} => bp'[q] \notin Range(queue') BY DEF TransfersOK
    <2>1. CASE q = p
      <3>1. "DONE" \notin flags'[x] => x \in Range(queue') BY <1>2 DEF Started
      <3>2. CASE first'[p] = first[p] /\ bp'[p] = x
        BY <1>1, <1>2, <2>1, <3>1, <3>2 DEF IInv, ProcOK, TransfersOK, ProcTypeOK, Started
      <3>3. CASE first'[p] = x /\ bp'[p] = NoBuf
        <4>1. pc'[p] = "ahead" BY <3>3 DEF RegistersOK
        <4> QED BY <2>1, <3>1, <3>3, <4>1
      <3> QED BY <3>2, <3>3 DEF x
    <2>2. CASE q # p BY <1>1, <1>2, <2>2 DEF IInv, ProcOK, TransfersOK, ProcTypeOK, RegistersOK, Started
    <2> QED BY <2>1, <2>2
  <1>5. NoLostWakeup'
    <2> SUFFICES ASSUME NEW q \in Proc, chan'[q] # NoChan
                 PROVE  /\ chan'[q] = FreeList => freeWanted' /\ avail' = <<>>
                        /\ chan'[q] \in Buf =>
                             \/ /\ pc'[q] \in {"getblk", "drain"}
                                /\ {"BUSY", "WANTED"} \subseteq flags'[chan'[q]]
                             \/ /\ pc'[q] \in {"iowait", "wwait"} /\ chan'[q] = bp'[q]
                                /\ chan'[q] \in Range(queue')
                                /\ "ASYNC" \notin flags'[chan'[q]]
      BY DEF NoLostWakeup, Buf, NoChan, FreeList
    <2>1. chan'[q] = chan[q] /\ q # p BY <1>2 DEF Started
    <2> QED BY <1>1, <1>2, <2>1 DEF IInv, ProcOK, NoLostWakeup, ProcTypeOK, Started
  <1> QED BY <1>3, <1>4, <1>5 DEF IInv, ProcOK

(* bread finds the block cached, or starts its read.                       *)
LEMMA GotBreadKeeps ==
    ASSUME IInv, NEW p \in Proc, GotBread(p) PROVE IInv'
  <1>1. pc[p] = "got" /\ op[p] = "bread" /\ chan[p] = NoChan BY DEF GotBread, Run
  <1>2. bp[p] \in Buf /\ flags[bp[p]] \in SUBSET Flag
        /\ "BUSY" \in flags[bp[p]] /\ "ASYNC" \notin flags[bp[p]] BY <1>1, InHand
  <1>3. CASE "DONE" \in flags[bp[p]]
    <2> USE <1>1, <1>2, <1>3 DEF GotBread, Goto, IInv, ProcOK
    <2>1. UNCHANGED <<cache, data, device, op, blk, ra, bp, first, chan, alone>> OBVIOUS
    <2>2. CacheOK' BY <2>1, IdleKeepsCache
    <2>3. ProcTypeOK' BY DEF ProcTypeOK, Label
    <2>4. RegistersOK' BY DEF RegistersOK, ProcTypeOK
    <2>5. Exclusive'
      <3>1. \A q \in Proc : Owned(q)' = Owned(q) BY DEF Owned, ProcTypeOK, RegistersOK
      <3> QED BY <2>1, <3>1, NothingMoves DEF Exclusive, cache, device
    <2>6. TransfersOK' BY <2>1 DEF TransfersOK, ProcTypeOK, cache, device
    <2>7. NoLostWakeup' BY <2>1 DEF NoLostWakeup, ProcTypeOK, cache, device, Buf, NoChan, FreeList
    <2> QED BY <2>2, <2>3, <2>4, <2>5, <2>6, <2>7
  <1>4. CASE "DONE" \notin flags[bp[p]]
    <2> DEFINE f == flags[bp[p]] \cup {"READ"}
    <2>1. /\ Strategy(bp[p], f, avail, data[bp[p]])
          /\ pc' = [pc EXCEPT ![p] = "iowait"] /\ cpu' = p
          /\ UNCHANGED <<op, blk, ra, bp, first, alone>> BY <1>4 DEF GotBread, Goto
    <2>2. /\ f \in SUBSET Flag /\ {"BUSY"} \subseteq f /\ f \cap {"ASYNC", "DONE"} = {}
          /\ "WANTED" \in flags[bp[p]] => "WANTED" \in f
          /\ data[bp[p]] \in Val BY <1>2, <1>4 DEF Flag, IInv, CacheOK, CacheTypeOK
    <2> HIDE DEF f
    <2>3. CacheOK' /\ Started(bp[p]) BY <1>1, <2>1, <2>2, OwnerStarts
    <2>4. ProcTypeOK' BY <2>1, <2>3 DEF IInv, ProcOK, ProcTypeOK, Label, Started
    <2>5. RegistersOK' BY <1>1, <2>1, <2>3 DEF IInv, ProcOK, ProcTypeOK, RegistersOK, Started
    <2>6. pc'[p] = "iowait" /\ \A q \in Proc \ {p} : pc'[q] = pc[q] BY <2>1 DEF IInv, ProcOK, ProcTypeOK
    <2> QED BY <1>1, <2>1, <2>3, <2>4, <2>5, <2>6, StartedKeeps
  <1> QED BY <1>3, <1>4

(* breada does the same for its own block.                                 *)
LEMMA GotBreadaKeeps ==
    ASSUME IInv, NEW p \in Proc, GotBreada(p) PROVE IInv'
  <1>1. pc[p] = "got" /\ op[p] = "breada" /\ chan[p] = NoChan BY DEF GotBreada, Run
  <1>2. bp[p] \in Buf /\ flags[bp[p]] \in SUBSET Flag
        /\ "BUSY" \in flags[bp[p]] /\ "ASYNC" \notin flags[bp[p]] BY <1>1, InHand
  <1>3. /\ first' = [first EXCEPT ![p] = bp[p]] /\ bp' = [bp EXCEPT ![p] = NoBuf]
        /\ pc' = [pc EXCEPT ![p] = "ahead"] /\ cpu' = p
        /\ UNCHANGED <<op, blk, ra, alone>> BY DEF GotBreada, Goto
  <1>4. first[p] = NoBuf BY <1>1 DEF IInv, ProcOK, RegistersOK
  <1>5. CacheOK' /\ Started(bp[p])
    <2>1. CASE "DONE" \in flags[bp[p]]
      <3>1. UNCHANGED <<cache, data, device, chan>> BY <2>1 DEF GotBreada
      <3>2. CacheOK' BY <3>1, IdleKeepsCache DEF IInv
      <3>3. bp[p] \notin Range(queue) BY <1>1 DEF IInv, ProcOK, TransfersOK
      <3>4. \A q \in Proc : chan[q] = bp[p] => "WANTED" \in flags[bp[p]]
        BY <1>2, <3>3 DEF IInv, ProcOK, NoLostWakeup
      <3>5. chan \in [Proc -> Buf \cup {FreeList, NoChan}] BY DEF IInv, ProcOK, ProcTypeOK
      <3> QED BY <1>2, <2>1, <3>1, <3>2, <3>4, <3>5 DEF Started, cache, device
    <2>2. CASE "DONE" \notin flags[bp[p]]
      <3> DEFINE f == flags[bp[p]] \cup {"READ"}
      <3>1. Strategy(bp[p], f, avail, data[bp[p]]) BY <2>2 DEF GotBreada
      <3>2. /\ f \in SUBSET Flag /\ {"BUSY"} \subseteq f /\ f \cap {"ASYNC", "DONE"} = {}
            /\ "WANTED" \in flags[bp[p]] => "WANTED" \in f
            /\ data[bp[p]] \in Val BY <1>2, <2>2 DEF Flag, IInv, CacheOK, CacheTypeOK
      <3> HIDE DEF f
      <3> QED BY <1>1, <3>1, <3>2, OwnerStarts
    <2> QED BY <2>1, <2>2
  <1>6. ProcTypeOK' BY <1>2, <1>3, <1>5 DEF IInv, ProcOK, ProcTypeOK, Label, Started
  <1>7. RegistersOK' BY <1>1, <1>3, <1>5 DEF IInv, ProcOK, ProcTypeOK, RegistersOK, Started
  <1>8. /\ pc'[p] = "ahead" /\ bp'[p] = NoBuf /\ first'[p] = bp[p]
        /\ \A q \in Proc \ {p} : pc'[q] = pc[q] /\ bp'[q] = bp[q] /\ first'[q] = first[q]
    BY <1>3 DEF IInv, ProcOK, ProcTypeOK
  <1> QED BY <1>1, <1>4, <1>5, <1>6, <1>7, <1>8, StartedKeeps

(* bwrite starts its write.                                                *)
LEMMA HoldBwriteKeeps ==
    ASSUME IInv, NEW p \in Proc, HoldBwrite(p) PROVE IInv'
  <1>1. pc[p] = "hold" /\ chan[p] = NoChan BY DEF HoldBwrite, Run
  <1>2. bp[p] \in Buf /\ flags[bp[p]] \in SUBSET Flag
        /\ "BUSY" \in flags[bp[p]] /\ "ASYNC" \notin flags[bp[p]] BY <1>1, InHand
  <1> DEFINE f == WriteFlags(flags[bp[p]])
  <1>3. /\ pc' = [pc EXCEPT ![p] = "wwait"] /\ cpu' = p
        /\ UNCHANGED <<op, blk, ra, bp, first, alone>> BY DEF HoldBwrite, Goto
  <1>4. /\ f \in SUBSET Flag /\ {"BUSY"} \subseteq f /\ f \cap {"ASYNC", "DONE"} = {}
        /\ "WANTED" \in flags[bp[p]] => "WANTED" \in f BY <1>2 DEF WriteFlags
  <1>5. PICK v \in Val : Strategy(bp[p], f, avail, v) BY DEF HoldBwrite
  <1> HIDE DEF f
  <1>6. CacheOK' /\ Started(bp[p]) BY <1>1, <1>4, <1>5, OwnerStarts
  <1>7. ProcTypeOK' BY <1>3, <1>6 DEF IInv, ProcOK, ProcTypeOK, Label, Started
  <1>8. RegistersOK' BY <1>1, <1>3, <1>6 DEF IInv, ProcOK, ProcTypeOK, RegistersOK, Started
  <1>9. pc'[p] = "wwait" /\ \A q \in Proc \ {p} : pc'[q] = pc[q] BY <1>3 DEF IInv, ProcOK, ProcTypeOK
  <1> QED BY <1>1, <1>3, <1>6, <1>7, <1>8, <1>9, StartedKeeps

----
(* A buffer passes to the driver alone, or to the free list.               *)

(* Only x has changed: it is the driver's or free.  Whoever slept on it or *)
(* on the free list still sleeps only if he will be woken.                 *)
GivenUp(x) ==
    /\ \A y \in Buf \ {x} : flags'[y] = flags[y]
    /\ "BUSY" \in flags'[x] <=> "ASYNC" \in flags'[x]
    /\ "ASYNC" \in flags'[x] => x \in Range(queue')
    /\ Range(queue) \subseteq Range(queue')
    /\ Range(queue') \subseteq Range(queue) \cup {x}
    /\ chan' \in [Proc -> Buf \cup {FreeList, NoChan}]
    /\ freeWanted' \in BOOLEAN
    /\ \A q \in Proc :
          /\ chan'[q] \in {chan[q], NoChan}
          /\ chan'[q] = x => {"BUSY", "WANTED"} \subseteq flags'[x]
          /\ chan'[q] = FreeList => freeWanted' /\ avail' = <<>>

(* Freeing wakes everybody who slept on the buffer or on the free list.    *)
LEMMA FreedGivesUp ==
    ASSUME IInv, NEW x \in Buf, NEW f, NEW av, Freed(x, f, av),
           \A q \in Proc : chan[q] = x => "WANTED" \in f,
           UNCHANGED <<queue, active>> PROVE GivenUp(x)
  <1>1. /\ flags \in [Buf -> SUBSET Flag]
        /\ chan \in [Proc -> Buf \cup {FreeList, NoChan}]
        /\ \A q \in Proc : chan[q] = FreeList => freeWanted
    BY DEF IInv, ProcOK, CacheOK, ProcTypeOK, CacheTypeOK, NoLostWakeup
  <1>2. /\ flags'[x] = f \ {"WANTED", "BUSY", "ASYNC"}
        /\ \A y \in Buf \ {x} : flags'[y] = flags[y]
        /\ freeWanted' = FALSE BY <1>1 DEF Freed
  <1>3. x # NoChan /\ x # FreeList /\ NoChan # FreeList BY DEF Buf, NoChan, FreeList
  <1> DEFINE C == (IF "WANTED" \in f THEN {x} ELSE {})
                    \cup (IF freeWanted THEN {FreeList} ELSE {})
  <1>4. chan' = [q \in Proc |-> IF chan[q] \in C THEN NoChan ELSE chan[q]] BY DEF Freed, Wakeup
  <1>5. \A q \in Proc : chan[q] \in {x, FreeList} => chan[q] \in C BY <1>1
  <1> HIDE DEF C
  <1>6. \A q \in Proc : chan'[q] \in {chan[q], NoChan} /\ chan'[q] \notin {x, FreeList} BY <1>3, <1>4, <1>5
  <1>7. chan' \in [Proc -> Buf \cup {FreeList, NoChan}] BY <1>1, <1>4
  <1> QED BY <1>2, <1>6, <1>7 DEF GivenUp

(* Handing a buffer over for an asynchronous transfer gives it up.         *)
LEMMA StrategyGivesUp ==
    ASSUME IInv, NEW x \in Buf, x \notin Range(queue),
           NEW f \in SUBSET Flag, "BUSY" \in f, "ASYNC" \in f, "DONE" \notin f,
           "WANTED" \in flags[x] => "WANTED" \in f,
           NEW av, FreeBut(av, x), NEW v \in Val, Strategy(x, f, av, v) PROVE CacheOK' /\ GivenUp(x)
  <1>1. CacheOK' BY StrategyKeepsCache DEF IInv
  <1>2. \A q \in Proc : chan[q] = x => "WANTED" \in f BY DEF IInv, ProcOK, NoLostWakeup
  <1>3. ASSUME HandedOver(x, f, av) PROVE GivenUp(x)
    <2>1. /\ flags \in [Buf -> SUBSET Flag] /\ freeWanted \in BOOLEAN
          /\ chan \in [Proc -> Buf \cup {FreeList, NoChan}]
      BY DEF IInv, ProcOK, CacheOK, ProcTypeOK, CacheTypeOK
    <2>2. flags'[x] = f /\ \A y \in Buf \ {x} : flags'[y] = flags[y] BY <1>3, <2>1 DEF HandedOver
    <2>3. /\ Range(queue') = Range(queue) \cup {x}
          /\ avail' = av /\ freeWanted' = freeWanted /\ chan' = chan BY <1>3 DEF HandedOver
    <2>4. ASSUME NEW q \in Proc, chan[q] = FreeList PROVE freeWanted /\ av = <<>>
      <3>1. freeWanted /\ avail = <<>> BY <2>4 DEF IInv, ProcOK, NoLostWakeup
      <3>2. Range(avail) = {} BY <3>1 DEF Range
      <3>3. IsChain(av, Buf) /\ Range(av) = {} BY <3>2 DEF FreeBut
      <3> QED BY <3>1, <3>3, ChainRange
    <2> QED BY <1>2, <2>1, <2>2, <2>3, <2>4 DEF GivenUp
  <1>4. ASSUME NEW e \in Errors, Freed(x, f \cup e \cup {"DONE"}, av),
               UNCHANGED <<queue, active>> PROVE GivenUp(x) BY <1>2, <1>4, FreedGivesUp
  <1>5. /\ CacheTypeOK /\ IsChain(queue, Buf) /\ IsChain(av, Buf) /\ x \notin Range(av)
    BY DEF IInv, CacheOK, CacheTypeOK, QueueExact, FreeBut, IsChain
  <1>6. GivenUp(x) BY <1>3, <1>4, <1>5, StrategyOutcome DEF Completed
  <1> QED BY <1>1, <1>6

(* So does releasing it.                                                   *)
LEMMA BrelseGivesUp ==
    ASSUME IInv, NEW x \in Buf, x \notin Range(queue), NEW f,
           "WANTED" \in flags[x] => "WANTED" \in f,
           FreeBut(avail, x), Brelse(x, f, avail), UNCHANGED device PROVE GivenUp(x)
  <1>1. Freed(x, f, avail) BY BrelseFrees DEF FreeBut
  <1>2. \A q \in Proc : chan[q] = x => "WANTED" \in f BY DEF IInv, ProcOK, NoLostWakeup
  <1> QED BY <1>1, <1>2, FreedGivesUp DEF device

(* p, who may have owned x, goes on without it. *)
LEMMA GivenUpKeeps ==
    ASSUME IInv, NEW p \in Proc, NEW x \in Buf, chan[p] = NoChan,
           CacheOK', GivenUp(x), ProcTypeOK', RegistersOK',
           x \notin Range(queue), pc'[p] \notin {"iowait", "wwait", "got", "hold"},
           \A q \in Proc \ {p} : /\ pc'[q] = pc[q] /\ bp'[q] = bp[q]
                                 /\ x \notin Owned(q),
           first' = first, x # first[p],
           Owned(p)' = Owned(p) \ {x}, bp'[p] # NoBuf => bp'[p] = bp[p] PROVE IInv'
  <1>1. \A y \in Buf \ {x} : flags'[y] = flags[y] BY DEF GivenUp
  <1>2. Exclusive'
    <2>1. \A q \in Proc \ {p} : Owned(q)' = Owned(q) /\ x \notin Owned(q) BY DEF Owned
    <2>2. \A q \in Proc : bp'[q] # NoBuf => bp'[q] # first'[q] BY DEF IInv, ProcOK, Exclusive
    <2>3. /\ \A y \in Buf \ {x} : "ASYNC" \in flags[y] => y \in Range(queue')
          /\ "BUSY" \in flags'[x] <=> "ASYNC" \in flags'[x]
          /\ "ASYNC" \in flags'[x] => x \in Range(queue') BY DEF IInv, ProcOK, Exclusive, GivenUp
    <2>4. x \notin Owned(p)' /\ Owned(p)' \ {x} = Owned(p) \ {x} OBVIOUS
    <2>5. Exclusive BY DEF IInv, ProcOK
    <2> QED BY <1>1, <2>1, <2>2, <2>3, <2>4, <2>5, OneMoves
  <1>3. TransfersOK'
    <2> SUFFICES ASSUME NEW q \in Proc
                 PROVE  /\ pc'[q] \in {"iowait", "wwait"} /\ "DONE" \notin flags'[bp'[q]]
                              => bp'[q] \in Range(queue')
                        /\ first'[q] # NoBuf /\ "DONE" \notin flags'[first'[q]]
                              => first'[q] \in Range(queue')
                        /\ pc'[q] \in {"got", "hold"} => bp'[q] \notin Range(queue') BY DEF TransfersOK
    <2>1. /\ Range(queue) \subseteq Range(queue')
          /\ Range(queue') \subseteq Range(queue) \cup {x} BY DEF GivenUp
    <2>2. first[q] # x \/ first[q] = NoBuf BY DEF Owned
    <2>3. first[q] # NoBuf => first[q] \in Buf \ {x} BY <2>2 DEF IInv, ProcOK, ProcTypeOK
    <2>4. ASSUME pc'[q] \in {"iowait", "wwait", "got", "hold"} PROVE q # p /\ bp[q] \in Buf \ {x}
      <3>1. q # p /\ pc[q] = pc'[q] BY <2>4
      <3>2. bp[q] \in Buf /\ bp[q] \in Owned(q) BY <2>4, <3>1, InHand
      <3> QED BY <3>1, <3>2
    <2> QED BY <1>1, <2>1, <2>3, <2>4 DEF IInv, ProcOK, TransfersOK
  <1>4. NoLostWakeup'
    <2> SUFFICES ASSUME NEW q \in Proc, chan'[q] # NoChan
                 PROVE  /\ chan'[q] = FreeList => freeWanted' /\ avail' = <<>>
                        /\ chan'[q] \in Buf =>
                             \/ /\ pc'[q] \in {"getblk", "drain"}
                                /\ {"BUSY", "WANTED"} \subseteq flags'[chan'[q]]
                             \/ /\ pc'[q] \in {"iowait", "wwait"} /\ chan'[q] = bp'[q]
                                /\ chan'[q] \in Range(queue')
                                /\ "ASYNC" \notin flags'[chan'[q]]
      BY DEF NoLostWakeup, Buf, NoChan, FreeList
    <2>1. chan'[q] = chan[q] /\ q # p BY DEF GivenUp
    <2>2. CASE chan[q] = x
      <3>1. {"BUSY", "WANTED"} \subseteq flags'[x] /\ x # FreeList BY <2>1, <2>2 DEF GivenUp, Buf, FreeList
      <3>2. pc[q] \in {"getblk", "drain"} BY <2>2 DEF IInv, ProcOK, NoLostWakeup
      <3> QED BY <2>1, <2>2, <3>1, <3>2
    <2>3. CASE chan[q] # x BY <1>1, <2>1, <2>3 DEF IInv, ProcOK, NoLostWakeup, GivenUp
    <2> QED BY <2>2, <2>3
  <1> QED BY <1>2, <1>3, <1>4 DEF IInv, ProcOK

(* A delayed write leaves the free list for the driver. *)
LEMMA WriteBackKeeps ==
    ASSUME IInv, NEW p \in Proc, pc[p] \in {"getblk", "flush"}, chan[p] = NoChan,
           NEW x \in Range(avail),
           Strategy(x, WriteFlags(flags[x] \cup {"BUSY", "ASYNC"}),
                    Without(avail, x), data[x]),
           Goto(p, pc[p]), UNCHANGED <<op, blk, ra, bp, first, alone>> PROVE IInv'
  <1>1. /\ x \in Buf /\ flags[x] \in SUBSET Flag /\ x \notin Range(queue)
        /\ FreeBut(Without(avail, x), x)
        /\ \A q \in Proc : x \notin Owned(q) /\ first[q] # x BY OnFreeList
  <1> DEFINE f == WriteFlags(flags[x] \cup {"BUSY", "ASYNC"})
  <1>2. /\ f \in SUBSET Flag /\ "BUSY" \in f /\ "ASYNC" \in f /\ "DONE" \notin f
        /\ "WANTED" \in flags[x] => "WANTED" \in f BY <1>1 DEF WriteFlags, Flag
  <1>3. data[x] \in Val BY <1>1 DEF IInv, CacheOK, CacheTypeOK
  <1> HIDE DEF f
  <1>4. Strategy(x, f, Without(avail, x), data[x]) BY DEF f
  <1>5. CacheOK' /\ GivenUp(x) BY <1>1, <1>2, <1>3, <1>4, StrategyGivesUp
  <1>6. UNCHANGED <<pc, bp, first>> /\ cpu' = p BY DEF Goto, IInv, ProcOK, ProcTypeOK
  <1>7. ProcTypeOK' BY <1>5, <1>6 DEF IInv, ProcOK, ProcTypeOK, GivenUp
  <1>8. RegistersOK' BY <1>5, <1>6 DEF IInv, ProcOK, ProcTypeOK, RegistersOK, GivenUp
  <1>9. Owned(p)' = Owned(p) \ {x} BY <1>1, <1>6 DEF Owned
  <1> QED BY <1>1, <1>5, <1>6, <1>7, <1>8, <1>9, GivenUpKeeps

(* getblk starts the delayed write it found in its way.                    *)
LEMMA GetblkEvictKeeps ==
    ASSUME IInv, NEW p \in Proc, GetblkEvict(p) PROVE IInv'
  <1> DEFINE x == Head(avail)
  <1>1. x \in Range(avail) BY ChainTail DEF GetblkEvict, IInv, CacheOK, CacheTypeOK, FreeListExact, IsChain
  <1>2. /\ Strategy(x, WriteFlags(flags[x] \cup {"BUSY", "ASYNC"}),
                    Without(avail, x), data[x])
        /\ pc[p] = "getblk" /\ chan[p] = NoChan /\ Goto(p, "getblk")
        /\ UNCHANGED <<op, blk, ra, bp, first, alone>> BY DEF GetblkEvict, Run
  <1> HIDE DEF x
  <1> QED BY <1>1, <1>2, WriteBackKeeps

(* bflush starts a delayed write.                                          *)
LEMMA FlushKeeps ==
    ASSUME IInv, NEW p \in Proc, Flush(p) PROVE IInv'
  <1>1. PICK i \in DOMAIN avail :
          Strategy(avail[i], WriteFlags(flags[avail[i]] \cup {"BUSY", "ASYNC"}),
                   Without(avail, avail[i]), data[avail[i]]) BY DEF Flush
  <1>2. /\ pc[p] = "flush" /\ chan[p] = NoChan /\ Goto(p, "flush")
        /\ UNCHANGED <<op, blk, ra, bp, first, alone>> BY DEF Flush, Run
  <1>3. avail[i] \in Range(avail) BY DEF Range
  <1> QED BY <1>1, <1>2, <1>3, WriteBackKeeps

(* Its owner is through with a buffer, and goes to label l. *)
LEMMA LeaveKeeps ==
    ASSUME IInv, NEW p \in Proc, pc[p] \in {"got", "hold", "wwait"}, chan[p] = NoChan,
           bp[p] \notin Range(queue), CacheOK', GivenUp(bp[p]),
           NEW l \in {"user", "join"}, l = "user" \/ op[p] = "rahead",
           pc' = [pc EXCEPT ![p] = l], bp' = [bp EXCEPT ![p] = NoBuf],
           first' = first, cpu' \in Proc \cup {NoProc}, alone' \in BOOLEAN,
           l = "user" => pc[p] # "got",
           op' \in [Proc -> Op], blk' \in [Proc -> Block \cup {NoBlk}],
           ra' \in [Proc -> Block \cup {NoBlk}],
           \A q \in Proc \ {p} : op'[q] = op[q] PROVE IInv'
  <1>1. /\ bp[p] \in Buf /\ bp[p] # first[p]
        /\ \A q \in Proc \ {p} : first[q] # bp[p] /\ (bp[q] = bp[p] => pc[q] = "drain") BY InHand
  <1>2. /\ pc'[p] = l /\ bp'[p] = NoBuf
        /\ \A q \in Proc \ {p} : pc'[q] = pc[q] /\ bp'[q] = bp[q] BY DEF IInv, ProcOK, ProcTypeOK
  <1>3. ProcTypeOK' BY DEF IInv, ProcOK, ProcTypeOK, GivenUp, Label
  <1>4. l = "user" => first[p] = NoBuf BY DEF IInv, ProcOK, RegistersOK
  <1>5. RegistersOK' BY <1>2, <1>4 DEF IInv, ProcOK, ProcTypeOK, RegistersOK, GivenUp
  <1>6. Owned(p)' = Owned(p) \ {bp[p]} BY <1>1, <1>2 DEF Owned
  <1>7. \A q \in Proc \ {p} : bp[p] \notin Owned(q) BY <1>1 DEF Owned
  <1> QED BY <1>1, <1>2, <1>3, <1>5, <1>6, <1>7, GivenUpKeeps

(* breada lets the read-ahead block go.                                    *)
LEMMA GotAheadKeeps ==
    ASSUME IInv, NEW p \in Proc, GotAhead(p) PROVE IInv'
  <1>1. /\ pc[p] = "got" /\ chan[p] = NoChan /\ op[p] = "rahead"
        /\ pc' = [pc EXCEPT ![p] = "join"] /\ bp' = [bp EXCEPT ![p] = NoBuf]
        /\ cpu' = p /\ UNCHANGED <<op, blk, ra, first, alone>> BY DEF GotAhead, Run, Goto
  <1> DEFINE x == bp[p]
  <1>2. /\ x \in Buf /\ flags[x] \in SUBSET Flag /\ "BUSY" \in flags[x]
        /\ FreeBut(avail, x) BY <1>1, InHand
  <1>3. x \notin Range(queue) BY <1>1 DEF IInv, ProcOK, TransfersOK
  <1>4. data[x] \in Val /\ data \in [Buf -> Val] BY <1>2 DEF IInv, CacheOK, CacheTypeOK
  <1>5. CacheOK' /\ GivenUp(x)
    <2>1. CASE "DONE" \in flags[x]
      <3>1. Brelse(x, flags[x], avail) /\ UNCHANGED <<data, device>> BY <2>1 DEF GotAhead
      <3>2. id[x] \in Medium /\ "DONE" \in flags[x] /\ flags[x] \cap {"ERROR", "DELWRI"} = {}
              => data'[x] = disk[id[x]] BY <1>2, <3>1 DEF IInv, CacheOK, Coherent
      <3>3. CacheOK' BY <1>2, <1>3, <1>4, <3>1, <3>2, BrelseKeepsCache DEF IInv
      <3> QED BY <1>2, <1>3, <3>1, <3>3, BrelseGivesUp
    <2>2. CASE "DONE" \notin flags[x]
      <3> DEFINE f == flags[x] \cup {"READ", "ASYNC"}
      <3>1. Strategy(x, f, avail, data[x]) BY <2>2 DEF GotAhead
      <3>2. /\ f \in SUBSET Flag /\ "BUSY" \in f /\ "ASYNC" \in f /\ "DONE" \notin f
            /\ "WANTED" \in flags[x] => "WANTED" \in f BY <1>2, <2>2 DEF Flag
      <3> HIDE DEF f, x
      <3> QED BY <1>2, <1>3, <1>4, <3>1, <3>2, StrategyGivesUp
    <2> QED BY <2>1, <2>2
  <1>6. op' \in [Proc -> Op] /\ blk' \in [Proc -> Block \cup {NoBlk}]
        /\ ra' \in [Proc -> Block \cup {NoBlk}] /\ alone' \in BOOLEAN BY <1>1 DEF IInv, ProcOK, ProcTypeOK
  <1> QED BY <1>1, <1>3, <1>5, <1>6, LeaveKeeps

(* The holder releases the buffer unchanged.                               *)
LEMMA HoldRelseKeeps ==
    ASSUME IInv, NEW p \in Proc, HoldRelse(p) PROVE IInv'
  <1>1. /\ pc[p] = "hold" /\ chan[p] = NoChan
        /\ pc' = [pc EXCEPT ![p] = "user"] /\ bp' = [bp EXCEPT ![p] = NoBuf]
        /\ cpu' = NoProc /\ UNCHANGED <<ra, first, alone>>
        /\ op' = [op EXCEPT ![p] = "none"] /\ blk' = [blk EXCEPT ![p] = NoBlk]
    BY DEF HoldRelse, Run, Goto, Leave
  <1> DEFINE x == bp[p]
  <1>2. /\ x \in Buf /\ flags[x] \in SUBSET Flag /\ "BUSY" \in flags[x]
        /\ FreeBut(avail, x) BY <1>1, InHand
  <1>3. x \notin Range(queue) BY <1>1 DEF IInv, ProcOK, TransfersOK
  <1>4. data \in [Buf -> Val] BY DEF IInv, CacheOK, CacheTypeOK
  <1>5. CacheOK' /\ GivenUp(x)
    <2>1. Brelse(x, flags[x], avail) /\ UNCHANGED <<data, device>> BY DEF HoldRelse
    <2>2. id[x] \in Medium /\ "DONE" \in flags[x] /\ flags[x] \cap {"ERROR", "DELWRI"} = {}
            => data'[x] = disk[id[x]] BY <1>2, <2>1 DEF IInv, CacheOK, Coherent
    <2>3. CacheOK' BY <1>2, <1>3, <1>4, <2>1, <2>2, BrelseKeepsCache DEF IInv
    <2> QED BY <1>2, <1>3, <2>1, <2>3, BrelseGivesUp
  <1>6. /\ op' \in [Proc -> Op] /\ blk' \in [Proc -> Block \cup {NoBlk}]
        /\ ra' \in [Proc -> Block \cup {NoBlk}] /\ alone' \in BOOLEAN
        /\ \A q \in Proc \ {p} : op'[q] = op[q] BY <1>1 DEF IInv, ProcOK, ProcTypeOK, Op
  <1> QED BY <1>1, <1>3, <1>5, <1>6, LeaveKeeps

(* The holder releases it marked for writing.                              *)
LEMMA HoldBdwriteKeeps ==
    ASSUME IInv, NEW p \in Proc, HoldBdwrite(p) PROVE IInv'
  <1>1. /\ pc[p] = "hold" /\ chan[p] = NoChan
        /\ pc' = [pc EXCEPT ![p] = "user"] /\ bp' = [bp EXCEPT ![p] = NoBuf]
        /\ cpu' = NoProc /\ UNCHANGED <<ra, first, alone>>
        /\ op' = [op EXCEPT ![p] = "none"] /\ blk' = [blk EXCEPT ![p] = NoBlk]
    BY DEF HoldBdwrite, Run, Goto, Leave
  <1> DEFINE x == bp[p]
  <1>2. /\ x \in Buf /\ flags[x] \in SUBSET Flag /\ "BUSY" \in flags[x]
        /\ FreeBut(avail, x) BY <1>1, InHand
  <1>3. x \notin Range(queue) BY <1>1 DEF IInv, ProcOK, TransfersOK
  <1>4. data \in [Buf -> Val] BY DEF IInv, CacheOK, CacheTypeOK
  <1>5. CacheOK' /\ GivenUp(x)
    <2> DEFINE f == flags[x] \cup {"DELWRI", "DONE"}
    <2>1. Brelse(x, f, avail) /\ UNCHANGED device BY DEF HoldBdwrite
    <2>2. /\ f \in SUBSET Flag /\ "DELWRI" \in f
          /\ "WANTED" \in flags[x] => "WANTED" \in f BY <1>2 DEF Flag
    <2>3. data' \in [Buf -> Val] /\ \A y \in Buf \ {x} : data'[y] = data[y] BY <1>4 DEF HoldBdwrite
    <2> HIDE DEF f
    <2>4. CacheOK' BY <1>2, <1>3, <2>1, <2>2, <2>3, BrelseKeepsCache DEF IInv
    <2> QED BY <1>2, <1>3, <2>1, <2>2, <2>4, BrelseGivesUp
  <1>6. /\ op' \in [Proc -> Op] /\ blk' \in [Proc -> Block \cup {NoBlk}]
        /\ ra' \in [Proc -> Block \cup {NoBlk}] /\ alone' \in BOOLEAN
        /\ \A q \in Proc \ {p} : op'[q] = op[q] BY <1>1 DEF IInv, ProcOK, ProcTypeOK, Op
  <1> QED BY <1>1, <1>3, <1>5, <1>6, LeaveKeeps

(* The holder starts a write and lets go.                                  *)
LEMMA HoldBawriteKeeps ==
    ASSUME IInv, NEW p \in Proc, HoldBawrite(p) PROVE IInv'
  <1>1. /\ pc[p] = "hold" /\ chan[p] = NoChan
        /\ pc' = [pc EXCEPT ![p] = "user"] /\ bp' = [bp EXCEPT ![p] = NoBuf]
        /\ cpu' = NoProc /\ UNCHANGED <<ra, first, alone>>
        /\ op' = [op EXCEPT ![p] = "none"] /\ blk' = [blk EXCEPT ![p] = NoBlk]
    BY DEF HoldBawrite, Run, Goto, Leave
  <1> DEFINE x == bp[p]
  <1>2. /\ x \in Buf /\ flags[x] \in SUBSET Flag /\ "BUSY" \in flags[x]
        /\ FreeBut(avail, x) BY <1>1, InHand
  <1>3. x \notin Range(queue) BY <1>1 DEF IInv, ProcOK, TransfersOK
  <1>4. data \in [Buf -> Val] BY DEF IInv, CacheOK, CacheTypeOK
  <1>5. CacheOK' /\ GivenUp(x)
    <2> DEFINE f == WriteFlags(flags[x] \cup {"ASYNC"})
    <2>1. PICK v \in Val : Strategy(x, f, avail, v) BY DEF HoldBawrite
    <2>2. /\ f \in SUBSET Flag /\ "BUSY" \in f /\ "ASYNC" \in f /\ "DONE" \notin f
          /\ "WANTED" \in flags[x] => "WANTED" \in f BY <1>2 DEF WriteFlags, Flag
    <2> HIDE DEF f, x
    <2> QED BY <1>2, <1>3, <2>1, <2>2, StrategyGivesUp
  <1>6. /\ op' \in [Proc -> Op] /\ blk' \in [Proc -> Block \cup {NoBlk}]
        /\ ra' \in [Proc -> Block \cup {NoBlk}] /\ alone' \in BOOLEAN
        /\ \A q \in Proc \ {p} : op'[q] = op[q] BY <1>1 DEF IInv, ProcOK, ProcTypeOK, Op
  <1> QED BY <1>1, <1>3, <1>5, <1>6, LeaveKeeps


(* bwrite waits, then releases.                                            *)
LEMMA IowaitWriteKeeps ==
    ASSUME IInv, NEW p \in Proc, IowaitWrite(p) PROVE IInv'
  <1> DEFINE x == bp[p]
  <1>1. pc[p] = "wwait" /\ chan[p] = NoChan /\ UNCHANGED <<data, device>> BY DEF IowaitWrite, Run
  <1>2. /\ x \in Buf /\ flags[x] \in SUBSET Flag
        /\ "BUSY" \in flags[x] /\ "ASYNC" \notin flags[x] /\ FreeBut(avail, x) BY <1>1, InHand
  <1>3. CASE "DONE" \in flags[x]
    <2>1. /\ Brelse(x, flags[x], avail)
          /\ pc' = [pc EXCEPT ![p] = "user"] /\ bp' = [bp EXCEPT ![p] = NoBuf]
          /\ cpu' = NoProc /\ UNCHANGED <<ra, first, alone>>
          /\ op' = [op EXCEPT ![p] = "none"] /\ blk' = [blk EXCEPT ![p] = NoBlk]
      BY <1>3 DEF IowaitWrite, Goto, Leave
    <2>2. x \notin Range(queue) BY <1>3 DEF IInv, CacheOK, QueueExact
    <2>3. data \in [Buf -> Val] BY DEF IInv, CacheOK, CacheTypeOK
    <2>4. id[x] \in Medium /\ "DONE" \in flags[x] /\ flags[x] \cap {"ERROR", "DELWRI"} = {}
            => data'[x] = disk[id[x]] BY <1>1, <1>2 DEF IInv, CacheOK, Coherent
    <2>5. CacheOK' BY <1>1, <1>2, <2>1, <2>2, <2>3, <2>4, BrelseKeepsCache DEF IInv
    <2>6. GivenUp(x) BY <1>1, <1>2, <2>1, <2>2, BrelseGivesUp
    <2>7. /\ op' \in [Proc -> Op] /\ blk' \in [Proc -> Block \cup {NoBlk}]
          /\ ra' \in [Proc -> Block \cup {NoBlk}] /\ alone' \in BOOLEAN
          /\ \A q \in Proc \ {p} : op'[q] = op[q] BY <2>1 DEF IInv, ProcOK, ProcTypeOK, Op
    <2> QED BY <1>1, <2>1, <2>2, <2>5, <2>6, <2>7, LeaveKeeps
  <1>4. CASE "DONE" \notin flags[x]
    <2>1. /\ UNCHANGED <<cache, data, device, regs, alone>>
          /\ chan' = [chan EXCEPT ![p] = x] /\ cpu' = NoProc BY <1>1, <1>4 DEF IowaitWrite, Sleep
    <2>2. CacheOK' BY <2>1, IdleKeepsCache DEF IInv
    <2> USE <1>1, <1>2, <1>4, <2>1 DEF IInv, ProcOK, cache, device, regs
    <2>3. ProcTypeOK' BY DEF ProcTypeOK
    <2>4. RegistersOK' BY DEF RegistersOK, ProcTypeOK
    <2>5. Exclusive'
      <3>1. \A q \in Proc : Owned(q)' = Owned(q) BY DEF Owned
      <3> QED BY <3>1, NothingMoves DEF Exclusive
    <2>6. TransfersOK' BY DEF TransfersOK
    <2>7. NoLostWakeup' BY DEF NoLostWakeup, TransfersOK, ProcTypeOK, Buf, NoChan, FreeList
    <2> QED BY <2>2, <2>3, <2>4, <2>5, <2>6, <2>7
  <1> QED BY <1>3, <1>4

----
(* The interrupt, the reset, and the theorems.                             *)

(* The interrupt finishes the first transfer of the queue.                 *)
LEMMA RkIntrKeeps ==
    ASSUME IInv, RkIntr, queue # <<>> PROVE IInv'
  <1> DEFINE x == Head(queue)
             f == flags[x]
  <1>1. IsChain(queue, Buf) /\ IsChain(avail, Buf)
    BY DEF IInv, CacheOK, CacheTypeOK, QueueExact, FreeListExact, IsChain
  <1>2. /\ x \in Range(queue)
        /\ IsChain(Tail(queue), Buf) /\ Range(Tail(queue)) = Range(queue) \ {x} BY <1>1, ChainTail
  <1>3. /\ x \in Buf /\ f \in SUBSET Flag /\ "BUSY" \in f /\ "DONE" \notin f
        /\ id[x] \in Medium /\ x \notin Range(avail)
    BY <1>1, <1>2, ChainRange DEF IInv, CacheOK, CacheTypeOK, QueueExact, FreeListExact, Medium
  <1>4. /\ Transfer(x, f, data[x]) /\ queue' = Tail(queue)
        /\ active' = (Tail(queue) # <<>>)
        /\ Iodone(x, f, avail) /\ UNCHANGED <<regs, cpu, alone>> BY DEF RkIntr
  <1>5. CacheTypeOK /\ data[x] \in Val /\ CacheOK BY <1>3 DEF IInv, CacheOK, CacheTypeOK
  <1> HIDE DEF x, f
  <1>6. Moved(x, {}) BY <1>3, <1>4, <1>5, TransferMoves
  <1>7. Dequeued(x) /\ Range(queue') = Range(queue) \ {x} BY <1>2, <1>4 DEF Dequeued
  <1>8. \/ Completed(x, f, avail, {})
        \/ "ASYNC" \in f /\ Freed(x, f \cup {"DONE"}, avail)
    <2>1. {} \in Errors /\ f \cup {} = f BY DEF Errors
    <2> QED BY <1>1, <1>3, <1>4, <2>1, IodoneOutcome
  <1>9. FreeBut(avail, x) BY <1>1, <1>3 DEF FreeBut
  <1>10. f = flags[x] BY DEF f
  <1>11. /\ chan \in [Proc -> Buf \cup {FreeList, NoChan}] /\ flags \in [Buf -> SUBSET Flag]
         /\ freeWanted \in BOOLEAN BY DEF IInv, ProcOK, CacheOK, ProcTypeOK, CacheTypeOK
  <1>12. CASE Completed(x, f, avail, {})
    <2>1. CacheOK'
      <3>1. {} \in Errors BY DEF Errors
      <3> QED BY <1>3, <1>5, <1>6, <1>7, <1>9, <1>12, <3>1, CompletedKeepsCache
    <2>2. /\ flags'[x] = (flags[x] \cup {"DONE"}) \ {"WANTED"} /\ "ASYNC" \notin flags[x]
          /\ \A y \in Buf \ {x} : flags'[y] = flags[y]
          /\ chan' = [q \in Proc |-> IF chan[q] = x THEN NoChan ELSE chan[q]]
          /\ UNCHANGED <<avail, freeWanted>> BY <1>3, <1>10, <1>11, <1>12 DEF Completed, Wakeup
    <2> USE <1>3, <1>7, <2>2 DEF IInv, ProcOK
    <2>3. ProcTypeOK' BY <1>4 DEF ProcTypeOK, regs
    <2>4. RegistersOK' BY <1>4, <1>11 DEF RegistersOK, regs
    <2>5. Exclusive'
      <3>1. UNCHANGED <<pc, bp, first>> BY <1>4 DEF regs
      <3>2. \A q \in Proc : Owned(q)' = Owned(q) BY <3>1 DEF Owned
      <3> QED BY <3>1, <3>2, NothingMoves DEF Exclusive
    <2>6. TransfersOK' BY <1>4 DEF TransfersOK, RegistersOK, ProcTypeOK, regs
    <2>7. NoLostWakeup'
      <3>1. x # NoChan /\ x # FreeList BY DEF Buf, NoChan, FreeList
      <3>2. UNCHANGED <<pc, bp>> BY <1>4 DEF regs
      <3> QED BY <1>11, <3>1, <3>2 DEF NoLostWakeup, Buf, NoChan, FreeList
    <2> QED BY <2>1, <2>3, <2>4, <2>5, <2>6, <2>7
  <1>13. CASE "ASYNC" \in f /\ Freed(x, f \cup {"DONE"}, avail)
    <2> DEFINE g == f \cup {"DONE"}
    <2>1. g \in SUBSET Flag BY <1>3 DEF Flag
    <2>2. Freed(x, g, avail) BY <1>13
    <2> HIDE DEF g
    <2>3. CacheOK' BY <1>3, <1>5, <1>6, <1>7, <1>9, <2>1, <2>2, FreedKeepsCache DEF Moved
    <2>4. \A q \in Proc : x \notin Owned(q) BY <1>3, <1>10, <1>13 DEF IInv, ProcOK, Exclusive
    <2>5. \A q \in Proc : chan[q] = x => "WANTED" \in g
      BY <1>3, <1>10, <1>13 DEF IInv, ProcOK, NoLostWakeup, g
    <2>6. /\ flags'[x] \cap {"BUSY", "ASYNC"} = {}
          /\ \A y \in Buf \ {x} : flags'[y] = flags[y] BY <1>3, <1>11, <2>2 DEF Freed
    <2>7. \A q \in Proc : chan[q] = FreeList => freeWanted BY DEF IInv, ProcOK, NoLostWakeup
    <2>8. /\ \A q \in Proc : chan'[q] \in {chan[q], NoChan} /\ chan'[q] \notin {x, FreeList}
          /\ chan' \in [Proc -> Buf \cup {FreeList, NoChan}]
      <3> DEFINE C == (IF "WANTED" \in g THEN {x} ELSE {})
                        \cup (IF freeWanted THEN {FreeList} ELSE {})
      <3>1. chan' = [q \in Proc |-> IF chan[q] \in C THEN NoChan ELSE chan[q]] BY <2>2 DEF Freed, Wakeup
      <3>2. \A q \in Proc : chan[q] \in {x, FreeList} => chan[q] \in C BY <2>5, <2>7
      <3>3. x # NoChan /\ FreeList # NoChan BY <1>3 DEF Buf, NoChan, FreeList
      <3> HIDE DEF C
      <3> QED BY <1>11, <3>1, <3>2, <3>3
    <2>9. UNCHANGED <<pc, op, blk, ra, bp, first, cpu, alone>> /\ freeWanted' = FALSE
      BY <1>4, <2>2 DEF regs, Freed
    <2> HIDE DEF x, f
    <2>10. ProcTypeOK' BY <2>8, <2>9 DEF IInv, ProcOK, ProcTypeOK
    <2>11. RegistersOK' BY <2>8, <2>9 DEF IInv, ProcOK, RegistersOK
    <2>12. \A q \in Proc : Owned(q)' = Owned(q) BY <2>9 DEF Owned
    <2>13. Exclusive' BY <1>3, <1>7, <2>4, <2>6, <2>9, <2>12 DEF IInv, ProcOK, Exclusive
    <2>14. TransfersOK'
      <3> SUFFICES ASSUME NEW q \in Proc
                   PROVE  /\ pc[q] \in {"iowait", "wwait"} /\ "DONE" \notin flags'[bp[q]]
                                => bp[q] \in Range(queue')
                          /\ first[q] # NoBuf /\ "DONE" \notin flags'[first[q]]
                                => first[q] \in Range(queue')
                          /\ pc[q] \in {"got", "hold"} => bp[q] \notin Range(queue') BY <2>9 DEF TransfersOK
      <3>1. first[q] # NoBuf => first[q] \in Buf \ {x} BY <2>4 DEF IInv, ProcOK, ProcTypeOK, Owned
      <3>2. pc[q] \in {"iowait", "wwait", "got", "hold"} => bp[q] \in Buf \ {x} BY <2>4, InHand
      <3> QED BY <1>7, <2>6, <3>1, <3>2 DEF IInv, ProcOK, TransfersOK
    <2>15. NoLostWakeup' BY <1>7, <2>6, <2>8, <2>9 DEF IInv, ProcOK, NoLostWakeup, Buf, FreeList, NoChan
    <2> QED BY <2>3, <2>10, <2>11, <2>13, <2>14, <2>15 DEF IInv, ProcOK
  <1> QED BY <1>8, <1>12, <1>13


(* The drive never works without a transfer.                               *)
LEMMA ActiveHasQueue ==
    ASSUME IInv, RkIntr PROVE queue # <<>> BY DEF IInv, CacheOK, QueueExact, RkIntr

(* The empty pool, at boot and after a reset. *)
LEMMA FreshHolds ==
    ASSUME flags' = [x \in Buf |-> {}], id' = [x \in Buf |-> NoBlk],
           data' \in [Buf -> Val], disk' \in [Medium -> Val],
           avail' = [i \in 1..NBUF |-> i], freeWanted' = FALSE,
           queue' = <<>>, active' = FALSE,
           pc' = [p \in Proc |-> "user"], op' = [p \in Proc |-> "none"],
           blk' = [p \in Proc |-> NoBlk], ra' = [p \in Proc |-> NoBlk],
           bp' = [p \in Proc |-> NoBuf], first' = [p \in Proc |-> NoBuf],
           chan' = [p \in Proc |-> NoChan], cpu' = NoProc, alone' = FALSE PROVE IInv'
  <1>1. avail' \in Seq(Buf) /\ DOMAIN avail' = Buf /\ Range(avail') = Buf
        /\ IsInjective(avail') BY NBUFAssumption DEF Buf, Range, IsInjective
  <1>2. Range(queue') = {} /\ IsInjective(queue') /\ queue' \in Seq(Buf) BY DEF Range, IsInjective
  <1>3. CacheTypeOK' BY <1>1, <1>2 DEF CacheTypeOK, Flag
  <1>4. FreeListExact' /\ QueueExact' /\ NoAlias' /\ Coherent'
    BY <1>1, <1>2 DEF FreeListExact, QueueExact, NoAlias, Coherent
  <1>5. ProcTypeOK' BY DEF ProcTypeOK, Label, Op
  <1>6. RegistersOK' /\ TransfersOK' BY DEF RegistersOK, TransfersOK, NoBuf
  <1>7. Exclusive' BY DEF Exclusive, Owned, NoBuf
  <1>8. NoLostWakeup' BY DEF NoLostWakeup, NoChan, FreeList, Buf
  <1> QED BY <1>3, <1>4, <1>5, <1>6, <1>7, <1>8 DEF IInv, CacheOK, ProcOK

(* The same for the first boot.                                            *)
LEMMA InitHolds ==
    ASSUME Init PROVE IInv
  <1> USE DEF Init
  <1>1. avail \in Seq(Buf) /\ DOMAIN avail = Buf /\ Range(avail) = Buf
        /\ IsInjective(avail) BY NBUFAssumption DEF Buf, Range, IsInjective
  <1>2. Range(queue) = {} /\ IsInjective(queue) /\ queue \in Seq(Buf) BY DEF Range, IsInjective
  <1>3. CacheTypeOK BY <1>1, <1>2, ValAssumption DEF CacheTypeOK, Flag
  <1>4. FreeListExact /\ QueueExact /\ NoAlias /\ Coherent
    BY <1>1, <1>2 DEF FreeListExact, QueueExact, NoAlias, Coherent
  <1>5. ProcTypeOK BY DEF ProcTypeOK, Label, Op
  <1>6. RegistersOK /\ TransfersOK BY DEF RegistersOK, TransfersOK, NoBuf
  <1>7. Exclusive BY DEF Exclusive, Owned, NoBuf
  <1>8. NoLostWakeup BY DEF NoLostWakeup, NoChan, FreeList, Buf
  <1> QED BY <1>3, <1>4, <1>5, <1>6, <1>7, <1>8 DEF IInv, CacheOK, ProcOK

(* A reset leaves the pool empty and the disk as it was.                   *)
LEMMA BootKeeps ==
    ASSUME IInv, Boot PROVE IInv'
  <1>1. data' \in [Buf -> Val] BY ValAssumption DEF Boot
  <1>2. disk' \in [Medium -> Val] BY DEF Boot, IInv, CacheOK, CacheTypeOK
  <1> QED BY <1>1, <1>2, FreshHolds DEF Boot

(* A step that changes nothing.                                            *)
LEMMA StutterKeeps ==
    ASSUME IInv, UNCHANGED vars PROVE IInv'
  <1>1. CacheOK' BY IdleKeepsCache DEF IInv, vars
  <1>2. UNCHANGED <<flags, avail, freeWanted, queue, pc, op, blk, ra, bp, first, chan,
                    cpu, alone>> BY DEF vars, cache, device, regs
  <1>3. ProcTypeOK' /\ RegistersOK' BY <1>2 DEF IInv, ProcOK, ProcTypeOK, RegistersOK
  <1>4. Exclusive'
    <2>1. \A q \in Proc : Owned(q)' = Owned(q) BY <1>2 DEF Owned
    <2> QED BY <1>2, <2>1, NothingMoves DEF IInv, ProcOK, Exclusive
  <1>5. TransfersOK' /\ NoLostWakeup' BY <1>2 DEF IInv, ProcOK, TransfersOK, NoLostWakeup
  <1> QED BY <1>1, <1>3, <1>4, <1>5 DEF IInv, ProcOK

(* Every step keeps the inductive invariant.                               *)
LEMMA NextKeeps ==
    ASSUME IInv, [Next]_vars PROVE IInv'
  <1>1. CASE RkIntr BY <1>1, ActiveHasQueue, RkIntrKeeps
  <1>2. CASE Boot BY <1>2, BootKeeps
  <1>3. ASSUME NEW p \in Proc, Start(p) \/ Step(p) PROVE IInv'
    <2>1. CASE Start(p) BY <2>1, StartKeeps
    <2>2. CASE Getblk(p)
      BY <2>2, GetblkBusyKeeps, GetblkHitKeeps, GetblkWaitKeeps, GetblkEvictKeeps, GetblkTakeKeeps DEF Getblk
    <2>3. CASE GotBread(p) \/ GotGetblk(p) \/ GotBreada(p) \/ GotAhead(p)
      BY <2>3, GotBreadKeeps, GotGetblkKeeps, GotBreadaKeeps, GotAheadKeeps
    <2>4. CASE Ahead(p) \/ Join(p) \/ IowaitRead(p) \/ IowaitWrite(p)
      BY <2>4, AheadKeeps, JoinKeeps, IowaitReadKeeps, IowaitWriteKeeps
    <2>5. CASE GiveBack(p)
      BY <2>5, HoldRelseKeeps, HoldBdwriteKeeps, HoldBawriteKeeps, HoldBwriteKeeps DEF GiveBack
    <2>6. CASE Flush(p) \/ FlushDone(p) \/ Drain(p) BY <2>6, FlushKeeps, FlushDoneKeeps, DrainKeeps
    <2> QED BY <1>3, <2>1, <2>2, <2>3, <2>4, <2>5, <2>6 DEF Step
  <1>4. CASE UNCHANGED vars BY <1>4, StutterKeeps
  <1> QED BY <1>1, <1>2, <1>3, <1>4 DEF Next

(* The conjunction of all of it is an invariant of the buffer cache: the   *)
(* parts below are not inductive one without the others.                   *)
THEOREM CacheInvariant == Spec => []IInv
  <1>1. Init => IInv BY InitHolds
  <1>2. IInv /\ [Next]_vars => IInv' BY NextKeeps
  <1> QED BY <1>1, <1>2, PTL DEF Spec

(* Every variable keeps its type; reboot's scan stays in the pool. *)
THEOREM TypeCorrect == Spec => []TypeOK
  <1>1. IInv => TypeOK BY DEF IInv, CacheOK, ProcOK, TypeOK
  <1> QED BY <1>1, CacheInvariant, PTL

(* The available list is exactly the buffers that are not busy. *)
THEOREM FreeListCorrect == Spec => []FreeListExact
  <1>1. IInv => FreeListExact BY DEF IInv, CacheOK
  <1> QED BY <1>1, CacheInvariant, PTL

(* Two processes never own the same buffer, and a process never one that   *)
(* the driver will release behind its back.                                *)
THEOREM MutualExclusion == Spec => []Exclusive
  <1>1. IInv => Exclusive BY DEF IInv, ProcOK
  <1> QED BY <1>1, CacheInvariant, PTL

(* Two buffers never cache the same block. *)
THEOREM OneBufferPerBlock == Spec => []NoAlias
  <1>1. IInv => NoAlias BY DEF IInv, CacheOK
  <1> QED BY <1>1, CacheInvariant, PTL

(* Nobody sleeps where no wakeup is due. *)
THEOREM WakeupsDue == Spec => []NoLostWakeup
  <1>1. IInv => NoLostWakeup BY DEF IInv, ProcOK
  <1> QED BY <1>1, CacheInvariant, PTL

(* A clean valid buffer agrees with its medium. *)
THEOREM CleanBuffersAgree == Spec => []Coherent
  <1>1. IInv => Coherent BY DEF IInv, CacheOK
  <1> QED BY <1>1, CacheInvariant, PTL
----
(***************************************************************************)
(* The buffer cache and its drivers implement one register per block       *)
(* (BlockStore), and a reboot with the kernel to itself leaves the disk    *)
(* with every register's value.                                            *)
(***************************************************************************)

----
(* The registers, buffer by buffer. *)

(* A valid buffer has its block's register, for there is no other; without *)
(* one the medium has it.                                                  *)
LEMMA StoreIs ==
    ASSUME NoAlias
    PROVE  /\ \A y \in Buf : id[y] \in Medium /\ id[y] # NoBlk /\ Valid(y) => Store[id[y]] = data[y]
           /\ \A c \in Medium : (\A y \in Incore(c) : ~Valid(y)) => Store[c] = disk[c]
  <1>1. ASSUME NEW y \in Buf, id[y] \in Medium, id[y] # NoBlk, Valid(y) PROVE Store[id[y]] = data[y]
    <2>1. y \in Incore(id[y]) /\ \A z \in Incore(id[y]) : z = y BY <1>1 DEF Incore, NoAlias
    <2>2. (CHOOSE z \in Incore(id[y]) : Valid(z)) = y BY <1>1, <2>1
    <2> QED BY <1>1, <2>1, <2>2 DEF Store
  <1>2. ASSUME NEW c \in Medium, \A y \in Incore(c) : ~Valid(y) PROVE Store[c] = disk[c] BY <1>2 DEF Store
  <1> QED BY <1>1, <1>2

(* What the registers are after a step. *)
LEMMA StoreBecomes ==
    ASSUME NEW F, F = [c \in Medium |-> F[c]],
           \A y \in Buf : id'[y] \in Medium /\ Valid(y)' => data'[y] = F[id'[y]],
           \A c \in Medium :
              (\A y \in Buf : id'[y] = c => ~Valid(y)') => disk'[c] = F[c],
           NoBlk \notin Medium PROVE Store' = F
  <1>1. ASSUME NEW c \in Medium
        PROVE  (IF \E x \in Incore(c)' : Valid(x)'
                THEN data'[CHOOSE x \in Incore(c)' : Valid(x)'] ELSE disk'[c]) = F[c]
    <2>1. CASE \E x \in Incore(c)' : Valid(x)'
      <3>1. PICK x : x \in Incore(c)' /\ Valid(x)' /\ x = (CHOOSE z \in Incore(c)' : Valid(z)') BY <2>1
      <3>2. x \in Buf /\ id'[x] = c BY <3>1 DEF Incore
      <3> QED BY <2>1, <3>1, <3>2
    <2>2. CASE ~ \E x \in Incore(c)' : Valid(x)'
      <3>1. \A y \in Buf : id'[y] = c => ~Valid(y)' BY <2>2 DEF Incore
      <3> QED BY <2>2, <3>1
    <2> QED BY <2>1, <2>2
  <1>2. Store' = [c \in Medium |-> IF \E x \in Incore(c)' : Valid(x)'
                THEN data'[CHOOSE x \in Incore(c)' : Valid(x)'] ELSE disk'[c]] BY DEF Store
  <1> QED BY <1>1, <1>2

(* A buffer without a block has none of a medium's. *)
LEMMA NoBlkIsNone == NoBlk \notin Medium /\ Medium \subseteq Block BY BlockAssumption DEF Medium, Block

(* At most buffer x is another than before. *)
Only(x) ==
    \A y \in Buf \ {x} :
       /\ flags'[y] = flags[y] /\ id'[y] = id[y] /\ data'[y] = data[y]
       /\ y \in Range(queue') <=> y \in Range(queue)

(* Then only the registers of its old block and its new one change. *)
LEMMA StoreChange ==
    ASSUME NoAlias, NoAlias', NEW x \in Buf, Only(x), NEW F, F = [c \in Medium |-> F[c]],
           \A c \in Medium : c # id[x] /\ c # id'[x] => F[c] = Store[c] /\ disk'[c] = disk[c],
           id'[x] \in Medium /\ Valid(x)' => F[id'[x]] = data'[x],
           id'[x] \in Medium /\ ~Valid(x)' => F[id'[x]] = disk'[id'[x]],
           id[x] \in Medium /\ id'[x] # id[x] => F[id[x]] = disk'[id[x]] PROVE Store' = F
  <1>1. \A y \in Buf \ {x} : Valid(y)' <=> Valid(y) BY DEF Only, Valid
  <1>2. ASSUME NEW y \in Buf, id'[y] \in Medium, Valid(y)' PROVE data'[y] = F[id'[y]]
    <2>1. CASE y = x BY <1>2, <2>1
    <2>2. CASE y # x
      <3>1. id'[y] = id[y] /\ Valid(y) /\ data'[y] = data[y] BY <1>1, <1>2, <2>2 DEF Only
      <3>2. id[y] # id[x] /\ id[y] # id'[x] BY <1>2, <2>2, <3>1, NoBlkIsNone DEF NoAlias
      <3>3. Store[id[y]] = data[y] BY <1>2, <3>1, StoreIs, NoBlkIsNone
      <3> QED BY <1>2, <3>1, <3>2, <3>3
    <2> QED BY <2>1, <2>2
  <1>3. ASSUME NEW c \in Medium, \A y \in Buf : id'[y] = c => ~Valid(y)' PROVE disk'[c] = F[c]
    <2>1. CASE c = id'[x] BY <1>3, <2>1
    <2>2. CASE c = id[x] /\ c # id'[x] BY <2>2
    <2>3. CASE c # id[x] /\ c # id'[x]
      <3>1. \A y \in Incore(c) : ~Valid(y) BY <1>1, <1>3, <2>3 DEF Incore, Only
      <3> QED BY <2>3, <3>1, StoreIs
    <2> QED BY <2>1, <2>2, <2>3
  <1> QED BY <1>2, <1>3, StoreBecomes, NoBlkIsNone

----
(* The owners, buffer by buffer. *)

OwnedIn == \A q \in Proc : Owned(q) \subseteq Buf

(* What a process must give back are buffers. *)
LEMMA OwnedBuf == ASSUME ProcTypeOK PROVE OwnedIn BY DEF ProcTypeOK, OwnedIn, Owned

(* Who has a block's buffer has the block. *)
LEMMA OwnerIs ==
    ASSUME OwnedIn, NoAlias, Exclusive
    PROVE  /\ \A q \in Proc : \A y \in Owned(q) : id[y] \in Medium => Owner[id[y]] = q
           /\ \A c \in Medium : (\A q \in Proc : \A y \in Owned(q) : id[y] # c) => Owner[c] = NoProc
  <1>1. ASSUME NEW q \in Proc, NEW y \in Owned(q), id[y] \in Medium PROVE Owner[id[y]] = q
    <2>1. ASSUME NEW r \in Proc, NEW z \in Owned(r), id[z] = id[y] PROVE r = q
      <3>1. z = y BY <1>1, <2>1, NoBlkIsNone DEF NoAlias, OwnedIn
      <3> QED BY <3>1 DEF Exclusive
    <2>2. (CHOOSE r \in Proc : \E z \in Owned(r) : id[z] = id[y]) = q BY <2>1
    <2> QED BY <1>1, <2>2 DEF Owner
  <1>2. ASSUME NEW c \in Medium, \A q \in Proc : \A y \in Owned(q) : id[y] # c
        PROVE  Owner[c] = NoProc BY <1>2 DEF Owner
  <1> QED BY <1>1, <1>2

(* Who has each block after a step. *)
LEMMA OwnerBecomes ==
    ASSUME NEW G, G = [c \in Medium |-> G[c]],
           \A q \in Proc : \A y \in Owned(q)' : id'[y] \in Medium => G[id'[y]] = q,
           \A c \in Medium : (\A q \in Proc : \A y \in Owned(q)' : id'[y] # c) => G[c] = NoProc
    PROVE  Owner' = G
  <1>1. ASSUME NEW c \in Medium
        PROVE  (IF \E p \in Proc : \E x \in Owned(p)' : id'[x] = c
                THEN CHOOSE p \in Proc : \E x \in Owned(p)' : id'[x] = c ELSE NoProc) = G[c]
    <2>1. CASE \E p \in Proc : \E x \in Owned(p)' : id'[x] = c
      <3>1. PICK p \in Proc : /\ p = (CHOOSE q \in Proc : \E x \in Owned(q)' : id'[x] = c)
                              /\ \E x \in Owned(p)' : id'[x] = c BY <2>1
      <3> QED BY <2>1, <3>1
    <2>2. CASE ~ \E p \in Proc : \E x \in Owned(p)' : id'[x] = c BY <2>2
    <2> QED BY <2>1, <2>2
  <1>2. Owner' = [c \in Medium |-> IF \E p \in Proc : \E x \in Owned(p)' : id'[x] = c
                THEN CHOOSE p \in Proc : \E x \in Owned(p)' : id'[x] = c ELSE NoProc] BY DEF Owner
  <1> QED BY <1>1, <1>2

(* Owners and registers are functions of the media's blocks. *)
LEMMA OwnerShape == Owner = [c \in Medium |-> Owner[c]] /\ Store = [c \in Medium |-> Store[c]]
  BY DEF Owner, Store

(* Nobody takes a buffer or lets go of one. *)
LEMMA OwnerSame ==
    ASSUME OwnedIn, NoAlias, Exclusive, \A q \in Proc : Owned(q)' = Owned(q),
           \A q \in Proc : \A y \in Owned(q) : id'[y] = id[y] PROVE Owner' = Owner
  <1>1. \A q \in Proc : \A y \in Owned(q)' : id'[y] \in Medium => Owner[id'[y]] = q BY OwnerIs
  <1>2. \A c \in Medium : (\A q \in Proc : \A y \in Owned(q)' : id'[y] # c) => Owner[c] = NoProc BY OwnerIs
  <1> QED BY <1>1, <1>2, OwnerBecomes, OwnerShape

(* p takes buffer x, which nobody had. *)
LEMMA OwnerTakes ==
    ASSUME OwnedIn, NoAlias, Exclusive, NoAlias', NEW p \in Proc, NEW x \in Buf,
           \A q \in Proc : x \notin Owned(q),
           \A q \in Proc \ {p} : Owned(q)' = Owned(q), Owned(p)' = Owned(p) \cup {x},
           \A y \in Buf \ {x} : id'[y] = id[y]
    PROVE  /\ id'[x] \in Medium => /\ Owner[id'[x]] = NoProc
                                   /\ Owner' = [Owner EXCEPT ![id'[x]] = p]
           /\ id'[x] \notin Medium => Owner' = Owner
  <1>1. \A q \in Proc : \A y \in Owned(q) : y \in Buf /\ y # x /\ id'[y] = id[y] BY DEF OwnedIn
  <1>2. CASE id'[x] \in Medium
    <2>1. \A q \in Proc : \A y \in Owned(q) : id[y] # id'[x] BY <1>1, <1>2, NoBlkIsNone DEF NoAlias
    <2>2. Owner[id'[x]] = NoProc BY <1>2, <2>1, OwnerIs
    <2> DEFINE G == [Owner EXCEPT ![id'[x]] = p]
    <2>3. G = [c \in Medium |-> G[c]] /\ G[id'[x]] = p
          /\ \A c \in Medium \ {id'[x]} : G[c] = Owner[c] BY <1>2, OwnerShape
    <2> HIDE DEF G
    <2>4. \A q \in Proc : \A y \in Owned(q)' : id'[y] \in Medium => G[id'[y]] = q
      <3> SUFFICES ASSUME NEW q \in Proc, NEW y \in Owned(q)', id'[y] \in Medium PROVE G[id'[y]] = q OBVIOUS
      <3>1. CASE y = x
        <4>1. q = p BY <3>1
        <4> QED BY <2>3, <3>1, <4>1
      <3>2. CASE y # x
        <4>1. y \in Owned(q) BY <3>2
        <4> QED BY <1>1, <2>1, <2>3, <4>1, OwnerIs
      <3> QED BY <3>1, <3>2
    <2>5. \A c \in Medium : (\A q \in Proc : \A y \in Owned(q)' : id'[y] # c) => G[c] = NoProc
      <3> SUFFICES ASSUME NEW c \in Medium, \A q \in Proc : \A y \in Owned(q)' : id'[y] # c
                   PROVE  G[c] = NoProc OBVIOUS
      <3>1. c # id'[x] OBVIOUS
      <3>2. \A q \in Proc : \A y \in Owned(q) : id[y] # c BY <1>1
      <3> QED BY <2>3, <3>1, <3>2, OwnerIs
    <2>6. Owner' = G BY <2>3, <2>4, <2>5, OwnerBecomes
    <2> QED BY <1>2, <2>2, <2>6 DEF G
  <1>3. CASE id'[x] \notin Medium
    <2>1. \A q \in Proc : \A y \in Owned(q)' : id'[y] \in Medium => Owner[id'[y]] = q
      <3> SUFFICES ASSUME NEW q \in Proc, NEW y \in Owned(q)', id'[y] \in Medium
                   PROVE  Owner[id'[y]] = q OBVIOUS
      <3>1. y \in Owned(q) BY <1>3
      <3> QED BY <1>1, <3>1, OwnerIs
    <2>2. \A c \in Medium : (\A q \in Proc : \A y \in Owned(q)' : id'[y] # c) => Owner[c] = NoProc
      <3> SUFFICES ASSUME NEW c \in Medium, \A q \in Proc : \A y \in Owned(q)' : id'[y] # c
                   PROVE  Owner[c] = NoProc OBVIOUS
      <3>1. \A q \in Proc : \A y \in Owned(q) : id[y] # c BY <1>1
      <3> QED BY <3>1, OwnerIs
    <2> QED BY <1>3, <2>1, <2>2, OwnerBecomes, OwnerShape
  <1> QED BY <1>2, <1>3

(* p lets go of buffer x. *)
LEMMA OwnerDrops ==
    ASSUME OwnedIn, NoAlias, Exclusive, NEW p \in Proc, NEW x \in Owned(p),
           \A q \in Proc \ {p} : Owned(q)' = Owned(q), Owned(p)' = Owned(p) \ {x},
           \A y \in Buf \ {x} : id'[y] = id[y]
    PROVE  /\ id[x] \in Medium => /\ Owner[id[x]] = p
                                  /\ Owner' = [Owner EXCEPT ![id[x]] = NoProc]
           /\ id[x] \notin Medium => Owner' = Owner
  <1>1. x \in Buf /\ \A q \in Proc : \A y \in Owned(q)' : /\ y \in Buf /\ y # x /\ id'[y] = id[y]
                                                          /\ y \in Owned(q) BY DEF OwnedIn, Exclusive
  <1>2. \A q \in Proc : \A y \in Owned(q) : y # x => y \in Owned(q)' OBVIOUS
  <1>3. CASE id[x] \in Medium
    <2>1. Owner[id[x]] = p BY <1>3, OwnerIs
    <2> DEFINE G == [Owner EXCEPT ![id[x]] = NoProc]
    <2>2. G = [c \in Medium |-> G[c]] /\ G[id[x]] = NoProc
          /\ \A c \in Medium \ {id[x]} : G[c] = Owner[c] BY <1>3, OwnerShape
    <2> HIDE DEF G
    <2>3. \A q \in Proc : \A y \in Owned(q)' : id'[y] \in Medium => G[id'[y]] = q
      <3> SUFFICES ASSUME NEW q \in Proc, NEW y \in Owned(q)', id'[y] \in Medium PROVE G[id'[y]] = q OBVIOUS
      <3>1. id[y] # id[x] BY <1>1, NoBlkIsNone DEF NoAlias
      <3> QED BY <1>1, <2>2, <3>1, OwnerIs
    <2>4. \A c \in Medium : (\A q \in Proc : \A y \in Owned(q)' : id'[y] # c) => G[c] = NoProc
      <3> SUFFICES ASSUME NEW c \in Medium, \A q \in Proc : \A y \in Owned(q)' : id'[y] # c,
                          c # id[x] PROVE G[c] = NoProc BY <2>2
      <3>1. \A q \in Proc : \A y \in Owned(q) : id[y] # c BY <1>1, <1>2
      <3> QED BY <2>2, <3>1, OwnerIs
    <2>5. Owner' = G BY <2>2, <2>3, <2>4, OwnerBecomes
    <2> QED BY <1>3, <2>1, <2>5 DEF G
  <1>4. CASE id[x] \notin Medium
    <2>1. \A q \in Proc : \A y \in Owned(q)' : id'[y] \in Medium => Owner[id'[y]] = q BY <1>1, OwnerIs
    <2>2. \A c \in Medium : (\A q \in Proc : \A y \in Owned(q)' : id'[y] # c) => Owner[c] = NoProc
      <3> SUFFICES ASSUME NEW c \in Medium, \A q \in Proc : \A y \in Owned(q)' : id'[y] # c
                   PROVE  Owner[c] = NoProc OBVIOUS
      <3>1. \A q \in Proc : \A y \in Owned(q) : id[y] # c BY <1>1, <1>2, <1>4
      <3> QED BY <3>1, OwnerIs
    <2> QED BY <1>4, <2>1, <2>2, OwnerBecomes, OwnerShape
  <1> QED BY <1>3, <1>4

----
(* What a strategy routine does to the registers. *)

(* iodone: the flags it leaves, and the block it takes away on an error.   *)
LEMMA IodoneIs ==
    ASSUME CacheTypeOK, NEW x \in Buf, NEW f, NEW av, Iodone(x, f, av)
    PROVE  /\ \A y \in Buf \ {x} : flags'[y] = flags[y] /\ id'[y] = id[y]
           /\ "ASYNC" \notin f => /\ flags'[x] = (f \cup {"DONE"}) \ {"WANTED"}
                                  /\ id'[x] = id[x]
           /\ "ASYNC" \in f => /\ flags'[x] = (f \cup {"DONE"}) \ {"WANTED", "BUSY", "ASYNC"}
                               /\ id'[x] = IF "ERROR" \in f THEN NoBlk ELSE id[x]
  <1>1. CASE "ASYNC" \in f BY <1>1 DEF Iodone, Brelse, CacheTypeOK
  <1>2. CASE "ASYNC" \notin f BY <1>2 DEF Iodone, CacheTypeOK
  <1> QED BY <1>1, <1>2

(* Buffer x is on the driver's queue, with flags f. *)
Queued(x, f, v) ==
    /\ id[x] \in RkBlk /\ id'[x] = id[x]
    /\ flags'[x] = f /\ data'[x] = v /\ x \in Range(queue')
    /\ disk' = disk

(* The device reported an error. *)
Failed(x, f) ==
    /\ id[x] \in BadBlk \cup FdBlk \cup {NoBlk}
    /\ id'[x] = IF "ASYNC" \in f THEN NoBlk ELSE id[x]
    /\ "ERROR" \in flags'[x] /\ ("DELWRI" \in flags'[x] => "DELWRI" \in f)
    /\ "BUSY" \in f /\ "ASYNC" \notin f => "BUSY" \in flags'[x]
    /\ x \notin Range(queue')
    /\ disk' = disk

(* The transfer is done. *)
Done(x, f, v) ==
    /\ id[x] \in FdBlk /\ id'[x] = id[x]
    /\ "DONE" \in flags'[x] /\ "ERROR" \notin flags'[x]
    /\ "DELWRI" \in flags'[x] => "DELWRI" \in f
    /\ x \notin Range(queue')
    /\ "READ" \in f => data'[x] = disk[id[x]] /\ disk' = disk
    /\ "READ" \notin f => data'[x] = v /\ disk' = [disk EXCEPT ![id[x]] = v]

(* A strategy routine queues the buffer, fails, or finishes.               *)
LEMMA StrategyCases ==
    ASSUME CacheTypeOK, NEW x \in Buf, NEW f, NEW av, NEW v,
           IsChain(queue, Buf), x \notin Range(queue), "ERROR" \notin f,
           Strategy(x, f, av, v)
    PROVE  /\ Only(x)
           /\ Queued(x, f, v) \/ Failed(x, f) \/ Done(x, f, v)
  <1>1. CASE RkStrategy(x, f, av, v)
    <2>1. Range(queue') = Range(queue) \cup {x} BY <1>1, ChainAppend DEF RkStrategy
    <2>2. Only(x) BY <1>1, <2>1 DEF RkStrategy, Only, CacheTypeOK
    <2>3. Queued(x, f, v) BY <1>1, <2>1 DEF RkStrategy, Queued, CacheTypeOK
    <2> QED BY <2>2, <2>3
  <1>2. CASE FailStrategy(x, f, av, v)
    <2>1. /\ id[x] \in BadBlk \cup FdBlk \cup {NoBlk} /\ data' = [data EXCEPT ![x] = v]
          /\ Iodone(x, f \cup {"ERROR"}, av)
          /\ queue' = queue /\ disk' = disk BY <1>2 DEF FailStrategy, device
    <2>2. /\ \A y \in Buf \ {x} : flags'[y] = flags[y] /\ id'[y] = id[y]
          /\ "ERROR" \in flags'[x]
          /\ "DELWRI" \in flags'[x] => "DELWRI" \in f
          /\ "BUSY" \in f /\ "ASYNC" \notin f => "BUSY" \in flags'[x]
          /\ id'[x] = IF "ASYNC" \in f THEN NoBlk ELSE id[x]
      <3> DEFINE g == f \cup {"ERROR"}
      <3>1. /\ "ASYNC" \in g <=> "ASYNC" \in f
            /\ "DELWRI" \in g <=> "DELWRI" \in f
            /\ "BUSY" \in g <=> "BUSY" \in f
            /\ "ERROR" \in g OBVIOUS
      <3>2. Iodone(x, g, av) BY <2>1
      <3> HIDE DEF g
      <3> QED BY <3>1, <3>2, IodoneIs
    <2>3. Only(x) BY <2>1, <2>2 DEF Only, CacheTypeOK
    <2>4. Failed(x, f) BY <2>1, <2>2 DEF Failed
    <2> QED BY <2>3, <2>4
  <1>3. CASE FdStrategy(x, f, av, v)
    <2>1. /\ id[x] \in FdBlk /\ Transfer(x, f, v) /\ Iodone(x, f, av) /\ queue' = queue
      BY <1>3 DEF FdStrategy
    <2>2. /\ \A y \in Buf \ {x} : flags'[y] = flags[y] /\ id'[y] = id[y]
          /\ "ERROR" \notin flags'[x] /\ "DONE" \in flags'[x]
          /\ "DELWRI" \in flags'[x] => "DELWRI" \in f
          /\ id'[x] = id[x] BY <2>1, IodoneIs
    <2>3. Only(x) BY <2>1, <2>2 DEF Only, CacheTypeOK, Transfer
    <2>4. Done(x, f, v) BY <2>1, <2>2 DEF Done, CacheTypeOK, Transfer
    <2> QED BY <2>3, <2>4
  <1> QED BY <1>1, <1>2, <1>3 DEF Strategy

(* A block's only buffer is not valid: the medium has the register.        *)
LEMMA StoreOnDisk ==
    ASSUME NoAlias, NEW x \in Buf, id[x] \in Medium, ~Valid(x) PROVE Store[id[x]] = disk[id[x]]
  <1>1. \A y \in Incore(id[x]) : y = x BY NoBlkIsNone DEF Incore, NoAlias
  <1> QED BY <1>1, StoreIs

(* Reading a block leaves every register alone.                            *)
LEMMA StrategyReads ==
    ASSUME CacheTypeOK, NoAlias, NoAlias', NEW x \in Buf, NEW f, NEW av, NEW v,
           IsChain(queue, Buf), x \notin Range(queue), "ERROR" \notin f, "DONE" \notin f,
           "READ" \in f, "DONE" \notin flags[x],
           Strategy(x, f, av, v) PROVE Store' = Store /\ disk' = disk
  <1>1. Only(x) /\ (Queued(x, f, v) \/ Failed(x, f) \/ Done(x, f, v)) BY StrategyCases
  <1>2. disk' = disk BY <1>1 DEF Queued, Failed, Done
  <1>3. id[x] \in Medium => Store[id[x]] = disk[id[x]] BY StoreOnDisk DEF Valid
  <1>4. \/ id'[x] = id[x] /\ ~Valid(x)'
        \/ id'[x] = id[x] /\ data'[x] = disk[id[x]]
        \/ id'[x] = NoBlk
    <2>1. CASE Queued(x, f, v) BY <2>1 DEF Queued, Valid
    <2>2. CASE Failed(x, f) BY <2>2 DEF Failed, Valid
    <2>3. CASE Done(x, f, v) BY <2>3 DEF Done
    <2> QED BY <1>1, <2>1, <2>2, <2>3
  <1> QED BY <1>1, <1>2, <1>3, <1>4, StoreChange, NoBlkIsNone, OwnerShape

(* A write of value v: the register takes it, and the medium at once or    *)
(* later; or the device refuses and the register falls back.               *)
Written(x, v) ==
    \/ /\ id[x] \in Medium
       /\ Store' = [Store EXCEPT ![id[x]] = v]
       /\ disk' \in {disk, [disk EXCEPT ![id[x]] = v]}
    \/ /\ id[x] \in FdBlk
       /\ Store' = [Store EXCEPT ![id[x]] = disk[id[x]]]
       /\ disk' = disk
    \/ /\ id[x] \notin Medium
       /\ Store' = Store /\ disk' = disk

(* Writing a block gives its register the value, or the old one of the     *)
(* medium.                                                                 *)
LEMMA StrategyWrites ==
    ASSUME CacheTypeOK, NoAlias, NoAlias', NEW x \in Buf, NEW f, NEW av, NEW v,
           IsChain(queue, Buf), x \notin Range(queue), "ERROR" \notin f,
           "READ" \notin f, Strategy(x, f, av, v) PROVE Written(x, v)
  <1>1. Only(x) /\ (Queued(x, f, v) \/ Failed(x, f) \/ Done(x, f, v)) BY StrategyCases
  <1>2. id[x] \in Medium => \A w : LET F == [Store EXCEPT ![id[x]] = w] IN
             /\ F = [c \in Medium |-> F[c]] /\ F[id[x]] = w
             /\ \A c \in Medium : c # id[x] => F[c] = Store[c] BY OwnerShape
  <1>3. RkBlk \subseteq Medium /\ FdBlk \subseteq Medium /\ BadBlk \cap Medium = {}
    BY BlockAssumption DEF Medium
  <1>4. CASE Queued(x, f, v)
    <2> DEFINE F == [Store EXCEPT ![id[x]] = v]
    <2>1. id[x] \in Medium /\ disk' = disk /\ id'[x] = id[x] /\ Valid(x)' /\ data'[x] = v
      BY <1>3, <1>4 DEF Queued, Valid
    <2>2. /\ F = [c \in Medium |-> F[c]] /\ F[id[x]] = v
          /\ \A c \in Medium : c # id[x] => F[c] = Store[c] BY <1>2, <2>1
    <2> HIDE DEF F
    <2>3. Store' = F BY <1>1, <2>1, <2>2, StoreChange
    <2> QED BY <2>1, <2>3 DEF Written, F
  <1>5. CASE Failed(x, f)
    <2>1. disk' = disk /\ ~Valid(x)' /\ (id'[x] = id[x] \/ id'[x] = NoBlk) BY <1>5 DEF Failed, Valid
    <2>2. CASE id[x] \in Medium
      <3> DEFINE F == [Store EXCEPT ![id[x]] = disk[id[x]]]
      <3>1. /\ F = [c \in Medium |-> F[c]] /\ F[id[x]] = disk[id[x]]
            /\ \A c \in Medium : c # id[x] => F[c] = Store[c] BY <1>2, <2>2
      <3> HIDE DEF F
      <3>2. Store' = F BY <1>1, <2>1, <2>2, <3>1, StoreChange, NoBlkIsNone
      <3>3. id[x] \in FdBlk BY <1>3, <1>5, <2>2, NoBlkIsNone DEF Failed
      <3> QED BY <2>1, <3>2, <3>3 DEF Written, F
    <2>3. CASE id[x] \notin Medium
      <3>1. Store' = Store BY <1>1, <2>1, <2>3, StoreChange, NoBlkIsNone, OwnerShape
      <3> QED BY <2>1, <2>3, <3>1 DEF Written
    <2> QED BY <2>2, <2>3
  <1>6. CASE Done(x, f, v)
    <2> DEFINE F == [Store EXCEPT ![id[x]] = v]
    <2>1. /\ id[x] \in Medium /\ id'[x] = id[x] /\ data'[x] = v
          /\ disk' = [disk EXCEPT ![id[x]] = v] BY <1>3, <1>6 DEF Done
    <2>2. /\ F = [c \in Medium |-> F[c]] /\ F[id[x]] = v
          /\ \A c \in Medium : c # id[x] => F[c] = Store[c] BY <1>2, <2>1
    <2> HIDE DEF F
    <2>3. disk'[id[x]] = v /\ \A c \in Medium : c # id[x] => disk'[c] = disk[c] BY <2>1 DEF CacheTypeOK
    <2>4. Store' = F BY <1>1, <2>1, <2>2, <2>3, StoreChange
    <2> QED BY <2>1, <2>4 DEF Written, F
  <1> QED BY <1>1, <1>4, <1>5, <1>6

----
(* The steps that leave registers, owners and marks alone. *)

(* A step of the registers, or none. *)
Simulates == BS!Next \/ UNCHANGED BS!vars

(* What the inductive invariant says that the registers need. *)
LEMMA Facts ==
    ASSUME IInv
    PROVE  /\ CacheTypeOK /\ ProcTypeOK /\ RegistersOK /\ NoAlias /\ OwnedIn /\ Exclusive
           /\ TransfersOK /\ QueueExact
           /\ IsChain(queue, Buf) BY OwnedBuf DEF IInv, CacheOK, ProcOK, CacheTypeOK, QueueExact, IsChain

(* Where nothing changes the registers stutter. *)
LEMMA Stays ==
    ASSUME Store' = Store, disk' = disk, Owner' = Owner PROVE Simulates BY DEF Simulates, BS!vars

(* The marks of every buffer but WANTED are the same. *)
SameMarks ==
    \A y \in Buf : \A m \in {"DONE", "ERROR", "READ", "DELWRI", "BUSY"} :
        m \in flags'[y] <=> m \in flags[y]

(* Nobody comes by a buffer from getblk. *)
NoneGot == \A q \in Proc : pc'[q] = "got" => pc[q] = "got" /\ bp'[q] = bp[q]

(* A step that moves no data, takes no buffer and marks none but WANTED. *)
LEMMA IdleSimulates ==
    ASSUME IInv, MarksOK, UNCHANGED <<id, data, queue, disk>>, SameMarks, NoneGot,
           \A q \in Proc : Owned(q)' = Owned(q) PROVE MarksOK' /\ Simulates
  <1>1. /\ NoAlias /\ OwnedIn /\ Exclusive /\ ProcTypeOK /\ RegistersOK BY Facts
  <1>2. \A y \in Buf : Valid(y)' <=> Valid(y) BY DEF Valid, SameMarks
  <1>3. \A y \in Buf : id'[y] \in Medium /\ Valid(y)' => data'[y] = Store[id'[y]]
    BY <1>1, <1>2, StoreIs, NoBlkIsNone
  <1>4. \A c \in Medium : (\A y \in Buf : id'[y] = c => ~Valid(y)') => disk'[c] = Store[c]
    BY <1>1, <1>2, StoreIs DEF Incore
  <1>5. Store' = Store BY <1>3, <1>4, StoreBecomes, OwnerShape, NoBlkIsNone
  <1>6. Owner' = Owner BY <1>1, OwnerSame
  <1>7. \A y \in Buf : MarkOK(y)' BY DEF MarkOK, MarksOK, SameMarks
  <1>8. \A q \in Proc : pc'[q] = "got" => "ERROR" \notin flags'[bp'[q]]
    <2> SUFFICES ASSUME NEW q \in Proc, pc'[q] = "got" PROVE "ERROR" \notin flags'[bp'[q]] OBVIOUS
    <2>1. pc[q] = "got" /\ bp'[q] = bp[q] /\ bp[q] \in Buf BY <1>1 DEF NoneGot, ProcTypeOK, RegistersOK
    <2> QED BY <2>1 DEF MarksOK, SameMarks
  <1> QED BY <1>5, <1>6, <1>7, <1>8, Stays DEF MarksOK

(* A buffer is wanted, or nothing is. *)
LEMMA WantedSame ==
    ASSUME CacheTypeOK, flags' = flags \/ \E x \in Buf : flags' = [flags EXCEPT ![x] = @ \cup {"WANTED"}]
    PROVE  SameMarks BY DEF SameMarks, CacheTypeOK

(* Entering the kernel. *)
LEMMA StartSimulates ==
    ASSUME IInv, MarksOK, NEW p \in Proc, Start(p) PROVE MarksOK' /\ Simulates
  <1>1. PICK o \in Op, l \in {"getblk", "ahead", "flush"},
             b \in Block \cup {NoBlk}, r \in Block \cup {NoBlk} : Enter(p, o, l, b, r)
    <2>1. CASE StartBreada(p)
      <3>1. PICK b \in Block, r \in Block \cup {NoBlk} :
               Enter(p, "breada", IF Incore(b) = {} THEN "getblk" ELSE "ahead", b, r)
        BY <2>1 DEF StartBreada
      <3> QED BY <3>1 DEF Op
    <2>2. CASE StartBread(p) \/ StartGetblk(p) BY <2>2 DEF StartBread, StartGetblk, Op
    <2>3. CASE StartSync(p) \/ StartReboot(p) BY <2>3 DEF StartSync, StartReboot, Op
    <2> QED BY <2>1, <2>2, <2>3 DEF Start
  <1> USE Facts
  <1>2. \A q \in Proc : Owned(q)' = Owned(q) BY <1>1 DEF Enter, Run, Goto, Owned, ProcTypeOK, RegistersOK
  <1>3. SameMarks BY <1>1, WantedSame DEF Enter, cache
  <1>4. NoneGot BY <1>1 DEF Enter, NoneGot, Goto, ProcTypeOK
  <1> QED BY <1>1, <1>2, <1>3, <1>4, IdleSimulates DEF Enter, cache, device

(* getblk goes to sleep. *)
LEMMA WaitSimulates ==
    ASSUME IInv, MarksOK, NEW p \in Proc, GetblkBusy(p) \/ GetblkWait(p) PROVE MarksOK' /\ Simulates
  <1> USE Facts
  <1>1. /\ UNCHANGED <<id, data, queue, disk, pc, bp, first>>
        /\ flags' = flags \/ \E x \in Buf : flags' = [flags EXCEPT ![x] = @ \cup {"WANTED"}]
    BY DEF GetblkBusy, GetblkWait, device, regs, Incore
  <1>2. \A q \in Proc : Owned(q)' = Owned(q) BY <1>1 DEF Owned
  <1>3. SameMarks /\ NoneGot BY <1>1, WantedSame DEF NoneGot
  <1> QED BY <1>1, <1>2, <1>3, IdleSimulates

(* reboot looks at the next buffer. *)
LEMMA DrainSimulates ==
    ASSUME IInv, MarksOK, NEW p \in Proc, Drain(p) PROVE MarksOK' /\ Simulates
  <1> USE Facts
  <1>1. bp[p] \in Buf /\ pc[p] = "drain" /\ first[p] = NoBuf BY DEF Drain, Run, ProcTypeOK, RegistersOK
  <1>2. /\ UNCHANGED <<id, data, queue, disk, first>>
        /\ flags' = flags \/ \E x \in Buf : flags' = [flags EXCEPT ![x] = @ \cup {"WANTED"}]
    BY <1>1 DEF Drain, device
  <1>3. /\ \A q \in Proc \ {p} : pc'[q] = pc[q] /\ bp'[q] = bp[q]
        /\ pc'[p] = "drain" \/ (pc'[p] = "halted" /\ bp'[p] = NoBuf)
    <2>1. CASE "ASYNC" \in flags[bp[p]] BY <1>1, <2>1 DEF Drain
    <2>2. CASE "ASYNC" \notin flags[bp[p]] /\ bp[p] = NBUF BY <1>1, <2>2 DEF Drain, Goto, ProcTypeOK
    <2>3. CASE "ASYNC" \notin flags[bp[p]] /\ bp[p] # NBUF BY <1>1, <2>3 DEF Drain, Goto, ProcTypeOK
    <2> QED BY <2>1, <2>2, <2>3
  <1>4. \A q \in Proc : Owned(q)' = Owned(q) BY <1>1, <1>2, <1>3 DEF Owned
  <1>5. SameMarks /\ NoneGot BY <1>2, <1>3, WantedSame DEF NoneGot
  <1> QED BY <1>2, <1>4, <1>5, IdleSimulates

(* The steps that touch no buffer at all. *)
LEMMA QuietSimulates ==
    ASSUME IInv, MarksOK, UNCHANGED <<cache, data, device>>, NoneGot,
           \A q \in Proc : Owned(q)' = Owned(q) PROVE MarksOK' /\ Simulates
  <1>1. SameMarks BY Facts, WantedSame DEF cache
  <1> QED BY <1>1, IdleSimulates DEF cache, device

(* The steps between a process's registers. *)
LEMMA MoveSimulates ==
    ASSUME IInv, MarksOK, NEW p \in Proc,
           GotGetblk(p) \/ Ahead(p) \/ Join(p) \/ IowaitRead(p) \/ FlushDone(p) PROVE MarksOK' /\ Simulates
  <1> USE Facts DEF Run, Goto
  <1>1. CASE GotGetblk(p) \/ Ahead(p)
    <2>1. \A q \in Proc : Owned(q)' = Owned(q) BY <1>1 DEF GotGetblk, Ahead, Owned, ProcTypeOK
    <2>2. NoneGot BY <1>1 DEF GotGetblk, Ahead, NoneGot, ProcTypeOK
    <2> QED BY <1>1, <2>1, <2>2, QuietSimulates DEF GotGetblk, Ahead
  <1>2. CASE Join(p)
    <2>1. \A q \in Proc : Owned(q)' = Owned(q) BY <1>2 DEF Join, Owned, ProcTypeOK, RegistersOK
    <2>2. NoneGot BY <1>2 DEF Join, NoneGot, ProcTypeOK
    <2> QED BY <1>2, <2>1, <2>2, QuietSimulates DEF Join
  <1>3. CASE IowaitRead(p)
    <2>1. \A q \in Proc : Owned(q)' = Owned(q) BY <1>3 DEF IowaitRead, Owned, ProcTypeOK
    <2>2. NoneGot BY <1>3 DEF IowaitRead, NoneGot, ProcTypeOK
    <2> QED BY <1>3, <2>1, <2>2, QuietSimulates DEF IowaitRead
  <1>4. CASE FlushDone(p)
    <2>1. \A q \in Proc : Owned(q)' = Owned(q) BY <1>4 DEF FlushDone, Leave, Owned, ProcTypeOK, RegistersOK
    <2>2. NoneGot BY <1>4 DEF FlushDone, Leave, NoneGot, ProcTypeOK
    <2> QED BY <1>4, <2>1, <2>2, QuietSimulates DEF FlushDone
  <1> QED BY <1>1, <1>2, <1>3, <1>4

----
(* One buffer changes. *)

(* The marks are as they should be if those of the buffer that changed     *)
(* are, and nobody comes by a buffer with an error.                        *)
LEMMA MarksKept ==
    ASSUME MarksOK, NEW x \in Buf, Only(x), MarkOK(x)',
           \A q \in Proc : pc'[q] = "got" =>
              \/ pc[q] = "got" /\ bp'[q] = bp[q] /\ bp[q] \in Buf \ {x}
              \/ "ERROR" \notin flags'[bp'[q]]
    PROVE  MarksOK'
  <1>1. \A y \in Buf \ {x} : MarkOK(y)' BY DEF MarkOK, MarksOK, Only
  <1>2. \A q \in Proc : pc'[q] = "got" => "ERROR" \notin flags'[bp'[q]] BY DEF MarksOK, Only
  <1> QED BY <1>1, <1>2 DEF MarksOK

(* A process at "got" has its own buffer. *)
LEMMA GotOther ==
    ASSUME IInv, NEW x \in Buf, NEW q \in Proc, pc[q] = "got", x \notin Owned(q)
    PROVE  bp[q] \in Buf \ {x} BY InHand

(* What a strategy routine leaves of a buffer without an error. *)
LEMMA StrategyMarks ==
    ASSUME CacheTypeOK, NEW x \in Buf, NEW f, NEW av, NEW v,
           IsChain(queue, Buf), x \notin Range(queue),
           "ERROR" \notin f, "DELWRI" \notin f, "BUSY" \in f,
           Strategy(x, f, av, v) PROVE MarkOK(x)' /\ Only(x)
  <1>1. Only(x) /\ (Queued(x, f, v) \/ Failed(x, f) \/ Done(x, f, v)) BY StrategyCases
  <1>2. CASE Queued(x, f, v) BY <1>1, <1>2 DEF Queued, MarkOK
  <1>3. CASE Failed(x, f) BY <1>1, <1>3 DEF Failed, MarkOK
  <1>4. CASE Done(x, f, v) BY <1>1, <1>4 DEF Done, MarkOK
  <1> QED BY <1>1, <1>2, <1>3, <1>4

(* A process takes a block nobody has. *)
LEMMA Acquires ==
    ASSUME NEW p \in Proc, NEW b, Store' = Store, disk' = disk,
           b \in Medium => Owner[b] = NoProc /\ Owner' = [Owner EXCEPT ![b] = p],
           b \notin Medium => Owner' = Owner PROVE Simulates
  <1>1. CASE b \in Medium BY <1>1 DEF Simulates, BS!Next, BS!Acquire
  <1>2. CASE b \notin Medium BY <1>2, Stays
  <1> QED BY <1>1, <1>2

(* A process lets go of its block. *)
LEMMA Releases ==
    ASSUME NEW p \in Proc, NEW b, Store' = Store, disk' = disk,
           b \in Medium => Owner[b] = p /\ Owner' = [Owner EXCEPT ![b] = NoProc],
           b \notin Medium => Owner' = Owner PROVE Simulates
  <1>1. CASE b \in Medium BY <1>1 DEF Simulates, BS!Next, BS!Release
  <1>2. CASE b \notin Medium BY <1>2, Stays
  <1> QED BY <1>1, <1>2

(* The owner of x writes it, and keeps it or not. *)
LEMMA Updates ==
    ASSUME NEW p \in Proc, NEW x \in Buf, NEW v \in Val, Written(x, v),
           id[x] \in Medium => /\ Owner[id[x]] = p
                               /\ Owner' \in {Owner, [Owner EXCEPT ![id[x]] = NoProc]},
           id[x] \notin Medium => Owner' = Owner PROVE Simulates
  <1>1. FdBlk \subseteq Medium BY DEF Medium
  <1>2. CASE /\ id[x] \in Medium
             /\ Store' = [Store EXCEPT ![id[x]] = v]
             /\ disk' \in {disk, [disk EXCEPT ![id[x]] = v]}
    <2>1. BS!Update(p, id[x], v) BY <1>2 DEF BS!Update
    <2> QED BY <1>2, <2>1 DEF Simulates, BS!Next
  <1>3. CASE /\ id[x] \in FdBlk
             /\ Store' = [Store EXCEPT ![id[x]] = disk[id[x]]]
             /\ disk' = disk
    <2>1. BS!Lose(id[x]) BY <1>1, <1>3 DEF BS!Lose
    <2> QED BY <1>1, <1>3, <2>1 DEF Simulates, BS!Next
  <1>4. CASE id[x] \notin Medium /\ Store' = Store /\ disk' = disk BY <1>4, Stays
  <1> QED BY <1>2, <1>3, <1>4 DEF Written

(* The driver writes x, whose register it already is. *)
LEMMA Persists ==
    ASSUME NEW x \in Buf, Written(x, data[x]), Owner' = Owner,
           id[x] \in Medium => Store[id[x]] = data[x] PROVE Simulates
  <1>1. FdBlk \subseteq Medium BY DEF Medium
  <1>2. CASE /\ id[x] \in Medium
             /\ Store' = [Store EXCEPT ![id[x]] = data[x]]
             /\ disk' \in {disk, [disk EXCEPT ![id[x]] = data[x]]}
    <2>1. Store' = Store BY <1>2, OwnerShape
    <2>2. CASE disk' = disk BY <2>1, <2>2, Stays
    <2>3. CASE disk' = [disk EXCEPT ![id[x]] = data[x]]
      BY <1>2, <2>1, <2>3 DEF Simulates, BS!Next, BS!Persist
    <2> QED BY <1>2, <2>2, <2>3
  <1>3. CASE /\ id[x] \in FdBlk
             /\ Store' = [Store EXCEPT ![id[x]] = disk[id[x]]]
             /\ disk' = disk
    <2>1. BS!Lose(id[x]) BY <1>1, <1>3 DEF BS!Lose
    <2> QED BY <1>1, <1>3, <2>1 DEF Simulates, BS!Next
  <1>4. CASE id[x] \notin Medium /\ Store' = Store /\ disk' = disk BY <1>4, Stays
  <1> QED BY <1>2, <1>3, <1>4 DEF Written

----
(* getblk. *)

(* getblk finds the block in a buffer and takes it. *)
LEMMA GetblkHitSimulates ==
    ASSUME IInv, IInv', MarksOK, NEW p \in Proc, GetblkHit(p) PROVE MarksOK' /\ Simulates
  <1>1. PICK x \in Incore(Target(p)) :
          /\ "BUSY" \notin flags[x]
          /\ flags' = [flags EXCEPT ![x] = @ \cup {"BUSY"}]
          /\ bp' = [bp EXCEPT ![p] = x] BY DEF GetblkHit
  <1>2. /\ UNCHANGED <<id, data, queue, disk, first>> /\ pc' = [pc EXCEPT ![p] = "got"]
        /\ pc[p] = "getblk" BY DEF GetblkHit, device, Goto, Run
  <1> USE Facts
  <1>0. NoAlias' BY DEF IInv, CacheOK
  <1>3. x \in Range(avail) /\ x \in Buf /\ id[x] # NoBlk BY <1>1 DEF Incore, IInv, CacheOK, FreeListExact
  <1>4. \A q \in Proc : x \notin Owned(q) BY <1>3, OnFreeList
  <1>5. "ERROR" \notin flags[x] BY <1>1, <1>3 DEF MarksOK, MarkOK
  <1>6. Only(x) BY <1>1, <1>2, <1>3 DEF Only, CacheTypeOK
  <1>7. flags'[x] = flags[x] \cup {"BUSY"} BY <1>1, <1>3 DEF CacheTypeOK
  <1>8. MarkOK(x)' BY <1>2, <1>3, <1>5, <1>7 DEF MarkOK, MarksOK
  <1>9. MarksOK'
    <2>1. \A q \in Proc \ {p} : pc'[q] = pc[q] /\ bp'[q] = bp[q] BY <1>1, <1>2 DEF ProcTypeOK
    <2>2. bp'[p] = x /\ "ERROR" \notin flags'[x] BY <1>1, <1>5, <1>7 DEF ProcTypeOK
    <2> QED BY <1>3, <1>4, <1>6, <1>8, <2>1, <2>2, MarksKept, GotOther
  <1>10. Store' = Store
    <2>1. Valid(x)' <=> Valid(x) BY <1>2, <1>7 DEF Valid
    <2>2. id[x] \in Medium /\ Valid(x) => Store[id[x]] = data[x] BY <1>3, StoreIs
    <2>3. id[x] \in Medium /\ ~Valid(x) => Store[id[x]] = disk[id[x]] BY <1>3, StoreOnDisk
    <2> QED BY <1>2, <1>3, <1>6, <2>1, <2>2, <2>3, <1>0, StoreChange, OwnerShape
  <1>11. /\ \A q \in Proc \ {p} : Owned(q)' = Owned(q)
         /\ Owned(p)' = Owned(p) \cup {x}
    <2>1. bp[p] = NoBuf /\ x # NoBuf BY <1>2, <1>3 DEF RegistersOK, Buf, NoBuf
    <2> QED BY <1>1, <1>2, <2>1 DEF Owned, ProcTypeOK
  <1>12. /\ id'[x] \in Medium => /\ Owner[id'[x]] = NoProc
                                 /\ Owner' = [Owner EXCEPT ![id'[x]] = p]
         /\ id'[x] \notin Medium => Owner' = Owner BY <1>2, <1>3, <1>4, <1>11, <1>0, OwnerTakes
  <1> QED BY <1>2, <1>9, <1>10, <1>12, Acquires

(* getblk gives the oldest buffer to the block; its old block is on the    *)
(* medium.                                                                 *)
LEMMA GetblkTakeSimulates ==
    ASSUME IInv, IInv', MarksOK, NEW p \in Proc, GetblkTake(p) PROVE MarksOK' /\ Simulates
  <1>1. PICK x \in Range(avail) : x = Head(avail)
    BY ChainTail DEF GetblkTake, IInv, CacheOK, CacheTypeOK, FreeListExact, IsChain
  <1>2. /\ flags' = [flags EXCEPT ![x] = {"BUSY"}] /\ id' = [id EXCEPT ![x] = Target(p)]
        /\ bp' = [bp EXCEPT ![p] = x] /\ "DELWRI" \notin flags[x]
        /\ Incore(Target(p)) = {} BY <1>1 DEF GetblkTake
  <1>3. /\ UNCHANGED <<data, queue, disk, first>> /\ pc' = [pc EXCEPT ![p] = "got"]
        /\ pc[p] = "getblk" BY DEF GetblkTake, device, Goto, Run
  <1> USE Facts
  <1>0. NoAlias' BY DEF IInv, CacheOK
  <1>4. x \in Buf /\ x \notin Range(queue) /\ \A q \in Proc : x \notin Owned(q) BY <1>1, OnFreeList
  <1>5. /\ flags'[x] = {"BUSY"} /\ id'[x] = Target(p)
        /\ \A y \in Buf \ {x} : flags'[y] = flags[y] /\ id'[y] = id[y] BY <1>2, <1>4 DEF CacheTypeOK
  <1>6. Only(x) BY <1>3, <1>5 DEF Only
  <1>7. MarkOK(x)' BY <1>3, <1>5 DEF MarkOK
  <1>8. MarksOK'
    <2>1. \A q \in Proc \ {p} : pc'[q] = pc[q] /\ bp'[q] = bp[q] BY <1>2, <1>3 DEF ProcTypeOK
    <2>2. bp'[p] = x /\ "ERROR" \notin flags'[x] BY <1>2, <1>5 DEF ProcTypeOK
    <2> QED BY <1>4, <1>6, <1>7, <2>1, <2>2, MarksKept, GotOther
  <1>9. Store' = Store
    <2>1. ~Valid(x)' BY <1>3, <1>4, <1>5 DEF Valid
    <2>2. id'[x] \in Medium => Store[id'[x]] = disk[id'[x]] BY <1>2, <1>5, StoreIs
    <2>3. id[x] \in Medium => Store[id[x]] = disk[id[x]]
      <3> SUFFICES ASSUME id[x] \in Medium PROVE Store[id[x]] = disk[id[x]] OBVIOUS
      <3>1. CASE Valid(x)
        <4>1. Store[id[x]] = data[x] BY <1>4, <3>1, StoreIs, NoBlkIsNone
        <4>2. flags[x] \cap {"ERROR", "DELWRI"} = {} /\ "DONE" \in flags[x] BY <1>2, <1>4, <3>1 DEF Valid
        <4> QED BY <1>4, <4>1, <4>2 DEF IInv, CacheOK, Coherent
      <3>2. CASE ~Valid(x) BY <1>4, <3>2, StoreOnDisk
      <3> QED BY <3>1, <3>2
    <2> QED BY <1>3, <1>4, <1>6, <2>1, <2>2, <2>3, <1>0, StoreChange, OwnerShape
  <1>10. /\ \A q \in Proc \ {p} : Owned(q)' = Owned(q)
         /\ Owned(p)' = Owned(p) \cup {x}
    <2>1. bp[p] = NoBuf /\ x # NoBuf BY <1>3, <1>4 DEF RegistersOK, Buf, NoBuf
    <2> QED BY <1>2, <1>3, <2>1 DEF Owned, ProcTypeOK
  <1>11. /\ id'[x] \in Medium => /\ Owner[id'[x]] = NoProc
                                 /\ Owner' = [Owner EXCEPT ![id'[x]] = p]
         /\ id'[x] \notin Medium => Owner' = Owner BY <1>4, <1>5, <1>10, <1>0, OwnerTakes
  <1> QED BY <1>3, <1>8, <1>9, <1>11, Acquires

(* A delayed write is started, by getblk or by bflush. *)
LEMMA WriteBackSimulates ==
    ASSUME IInv, IInv', MarksOK, NEW p \in Proc, NEW l \in {"getblk", "flush"},
           NEW x \in Range(avail), "DELWRI" \in flags[x],
           Strategy(x, WriteFlags(flags[x] \cup {"BUSY", "ASYNC"}),
                    Without(avail, x), data[x]),
           pc[p] = l, Goto(p, l), UNCHANGED <<bp, first>> PROVE MarksOK' /\ Simulates
  <1> USE Facts
  <1>0. NoAlias' BY DEF IInv, CacheOK
  <1> DEFINE f == WriteFlags(flags[x] \cup {"BUSY", "ASYNC"})
  <1>1. x \in Buf /\ x \notin Range(queue) /\ \A q \in Proc : x \notin Owned(q) BY OnFreeList
  <1>2. Strategy(x, f, Without(avail, x), data[x]) OBVIOUS
  <1>3. {"READ", "DONE", "ERROR", "DELWRI"} \cap f = {} /\ {"BUSY", "ASYNC"} \subseteq f BY DEF WriteFlags
  <1> HIDE DEF f
  <1>4. id[x] # NoBlk => Valid(x) BY <1>1 DEF MarksOK, MarkOK, Valid
  <1>5. id[x] \in Medium => Store[id[x]] = data[x] BY <1>1, <1>4, StoreIs, NoBlkIsNone
  <1>6. Written(x, data[x]) BY <1>0, <1>1, <1>2, <1>3, StrategyWrites
  <1>7. MarkOK(x)' /\ Only(x) BY <1>1, <1>2, <1>3, StrategyMarks
  <1>8. UNCHANGED pc BY DEF Goto, ProcTypeOK
  <1>9. \A q \in Proc : Owned(q)' = Owned(q) BY <1>8 DEF Owned
  <1>10. Owner' = Owner
    <2>1. \A q \in Proc : \A y \in Owned(q) : id'[y] = id[y] BY <1>1, <1>7 DEF Only, OwnedIn
    <2> QED BY <1>9, <2>1, OwnerSame
  <1>11. MarksOK' BY <1>1, <1>7, <1>8, MarksKept, GotOther
  <1> QED BY <1>1, <1>5, <1>6, <1>10, <1>11, Persists

(* getblk starts the oldest buffer's delayed write. *)
LEMMA GetblkEvictSimulates ==
    ASSUME IInv, IInv', MarksOK, NEW p \in Proc, GetblkEvict(p) PROVE MarksOK' /\ Simulates
  <1>1. PICK x \in Range(avail) : x = Head(avail)
    BY ChainTail DEF GetblkEvict, IInv, CacheOK, CacheTypeOK, FreeListExact, IsChain
  <1>2. /\ Strategy(x, WriteFlags(flags[x] \cup {"BUSY", "ASYNC"}),
                    Without(avail, x), data[x])
        /\ "DELWRI" \in flags[x]
        /\ pc[p] = "getblk" /\ Goto(p, "getblk") /\ UNCHANGED <<bp, first>> BY <1>1 DEF GetblkEvict, Run
  <1> QED BY <1>1, <1>2, WriteBackSimulates

(* bflush starts a delayed write. *)
LEMMA FlushSimulates ==
    ASSUME IInv, IInv', MarksOK, NEW p \in Proc, Flush(p) PROVE MarksOK' /\ Simulates
  <1>1. PICK i \in DOMAIN avail :
          /\ "DELWRI" \in flags[avail[i]]
          /\ Strategy(avail[i], WriteFlags(flags[avail[i]] \cup {"BUSY", "ASYNC"}),
                      Without(avail, avail[i]), data[avail[i]]) BY DEF Flush, DelayedAt
  <1>2. pc[p] = "flush" /\ Goto(p, "flush") /\ UNCHANGED <<bp, first>> BY DEF Flush, Run
  <1>3. avail[i] \in Range(avail) BY DEF Range
  <1> QED BY <1>1, <1>2, <1>3, WriteBackSimulates

----
(* The buffer getblk returned. *)

(* An owner starts to read his buffer, to wait for it. *)
LEMMA ReadSimulates ==
    ASSUME IInv, IInv', MarksOK, NEW p \in Proc, pc[p] = "got", NEW x \in Buf, x = bp[p],
           "DONE" \notin flags[x],
           Strategy(x, flags[x] \cup {"READ"}, avail, data[x]),
           pc'[p] # "got", \A q \in Proc \ {p} : pc'[q] = pc[q] /\ bp'[q] = bp[q],
           \A q \in Proc : Owned(q)' = Owned(q) PROVE MarksOK' /\ Simulates
  <1> USE Facts
  <1>0. NoAlias' BY DEF IInv, CacheOK
  <1> DEFINE f == flags[x] \cup {"READ"}
  <1>1. x \in Owned(p) /\ "BUSY" \in flags[x] /\ "ASYNC" \notin flags[x] BY InHand
  <1>2. x \notin Range(queue) /\ "ERROR" \notin flags[x] /\ "DELWRI" \notin flags[x]
    BY DEF TransfersOK, MarksOK, MarkOK
  <1>3. /\ {"DONE", "ERROR", "DELWRI", "ASYNC"} \cap f = {} /\ {"BUSY", "READ"} \subseteq f
        /\ Strategy(x, f, avail, data[x]) BY <1>1, <1>2
  <1> HIDE DEF f
  <1>4. Store' = Store /\ disk' = disk BY <1>0, <1>2, <1>3, StrategyReads
  <1>5. MarkOK(x)' /\ Only(x) /\ id'[x] = id[x]
    <2>1. Queued(x, f, data[x]) \/ Failed(x, f) \/ Done(x, f, data[x]) BY <1>2, <1>3, StrategyCases
    <2>2. id'[x] = id[x] BY <1>3, <2>1 DEF Queued, Failed, Done
    <2> QED BY <1>2, <1>3, <2>2, StrategyMarks
  <1>6. \A q \in Proc \ {p} : x \notin Owned(q) BY <1>1 DEF Exclusive
  <1>7. MarksOK' BY <1>5, <1>6, MarksKept, GotOther
  <1>8. Owner' = Owner
    <2>1. \A q \in Proc : \A y \in Owned(q) : id'[y] = id[y] BY <1>5 DEF Only, OwnedIn
    <2> QED BY <2>1, OwnerSame
  <1> QED BY <1>4, <1>7, <1>8, Stays

(* bread starts its read, or has the block. *)
LEMMA GotBreadSimulates ==
    ASSUME IInv, IInv', MarksOK, NEW p \in Proc, GotBread(p) PROVE MarksOK' /\ Simulates
  <1> USE Facts
  <1>1. /\ pc[p] = "got" /\ UNCHANGED <<bp, first>> /\ bp[p] \in Buf
        /\ pc'[p] # "got" /\ pc'[p] # "drain"
        /\ \A q \in Proc \ {p} : pc'[q] = pc[q] BY DEF GotBread, Run, Goto, ProcTypeOK, RegistersOK
  <1>2. \A q \in Proc : Owned(q)' = Owned(q) BY <1>1 DEF Owned
  <1>3. CASE "DONE" \in flags[bp[p]]
    <2>1. UNCHANGED <<cache, data, device>> BY <1>3 DEF GotBread
    <2>2. NoneGot BY <1>1 DEF NoneGot
    <2> QED BY <1>2, <2>1, <2>2, QuietSimulates
  <1>4. CASE "DONE" \notin flags[bp[p]]
    <2>1. PICK x \in Buf : x = bp[p] BY <1>1
    <2>2. Strategy(x, flags[x] \cup {"READ"}, avail, data[x]) BY <1>4, <2>1 DEF GotBread
    <2> QED BY <1>1, <1>2, <1>4, <2>1, <2>2, ReadSimulates
  <1> QED BY <1>3, <1>4

(* breada starts its first read, or has the block. *)
LEMMA GotBreadaSimulates ==
    ASSUME IInv, IInv', MarksOK, NEW p \in Proc, GotBreada(p) PROVE MarksOK' /\ Simulates
  <1> USE Facts
  <1>1. /\ pc[p] = "got" /\ op[p] = "breada" /\ bp[p] \in Buf /\ pc'[p] = "ahead"
        /\ first' = [first EXCEPT ![p] = bp[p]] /\ bp' = [bp EXCEPT ![p] = NoBuf]
        /\ \A q \in Proc \ {p} : pc'[q] = pc[q] BY DEF GotBreada, Run, Goto, ProcTypeOK, RegistersOK
  <1>2. first[p] = NoBuf BY <1>1 DEF RegistersOK
  <1>3. \A q \in Proc \ {p} : bp'[q] = bp[q] /\ first'[q] = first[q] BY <1>1 DEF ProcTypeOK
  <1>4. \A q \in Proc : Owned(q)' = Owned(q)
    <2>1. bp'[p] = NoBuf /\ first'[p] = bp[p] BY <1>1 DEF ProcTypeOK
    <2> QED BY <1>1, <1>2, <1>3, <2>1 DEF Owned
  <1>5. CASE "DONE" \in flags[bp[p]]
    <2>1. UNCHANGED <<cache, data, device>> BY <1>5 DEF GotBreada
    <2>2. NoneGot BY <1>1, <1>3 DEF NoneGot
    <2> QED BY <1>4, <2>1, <2>2, QuietSimulates
  <1>6. CASE "DONE" \notin flags[bp[p]]
    <2>1. PICK x \in Buf : x = bp[p] BY <1>1
    <2>2. Strategy(x, flags[x] \cup {"READ"}, avail, data[x]) BY <1>6, <2>1 DEF GotBreada
    <2> QED BY <1>1, <1>3, <1>4, <1>6, <2>1, <2>2, ReadSimulates
  <1> QED BY <1>5, <1>6

(* p has let go of the buffer in its hand. *)
Dropped(p) ==
    /\ bp'[p] = NoBuf /\ first'[p] = first[p] /\ pc'[p] \notin {"drain", "got"}
    /\ \A q \in Proc \ {p} : pc'[q] = pc[q] /\ bp'[q] = bp[q] /\ first'[q] = first[q]

(* Then the owners are. *)
LEMMA DropsOwner ==
    ASSUME IInv, NEW p \in Proc, pc[p] \in {"got", "hold", "wwait"},
           NEW x \in Buf, x = bp[p], Only(x), Dropped(p)
    PROVE  /\ id[x] \in Medium => Owner[id[x]] = p /\ Owner' = [Owner EXCEPT ![id[x]] = NoProc]
           /\ id[x] \notin Medium => Owner' = Owner
  <1> USE Facts
  <1>1. x \in Owned(p) /\ x # first[p] BY InHand
  <1>2. Owned(p)' = Owned(p) \ {x} BY <1>1 DEF Owned, Dropped, Buf, NoBuf
  <1>3. \A q \in Proc \ {p} : Owned(q)' = Owned(q) BY DEF Owned, Dropped
  <1> QED BY <1>1, <1>2, <1>3, OwnerDrops DEF Only

(* The marks, when p lets go of its buffer. *)
LEMMA DropsMarks ==
    ASSUME IInv, MarksOK, NEW p \in Proc, pc[p] \in {"got", "hold", "wwait"},
           NEW x \in Buf, x = bp[p], Only(x), MarkOK(x)', Dropped(p) PROVE MarksOK'
  <1>1. \A q \in Proc \ {p} : x \notin Owned(q) BY InHand, Facts DEF Exclusive
  <1> QED BY <1>1, MarksKept, GotOther DEF Dropped

(* p releases its buffer as it is. *)
LEMMA RelseSimulates ==
    ASSUME IInv, IInv', MarksOK, NEW p \in Proc, pc[p] \in {"got", "hold", "wwait"},
           NEW x \in Buf, x = bp[p], "DONE" \in flags[x] \/ x \notin Range(queue),
           Brelse(x, flags[x], avail), UNCHANGED <<data, device>>, Dropped(p) PROVE MarksOK' /\ Simulates
  <1> USE Facts
  <1>0. NoAlias' BY DEF IInv, CacheOK
  <1>1. /\ flags'[x] = flags[x] \ {"WANTED", "BUSY", "ASYNC"}
        /\ id'[x] = IF "ERROR" \in flags[x] THEN NoBlk ELSE id[x]
        /\ \A y \in Buf \ {x} : flags'[y] = flags[y] /\ id'[y] = id[y]
        /\ UNCHANGED <<data, queue, disk>> BY DEF Brelse, CacheTypeOK, device
  <1>2. Only(x) BY <1>1 DEF Only
  <1>3. MarkOK(x)' BY <1>1 DEF MarksOK, MarkOK
  <1>4. Store' = Store
    <2>1. Valid(x)' <=> Valid(x) BY <1>1 DEF Valid
    <2>2. "ERROR" \in flags[x] => ~Valid(x) BY DEF Valid
    <2>3. id[x] \in Medium /\ Valid(x) => Store[id[x]] = data[x] BY StoreIs, NoBlkIsNone
    <2>4. id[x] \in Medium /\ ~Valid(x) => Store[id[x]] = disk[id[x]] BY StoreOnDisk
    <2> QED BY <1>0, <1>1, <1>2, <2>1, <2>2, <2>3, <2>4, StoreChange, OwnerShape, NoBlkIsNone
  <1>5. MarksOK' BY <1>2, <1>3, DropsMarks
  <1> QED BY <1>1, <1>2, <1>4, <1>5, DropsOwner, Releases

(* The read-ahead block is let go to the driver, or to the free list. *)
LEMMA GotAheadSimulates ==
    ASSUME IInv, IInv', MarksOK, NEW p \in Proc, GotAhead(p) PROVE MarksOK' /\ Simulates
  <1> USE Facts
  <1>0. NoAlias' BY DEF IInv, CacheOK
  <1>1. /\ pc[p] = "got" /\ bp[p] \in Buf /\ Dropped(p)
    BY DEF GotAhead, Run, Goto, ProcTypeOK, RegistersOK, Dropped
  <1>2. PICK x \in Buf : x = bp[p] BY <1>1
  <1>3. x \notin Range(queue) /\ "ERROR" \notin flags[x] /\ "BUSY" \in flags[x]
    BY <1>1, <1>2, InHand DEF TransfersOK, MarksOK
  <1>4. CASE "DONE" \in flags[x]
    <2>1. Brelse(x, flags[x], avail) /\ UNCHANGED <<data, device>> BY <1>2, <1>4 DEF GotAhead
    <2> QED BY <1>1, <1>2, <1>4, <2>1, RelseSimulates
  <1>5. CASE "DONE" \notin flags[x]
    <2> DEFINE f == flags[x] \cup {"READ", "ASYNC"}
    <2>1. Strategy(x, f, avail, data[x]) BY <1>2, <1>5 DEF GotAhead
    <2>2. "DELWRI" \notin flags[x] BY <1>5 DEF MarksOK, MarkOK
    <2>3. {"DONE", "ERROR", "DELWRI"} \cap f = {} /\ {"BUSY", "READ"} \subseteq f BY <1>3, <1>5, <2>2
    <2> HIDE DEF f
    <2>4. Store' = Store /\ disk' = disk BY <1>0, <1>3, <1>5, <2>1, <2>3, StrategyReads
    <2>5. MarkOK(x)' /\ Only(x) BY <1>3, <2>1, <2>3, StrategyMarks
    <2>6. MarksOK' BY <1>1, <1>2, <2>5, DropsMarks
    <2> QED BY <1>1, <1>2, <2>4, <2>5, <2>6, DropsOwner, Releases
  <1> QED BY <1>4, <1>5

----
(* The holder's ways to give the buffer back. *)

(* brelse by the holder. *)
LEMMA HoldRelseSimulates ==
    ASSUME IInv, IInv', MarksOK, NEW p \in Proc, HoldRelse(p) PROVE MarksOK' /\ Simulates
  <1> USE Facts
  <1>1. /\ pc[p] = "hold" /\ bp[p] \in Buf /\ Dropped(p)
    BY DEF HoldRelse, Leave, Run, Goto, ProcTypeOK, RegistersOK, Dropped
  <1>2. PICK x \in Buf : x = bp[p] BY <1>1
  <1>3. x \notin Range(queue) BY <1>1, <1>2 DEF TransfersOK
  <1> QED BY <1>1, <1>2, <1>3, RelseSimulates DEF HoldRelse

(* bwrite releases the buffer when the transfer is done. *)
LEMMA IowaitWriteSimulates ==
    ASSUME IInv, IInv', MarksOK, NEW p \in Proc, IowaitWrite(p) PROVE MarksOK' /\ Simulates
  <1> USE Facts
  <1>1. pc[p] = "wwait" /\ bp[p] \in Buf BY DEF IowaitWrite, Run, ProcTypeOK, RegistersOK
  <1>2. PICK x \in Buf : x = bp[p] BY <1>1
  <1>3. CASE "DONE" \in flags[x]
    <2>1. Brelse(x, flags[x], avail) /\ UNCHANGED <<data, device>> BY <1>2, <1>3 DEF IowaitWrite
    <2>2. Leave(p) /\ Goto(p, "user") BY <1>2, <1>3 DEF IowaitWrite
    <2>3. Dropped(p) BY <1>1, <2>2 DEF Leave, Goto, ProcTypeOK, Dropped
    <2> QED BY <1>1, <1>2, <1>3, <2>1, <2>3, RelseSimulates
  <1>4. CASE "DONE" \notin flags[x]
    <2>1. UNCHANGED <<cache, data, device, pc, bp, first>> BY <1>2, <1>4 DEF IowaitWrite, regs
    <2>2. \A q \in Proc : Owned(q)' = Owned(q) BY <2>1 DEF Owned
    <2>3. NoneGot BY <2>1 DEF NoneGot
    <2> QED BY <2>1, <2>2, <2>3, QuietSimulates
  <1> QED BY <1>3, <1>4

(* bdwrite gives the register the value and leaves the medium for later,   *)
(* unless the block's read had failed: then the value is dropped.          *)
LEMMA HoldBdwriteSimulates ==
    ASSUME IInv, IInv', MarksOK, NEW p \in Proc, HoldBdwrite(p) PROVE MarksOK' /\ Simulates
  <1> USE Facts
  <1>0. NoAlias' BY DEF IInv, CacheOK
  <1>1. /\ pc[p] = "hold" /\ bp[p] \in Buf /\ Dropped(p)
    BY DEF HoldBdwrite, Leave, Run, Goto, ProcTypeOK, RegistersOK, Dropped
  <1>2. PICK x \in Buf : x = bp[p] BY <1>1
  <1>3. PICK v \in Val : data' = [data EXCEPT ![x] = v] BY <1>2 DEF HoldBdwrite
  <1>4. /\ id[x] \in Medium /\ UNCHANGED <<queue, disk>>
        /\ Brelse(x, flags[x] \cup {"DELWRI", "DONE"}, avail)
    BY <1>2 DEF HoldBdwrite, Writable, device, CacheTypeOK, Block, Medium
  <1>5. /\ flags'[x] = (flags[x] \cup {"DELWRI", "DONE"}) \ {"WANTED", "BUSY", "ASYNC"}
        /\ id'[x] = (IF "ERROR" \in flags[x] THEN NoBlk ELSE id[x]) /\ data'[x] = v
        /\ \A y \in Buf \ {x} : flags'[y] = flags[y] /\ id'[y] = id[y] /\ data'[y] = data[y]
    BY <1>3, <1>4 DEF Brelse, CacheTypeOK
  <1>6. Only(x) BY <1>4, <1>5 DEF Only
  <1>7. MarkOK(x)' BY <1>1, <1>2, <1>4, <1>5, NoBlkIsNone DEF MarkOK, TransfersOK
  <1>8. MarksOK' BY <1>1, <1>2, <1>6, <1>7, DropsMarks
  <1>9. CASE "ERROR" \notin flags[x]
    <2>1. Store' = [Store EXCEPT ![id[x]] = v]
      <3> DEFINE F == [Store EXCEPT ![id[x]] = v]
      <3>1. /\ F = [c \in Medium |-> F[c]] /\ F[id[x]] = v
            /\ \A c \in Medium : c # id[x] => F[c] = Store[c] BY <1>4, OwnerShape
      <3>2. Valid(x)' BY <1>4, <1>5, <1>9 DEF Valid
      <3> HIDE DEF F
      <3>3. Store' = F BY <1>0, <1>4, <1>5, <1>6, <1>9, <3>1, <3>2, StoreChange
      <3> QED BY <3>3 DEF F
    <2>2. Written(x, v) BY <1>4, <2>1 DEF Written
    <2> QED BY <1>1, <1>2, <1>4, <1>6, <1>8, <2>2, DropsOwner, Updates
  <1>10. CASE "ERROR" \in flags[x]
    <2>1. Store[id[x]] = disk[id[x]] /\ id'[x] = NoBlk BY <1>4, <1>5, <1>10, StoreOnDisk DEF Valid
    <2>2. Store' = Store BY <1>0, <1>4, <1>6, <2>1, StoreChange, OwnerShape, NoBlkIsNone
    <2> QED BY <1>1, <1>2, <1>4, <1>6, <1>8, <2>2, DropsOwner, Releases
  <1> QED BY <1>9, <1>10

(* What bwrite and bawrite hand to the driver. *)
LEMMA WriteFlagsOK ==
    ASSUME NEW f, "BUSY" \in f
    PROVE  {"READ", "DONE", "ERROR", "DELWRI"} \cap WriteFlags(f) = {} /\ "BUSY" \in WriteFlags(f)
  BY DEF WriteFlags

(* bawrite gives the register the value and the buffer to the driver. *)
LEMMA HoldBawriteSimulates ==
    ASSUME IInv, IInv', MarksOK, NEW p \in Proc, HoldBawrite(p) PROVE MarksOK' /\ Simulates
  <1> USE Facts
  <1>0. NoAlias' BY DEF IInv, CacheOK
  <1>1. /\ pc[p] = "hold" /\ bp[p] \in Buf /\ Dropped(p)
    BY DEF HoldBawrite, Leave, Run, Goto, ProcTypeOK, RegistersOK, Dropped
  <1>2. PICK x \in Buf : x = bp[p] BY <1>1
  <1> DEFINE f == WriteFlags(flags[x] \cup {"ASYNC"})
  <1>3. PICK v \in Val : Strategy(x, f, avail, v) BY <1>2 DEF HoldBawrite
  <1>4. x \notin Range(queue) /\ "BUSY" \in flags[x] BY <1>1, <1>2, InHand DEF TransfersOK
  <1>5. {"READ", "DONE", "ERROR", "DELWRI"} \cap f = {} /\ "BUSY" \in f BY <1>4, WriteFlagsOK
  <1> HIDE DEF f
  <1>6. Written(x, v) BY <1>0, <1>3, <1>4, <1>5, StrategyWrites
  <1>7. MarkOK(x)' /\ Only(x) BY <1>3, <1>4, <1>5, StrategyMarks
  <1>8. MarksOK' BY <1>1, <1>2, <1>7, DropsMarks
  <1> QED BY <1>1, <1>2, <1>6, <1>7, <1>8, DropsOwner, Updates

(* bwrite gives the register the value and waits. *)
LEMMA HoldBwriteSimulates ==
    ASSUME IInv, IInv', MarksOK, NEW p \in Proc, HoldBwrite(p) PROVE MarksOK' /\ Simulates
  <1> USE Facts
  <1>0. NoAlias' BY DEF IInv, CacheOK
  <1>1. /\ pc[p] = "hold" /\ bp[p] \in Buf /\ UNCHANGED <<bp, first>> /\ pc'[p] = "wwait"
        /\ \A q \in Proc \ {p} : pc'[q] = pc[q] BY DEF HoldBwrite, Run, Goto, ProcTypeOK, RegistersOK
  <1>2. PICK x \in Buf : x = bp[p] BY <1>1
  <1> DEFINE f == WriteFlags(flags[x])
  <1>3. PICK v \in Val : Strategy(x, f, avail, v) BY <1>2 DEF HoldBwrite
  <1>4. /\ x \notin Range(queue) /\ "BUSY" \in flags[x] /\ "ASYNC" \notin flags[x]
        /\ x \in Owned(p) BY <1>1, <1>2, InHand DEF TransfersOK
  <1>5. {"READ", "DONE", "ERROR", "DELWRI"} \cap f = {} /\ "BUSY" \in f BY <1>4, WriteFlagsOK
  <1>6. "ASYNC" \notin f BY <1>4 DEF WriteFlags
  <1> HIDE DEF f
  <1>7. Written(x, v) BY <1>0, <1>3, <1>4, <1>5, StrategyWrites
  <1>8. MarkOK(x)' /\ Only(x) BY <1>3, <1>4, <1>5, StrategyMarks
  <1>9. id'[x] = id[x]
    <2>1. Queued(x, f, v) \/ Failed(x, f) \/ Done(x, f, v) BY <1>3, <1>4, <1>5, StrategyCases
    <2> QED BY <1>6, <2>1 DEF Queued, Failed, Done
  <1>10. MarksOK'
    <2>1. \A q \in Proc \ {p} : x \notin Owned(q) BY <1>4 DEF Exclusive
    <2> QED BY <1>1, <1>8, <2>1, MarksKept, GotOther
  <1>11. Owner' = Owner
    <2>1. \A q \in Proc : Owned(q)' = Owned(q) BY <1>1 DEF Owned
    <2>2. \A q \in Proc : \A y \in Owned(q) : id'[y] = id[y] BY <1>8, <1>9 DEF Only, OwnedIn
    <2> QED BY <2>1, <2>2, OwnerSame
  <1>12. id[x] \in Medium => Owner[id[x]] = p BY <1>4, OwnerIs
  <1> QED BY <1>7, <1>10, <1>11, <1>12, Updates

----
(* The interrupt, the reset, the first boot. *)

(* The disk finishes a read, or the medium gets the register's value. *)
LEMMA RkIntrSimulates ==
    ASSUME IInv, IInv', MarksOK, RkIntr PROVE MarksOK' /\ Simulates
  <1> USE Facts
  <1>0. NoAlias' BY DEF IInv, CacheOK
  <1>1. PICK x \in Range(queue) : x = Head(queue) BY ActiveHasQueue, ChainTail
  <1>2. x \in Buf /\ Range(queue') = Range(queue) \ {x}
    BY <1>1, ActiveHasQueue, ChainTail, ChainRange DEF RkIntr
  <1>3. /\ "BUSY" \in flags[x] /\ {"DONE", "ERROR", "DELWRI"} \cap flags[x] = {}
        /\ id[x] \in RkBlk /\ id[x] \in Medium BY <1>2 DEF QueueExact, MarksOK, MarkOK, Medium
  <1>4. /\ Transfer(x, flags[x], data[x]) /\ Iodone(x, flags[x], avail)
        /\ UNCHANGED <<pc, bp, first>> BY <1>1 DEF RkIntr, regs
  <1>5. /\ \A y \in Buf \ {x} : flags'[y] = flags[y] /\ id'[y] = id[y]
        /\ "DONE" \in flags'[x] /\ {"ERROR", "DELWRI"} \cap flags'[x] = {}
        /\ id'[x] = id[x] BY <1>2, <1>3, <1>4, IodoneIs
  <1>6. Only(x) BY <1>2, <1>4, <1>5 DEF Only, Transfer, CacheTypeOK
  <1>7. MarkOK(x)' BY <1>2, <1>5 DEF MarkOK
  <1>8. MarksOK'
    <2>1. \A q \in Proc : pc[q] = "got" => x \notin {bp[q]} BY <1>1 DEF TransfersOK
    <2>2. \A q \in Proc : pc[q] = "got" => bp[q] \in Buf \ {x} BY <2>1 DEF ProcTypeOK, RegistersOK
    <2> QED BY <1>2, <1>4, <1>6, <1>7, <2>2, MarksKept
  <1>9. Owner' = Owner
    <2>1. \A q \in Proc : Owned(q)' = Owned(q) BY <1>4 DEF Owned
    <2>2. \A q \in Proc : \A y \in Owned(q) : id'[y] = id[y] BY <1>5 DEF OwnedIn
    <2> QED BY <2>1, <2>2, OwnerSame
  <1>10. Valid(x)' BY <1>5 DEF Valid
  <1>11. CASE "READ" \in flags[x]
    <2>1. data'[x] = disk[id[x]] /\ disk' = disk BY <1>2, <1>4, <1>11 DEF Transfer, CacheTypeOK
    <2>2. Store[id[x]] = disk[id[x]] BY <1>2, <1>3, <1>11, StoreOnDisk DEF Valid
    <2>3. Store' = Store BY <1>0, <1>2, <1>5, <1>6, <1>10, <2>1, <2>2, StoreChange, OwnerShape
    <2> QED BY <1>8, <1>9, <2>1, <2>3, Stays
  <1>12. CASE "READ" \notin flags[x]
    <2>1. data'[x] = data[x] /\ disk' = [disk EXCEPT ![id[x]] = data[x]]
      BY <1>2, <1>4, <1>12 DEF Transfer, CacheTypeOK
    <2>2. Store[id[x]] = data[x] BY <1>1, <1>2, <1>3, <1>12, StoreIs, NoBlkIsNone DEF Valid
    <2>3. \A c \in Medium : c # id[x] => disk'[c] = disk[c] BY <2>1 DEF CacheTypeOK
    <2>4. Store' = Store BY <1>0, <1>2, <1>5, <1>6, <1>10, <2>1, <2>2, <2>3, StoreChange, OwnerShape
    <2>5. [Store EXCEPT ![id[x]] = data[x]] = Store BY <2>2, OwnerShape
    <2>6. Written(x, data[x]) BY <1>3, <2>1, <2>4, <2>5 DEF Written
    <2> QED BY <1>2, <1>8, <1>9, <2>2, <2>6, Persists
  <1> QED BY <1>11, <1>12

(* A reset leaves every register with what the medium has. *)
LEMMA BootSimulates ==
    ASSUME IInv, MarksOK, Boot PROVE MarksOK' /\ Simulates
  <1> USE Facts
  <1>1. /\ \A x \in Buf : flags'[x] = {} /\ id'[x] = NoBlk
        /\ queue' = <<>> /\ Range(queue') = {} /\ disk' = disk
        /\ \A q \in Proc : pc'[q] = "user" /\ bp'[q] = NoBuf /\ first'[q] = NoBuf BY DEF Boot, Range
  <1>2. MarksOK' BY <1>1 DEF MarksOK, MarkOK
  <1>3. Store' = disk'
    <2>1. disk' = [c \in Medium |-> disk'[c]] BY <1>1 DEF CacheTypeOK
    <2>2. \A y \in Buf : ~Valid(y)' BY <1>1 DEF Valid
    <2> DEFINE F == disk'
    <2>3. F = [c \in Medium |-> F[c]] BY <2>1
    <2> QED BY <1>1, <2>2, <2>3, StoreBecomes, NoBlkIsNone
  <1>4. Owner' = [c \in Medium |-> NoProc]
    <2>1. \A q \in Proc : Owned(q)' = {} BY <1>1 DEF Owned
    <2> DEFINE G == [c \in Medium |-> NoProc]
    <2>2. G = [c \in Medium |-> G[c]] /\ \A c \in Medium : G[c] = NoProc OBVIOUS
    <2> HIDE DEF G
    <2>3. Owner' = G BY <2>1, <2>2, OwnerBecomes
    <2> QED BY <2>3 DEF G
  <1>5. BS!Reset BY <1>1, <1>3, <1>4 DEF BS!Reset
  <1> QED BY <1>2, <1>5 DEF Simulates, BS!Next

(* At the first boot too. *)
LEMMA InitSimulates ==
    ASSUME Init PROVE MarksOK /\ RebootOK /\ BS!Init
  <1>1. /\ \A x \in Buf : flags[x] = {} /\ id[x] = NoBlk
        /\ Range(queue) = {} /\ disk \in [Medium -> Val]
        /\ \A q \in Proc : pc[q] = "user" /\ bp[q] = NoBuf /\ first[q] = NoBuf
        /\ alone = FALSE BY DEF Init, Range
  <1>2. MarksOK /\ RebootOK BY <1>1 DEF MarksOK, MarkOK, RebootOK
  <1>3. NoAlias /\ OwnedIn /\ Exclusive BY InitHolds, Facts
  <1>4. \A y \in Buf : ~Valid(y) BY <1>1 DEF Valid
  <1>5. Store = disk
    <2>1. \A c \in Medium : Store[c] = disk[c] BY <1>3, <1>4, StoreIs DEF Incore
    <2> QED BY <1>1, <2>1, OwnerShape
  <1>6. Owner = [c \in Medium |-> NoProc]
    <2>1. \A q \in Proc : Owned(q) = {} BY <1>1 DEF Owned
    <2>2. \A c \in Medium : Owner[c] = NoProc BY <1>3, <2>1, OwnerIs
    <2> QED BY <2>2, OwnerShape
  <1> QED BY <1>1, <1>2, <1>5, <1>6 DEF BS!Init

(* Every step of the cache is a step of the registers, or none. *)
LEMMA NextSimulates ==
    ASSUME IInv, MarksOK, [Next]_vars PROVE MarksOK' /\ Simulates
  <1>0. IInv' BY NextKeeps
  <1>1. CASE RkIntr BY <1>0, <1>1, RkIntrSimulates
  <1>2. CASE Boot BY <1>2, BootSimulates
  <1>3. ASSUME NEW p \in Proc, Start(p) \/ Step(p) PROVE MarksOK' /\ Simulates
    <2>1. CASE Start(p) BY <2>1, StartSimulates
    <2>2. CASE Getblk(p)
      BY <1>0, <2>2, WaitSimulates, GetblkHitSimulates, GetblkEvictSimulates, GetblkTakeSimulates DEF Getblk
    <2>3. CASE GotBread(p) \/ GotGetblk(p) \/ GotBreada(p) \/ GotAhead(p)
      BY <1>0, <2>3, GotBreadSimulates, MoveSimulates, GotBreadaSimulates, GotAheadSimulates
    <2>4. CASE Ahead(p) \/ Join(p) \/ IowaitRead(p) \/ IowaitWrite(p)
      BY <1>0, <2>4, MoveSimulates, IowaitWriteSimulates
    <2>5. CASE GiveBack(p)
      BY <1>0, <2>5, HoldRelseSimulates, HoldBdwriteSimulates, HoldBawriteSimulates, HoldBwriteSimulates DEF
        GiveBack
    <2>6. CASE Flush(p) \/ FlushDone(p) \/ Drain(p)
      BY <1>0, <2>6, FlushSimulates, MoveSimulates, DrainSimulates
    <2> QED BY <1>3, <2>1, <2>2, <2>3, <2>4, <2>5, <2>6 DEF Step
  <1>4. CASE UNCHANGED vars
    <2>1. UNCHANGED <<cache, data, device, pc, bp, first>> BY <1>4 DEF vars, regs
    <2>2. \A q \in Proc : Owned(q)' = Owned(q) BY <2>1 DEF Owned
    <2>3. NoneGot BY <2>1 DEF NoneGot
    <2> QED BY <2>1, <2>2, <2>3, QuietSimulates
  <1> QED BY <1>1, <1>2, <1>3, <1>4 DEF Next

----
(* A reboot with the kernel to itself. *)

(* With nobody's buffer busy, whatever is delayed is on the free list.     *)
LEMMA DelayedIsFree ==
    ASSUME IInv, MarksOK, \A q \in Proc : Owned(q) = {},
           NEW x \in Buf, "DELWRI" \in flags[x] PROVE x \in Range(avail)
  <1> USE Facts
  <1>1. "BUSY" \in flags[x] => x \in Range(queue) BY DEF Exclusive
  <1>2. x \notin Range(queue) BY DEF MarksOK, MarkOK, QueueExact
  <1> QED BY <1>1, <1>2 DEF IInv, CacheOK, FreeListExact

(* A step of the rebooting process. *)
LEMMA RebootSteps ==
    ASSUME IInv, MarksOK, NEW r \in Proc, op[r] = "reboot", alone,
           pc[r] \in {"flush", "drain", "halted"},
           \A q \in Proc \ {r} : pc[q] = "user",
           pc[r] # "flush" => \A x \in Buf : "DELWRI" \notin flags[x],
           pc[r] = "drain" => \A x \in 1 .. bp[r] - 1 : "ASYNC" \notin flags[x],
           Step(r) PROVE RebootOK'
  <1> USE Facts
  <1>1. Flush(r) \/ FlushDone(r) \/ Drain(r)
    BY DEF Step, Getblk, GetblkBusy, GetblkHit, GetblkWait, GetblkEvict, GetblkTake, GotBread, GotGetblk,
      GotBreada, GotAhead, Ahead, Join, IowaitRead, IowaitWrite, GiveBack, HoldRelse, HoldBdwrite,
      HoldBawrite, HoldBwrite, Run
  <1>2. op' = op /\ \A q \in Proc \ {r} : pc'[q] = "user"
    BY <1>1 DEF Flush, FlushDone, Drain, Run, Goto, ProcTypeOK, Leave
  <1>3. CASE Flush(r)
    <2>1. pc'[r] = "flush" BY <1>3 DEF Flush, Goto, ProcTypeOK
    <2> QED BY <1>2, <2>1 DEF RebootOK
  <1>4. CASE FlushDone(r)
    <2>1. /\ UNCHANGED flags /\ \A i \in DOMAIN avail : "DELWRI" \notin flags[avail[i]]
          /\ bp'[r] = 1 /\ pc'[r] = "drain" /\ pc[r] = "flush"
      BY <1>4 DEF FlushDone, Run, Goto, cache, DelayedAt, ProcTypeOK
    <2>2. \A q \in Proc : Owned(q) = {} BY <2>1 DEF Owned, RegistersOK
    <2>3. \A x \in Buf : "DELWRI" \notin flags[x] BY <2>1, <2>2, DelayedIsFree DEF Range
    <2>4. 1 .. bp'[r] - 1 = {} BY <2>1
    <2> QED BY <1>2, <2>1, <2>3, <2>4 DEF RebootOK
  <1>5. CASE Drain(r)
    <2>1. bp[r] \in Buf /\ pc[r] = "drain" /\ \A x \in Buf : "DELWRI" \notin flags[x]
      BY <1>5 DEF Drain, Run, ProcTypeOK, RegistersOK
    <2>2. CASE "ASYNC" \in flags[bp[r]]
      <3>1. /\ flags' = [flags EXCEPT ![bp[r]] = @ \cup {"WANTED"}] /\ UNCHANGED <<pc, bp>>
        BY <1>5, <2>2 DEF Drain
      <3>2. \A x \in Buf : /\ "DELWRI" \notin flags'[x]
                           /\ "ASYNC" \in flags'[x] => "ASYNC" \in flags[x] BY <2>1, <3>1 DEF CacheTypeOK
      <3>3. 1 .. bp[r] - 1 \subseteq Buf BY <2>1, NBUFAssumption DEF Buf
      <3> QED BY <1>2, <2>1, <3>1, <3>2, <3>3 DEF RebootOK
    <2>3. CASE "ASYNC" \notin flags[bp[r]] /\ bp[r] = NBUF
      <3>1. UNCHANGED flags /\ pc'[r] = "halted" /\ cpu' = r BY <1>5, <2>3 DEF Drain, Goto, ProcTypeOK
      <3>2. \A x \in Buf : "ASYNC" \notin flags[x]
        <4>1. \A x \in Buf : x \in 1 .. NBUF - 1 \/ x = NBUF BY NBUFAssumption DEF Buf
        <4> QED BY <2>1, <2>3, <4>1
      <3> QED BY <1>2, <2>1, <3>1, <3>2 DEF RebootOK
    <2>4. CASE "ASYNC" \notin flags[bp[r]] /\ bp[r] # NBUF
      <3>1. UNCHANGED flags /\ pc'[r] = "drain" /\ bp'[r] = bp[r] + 1
        BY <1>5, <2>4 DEF Drain, Goto, ProcTypeOK
      <3>2. \A x \in 1 .. bp'[r] - 1 : x \in 1 .. bp[r] - 1 \/ x = bp[r]
        BY <2>1, <3>1, NBUFAssumption DEF Buf
      <3> QED BY <1>2, <2>1, <2>4, <3>1, <3>2 DEF RebootOK
    <2> QED BY <2>2, <2>3, <2>4
  <1> QED BY <1>1, <1>3, <1>4, <1>5

(* Every step keeps what a reboot alone in the kernel has reached. *)
LEMMA RebootKeeps ==
    ASSUME IInv, MarksOK, RebootOK, [Next]_vars PROVE RebootOK'
  <1> USE Facts
  <1>1. CASE UNCHANGED vars BY <1>1 DEF RebootOK, vars, cache, regs
  <1>2. CASE Boot BY <1>2 DEF Boot, RebootOK
  <1>3. CASE \E p \in Proc : Start(p)
    <2>1. PICK p \in Proc : Start(p) BY <1>3
    <2>2. CASE StartReboot(p)
      <3>1. /\ op'[p] = "reboot" /\ pc'[p] = "flush" /\ \A q \in Proc \ {p} : pc'[q] = pc[q]
            /\ alone' => \A q \in Proc \ {p} : pc[q] = "user"
        BY <2>2 DEF StartReboot, Enter, Goto, ProcTypeOK
      <3> QED BY <3>1 DEF RebootOK
    <2>3. CASE ~StartReboot(p)
      <3>1. ~alone' BY <2>1, <2>3 DEF Start, StartBread, StartGetblk, StartBreada, StartSync
      <3> QED BY <3>1 DEF RebootOK
    <2> QED BY <2>2, <2>3
  <1>4. CASE RkIntr \/ \E p \in Proc : Step(p)
    <2>1. alone' = alone
      BY <1>4 DEF RkIntr, Step, Getblk, GetblkBusy, GetblkHit, GetblkWait, GetblkEvict, GetblkTake, GotBread,
        GotGetblk, GotBreada, GotAhead, Ahead, Join, IowaitRead, IowaitWrite, GiveBack, HoldRelse,
        HoldBdwrite, HoldBawrite, HoldBwrite, Flush, FlushDone, Drain, Leave
    <2> SUFFICES ASSUME alone PROVE RebootOK' BY <2>1 DEF RebootOK
    <2>2. PICK r \in Proc :
            /\ op[r] = "reboot" /\ pc[r] \in {"flush", "drain", "halted"}
            /\ \A q \in Proc \ {r} : pc[q] = "user"
            /\ pc[r] # "flush" => \A x \in Buf : "DELWRI" \notin flags[x]
            /\ pc[r] = "drain" => \A x \in 1 .. bp[r] - 1 : "ASYNC" \notin flags[x]
            /\ pc[r] = "halted" => cpu = r /\ \A x \in Buf : "ASYNC" \notin flags[x] BY DEF RebootOK
    <2>3. CASE RkIntr
      <3>1. PICK x \in Range(queue) : x = Head(queue) BY <2>3, ActiveHasQueue, ChainTail
      <3>2. x \in Buf /\ "BUSY" \in flags[x] /\ "DONE" \notin flags[x] /\ "ERROR" \notin flags[x]
        BY ChainRange DEF QueueExact, MarksOK, MarkOK
      <3>3. Iodone(x, flags[x], avail) /\ UNCHANGED <<pc, op, bp, cpu>> BY <2>3, <3>1 DEF RkIntr, regs
      <3>4. \A y \in Buf \ {x} : flags'[y] = flags[y] BY <3>2, <3>3, IodoneIs
      <3>5. \A m \in {"DELWRI", "ASYNC"} : m \in flags'[x] => m \in flags[x] BY <3>2, <3>3, IodoneIs
      <3>6. \A y \in Buf : \A m \in {"DELWRI", "ASYNC"} : m \in flags'[y] => m \in flags[y] BY <3>4, <3>5
      <3>7. pc[r] = "drain" => 1 .. bp[r] - 1 \subseteq Buf
        <4> SUFFICES ASSUME pc[r] = "drain" PROVE 1 .. bp[r] - 1 \subseteq Buf OBVIOUS
        <4>1. bp[r] \in Buf BY DEF ProcTypeOK, RegistersOK
        <4> QED BY <4>1, NBUFAssumption DEF Buf
      <3>8. /\ pc'[r] # "flush" => \A y \in Buf : "DELWRI" \notin flags'[y]
            /\ pc'[r] = "drain" => \A y \in 1 .. bp'[r] - 1 : "ASYNC" \notin flags'[y]
            /\ pc'[r] = "halted" => cpu' = r /\ \A y \in Buf : "ASYNC" \notin flags'[y]
        BY <2>2, <3>3, <3>6, <3>7
      <3>9. op'[r] = "reboot" /\ pc'[r] \in {"flush", "drain", "halted"}
            /\ \A q \in Proc \ {r} : pc'[q] = "user" BY <2>2, <3>3
      <3> QED BY <3>8, <3>9 DEF RebootOK
    <2>4. CASE \E p \in Proc : Step(p)
      <3>1. PICK p \in Proc : Step(p) BY <2>4
      <3>2. pc[p] # "user"
        BY <3>1 DEF Step, Getblk, GetblkBusy, GetblkHit, GetblkWait, GetblkEvict, GetblkTake, GotBread,
          GotGetblk, GotBreada, GotAhead, Ahead, Join, IowaitRead, IowaitWrite, GiveBack, HoldRelse,
          HoldBdwrite, HoldBawrite, HoldBwrite, Flush, FlushDone, Drain, Run
      <3>3. p = r BY <2>2, <3>2
      <3> QED BY <2>2, <3>1, <3>3, RebootSteps
    <2> QED BY <1>4, <2>3, <2>4
  <1> QED BY <1>1, <1>2, <1>3, <1>4 DEF Next

(* When it halts nothing is in flight or delayed. *)
LEMMA RebootSavesThen ==
    ASSUME IInv, MarksOK, RebootOK PROVE RebootSaves
  <1> USE Facts
  <1> SUFFICES ASSUME alone, Halted, NEW b \in RkBlk PROVE disk[b] = Store[b] BY DEF RebootSaves
  <1>1. /\ \A q \in Proc : pc[q] \in {"user", "halted"}
        /\ \A x \in Buf : "DELWRI" \notin flags[x] /\ "ASYNC" \notin flags[x]
    <2>1. PICK r \in Proc :
            /\ \A q \in Proc \ {r} : pc[q] = "user"
            /\ pc[r] # "flush" => \A x \in Buf : "DELWRI" \notin flags[x]
            /\ pc[r] = "halted" => \A x \in Buf : "ASYNC" \notin flags[x] BY DEF RebootOK
    <2>2. pc[r] = "halted" BY <2>1 DEF Halted
    <2> QED BY <2>1, <2>2
  <1>2. \A q \in Proc : Owned(q) = {} BY <1>1 DEF Owned, RegistersOK
  <1>3. Range(queue) = {} BY <1>1, <1>2, ChainRange DEF QueueExact, Exclusive
  <1>4. b \in Medium BY DEF Medium
  <1>5. ASSUME NEW x \in Incore(b), Valid(x) PROVE Store[b] = disk[b]
    <2>1. x \in Buf /\ id[x] = b /\ "DONE" \in flags[x] /\ "ERROR" \notin flags[x]
      BY <1>3, <1>5 DEF Incore, Valid
    <2>2. Store[b] = data[x] BY <1>4, <1>5, <2>1, StoreIs, NoBlkIsNone
    <2>3. flags[x] \cap {"ERROR", "DELWRI"} = {} BY <1>1, <2>1
    <2> QED BY <1>4, <2>1, <2>2, <2>3 DEF IInv, CacheOK, Coherent
  <1>6. CASE \A x \in Incore(b) : ~Valid(x) BY <1>4, <1>6, StoreIs
  <1> QED BY <1>5, <1>6

----

(* The marks stay in order: no delayed write lacks its data, it has an     *)
(* error behind it just when brelse took its block away, and no error is   *)
(* left for getblk's next caller or the driver.                            *)
THEOREM MarksCorrect == Spec => []MarksOK
  <1>1. Init => MarksOK BY InitSimulates
  <1>2. IInv /\ MarksOK /\ [Next]_vars => MarksOK' BY NextSimulates
  <1> QED BY <1>1, <1>2, CacheInvariant, PTL DEF Spec

(* The buffer cache implements one register per block, whatever the pool,  *)
(* the processes and the devices: a process that holds a block sees the    *)
(* last value written to it, and the disk only ever gets such values.      *)
THEOREM ImplementsBlockStore == Spec => RefinesBlockStore
  <1>1. Init => BS!Init BY InitSimulates
  <1>2. IInv /\ MarksOK /\ [Next]_vars => [BS!Next]_(BS!vars) BY NextSimulates DEF Simulates
  <1> QED BY <1>1, <1>2, CacheInvariant, MarksCorrect, PTL DEF Spec, RefinesBlockStore, BS!Spec

(* reboot, when nothing else is in the kernel, halts with every rk block's *)
(* last value on the disk.                                                 *)
THEOREM RebootIsSafe == Spec => []RebootSaves
  <1>1. Init => RebootOK BY InitSimulates
  <1>2. IInv /\ MarksOK /\ RebootOK /\ [Next]_vars => RebootOK' BY RebootKeeps
  <1>3. IInv /\ MarksOK /\ RebootOK => RebootSaves BY RebootSavesThen
  <1> QED BY <1>1, <1>2, <1>3, CacheInvariant, MarksCorrect, PTL DEF Spec
===============================================================================
