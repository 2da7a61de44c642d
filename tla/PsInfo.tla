--------------------------------- MODULE PsInfo ---------------------------------
(***************************************************************************)
(* psinfo (SYS4.C): one process asks for another's table entry and the top *)
(* of its stack, which may be on the swap device; the read sleeps while    *)
(* the process is moved, dies or is replaced.  The swapper's transfers go  *)
(* past the block cache, in which psinfo and exit keep what they touched.  *)
(***************************************************************************)
EXTENDS Integers

CONSTANTS
    Block,     \* swap space: where an image's last sector may be
    MaxPid,    \* bound: processes that use the slot
    MaxMoves   \* bound: moves between core and disk

VARIABLES
    slot,      \* the proc entry: pid (0: free), SLOAD, p_addr (0: in core), where sched is
               \* writing it (0: nowhere), and how the frame in the image now reads
    disk,      \* the last sector of each swap area
    cache,     \* the buffer that holds it, if any
    call,      \* psinfo: where it is, what it has noted, the buffer it waits for
    got,       \* the last answer, for the properties: right, from a buffer older than the disk,
               \* and given while the process was being written out
    moves
vars == <<slot, disk, cache, call, got, moves>>

None == <<0, 0>>
Alien == <<-1, 0>>    \* whatever the swap device has elsewhere
Idle == [step |-> "idle", pid |-> 0, addr |-> 0, buf |-> None]

Init ==
    /\ slot = [pid |-> 1, load |-> TRUE, addr |-> 0, to |-> 0, frame |-> <<1, 0>>]
    /\ disk = [b \in Block |-> None]
    /\ cache = [b \in Block |-> None]
    /\ call = Idle /\ got = [right |-> TRUE, old |-> FALSE, out |-> FALSE]
    /\ moves = 0

Quiet == UNCHANGED <<call, got>>
Moves == moves < MaxMoves /\ moves' = moves + 1

(* What the process and the swapper do meanwhile.                          *)
Runs ==
    /\ slot.pid # 0 /\ slot.load /\ Moves
    /\ slot' = [slot EXCEPT !.frame[2] = @ + 1]
    /\ Quiet /\ UNCHANGED <<disk, cache>>
(* swgrow and newproc write an image that still has SLOAD.                 *)
SwapSelf(b) ==
    /\ slot.pid # 0 /\ slot.load /\ Moves
    /\ slot' = [slot EXCEPT !.load = FALSE, !.addr = b]
    /\ disk' = [disk EXCEPT ![b] = slot.frame]
    /\ Quiet /\ UNCHANGED cache
(* sched takes SLOAD away first; xswap sleeps in swapio, and p_addr is the *)
(* address in core until the image is out.                                 *)
SwapOut(b) ==
    /\ slot.pid # 0 /\ slot.load /\ Moves
    /\ slot' = [slot EXCEPT !.load = FALSE, !.to = b]
    /\ Quiet /\ UNCHANGED <<disk, cache>>
SwapOutDone ==
    /\ slot.to # 0
    /\ slot' = [slot EXCEPT !.addr = slot.to, !.to = 0]
    /\ disk' = [disk EXCEPT ![slot.to] = slot.frame]
    /\ Quiet /\ UNCHANGED <<cache, moves>>
SwapIn ==
    /\ slot.pid # 0 /\ ~slot.load /\ slot.to = 0
    /\ slot' = [slot EXCEPT !.load = TRUE, !.addr = 0]
    /\ Quiet /\ UNCHANGED <<disk, cache, moves>>
(* exit leaves the u area in one block of swap space, through the cache.   *)
Exit(b) ==
    /\ slot.pid # 0 /\ slot.load
    /\ slot' = [slot EXCEPT !.pid = 0]
    /\ disk' = [disk EXCEPT ![b] = <<slot.pid, -1>>]
    /\ cache' = [cache EXCEPT ![b] = <<slot.pid, -1>>]
    /\ Quiet /\ UNCHANGED moves
Fork ==
    /\ slot.pid = 0 /\ slot.frame[1] < MaxPid
    /\ slot' = [pid |-> slot.frame[1] + 1, load |-> TRUE, addr |-> 0, to |-> 0,
                frame |-> <<slot.frame[1] + 1, 0>>]
    /\ Quiet /\ UNCHANGED <<disk, cache, moves>>
(* Other reads take the buffer for another block.                          *)
Evict(b) ==
    /\ cache[b] # None
    /\ cache' = [cache EXCEPT ![b] = None]
    /\ Quiet /\ UNCHANGED <<slot, disk, moves>>

----
Answers(frame, old) ==
    got' = [right |-> frame = None \/ (frame = slot.frame /\ slot.pid = frame[1]),
            old |-> old, out |-> slot.to # 0]
psinfo ==
    /\ call.step = "idle"
    /\ IF slot.pid = 0 \/ slot.load
       THEN /\ Answers(IF slot.pid = 0 THEN None ELSE slot.frame, FALSE)
            /\ UNCHANGED <<call, cache>>
       ELSE /\ call' = [step |-> "read", pid |-> slot.pid, addr |-> slot.addr, buf |-> None]
            /\ UNCHANGED <<got, cache>>
    /\ UNCHANGED <<slot, disk, moves>>
(* bread: from the cache if it is there; the caller wakes up some time     *)
(* after the disk is read.                                                 *)
Bread ==
    /\ call.step = "read"
    /\ LET b == call.addr
           sector == IF b = 0 THEN Alien ELSE IF cache[b] # None THEN cache[b] ELSE disk[b]
       IN  /\ call' = [call EXCEPT !.step = "wait", !.buf = sector]
           /\ cache' = IF b = 0 THEN cache ELSE [cache EXCEPT ![b] = sector]
    /\ UNCHANGED <<slot, disk, got, moves>>
(* A slip: only the process is compared, not where it is.                  *)
MovedPid == slot.pid # call.pid
Moved == slot.pid # call.pid \/ slot.load \/ slot.addr # call.addr
(* If anything moved it starts again, which is another psinfo.             *)
Woken ==
    /\ call.step = "wait"
    /\ call' = Idle
    /\ IF Moved THEN UNCHANGED got
       ELSE Answers(call.buf, call.addr # 0 /\ call.buf # disk[call.addr])
    /\ UNCHANGED <<slot, disk, cache, moves>>
(* The transfer fails: no frame is reported.                               *)
ReadFails ==
    /\ call.step = "read"
    /\ call' = Idle
    /\ IF Moved THEN UNCHANGED got ELSE Answers(None, FALSE)
    /\ UNCHANGED <<slot, disk, cache, moves>>

Next ==
    \/ Runs \/ SwapOutDone \/ SwapIn \/ Fork \/ psinfo \/ Bread \/ Woken \/ ReadFails
    \/ \E b \in Block : SwapSelf(b) \/ SwapOut(b) \/ Exit(b) \/ Evict(b)
Spec == Init /\ [][Next]_vars

----
(* The entry and the frame beside it are of one process at one instant     *)
(* ("the two halves always describe the same instant"), unless the buffer  *)
(* is an old copy of the block (the swapper does not tell the cache), or   *)
(* the whole read fell while sched was writing the image out: then p_addr  *)
(* is still one in core, nothing has moved when bread is done, and what is *)
(* reported is another block's data.                                       *)
OneInstant == got.right \/ got.old \/ got.out
====
