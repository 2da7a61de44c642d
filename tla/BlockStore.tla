------------------------------ MODULE BlockStore ------------------------------
(***************************************************************************)
(* What the buffer cache promises the file system above it: every disk     *)
(* block is one register, held by at most one process at a time.  A        *)
(* process that holds the block sees the last value any process gave it,   *)
(* wherever that value is (a buffer, a queued transfer, the disk).  The    *)
(* durable copy only ever takes the value of the register.  A device that  *)
(* reports errors may throw the register back to the durable copy, and a   *)
(* block that could not be read takes no value that is to be written later. *)
(***************************************************************************)
CONSTANTS
    Block,      \* the blocks of the devices
    Fallible,   \* those on a device whose transfers can fail
    Proc,       \* the processes
    Val,        \* contents of a block
    NoProc      \* nobody

VARIABLES
    store,      \* the last value written to each block
    durable,    \* what the medium holds
    owner       \* who holds each block

vars == <<store, durable, owner>>

Init ==
    /\ durable \in [Block -> Val]
    /\ store = durable
    /\ owner = [b \in Block |-> NoProc]

(* A process takes a block nobody holds. *)
Acquire(p, b) ==
    /\ owner[b] = NoProc
    /\ owner' = [owner EXCEPT ![b] = p]
    /\ UNCHANGED <<store, durable>>

(* The holder gives the block back as it found it, or delays a write of a  *)
(* block it could not read, which is dropped.                              *)
Release(p, b) ==
    /\ owner[b] = p
    /\ owner' = [owner EXCEPT ![b] = NoProc]
    /\ UNCHANGED <<store, durable>>

(* The holder gives the block a value; the medium may have it at once, and *)
(* the holder may let go of the block in the same step.                    *)
Update(p, b, v) ==
    /\ owner[b] = p
    /\ store' = [store EXCEPT ![b] = v]
    /\ durable' \in {durable, [durable EXCEPT ![b] = v]}
    /\ owner' \in {owner, [owner EXCEPT ![b] = NoProc]}

(* The medium catches up with the register. *)
Persist(b) ==
    /\ durable' = [durable EXCEPT ![b] = store[b]]
    /\ UNCHANGED <<store, owner>>

(* A transfer failed: what was written since the last good one is lost. *)
Lose(b) ==
    /\ b \in Fallible
    /\ store' = [store EXCEPT ![b] = durable[b]]
    /\ owner' \in {owner, [owner EXCEPT ![b] = NoProc]}
    /\ UNCHANGED durable

(* The machine is reset: only the medium survives. *)
Reset ==
    /\ store' = durable
    /\ owner' = [b \in Block |-> NoProc]
    /\ UNCHANGED durable

Next ==
    \/ \E b \in Block : Persist(b)
    \/ \E b \in Block, p \in Proc :
           \/ Acquire(p, b)
           \/ Release(p, b)
           \/ \E v \in Val : Update(p, b, v)
    \/ \E b \in Block : Lose(b)
    \/ Reset

Spec == Init /\ [][Next]_vars
===============================================================================
