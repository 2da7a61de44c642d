-------------------------------- MODULE Chain ---------------------------------
(***************************************************************************)
(* Linked chains of the kernel (a free list, a driver queue) as sequences  *)
(* without repetition, and the unlinking of an element from the middle.    *)
(***************************************************************************)
EXTENDS Integers, Sequences, Functions

IsChain(s, S) == s \in Seq(S) /\ IsInjective(s)

(* A wrong unlinking, which leaves the element on the chain. *)
WithoutNothing(s, x) == s

(* The chain s without its element x. *)
Without(s, x) ==
    LET k == CHOOSE i \in DOMAIN s : s[i] = x
    IN  [i \in 1 .. Len(s) - 1 |-> IF i < k THEN s[i] ELSE s[i + 1]]
===============================================================================
