----------------------------- MODULE MCBufferCache -----------------------------
(* The buffer cache on a small machine; the .cfg files give the constants. *)
EXTENDS BufferCacheInv, TLC

Symmetry == Permutations(Proc) \cup Permutations(RkBlk)
===============================================================================
