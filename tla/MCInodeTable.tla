----------------------------- MODULE MCInodeTable -----------------------------
(* The inode table on a small machine; the .cfg files give the sizes. *)
EXTENDS InodeTableInv, TLC

CONSTANT StaleLength    \* the longest list a crashed superblock held

(* Spare lists in ascending order; after a crash they name inodes in use. *)
MCSpares == {<<>>} \cup IF StaleLength = 0 THEN {} ELSE {<<i>> : i \in 2..NINO}

Symmetry == Permutations(Proc) \cup Permutations(Name)
===============================================================================
