---------------------------------- MODULE MCPipe ----------------------------------
(* A pipe on a small machine; the .cfg files give the sizes. *)
EXTENDS PipeInv, TLC

Symmetry == Permutations(Proc \ {Shell})
===============================================================================
