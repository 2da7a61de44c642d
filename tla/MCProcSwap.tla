------------------------------ MODULE MCProcSwap ------------------------------
EXTENDS ProcSwapInv, TLC
Symmetry == Permutations(Prog)
===============================================================================
