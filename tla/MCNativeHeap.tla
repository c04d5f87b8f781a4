------------------------------ MODULE MCNativeHeap ------------------------------
EXTENDS NativeHeap
CONSTANTS x, g   \* a block's name and a global
MCLocal == <<x>>
Symmetry == Permutations(Finalized)
================================================================================
