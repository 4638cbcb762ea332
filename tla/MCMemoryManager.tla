--------------------------- MODULE MCMemoryManager ---------------------------
(* Model-checking instance of MemoryManager.                               *)
EXTENDS MemoryManager

Symmetry == Permutations(Vars)

=============================================================================
