------------------------------ MODULE MCFuncCall ------------------------------
(* Model-checking instance of FuncCall.                                    *)
EXTENDS FuncCall

Symmetry == Permutations(Vars)

=============================================================================
