------------------------------ MODULE Commands ------------------------------
(***************************************************************************)
(* The commands both ends know (the switch of pyroxene_dispatcher and the  *)
(* first argument of PyroxeneCommunicator.command) and the two ways they   *)
(* touch memory.                                                           *)
(***************************************************************************)
EXTENDS Integers, Sequences

Echo == 0
MemoryRead == 1
MemoryWrite == 2
Call == 3

(* Defect: copies one cell too many, as a size that still counts one cell  *)
(* of the header would.                                                    *)
WrittenTooFar(m, a, data) ==
    [x \in DOMAIN m \cup a .. a + Len(data) |->
        IF x \in a .. a + Len(data) - 1 THEN data[x - a + 1] ELSE 0]

(* memory[addr + i] = b for every cell b of the data.                      *)
Written(m, a, data) ==
    [x \in DOMAIN m |-> IF x \in a .. a + Len(data) - 1 THEN data[x - a + 1] ELSE m[x]]

Slice(m, a, n) == [k \in 1 .. n |-> m[a + k - 1]]

=============================================================================
