----------------------------- MODULE MCVarProxy -----------------------------
(***************************************************************************)
(* An instance of VarProxy for TLC:                                        *)
(*     struct { int8_t a; uint16_t b; int16_t *q; } t[2];                  *)
(*     int16_t arr[2];                                                     *)
(*     const uint16_t table[2];                                            *)
(* packed, with bytes of two bits.  16 is the first number that does not   *)
(* fit in two bytes.                                                       *)
(***************************************************************************)
EXTENDS VarProxy, TLC

Int8 == IntType(1, TRUE)
Int16 == IntType(2, TRUE)
UInt16 == IntType(2, FALSE)

Item_t == StructType(5, <<[offset |-> 0, type |-> Int8],
                        [offset |-> 1, type |-> UInt16],
                        [offset |-> 3, type |-> PointerType(2, Int16)]>>)

Place(address, size, signed) == [address |-> address, size |-> size, signed |-> signed]

Pair(a) == <<Place(a, 1, TRUE), Place(a + 1, 2, FALSE), Place(a + 3, 2, FALSE)>>

MCAddrs == 1 .. 14

MCNumbers == {-1, 16}

MCRom == 15 :> 0 @@ 16 :> 2 @@ 17 :> 3 @@ 18 :> 1

MCVariables == {
    [proxy |-> NewProxy(ArrayType(Item_t, 2), 1, -1, None), items |-> <<Pair(1), Pair(6)>>],
    [proxy |-> NewProxy(ArrayType(Int16, 2), 11, -1, None),
     items |-> <<<<Place(11, 2, TRUE)>>, <<Place(13, 2, TRUE)>>>>]}

MCConstants == {
    [proxy |-> NewProxy(ArrayType(UInt16, 2), 15, -1, <<0, 2, 3, 1>>),
     items |-> <<<<Place(15, 2, FALSE)>>, <<Place(17, 2, FALSE)>>>>]}

MCObjects == MCVariables \cup MCConstants

=============================================================================
