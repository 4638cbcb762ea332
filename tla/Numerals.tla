------------------------------ MODULE Numerals ------------------------------
(***************************************************************************)
(* Integers as bytes: int.to_bytes and int.from_bytes, which every value   *)
(* of the device's memory goes through.                                    *)
(***************************************************************************)
EXTENDS Integers, Sequences

CONSTANTS
    ByteValues, \* number of values of a byte: 256
    Endian      \* ElfBackend.endian

ASSUME NumeralsAssumption ==
    /\ ByteValues \in Nat \ {0, 1} /\ ByteValues % 2 = 0
    /\ Endian \in {"little", "big"}

Bytes == 0 .. ByteValues - 1

(* How many numbers n bytes can hold.                                      *)
Power[n \in Nat] == IF n = 0 THEN 1 ELSE ByteValues * Power[n - 1]

(* The k-th byte of a number in two's complement, from the lowest.         *)
Digit(v, k) == (v \div Power[k]) % ByteValues

ToBytes(value, size) ==
    [k \in 1 .. size |-> Digit(value, IF Endian = "big" THEN size - k ELSE k - 1)]

FromBytes(bytes) ==
    LET size == Len(bytes)
        lowest[n \in 0 .. size] == \* the number in the n lowest bytes
            IF n = 0 THEN 0
            ELSE Power[n - 1] * bytes[IF Endian = "big" THEN size - n + 1 ELSE n] + lowest[n - 1]
    IN  lowest[size]

=============================================================================
