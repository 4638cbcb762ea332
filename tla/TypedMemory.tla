----------------------------- MODULE TypedMemory -----------------------------
(***************************************************************************)
(* What "VarProxy behaves like a pointer to its type" (device_proxy.py:21) *)
(* means: memory is made of typed integers, each place keeps the value     *)
(* last assigned to it, converted to its type, and an access touches no    *)
(* other place.  Nothing is said about bytes.                              *)
(***************************************************************************)
EXTENDS Integers, Sequences, Functions

CONSTANTS
    Places,     \* the integers and pointers in memory: [address, size, signed]
    Modulus     \* Modulus[p]: how many numbers p can hold

VARIABLES
    content,    \* the value at each place
    call,       \* the last access: [op, places, values, from]
    reply       \* what it returned: [is, values]

typedVars == <<content, call, reply>>

NoCall == [op |-> "none", places |-> <<>>, values |-> <<>>, from |-> <<>>]

Answer(is, values) == [is |-> is, values |-> values]
Done == Answer("nothing", <<>>)
Raised == Answer("exception", <<>>)

Representable(p) ==
    IF p.signed THEN -(Modulus[p] \div 2) .. Modulus[p] \div 2 - 1 ELSE 0 .. Modulus[p] - 1

Converted(p, v) == CHOOSE w \in Representable(p) : (v - w) % Modulus[p] = 0

Init ==
    /\ DOMAIN content = Places
    /\ \A p \in Places : content[p] \in Representable(p)
    /\ call = NoCall
    /\ reply = Done

(* An item, which may lie behind the end of its array.                     *)
Load(c) ==
    /\ c.op = "get"
    /\ reply' = IF c.places = <<>>
                THEN Raised
                ELSE Answer("number", <<content[c.places[1]]>>)
    /\ UNCHANGED content

LoadSlice(c) ==
    /\ c.op = "get slice"
    /\ reply' = Answer("list", [k \in DOMAIN c.places |-> content[c.places[k]]])
    /\ UNCHANGED content

(* Element c.values[1] of the array that the pointer c.places[1] is at.    *)
LoadThrough(c) ==
    /\ c.op = "get through"
    /\ \E p \in Range(c.from) :
          /\ p.address = content[c.places[1]] + c.values[1] * p.size
          /\ reply' = Answer("number", <<content[p]>>)
    /\ UNCHANGED content

Assign(places, values) ==
    content' = [p \in Places |->
                   IF p \in Range(places)
                   THEN Converted(p, values[CHOOSE k \in DOMAIN places : places[k] = p])
                   ELSE content[p]]

Fits(p, v) == v \in -Modulus[p] .. Modulus[p] - 1

(* Values are assigned one after the other, negative ones whatever the     *)
(* type, up to the first that does not fit.                                *)
Store(c) ==
    /\ c.op = "set"
    /\ \E n \in 0 .. Len(c.places) :
          /\ \A k \in 1 .. n : Fits(c.places[k], c.values[k])
          /\ n < Len(c.places) => ~Fits(c.places[n + 1], c.values[n + 1])
          /\ Assign(SubSeq(c.places, 1, n), c.values)
          /\ reply' = IF n = Len(c.places) THEN Done ELSE Raised

(* A slice is assigned as a whole or not at all, and takes no negative     *)
(* value.                                                                  *)
StoreSlice(c) ==
    /\ c.op = "set slice"
    /\ IF /\ Len(c.values) = Len(c.places)
          /\ \A k \in DOMAIN c.places : c.values[k] \in 0 .. Modulus[c.places[k]] - 1
       THEN Assign(c.places, c.values) /\ reply' = Done
       ELSE UNCHANGED content /\ reply' = Raised

Copy(c) ==
    /\ c.op = "copy"
    /\ Assign(c.places, [k \in DOMAIN c.from |-> content[c.from[k]]])
    /\ reply' = Done

(* call' is the access that is made.                                       *)
Next ==
    \/ Load(call') \/ LoadSlice(call') \/ LoadThrough(call')
    \/ Store(call') \/ StoreSlice(call') \/ Copy(call')

Spec == Init /\ [][Next]_typedVars

=============================================================================
