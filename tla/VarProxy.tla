------------------------------ MODULE VarProxy ------------------------------
(***************************************************************************)
(* VarProxy and VarProxyStruct (pyroxene/device_proxy.py): Python objects  *)
(* that stand for a C object in the device's memory, what LibProxy.new and *)
(* memmove do through them, and the integers and pointers that functions   *)
(* return (FuncProxy.unmarshal_returntype).  An access is one step: it     *)
(* ends before the test goes on, and Communicator executes its reads and   *)
(* writes in order.                                                        *)
(*                                                                         *)
(* An exception leaves what the access has written before.  Writes stay    *)
(* in their object, since __setitem__ checks no bound, and slices are as   *)
(* long as their object, which has two elements or more, since a slice of  *)
(* one is read as a number.                                                *)
(***************************************************************************)
EXTENDS Commands, Functions, Numerals

CONSTANTS
    None,       \* no data
    Addrs,      \* addresses of the objects of the test
    Rom,        \* contents of the constants of the library: a function from addresses
    Objects,    \* [proxy, items]: items[i] has the places of the i-th element, as C lays them out
    OneByOne,   \* objects whose elements the test reads one at a time
    Numbers,    \* what a test assigns
    SizeofLong  \* bytes of a result

(* lib.sizeof                                                              *)
Sizeof(p) == IF p.length # -1 THEN p.length * p.type.size ELSE p.type.size

(* The cells of an object.                                                 *)
Region(o) == o.proxy.address .. o.proxy.address + Sizeof(o.proxy) - 1

(* An array of integers, as C lays it out.                                 *)
IsArray(o) ==
    LET type == o.proxy.type
    IN  /\ type.kind = "int" /\ type.signed \in BOOLEAN
        /\ \A i \in DOMAIN o.items :
              o.items[i] = <<[address |-> o.proxy.address + (i - 1) * type.size,
                              size |-> type.size,
                              signed |-> type.signed]>>

(* Members of a struct: integers before pointers, none over another.       *)
AreMembers(members, size) ==
    /\ Len(members) \in Nat /\ DOMAIN members = 1 .. Len(members)
    /\ \A k \in DOMAIN members :
          /\ members[k].offset \in Nat /\ members[k].type.size \in Nat \ {0}
          /\ members[k].offset + members[k].type.size <= size
          /\ \/ members[k].type.kind = "int" /\ members[k].type.signed \in BOOLEAN
             \/ members[k].type.kind = "pointer" /\ members[k].type.size <= SizeofLong
    /\ \A k, l \in DOMAIN members :
          k < l => /\ \/ members[k].offset + members[k].type.size <= members[l].offset
                      \/ members[l].offset + members[l].type.size <= members[k].offset
                   /\ members[l].type.kind = "int" => members[k].type.kind = "int"

(* An array of structs.                                                    *)
IsStructs(o) ==
    LET type == o.proxy.type
    IN  /\ type.kind = "struct" /\ AreMembers(type.members, type.size)
        /\ \A i \in DOMAIN o.items :
              o.items[i] = [k \in DOMAIN type.members |->
                  [address |-> o.proxy.address + (i - 1) * type.size + type.members[k].offset,
                   size |-> type.members[k].type.size,
                   signed |-> type.members[k].type.kind = "int" /\ type.members[k].type.signed]]

(* What the linker does: variables in memory, constants with their data.   *)
Linked(o) ==
    IF o.proxy.data = None
    THEN Region(o) \subseteq Addrs
    ELSE /\ IsArray(o)
         /\ Region(o) \subseteq DOMAIN Rom
         /\ o.proxy.data = [k \in 1 .. Sizeof(o.proxy) |-> Rom[o.proxy.address + k - 1]]

LaidOut(o) ==
    /\ o.proxy.address \in Nat
    /\ o.proxy.type.size \in Nat \ {0}
    /\ o.proxy.length \in Nat \ {0, 1}
    /\ DOMAIN o.items = 1 .. o.proxy.length /\ Len(o.items) = o.proxy.length
    /\ IsArray(o) \/ IsStructs(o)
    /\ Linked(o)

ASSUME VarProxyAssumption ==
    /\ Addrs \subseteq Nat /\ DOMAIN Rom \subseteq Nat /\ Addrs \cap DOMAIN Rom = {}
    /\ Rom \in [DOMAIN Rom -> Bytes]
    /\ \A o \in Objects : LaidOut(o)
    /\ \A o, q \in Objects : o # q => Region(o) \cap Region(q) = {}
    /\ OneByOne \subseteq Objects
    /\ Numbers \subseteq Int
    /\ SizeofLong \in Nat \ {0}

VARIABLES
    memory,     \* the bytes of the device
    call,       \* history: the last access, in terms of places
    reply       \* what it returned

vars == <<memory, call, reply>>

Places == UNION {UNION {Range(o.items[i]) : i \in DOMAIN o.items} : o \in Objects}

Modulus == [p \in Places |-> Power[p.size]]

(* The number at a place, in two's complement.                             *)
Value(p, m) ==
    LET half == Modulus[p] \div 2
    IN  CHOOSE v \in (IF p.signed THEN -half .. half - 1 ELSE 0 .. Modulus[p] - 1) :
            \A k \in 0 .. p.size - 1 :
                m[p.address + (IF Endian = "big" THEN p.size - 1 - k ELSE k)] = Digit(v, k)

Typed == INSTANCE TypedMemory WITH content <- [p \in Places |-> Value(p, memory)]

Answer(is, values) == Typed!Answer(is, values)

-----------------------------------------------------------------------------
(* Types (elfbackend.py).                                                  *)
IntType(size, signed) == [kind |-> "int", size |-> size, signed |-> signed]
PointerType(size, base) == [kind |-> "pointer", size |-> size, base |-> base]
ArrayType(base, length) ==
    [kind |-> "array", size |-> length * base.size, base |-> base, length |-> length]
StructType(size, members) == [kind |-> "struct", size |-> size, members |-> members]

(* to_bytes raises OverflowError otherwise.                                *)
Encodable(value, size) == value \in 0 .. Power[size] - 1

-----------------------------------------------------------------------------
(* VarProxy.__init__, new2: a proxy of an array is one of its elements.    *)
NewProxy(type, address, length, bytes) ==
    IF type.kind = "array"
    THEN [type |-> type.base, address |-> address, length |-> type.length, data |-> bytes]
    ELSE [type |-> type, address |-> address, length |-> length, data |-> bytes]

(* VarProxy.to_bytes: constants are read from the ELF file.                *)
Content(p, m) ==
    IF p.data # None
    THEN p.data
    ELSE Slice(m, p.address, p.type.size * (IF p.length > 0 THEN p.length ELSE 1))

(* Defect: shifts by 8 * size and misses the sign bit.                     *)
SignedWide(value, type) ==
    IF type.signed /\ value \div Power[type.size] # 0
    THEN value - Power[type.size]
    ELSE value

Signed(value, type) ==
    IF type.signed /\ value \div (Power[type.size] \div 2) # 0
    THEN value - Power[type.size]
    ELSE value

(* VarProxy.get_value of an integer or an array of integers: a list of one *)
(* element is returned as that element.                                    *)
GetValue(p, m) ==
    LET bytes == Content(p, m)
        n == p.type.size
        values == [k \in 1 .. Len(bytes) \div n |->
                      Signed(FromBytes(SubSeq(bytes, (k - 1) * n + 1, k * n)), p.type)]
    IN  Answer(IF Len(values) = 1 THEN "number" ELSE "list", values)

(* The proxy _getitem_single works with: the data is cut at its beginning  *)
(* only.                                                                   *)
Element(p, index) ==
    LET offset == index * p.type.size
    IN  NewProxy(p.type, p.address + offset, -1,
                 IF p.data = None THEN None ELSE SubSeq(p.data, offset + 1, Len(p.data)))

OutOfRange(p, index) == p.length # -1 /\ index >= p.length

(* __getitem__ of a pointer: the proxy of what it points to.               *)
Dereference(p, index, m) ==
    NewProxy(p.type.base, FromBytes(Content(Element(p, index), m)), -1, None)

(* __getitem__ with an index, of integers.                                 *)
GetItem(p, index, m) ==
    IF OutOfRange(p, index) THEN Answer("exception", <<>>) ELSE GetValue(Element(p, index), m)

(* __getitem__ with a slice, of integers.                                  *)
GetSlice(p, start, stop, m) ==
    LET size == p.type.size
    IN  GetValue(NewProxy(p.type, p.address + start * size, stop - start,
                          IF p.data = None
                          THEN None
                          ELSE SubSeq(p.data, start * size + 1, stop * size)), m)

-----------------------------------------------------------------------------
(* What com.call returns when the library returns the value of a place.    *)
Result(p) == Value(p, memory) % Power[SizeofLong]

uint2int(value, size) ==
    IF value \div (Power[size] \div 2) # 0 THEN value - Power[size] ELSE value

(* unmarshal_returntype of an integer and of a pointer.                    *)
ReturnedNumber(result, type) ==
    Answer("number", <<IF type.signed THEN uint2int(result, type.size) ELSE result>>)

ReturnedPointer(result, type) == NewProxy(type.base, result, -1, None)

-----------------------------------------------------------------------------
(* A write: the memory afterwards, and whether it raised.                  *)
Wrote(m, a, bytes) == [memory |-> Written(m, a, bytes), raised |-> FALSE]
Failed(m) == [memory |-> m, raised |-> TRUE]

(* set_value of a number.                                                  *)
SetNumber(p, value, m) ==
    LET v == IF value < 0 THEN Power[p.type.size] + value ELSE value
    IN  IF Encodable(v, p.type.size)
        THEN Wrote(m, p.address, ToBytes(v, p.type.size))
        ELSE Failed(m)

(* set_value of a proxy: a pointer takes its address, an integer all of    *)
(* its bytes.                                                              *)
SetProxy(p, q, m) ==
    IF p.type.kind = "pointer"
    THEN SetNumber(p, q.address, m)
    ELSE Wrote(m, p.address, Content(q, m))

(* VarProxyStruct: the proxy of the k-th member.                           *)
Member(p, k) ==
    NewProxy(p.type.members[k].type, p.address + p.type.members[k].offset, -1, None)

(* The result of setting proxies[1], ... proxies[n] in turn.               *)
InTurn(proxies, values, m) ==
    LET after[n \in 0 .. Len(values)] ==
            IF n = 0 THEN [memory |-> m, raised |-> FALSE]
            ELSE IF after[n - 1].raised THEN after[n - 1]
            ELSE SetNumber(proxies[n], values[n], after[n - 1].memory)
    IN  after[Len(values)]

(* set_value of a list: the members in their order.                        *)
SetMembers(p, values, m) == InTurn([k \in DOMAIN values |-> Member(p, k)], values, m)

(* LibProxy._set with a list, of an array: its elements in their order.    *)
SetElements(p, values, m) == InTurn([k \in DOMAIN values |-> Element(p, k - 1)], values, m)

(* The sequences, each of n items, one behind the other.                   *)
Joined(sequences, n) ==
    [k \in 1 .. Len(sequences) * n |-> sequences[(k - 1) \div n + 1][((k - 1) % n) + 1]]

(* __setitem__ with a slice, of integers.                                  *)
SetSlice(p, start, stop, values, m) ==
    IF /\ p.length # -1
       /\ stop - start = Len(values)
       /\ \A k \in DOMAIN values : Encodable(values[k], p.type.size)
    THEN Wrote(m, p.address + start * p.type.size,
               Joined([k \in DOMAIN values |-> ToBytes(values[k], p.type.size)], p.type.size))
    ELSE Failed(m)

-----------------------------------------------------------------------------
Init ==
    /\ memory = [a \in Addrs \cup DOMAIN Rom |-> IF a \in Addrs THEN 0 ELSE Rom[a]]
    /\ call = Typed!NoCall
    /\ reply = Typed!Done

Access(op, places, values, from) ==
    call' = [op |-> op, places |-> places, values |-> values, from |-> from]

Reads(answer) == reply' = answer /\ UNCHANGED memory

Writes(w) == memory' = w.memory /\ reply' = IF w.raised THEN Typed!Raised ELSE Typed!Done

Variables == {o \in Objects : o.proxy.data = None}
Arrays == {o \in Objects : o.proxy.type.kind = "int"}
Structs == {o \in Variables : o.proxy.type.kind = "struct"}

All(o) == Joined(o.items, Len(o.items[1]))

MembersOf(o, kind) ==
    {k \in DOMAIN o.proxy.type.members : o.proxy.type.members[k].type.kind = kind}

(* n = o[i]                                                                *)
ReadItem ==
    \E o \in Arrays \cap OneByOne : \E i \in 0 .. Len(o.items) :
        /\ Access("get", IF i < Len(o.items) THEN o.items[i + 1] ELSE <<>>, <<>>, <<>>)
        /\ Reads(GetItem(o.proxy, i, memory))

(* l = o[0 : len(o)]                                                       *)
ReadSlice ==
    \E o \in Arrays :
        /\ Access("get slice", All(o), <<>>, <<>>)
        /\ Reads(GetSlice(o.proxy, 0, Len(o.items), memory))

(* n = o[i].member                                                         *)
ReadMember ==
    \E o \in Structs : \E i \in DOMAIN o.items, k \in MembersOf(o, "int") :
        /\ Access("get", <<o.items[i][k]>>, <<>>, <<>>)
        /\ Reads(GetValue(Member(Element(o.proxy, i - 1), k), memory))

(* n = o[i].member[j], of a pointer to one of the arrays.                  *)
ReadThrough ==
    \E o \in Structs : \E i \in DOMAIN o.items, k \in MembersOf(o, "pointer"), t \in Arrays \cap Variables :
        \E j \in DOMAIN t.items :
            /\ o.proxy.type.members[k].type.base = t.proxy.type
            /\ Value(o.items[i][k], memory) = t.items[1][1].address
            /\ Access("get through", <<o.items[i][k]>>, <<j - 1>>, All(t))
            /\ Reads(GetItem(Dereference(Member(Element(o.proxy, i - 1), k), 0, memory), j - 1, memory))

(* n = lib.get(i), a function that returns o[i], as wide as a long.        *)
ReturnItem ==
    \E o \in Arrays : \E i \in DOMAIN o.items :
        /\ o.proxy.type.size = SizeofLong
        /\ Access("get", o.items[i], <<>>, <<>>)
        /\ Reads(ReturnedNumber(Result(o.items[i][1]), o.proxy.type))

(* n = lib.get(i)[j], a function that returns o[i].member.                 *)
ReturnThrough ==
    \E o \in Structs : \E i \in DOMAIN o.items, k \in MembersOf(o, "pointer"), t \in Arrays \cap Variables :
        \E j \in DOMAIN t.items :
            /\ o.proxy.type.members[k].type.base = t.proxy.type
            /\ Value(o.items[i][k], memory) = t.items[1][1].address
            /\ Access("get through", <<o.items[i][k]>>, <<j - 1>>, All(t))
            /\ LET returned == ReturnedPointer(Result(o.items[i][k]), o.proxy.type.members[k].type)
               IN  Reads(GetItem(returned, j - 1, memory))

(* o[i] = v                                                                *)
WriteItem ==
    \E o \in Arrays \cap Variables : \E i \in DOMAIN o.items, v \in Numbers :
        /\ Access("set", o.items[i], <<v>>, <<>>)
        /\ Writes(SetNumber(Element(o.proxy, i - 1), v, memory))

(* o[0 : len(o)] = values                                                  *)
WriteSlice ==
    \E o \in Arrays \cap Variables :
        \E values \in UNION {[1 .. n -> Numbers] : n \in {Len(o.items) - 1, Len(o.items)}} :
            /\ Access("set slice", All(o), values, <<>>)
            /\ Writes(SetSlice(o.proxy, 0, Len(o.items), values, memory))

(* What new(type, values) does to an array.                                *)
Initialise ==
    \E o \in Arrays \cap Variables : \E values \in [DOMAIN o.items -> Numbers] :
        /\ Access("set", All(o), values, <<>>)
        /\ Writes(SetElements(o.proxy, values, memory))

(* o[i].member = v                                                         *)
WriteMember ==
    \E o \in Structs : \E i \in DOMAIN o.items, k \in MembersOf(o, "int"), v \in Numbers :
        /\ Access("set", <<o.items[i][k]>>, <<v>>, <<>>)
        /\ Writes(SetNumber(Member(Element(o.proxy, i - 1), k), v, memory))

(* o[i].member = t                                                         *)
WritePointer ==
    \E o \in Structs : \E i \in DOMAIN o.items, k \in MembersOf(o, "pointer"), t \in Arrays \cap Variables :
        /\ Access("set", <<o.items[i][k]>>, <<t.items[1][1].address>>, <<>>)
        /\ Writes(SetProxy(Member(Element(o.proxy, i - 1), k), t.proxy, memory))

(* o[i] = values, for the first members of a struct.                       *)
WriteMembers ==
    \E o \in Structs : \E i \in DOMAIN o.items : \E values \in [MembersOf(o, "int") -> Numbers] :
        /\ Access("set", SubSeq(o.items[i], 1, Len(values)), values, <<>>)
        /\ Writes(SetMembers(Element(o.proxy, i - 1), values, memory))

(* o[i] = o[j]                                                             *)
WriteStruct ==
    \E o \in Structs : \E i, j \in DOMAIN o.items :
        /\ Access("copy", o.items[i], <<>>, o.items[j])
        /\ Writes(SetProxy(Element(o.proxy, i - 1), Element(o.proxy, j - 1), memory))

(* lib.memset(o, 0, lib.sizeof(o))                                         *)
Memset ==
    \E o \in Variables :
        /\ Access("set", All(o), [k \in DOMAIN All(o) |-> 0], <<>>)
        /\ Writes(Wrote(memory, o.proxy.address, [k \in 1 .. Sizeof(o.proxy) |-> 0]))

(* lib.memmove(o, source, lib.sizeof(o))                                   *)
Memmove ==
    \E o \in Arrays \cap Variables, source \in Arrays :
        /\ source.proxy.type.size = o.proxy.type.size
        /\ source.proxy.length = o.proxy.length
        /\ Access("copy", All(o), <<>>, All(source))
        /\ Writes(Wrote(memory, o.proxy.address,
                        Slice(memory, source.proxy.address, Sizeof(o.proxy))))

Next ==
    \/ ReadItem \/ ReadSlice \/ ReadMember \/ ReadThrough
    \/ ReturnItem \/ ReturnThrough
    \/ WriteItem \/ WriteSlice \/ Initialise
    \/ WriteMember \/ WritePointer \/ WriteMembers \/ WriteStruct
    \/ Memset \/ Memmove

Spec == Init /\ [][Next]_vars

-----------------------------------------------------------------------------
(* Memory keeps its extent, every byte is a byte, and the library's        *)
(* constants keep their bytes.                                             *)
TypeOK ==
    /\ memory \in [Addrs \cup DOMAIN Rom -> 0 .. ByteValues - 1]
    /\ Restrict(memory, DOMAIN Rom) = Rom
    /\ call.op = "none" \/ Range(call.places) \subseteq Places
    /\ reply.is \in {"nothing", "exception", "number", "list"}

(* Through bytes, offsets and conversions, a proxy gives access to the     *)
(* typed integers it stands for: what is read is what was assigned last,   *)
(* with the type's sign, and nothing next to it changes (get_value,        *)
(* set_value and their callers).                                           *)
ImplementsTypedMemory == Typed!Spec

=============================================================================
