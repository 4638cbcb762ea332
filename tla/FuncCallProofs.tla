---------------------------- MODULE FuncCallProofs ----------------------------
(***************************************************************************)
(* Theorems about FuncCall: the calls of a test use the allocator as       *)
(* MemoryManager says, so that its theorems hold in calls too; with        *)
(* positive sizes no call overwrites an object of the test, and two        *)
(* arguments always arrive.                                                *)
(***************************************************************************)
EXTENDS FuncCall, MemoryManagerProofs

-----------------------------------------------------------------------------
Argument == [kind : {"bytes", "proxy"}, proxy : Vars \cup {None}, length : Sizes \cup {0}]

(* marshal_args runs from argument to argument; the allocator runs within  *)
(* lib.new only.                                                           *)
Marshalling ==
    /\ stage \in {"idle", "marshal", "new", "call"}
    /\ stage \in {"marshal", "call"} => pc = "idle"
    /\ args \in Seq(Argument)
    /\ \A k \in DOMAIN args : /\ args[k].kind = "bytes" => args[k].length \in Sizes
                              /\ args[k].kind = "proxy" => args[k].proxy \in Vars
    /\ packed \in Seq(Int)
    /\ Len(packed) <= Len(args) /\ Len(args) <= MaxArgs
    /\ stage = "call" => Len(packed) = Len(args)
    /\ store \in [Heap -> 0 .. MaxArgs]

(* The object being created is another one than the last temporary, which  *)
(* is referenced by the local variable.                                    *)
Locals ==
    /\ var \in Vars \cup {None} /\ temporary \in Vars \cup {None}
    /\ var # None => var \in held
    /\ stage \in {"idle", "call"} => var = None
    /\ stage # "new" => temporary = None
    /\ stage = "new" => /\ Len(packed) < Len(args)
                        /\ Current.kind = "bytes"
                        /\ temporary # None
                        /\ temporary # var
                        /\ size[temporary] = Current.length
                        /\ pc # "idle" => variable = temporary

CallInv == ListInv /\ Marshalling /\ Locals

-----------------------------------------------------------------------------
(* Each step of a call is one of the allocator, a dropped reference, or    *)
(* nothing the allocator sees.                                             *)
LEMMA CallStepAllocates ==
    ASSUME CallInv, [CallNext]_<<vars, callVars>>
    PROVE  [Next]_vars
<1>. USE DEF CallInv, ListInv
<1>1. ASSUME NEW v, Rebind(v), pc = "idle" PROVE [Next]_vars
  <2>1. CASE var \in held
    <3>1. var \in Vars
      BY <2>1 DEF TypeOK
    <3>. QED BY <1>1, <2>1, <3>1 DEF Rebind, Drop, Next
  <2>2. CASE var \notin held
    <3>1. held' = held
      BY <1>1, <2>2 DEF Rebind
    <3>. QED BY <1>1, <3>1 DEF Rebind, vars
  <2>. QED BY <2>1, <2>2
<1>2. CASE TestNew
  BY <1>2 DEF TestNew, Next
<1>3. CASE TestDrop
  BY <1>3 DEF TestDrop, Next
<1>4. CASE Allocating
  BY <1>4 DEF Allocating, Next
<1>5. CASE \E n \in 0 .. MaxArgs : \E a \in Arguments(n) : BeginCall(a)
  BY <1>5 DEF BeginCall
<1>6. CASE MarshalProxy
  BY <1>6 DEF MarshalProxy
<1>7. CASE \E v \in Vars : MarshalBytes(v)
  <2>1. PICK v \in Vars : MarshalBytes(v)
    BY <1>7
  <2>2. Len(packed) + 1 \in DOMAIN args
    BY <2>1, LenProperties DEF MarshalBytes, Marshalling
  <2>3. Current.length \in Sizes
    BY <2>1, <2>2 DEF MarshalBytes, Marshalling, Current
  <2>. QED BY <2>1, <2>3 DEF MarshalBytes, Next
<1>8. CASE BytesWritten
  BY <1>1, <1>8 DEF BytesWritten
<1>9. CASE NewFailed
  BY <1>1, <1>9 DEF NewFailed
<1>10. CASE Marshalled
  BY <1>1, <1>10 DEF Marshalled, Marshalling
<1>11. CASE EndCall
  BY <1>11 DEF EndCall
<1>12. CASE UNCHANGED <<vars, callVars>>
  BY <1>12
<1>. QED BY <1>2, <1>3, <1>4, <1>5, <1>6, <1>7, <1>8, <1>9, <1>10, <1>11, <1>12 DEF CallNext

(* What the allocator's steps leave alone.                                 *)
LEMMA MallocStepKeeps ==
    ASSUME TypeOK, MallocStep
    PROVE  /\ pc # "idle"
           /\ size' = size
           /\ \/ held' = held
              \/ held' = held \ {variable} /\ pc' = "idle"
           /\ pc' # "idle" => variable' = variable
           /\ \A v \in Vars \ {variable} : address'[v] = address[v]
<1>1. ASSUME NEW a \in Int, Place(a) PROVE \A v \in Vars \ {variable} : address'[v] = address[v]
  BY <1>1 DEF Place, TypeOK
<1>2. search_address \in Int
  BY DEF TypeOK
<1>3. CASE AutofreeDelete
  BY <1>3 DEF AutofreeDelete
<1>4. CASE AutofreeKeep
  BY <1>4 DEF AutofreeKeep
<1>5. CASE FindSlotSort
  BY <1>5 DEF FindSlotSort
<1>6. CASE FindSlotBefore
  <2>1. pc = "scan" /\ Place(search_address)
    BY <1>6 DEF FindSlotBefore
  <2>. QED BY <1>1, <1>2, <2>1 DEF Place
<1>7. CASE FindSlotSkip
  BY <1>7 DEF FindSlotSkip
<1>8. CASE FindSlotLast
  <2>1. pc = "scan" /\ Place(search_address)
    BY <1>8 DEF FindSlotLast
  <2>. QED BY <1>1, <1>2, <2>1 DEF Place
<1>9. CASE OutOfMemory
  BY <1>9 DEF OutOfMemory
<1>. QED BY <1>3, <1>4, <1>5, <1>6, <1>7, <1>8, <1>9 DEF MallocStep

(* An argument list of a call: objects the test holds, and bytes.          *)
LEMMA ArgumentLists ==
    ASSUME TypeOK, NEW n \in Nat, NEW a \in Arguments(n)
    PROVE  /\ a \in Seq(Argument) /\ Len(a) = n
           /\ \A k \in DOMAIN a : /\ a[k].kind = "bytes" => a[k].length \in Sizes
                                  /\ a[k].kind = "proxy" => a[k].proxy \in held
<1>1. Bytes \cup {Proxy(v) : v \in held} \subseteq Argument
  BY DEF Bytes, Proxy, Argument, TypeOK
<1>2. a \in [1 .. n -> Argument]
  BY <1>1 DEF Arguments
<1>3. a \in Seq(Argument) /\ Len(a) = n
  BY <1>2
<1>4. \A b \in Bytes \cup {Proxy(v) : v \in held} :
         /\ b.kind = "bytes" => b.length \in Sizes
         /\ b.kind = "proxy" => b.proxy \in held
  BY DEF Bytes, Proxy
<1>5. \A k \in DOMAIN a : a[k] \in Bytes \cup {Proxy(v) : v \in held}
  BY DEF Arguments
<1>. QED BY <1>3, <1>4, <1>5

(* Packing one more address.                                               *)
LEMMA PackedOneMore ==
    ASSUME Marshalling, NEW a \in Int, packed' = Append(packed, a), Len(packed) < Len(args)
    PROVE  /\ packed' \in Seq(Int)
           /\ Len(packed) \in Nat /\ Len(args) \in Nat
           /\ Len(packed') = Len(packed) + 1
           /\ Len(packed') <= Len(args)
           /\ \A k \in 1 .. Len(packed) : packed'[k] = packed[k]
           /\ packed'[Len(packed) + 1] = a
<1>1. packed \in Seq(Int) /\ args \in Seq(Argument)
  BY DEF Marshalling
<1>2. Len(packed) \in Nat /\ Len(args) \in Nat
  BY <1>1, LenProperties
<1>3. /\ packed' \in Seq(Int)
      /\ Len(packed') = Len(packed) + 1
      /\ \A k \in 1 .. Len(packed) : packed'[k] = packed[k]
      /\ packed'[Len(packed) + 1] = a
  BY <1>1, AppendProperties
<1>. QED BY <1>2, <1>3

(* The argument being marshalled.                                          *)
LEMMA CurrentArgument ==
    ASSUME Marshalling, Len(packed) < Len(args)
    PROVE  /\ Len(packed) + 1 \in DOMAIN args
           /\ Current \in Argument
           /\ Current.kind = "bytes" => Current.length \in Sizes
           /\ Current.kind = "proxy" => Current.proxy \in Vars
<1>1. packed \in Seq(Int) /\ args \in Seq(Argument)
  BY DEF Marshalling
<1>2. Len(packed) \in Nat /\ Len(args) \in Nat /\ DOMAIN args = 1 .. Len(args)
  BY <1>1, LenProperties
<1>3. Len(packed) + 1 \in DOMAIN args
  BY <1>2
<1>4. Current \in Argument
  BY <1>1, <1>2, <1>3, ElementOfSeq DEF Current
<1>. QED BY <1>3, <1>4 DEF Current, Marshalling

LEMMA MarshallingStep ==
    ASSUME CallInv, [CallNext]_<<vars, callVars>>
    PROVE  Marshalling' /\ Locals'
<1>. USE MemoryManagerAssumption, FuncCallAssumption DEF CallInv
<1>1. CASE TestNew
  BY <1>1 DEF TestNew, callVars, MallocCall, Current, Marshalling, Locals
<1>2. CASE TestDrop
  BY <1>2 DEF TestDrop, callVars, Drop, Current, Marshalling, Locals
<1>3. CASE Allocating
  <2>1. TypeOK /\ MallocStep /\ stage \in {"idle", "new"}
    BY <1>3 DEF Allocating, ListInv
  <2>2. /\ pc # "idle"
        /\ size' = size
        /\ \/ held' = held
           \/ held' = held \ {variable} /\ pc' = "idle"
        /\ pc' # "idle" => variable' = variable
    BY <2>1, MallocStepKeeps
  <2>3. UNCHANGED <<stage, args, packed, var, temporary, store>>
    BY <1>3 DEF Allocating, callVars
  <2>4. Marshalling'
    BY <2>1, <2>3 DEF Marshalling
  <2>5. Locals'
    BY <2>1, <2>2, <2>3 DEF Locals, Current
  <2>. QED BY <2>4, <2>5
<1>4. CASE \E n \in 0 .. MaxArgs : \E a \in Arguments(n) : BeginCall(a)
  <2>0. PICK n \in 0 .. MaxArgs : \E a \in Arguments(n) : BeginCall(a)
    BY <1>4
  <2>1. PICK a \in Arguments(n) : BeginCall(a)
    BY <2>0
  <2>2. /\ a \in Seq(Argument) /\ Len(a) = n
        /\ \A k \in DOMAIN a : /\ a[k].kind = "bytes" => a[k].length \in Sizes
                               /\ a[k].kind = "proxy" => a[k].proxy \in Vars
    BY ArgumentLists DEF ListInv, TypeOK
  <2>3. <<>> \in Seq(Int) /\ Len(<<>>) = 0
    BY EmptySeq
  <2>4. [x \in Heap |-> 0] \in [Heap -> 0 .. MaxArgs]
    OBVIOUS
  <2>5. Marshalling'
    BY <2>1, <2>2, <2>3, <2>4 DEF BeginCall, vars, Marshalling
  <2>6. Locals'
    BY <2>1 DEF BeginCall, vars, Locals
  <2>. QED BY <2>5, <2>6
<1>5. CASE MarshalProxy
  <2>1. /\ Len(packed) < Len(args) /\ Current.kind = "proxy" /\ stage = "marshal"
        /\ UNCHANGED <<vars, stage, args, var, temporary, store>>
    BY <1>5 DEF MarshalProxy
  <2>2. packed' \in Seq(Int) /\ Len(packed') <= Len(args)
    <3>1. packed' = Append(packed, address[Current.proxy])
      BY <1>5 DEF MarshalProxy
    <3>2. address[Current.proxy] \in Int
      BY <2>1, CurrentArgument DEF ListInv, TypeOK
    <3>. QED BY <2>1, <3>1, <3>2, PackedOneMore
  <2>3. Marshalling'
    BY <2>1, <2>2 DEF Marshalling, vars
  <2>4. Locals'
    BY <2>1 DEF Locals, vars
  <2>. QED BY <2>3, <2>4
<1>6. CASE \E v \in Vars : MarshalBytes(v)
  <2>0. PICK v \in Vars : MarshalBytes(v)
    BY <1>6
  <2>1. Marshalling'
    BY <2>0 DEF MarshalBytes, Marshalling
  <2>2. v \notin held /\ held' = held \cup {v} /\ variable' = v
        /\ size'[v] = Current.length
    BY <2>0 DEF MarshalBytes, MallocCall, ListInv, TypeOK
  <2>3. Locals'
    BY <2>0, <2>2 DEF MarshalBytes, Locals, Current
  <2>. QED BY <2>1, <2>3
<1>7. CASE BytesWritten
  <2>1. /\ stage = "new" /\ pc = "idle" /\ temporary \in held
        /\ var' = temporary /\ held' = held \ {var}
        /\ temporary' = None /\ stage' = "marshal" /\ args' = args
        /\ UNCHANGED <<pc, size>>
    BY <1>7 DEF BytesWritten, Rebind
  <2>2. Len(packed) < Len(args) /\ temporary \in Vars /\ temporary # var
    BY <2>1 DEF Locals
  <2>3. packed' \in Seq(Int) /\ Len(packed') <= Len(args) /\ Len(packed) + 1 \in 0 .. MaxArgs
    <3>1. packed' = Append(packed, address[temporary])
      BY <1>7 DEF BytesWritten
    <3>2. address[temporary] \in Int
      BY <2>2 DEF ListInv, TypeOK
    <3>. QED BY <2>2, <3>1, <3>2, PackedOneMore DEF Marshalling
  <2>4. store' \in [Heap -> 0 .. MaxArgs]
    BY <1>7, <2>3 DEF BytesWritten, Marshalling
  <2>5. Marshalling'
    BY <2>1, <2>3, <2>4 DEF Marshalling
  <2>6. Locals'
    BY <2>1, <2>2 DEF Locals
  <2>. QED BY <2>5, <2>6
<1>8. CASE NewFailed
  <2>1. <<>> \in Seq(Int) /\ <<>> \in Seq(Argument) /\ Len(<<>>) = 0
    BY EmptySeq
  <2>. QED BY <1>8, <2>1 DEF NewFailed, Rebind, Marshalling, Locals
<1>9. CASE Marshalled
  BY <1>9 DEF Marshalled, Rebind, Marshalling, Locals
<1>10. CASE EndCall
  <2>1. <<>> \in Seq(Int) /\ <<>> \in Seq(Argument) /\ Len(<<>>) = 0
    BY EmptySeq
  <2>. QED BY <1>10, <2>1 DEF EndCall, vars, Marshalling, Locals
<1>11. CASE UNCHANGED <<vars, callVars>>
  BY <1>11 DEF vars, callVars, Current, Marshalling, Locals
<1>. QED BY <1>1, <1>2, <1>3, <1>4, <1>5, <1>6, <1>7, <1>8, <1>9, <1>10, <1>11 DEF CallNext

LEMMA CallInvariant == CallSpec => []CallInv
<1>1. CallInit => CallInv
  <2>. SUFFICES ASSUME CallInit PROVE CallInv
    OBVIOUS
  <2>1. ListInv
    BY MemoryManagerAssumption
       DEF CallInit, Init, ListInv, TypeOK, Distinct, Pending, Reserved, Entries
  <2>2. <<>> \in Seq(Int) /\ <<>> \in Seq(Argument) /\ Len(<<>>) = 0
    BY EmptySeq
  <2>3. Marshalling
    BY <2>2, FuncCallAssumption DEF CallInit, Init, Marshalling
  <2>4. Locals
    BY DEF CallInit, Locals
  <2>. QED BY <2>1, <2>3, <2>4 DEF CallInv
<1>2. CallInv /\ [CallNext]_<<vars, callVars>> => CallInv'
  BY CallStepAllocates, MarshallingStep, ListStep DEF CallInv
<1>. QED BY <1>1, <1>2, PTL DEF CallSpec

(* Calls, with the temporaries that marshal_args creates and drops, use    *)
(* the allocator in no other way than MemoryManager says; whatever is      *)
(* proved of it holds with calls (FuncProxy.__call__, LibProxy.new).       *)
THEOREM CallsUseTheAllocator == CallSpec => Spec
<1>1. CallInit => Init
  BY DEF CallInit
<1>2. CallInv /\ [CallNext]_<<vars, callVars>> => [Next]_vars
  BY CallStepAllocates
<1>. QED BY <1>1, <1>2, CallInvariant, PTL DEF CallSpec, Spec

(* The variables of a call keep their types.                               *)
THEOREM CallTypeCorrect == CallSpec => []CallTypeOK
<1>1. CallInv => CallTypeOK
  BY DEF CallInv, ListInv, Marshalling, Locals, Argument, CallTypeOK
<1>. QED BY <1>1, CallInvariant, PTL

-----------------------------------------------------------------------------
(* The bytes of an object.                                                 *)
ObjectBytes(v) == address[v] .. address[v] + size[v] - 1

(* The objects the call may not touch hold nothing of an argument.         *)
Untouched ==
    stage # "idle" =>
        \A v \in held \ {var, temporary} : \A x \in ObjectBytes(v) : store[x] = 0

(* The arguments that are objects of the test stay referenced.             *)
HeldArguments ==
    stage # "idle" =>
        \A k \in DOMAIN args :
            args[k].kind = "proxy" => args[k].proxy \in held \ {var, temporary}

(* What is packed is in place ...                                          *)
Delivered ==
    stage # "idle" =>
        \A k \in 1 .. Len(packed) :
            IF args[k].kind = "bytes"
            THEN \A x \in packed[k] .. packed[k] + args[k].length - 1 : store[x] = k
            ELSE packed[k] = address[args[k].proxy]

(* ... and while the second argument is copied the local variable still    *)
(* references the copy of the first.                                       *)
FirstReferenced ==
    /\ stage \in {"marshal", "new"}
    /\ Len(packed) = 1
    /\ args[1].kind = "bytes"
    => /\ var \in held
       /\ packed[1] = address[var]
       /\ size[var] = args[1].length

CopyInv == CallInv /\ HeapInv

(* Between two runs of the allocator, two referenced objects lie in the    *)
(* heap and apart from each other.                                         *)
LEMMA ObjectsApart ==
    ASSUME PositiveSizes, CopyInv, pc = "idle", NEW v \in held
    PROVE  /\ ObjectBytes(v) \subseteq Heap
           /\ \A w \in held \ {v} : ObjectBytes(v) \cap ObjectBytes(w) = {}
<1>. USE MemoryManagerAssumption DEF CopyInv, CallInv, ListInv, HeapInv, Entries, Start, End
<1>1. variable = None /\ held \subseteq Vars /\ None \notin Vars
  BY DEF Pending, TypeOK
<1>2. \A u \in held : \E j \in Entries : allocated[j] = u
  BY <1>1 DEF Reserved
<1>3. \A u \in held : address[u] \in Int /\ size[u] \in Int
  BY <1>1 DEF TypeOK
<1>4. ObjectBytes(v) \subseteq Heap
  <2>1. PICK j \in Entries : allocated[j] = v
    BY <1>2
  <2>2. BaseAddr <= address[v] /\ address[v] + size[v] <= BaseAddr + MaxSize
    BY <2>1 DEF Placed
  <2>. QED BY <1>3, <2>2 DEF ObjectBytes, Heap
<1>5. ASSUME NEW w \in held \ {v} PROVE ObjectBytes(v) \cap ObjectBytes(w) = {}
  <2>1. PICK j \in Entries : allocated[j] = v
    BY <1>2
  <2>2. PICK k \in Entries : allocated[k] = w
    BY <1>2
  <2>3. \/ address[v] + size[v] <= address[w]
        \/ address[w] + size[w] <= address[v]
    BY <2>1, <2>2 DEF Disjoint
  <2>. QED BY <1>3, <2>3 DEF ObjectBytes
<1>. QED BY <1>4, <1>5

(* What a step within a call does to the objects of the test, and to the   *)
(* temporary marshal_args still references: nothing.                       *)
LEMMA AllocatingKeeps ==
    ASSUME CallInv, Allocating
    PROVE  /\ UNCHANGED <<stage, args, packed, var, temporary, store, size>>
           /\ held' \subseteq held
           /\ stage # "idle" =>
                 \A v \in held \ {temporary} : v \in held' /\ address'[v] = address[v]
<1>1. UNCHANGED <<stage, args, packed, var, temporary, store>> /\ TypeOK /\ MallocStep
  BY DEF Allocating, callVars, CallInv, ListInv
<1>2. /\ pc # "idle"
      /\ size' = size
      /\ \/ held' = held
         \/ held' = held \ {variable} /\ pc' = "idle"
      /\ \A v \in Vars \ {variable} : address'[v] = address[v]
  BY <1>1, MallocStepKeeps
<1>3. stage # "idle" => variable = temporary
  BY <1>2 DEF CallInv, Marshalling, Locals
<1>. QED BY <1>1, <1>2, <1>3 DEF TypeOK

LEMMA HeldArgumentsStep ==
    ASSUME CallInv, HeldArguments, [CallNext]_<<vars, callVars>>
    PROVE  HeldArguments'
<1>. USE DEF CallInv, HeldArguments
<1>1. CASE TestNew \/ TestDrop
  BY <1>1 DEF TestNew, TestDrop, callVars
<1>2. CASE Allocating
  BY <1>2, AllocatingKeeps
<1>3. CASE \E n \in 0 .. MaxArgs : \E a \in Arguments(n) : BeginCall(a)
  <2>0. PICK n \in 0 .. MaxArgs : \E a \in Arguments(n) : BeginCall(a)
    BY <1>3
  <2>1. PICK a \in Arguments(n) : BeginCall(a)
    BY <2>0
  <2>2. \A k \in DOMAIN a : a[k].kind = "proxy" => a[k].proxy \in held
    BY ArgumentLists DEF ListInv
  <2>3. var = None /\ temporary = None /\ None \notin held
    BY <2>1, MemoryManagerAssumption DEF BeginCall, Locals, ListInv, TypeOK
  <2>. QED BY <2>1, <2>2, <2>3 DEF BeginCall, vars
<1>4. CASE MarshalProxy
  BY <1>4 DEF MarshalProxy, vars
<1>5. CASE \E v \in Vars : MarshalBytes(v)
  BY <1>5 DEF MarshalBytes, MallocCall, ListInv, TypeOK
<1>6. CASE BytesWritten
  BY <1>6, MemoryManagerAssumption DEF BytesWritten, Rebind, ListInv, TypeOK
<1>7. CASE NewFailed
  BY <1>7 DEF NewFailed
<1>8. CASE Marshalled
  BY <1>8, MemoryManagerAssumption DEF Marshalled, Rebind, ListInv, TypeOK, Locals
<1>9. CASE EndCall
  BY <1>9 DEF EndCall
<1>10. CASE UNCHANGED <<vars, callVars>>
  BY <1>10 DEF vars, callVars
<1>. QED BY <1>1, <1>2, <1>3, <1>4, <1>5, <1>6, <1>7, <1>8, <1>9, <1>10 DEF CallNext

(* lib.new gives the copy of an argument a range of its own.               *)
LEMMA UntouchedStep ==
    ASSUME PositiveSizes, CopyInv, Untouched, [CallNext]_<<vars, callVars>>
    PROVE  Untouched'
<1>. USE DEF CopyInv, CallInv, Untouched
<1>0. held \subseteq Vars /\ None \notin held
  BY MemoryManagerAssumption DEF ListInv, TypeOK
<1>1. CASE TestNew \/ TestDrop
  BY <1>1 DEF TestNew, TestDrop, callVars
<1>2. CASE Allocating
  BY <1>2, AllocatingKeeps DEF ObjectBytes
<1>3. CASE \E n \in 0 .. MaxArgs : \E a \in Arguments(n) : BeginCall(a)
  <2>1. pc = "idle" /\ UNCHANGED vars /\ store' = [x \in Heap |-> 0]
    BY <1>3 DEF BeginCall
  <2>2. \A v \in held : ObjectBytes(v) \subseteq Heap
    BY <2>1, ObjectsApart
  <2>. QED BY <2>1, <2>2 DEF vars, ObjectBytes
<1>4. CASE MarshalProxy
  BY <1>4 DEF MarshalProxy, vars, ObjectBytes
<1>5. CASE \E v \in Vars : MarshalBytes(v)
  <2>0. PICK v \in Vars : MarshalBytes(v)
    BY <1>5
  <2>1. /\ stage = "marshal" /\ temporary' = v /\ held' = held \cup {v} /\ v \notin held
        /\ UNCHANGED <<var, store>>
        /\ \A w \in held : address'[w] = address[w] /\ size'[w] = size[w]
    BY <1>0, <2>0 DEF MarshalBytes, MallocCall, ListInv, TypeOK
  <2>2. temporary = None
    BY <2>1 DEF Locals
  <2>. QED BY <1>0, <2>1, <2>2 DEF ObjectBytes
<1>6. CASE BytesWritten
  <2>1. /\ stage = "new" /\ pc = "idle" /\ temporary \in held
        /\ var' = temporary /\ temporary' = None /\ held' = held \ {var}
        /\ UNCHANGED <<address, size>>
        /\ store' = [x \in Heap |-> IF x \in address[temporary] .. address[temporary] + Current.length - 1
                                    THEN Len(packed) + 1 ELSE store[x]]
    BY <1>6 DEF BytesWritten, Rebind
  <2>2. size[temporary] = Current.length
    BY <2>1 DEF Locals
  <2>3. ASSUME NEW v \in held', v # var', NEW x \in ObjectBytes(v) PROVE store'[x] = 0
    <3>1. v \in held \ {var, temporary}
      BY <2>1, <2>3
    <3>2. x \in Heap /\ x \notin ObjectBytes(temporary)
      BY <2>1, <3>1, <2>3, ObjectsApart
    <3>3. store[x] = 0
      BY <2>1, <3>1, <2>3
    <3>. QED BY <2>1, <2>2, <3>2, <3>3 DEF ObjectBytes
  <2>. QED BY <2>1, <2>3 DEF ObjectBytes
<1>7. CASE NewFailed
  BY <1>7 DEF NewFailed
<1>8. CASE Marshalled
  BY <1>0, <1>8 DEF Marshalled, Rebind, ObjectBytes
<1>9. CASE EndCall
  BY <1>9 DEF EndCall
<1>10. CASE UNCHANGED <<vars, callVars>>
  BY <1>10 DEF vars, callVars, ObjectBytes
<1>. QED BY <1>1, <1>2, <1>3, <1>4, <1>5, <1>6, <1>7, <1>8, <1>9, <1>10 DEF CallNext

LEMMA CopyInvariant == ASSUME PositiveSizes PROVE CallSpec => []CopyInv
<1>. USE CallsUseTheAllocator, CallInvariant, HeapInvariant
<1>. QED BY PTL DEF CopyInv

(* Copying arguments to the device leaves the objects the test holds as    *)
(* they were, however many arguments the call has (marshal_args), as long  *)
(* as no object is empty.                                                  *)
THEOREM NoBystanderIsTouched == ASSUME PositiveSizes PROVE CallSpec => []BystandersUntouched
<1>1. CallInit => Untouched
  BY DEF CallInit, Untouched
<1>2. CopyInv /\ Untouched /\ [CallNext]_<<vars, callVars>> => Untouched'
  BY UntouchedStep
<1>3. CopyInv /\ Untouched => BystandersUntouched
  BY MemoryManagerAssumption
     DEF CopyInv, CallInv, ListInv, TypeOK, Locals, Untouched, BystandersUntouched, ObjectBytes
<1>. QED BY <1>1, <1>2, <1>3, CopyInvariant, PTL DEF CallSpec

-----------------------------------------------------------------------------
DeliverInv == CopyInv /\ HeldArguments /\ Delivered /\ FirstReferenced

(* Of two arguments the copy of the first is referenced while the second   *)
(* is allocated; of three, it need not be (the run three_bytes_arguments). *)
LEMMA DeliveredStep ==
    ASSUME PositiveSizes, MaxArgs <= 2, DeliverInv, [CallNext]_<<vars, callVars>>
    PROVE  Delivered' /\ FirstReferenced'
<1>. USE DEF DeliverInv, CopyInv, CallInv
<1>0. held \subseteq Vars /\ None \notin held
  BY MemoryManagerAssumption DEF ListInv, TypeOK
<1>a. /\ Len(packed) \in Nat /\ Len(args) \in Nat /\ DOMAIN args = 1 .. Len(args)
      /\ Len(packed) <= Len(args) /\ Len(args) <= 2
      /\ \A k \in 1 .. Len(args) : args[k].kind \in {"bytes", "proxy"}
  <2>1. packed \in Seq(Int) /\ args \in Seq(Argument)
    BY DEF Marshalling
  <2>2. Len(packed) \in Nat /\ Len(args) \in Nat /\ DOMAIN args = 1 .. Len(args)
    BY <2>1, LenProperties
  <2>a. \A k \in 1 .. Len(args) : args[k] \in Argument
    BY <2>1, ElementOfSeq
  <2>3. \A k \in 1 .. Len(args) : args[k].kind \in {"bytes", "proxy"}
    BY <2>a DEF Argument
  <2>. QED BY <2>2, <2>3, FuncCallAssumption DEF Marshalling
<1>b. ASSUME Len(packed) < Len(args) PROVE Len(packed) = 0 \/ Len(packed) = 1
  <2>1. Len(packed) \in Nat /\ Len(args) \in Nat /\ Len(args) <= 2
    BY <1>a
  <2>2. \A m, n \in Nat : m < n /\ n <= 2 => m = 0 \/ m = 1
    OBVIOUS
  <2>. QED BY <1>b, <2>1, <2>2, Zenon
<1>1. CASE TestNew \/ TestDrop
  BY <1>1 DEF TestNew, TestDrop, callVars, Delivered, FirstReferenced
<1>2. CASE Allocating
  <2>1. /\ UNCHANGED <<stage, args, packed, var, temporary, store, size>>
        /\ stage # "idle" =>
              \A v \in held \ {temporary} : v \in held' /\ address'[v] = address[v]
    BY <1>2, AllocatingKeeps
  <2>2. ASSUME stage # "idle", NEW k \in 1 .. Len(packed)
        PROVE  IF args[k].kind = "bytes"
               THEN \A x \in packed[k] .. packed[k] + args[k].length - 1 : store[x] = k
               ELSE packed[k] = address'[args[k].proxy]
    <3>1. k \in DOMAIN args
      BY <1>a, <2>2
    <3>2. CASE args[k].kind = "bytes"
      BY <2>2, <3>2 DEF Delivered
    <3>3. CASE args[k].kind = "proxy"
      <4>1. address'[args[k].proxy] = address[args[k].proxy]
        BY <2>1, <2>2, <3>1, <3>3 DEF HeldArguments
      <4>. QED BY <2>2, <3>3, <4>1 DEF Delivered
    <3>. QED BY <1>a, <2>2, <3>1, <3>2, <3>3
  <2>3. Delivered'
    BY <2>1, <2>2 DEF Delivered
  <2>4. FirstReferenced'
    <3>1. stage = "new" => temporary # var
      BY DEF Locals
    <3>2. stage \in {"marshal", "new"} /\ var \in held =>
            var \in held' /\ address'[var] = address[var] /\ size'[var] = size[var]
      BY <1>0, <2>1, <3>1 DEF Locals
    <3>. QED BY <2>1, <3>2 DEF FirstReferenced
  <2>. QED BY <2>3, <2>4
<1>3. CASE \E n \in 0 .. MaxArgs : \E a \in Arguments(n) : BeginCall(a)
  <2>1. Len(packed') = 0
    BY <1>3, EmptySeq DEF BeginCall
  <2>. QED BY <2>1 DEF Delivered, FirstReferenced
<1>4. CASE MarshalProxy
  <2>1. /\ stage = "marshal" /\ Len(packed) < Len(args) /\ Current.kind = "proxy"
        /\ packed' = Append(packed, address[Current.proxy])
        /\ UNCHANGED <<stage, args, var, temporary, store, address, held, size>>
    BY <1>4 DEF MarshalProxy, vars
  <2>2. address[Current.proxy] \in Int
    BY <2>1, CurrentArgument DEF ListInv, TypeOK
  <2>3. /\ Len(packed') = Len(packed) + 1
        /\ \A k \in 1 .. Len(packed) : packed'[k] = packed[k]
        /\ packed'[Len(packed) + 1] = address[Current.proxy]
    BY <2>1, <2>2, PackedOneMore
  <2>4. ASSUME NEW k \in 1 .. Len(packed')
        PROVE  IF args[k].kind = "bytes"
               THEN \A x \in packed'[k] .. packed'[k] + args[k].length - 1 : store[x] = k
               ELSE packed'[k] = address[args[k].proxy]
    <3>1. CASE k \in 1 .. Len(packed)
      BY <2>1, <2>3, <3>1 DEF Delivered
    <3>2. CASE k = Len(packed) + 1
      BY <2>1, <2>3, <3>2 DEF Current
    <3>. QED BY <1>a, <2>3, <3>1, <3>2
  <2>5. Delivered'
    BY <2>1, <2>4 DEF Delivered
  <2>6. FirstReferenced'
    BY <1>a, <2>1, <2>3 DEF FirstReferenced, Current
  <2>. QED BY <2>5, <2>6
<1>5. CASE \E v \in Vars : MarshalBytes(v)
  <2>0. PICK v \in Vars : MarshalBytes(v)
    BY <1>5
  <2>1. /\ stage = "marshal" /\ stage' = "new"
        /\ held' = held \cup {v} /\ v \notin held
        /\ UNCHANGED <<args, packed, var, store>>
        /\ \A w \in held : address'[w] = address[w] /\ size'[w] = size[w]
    BY <1>0, <2>0 DEF MarshalBytes, MallocCall, ListInv, TypeOK
  <2>2. Delivered'
    BY <1>a, <2>1 DEF Delivered, HeldArguments
  <2>3. FirstReferenced'
    BY <2>1 DEF FirstReferenced
  <2>. QED BY <2>2, <2>3
<1>6. CASE BytesWritten
  <2>. DEFINE last == Len(packed) + 1
  <2>1. /\ stage = "new" /\ pc = "idle" /\ temporary \in held
        /\ var' = temporary /\ held' = held \ {var} /\ stage' = "marshal"
        /\ packed' = Append(packed, address[temporary])
        /\ UNCHANGED <<address, size, args>>
        /\ store' = [x \in Heap |-> IF x \in address[temporary] .. address[temporary] + Current.length - 1
                                    THEN last ELSE store[x]]
    BY <1>6 DEF BytesWritten, Rebind
  <2>2. /\ Len(packed) < Len(args) /\ Current.kind = "bytes"
        /\ size[temporary] = Current.length /\ temporary # var
        /\ address[temporary] \in Int /\ size[temporary] \in Int
    BY <1>0, <2>1 DEF Locals, ListInv, TypeOK
  <2>3. /\ Len(packed') = last
        /\ \A k \in 1 .. Len(packed) : packed'[k] = packed[k]
        /\ packed'[last] = address[temporary]
    BY <2>1, <2>2, PackedOneMore
  <2>4. \A x \in Heap : store'[x] = IF x \in ObjectBytes(temporary) THEN last ELSE store[x]
    BY <2>1, <2>2 DEF ObjectBytes
  <2>a. Len(packed) = 0 \/ Len(packed) = 1
    BY <1>b, <2>2
  <2>5. ASSUME NEW k \in 1 .. Len(packed), args[k].kind = "bytes",
               NEW x \in packed[k] .. packed[k] + args[k].length - 1
        PROVE  store'[x] = k
    <3>1. k = 1 /\ Len(packed) = 1
      BY <2>a
    <3>2. var \in held /\ x \in ObjectBytes(var)
      BY <2>1, <2>5, <3>1 DEF FirstReferenced, ObjectBytes
    <3>3. x \in Heap /\ x \notin ObjectBytes(temporary)
      BY <2>1, <2>2, <3>2, ObjectsApart
    <3>4. store[x] = k
      BY <2>1, <2>5 DEF Delivered
    <3>. QED BY <2>4, <3>3, <3>4
  <2>6. \A x \in ObjectBytes(temporary) : store'[x] = last
    BY <2>1, <2>4, ObjectsApart
  <2>7. ASSUME NEW k \in 1 .. Len(packed')
        PROVE  IF args[k].kind = "bytes"
               THEN \A x \in packed'[k] .. packed'[k] + args[k].length - 1 : store'[x] = k
               ELSE packed'[k] = address[args[k].proxy]
    <3>1. CASE k \in 1 .. Len(packed)
      BY <2>1, <2>3, <2>5, <3>1 DEF Delivered
    <3>2. CASE k = last
      BY <2>2, <2>3, <2>6, <3>2 DEF Current, ObjectBytes
    <3>. QED BY <1>a, <2>3, <3>1, <3>2
  <2>8. Delivered'
    BY <2>1, <2>7 DEF Delivered
  <2>9. FirstReferenced'
    <3>1. Len(packed') = 1 => last = 1
      BY <2>3
    <3>. QED BY <1>a, <2>1, <2>2, <2>3, <3>1 DEF FirstReferenced, Current
  <2>. QED BY <2>8, <2>9
<1>7. CASE NewFailed
  BY <1>7 DEF NewFailed, Delivered, FirstReferenced
<1>8. CASE Marshalled
  BY <1>8 DEF Marshalled, Rebind, Delivered, FirstReferenced
<1>9. CASE EndCall
  BY <1>9 DEF EndCall, Delivered, FirstReferenced
<1>10. CASE UNCHANGED <<vars, callVars>>
  BY <1>10 DEF vars, callVars, Delivered, FirstReferenced
<1>. QED BY <1>1, <1>2, <1>3, <1>4, <1>5, <1>6, <1>7, <1>8, <1>9, <1>10 DEF CallNext

(* A call with at most two arguments finds them on the device: the memory  *)
(* each bytes argument points to holds all of it when the command is sent, *)
(* and the address of an object is still that object's (marshal_args).     *)
THEOREM TwoArgumentsArrive ==
    ASSUME PositiveSizes, MaxArgs <= 2 PROVE CallSpec => []ArgumentsArrive
<1>1. CallInit => HeldArguments /\ Delivered /\ FirstReferenced
  BY DEF CallInit, HeldArguments, Delivered, FirstReferenced
<1>2. DeliverInv /\ [CallNext]_<<vars, callVars>> =>
        HeldArguments' /\ Delivered' /\ FirstReferenced'
  BY HeldArgumentsStep, DeliveredStep DEF DeliverInv, CopyInv
<1>3. DeliverInv => ArgumentsArrive
  <2>. SUFFICES ASSUME DeliverInv, stage = "call", NEW k \in DOMAIN args
       PROVE IF args[k].kind = "bytes"
             THEN \A x \in packed[k] .. packed[k] + args[k].length - 1 : store[x] = k
             ELSE /\ packed[k] = address[args[k].proxy]
                  /\ args[k].proxy \in ToSet(allocated)
    BY DEF ArgumentsArrive
  <2>1. args \in Seq(Argument) /\ Len(packed) = Len(args)
    BY DEF DeliverInv, CopyInv, CallInv, Marshalling
  <2>a. k \in 1 .. Len(packed) /\ args[k] \in Argument
    BY <2>1, LenProperties, ElementOfSeq
  <2>2. k \in 1 .. Len(packed) /\ args[k].kind \in {"bytes", "proxy"}
    BY <2>a DEF Argument
  <2>3. CASE args[k].kind = "bytes"
    BY <2>2, <2>3 DEF DeliverInv, Delivered
  <2>4. CASE args[k].kind = "proxy"
    <3>1. packed[k] = address[args[k].proxy]
      BY <2>2, <2>4 DEF DeliverInv, Delivered
    <3>2. args[k].proxy \in held
      BY <2>4 DEF DeliverInv, HeldArguments
    <3>3. pc = "idle" /\ variable = None
      BY DEF DeliverInv, CopyInv, CallInv, Marshalling, ListInv, Pending
    <3>4. args[k].proxy # None
      BY <3>2, MemoryManagerAssumption DEF DeliverInv, CopyInv, CallInv, ListInv, TypeOK
    <3>5. PICK j \in DOMAIN allocated : allocated[j] = args[k].proxy
      BY <3>2, <3>3, <3>4 DEF DeliverInv, CopyInv, CallInv, ListInv, Reserved, Entries
    <3>6. allocated \in Seq(Vars)
      BY DEF DeliverInv, CopyInv, CallInv, ListInv, TypeOK
    <3>7. args[k].proxy \in ToSet(allocated)
      BY <3>5, <3>6, LenProperties DEF ToSet
    <3>. QED BY <2>4, <3>1, <3>7
  <2>. QED BY <2>2, <2>3, <2>4
<1>. QED BY <1>1, <1>2, <1>3, CopyInvariant, PTL DEF CallSpec, DeliverInv

=============================================================================
