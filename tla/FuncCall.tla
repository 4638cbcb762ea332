------------------------------ MODULE FuncCall ------------------------------
(***************************************************************************)
(* FuncProxy.__call__ and marshal_args (pyroxene/device_proxy.py) on top   *)
(* of the allocator: a bytes argument is copied to a temporary object that *)
(* marshal_args itself allocates with LibProxy.new.  The temporaries are   *)
(* subject to the same garbage collection as everything else.              *)
(***************************************************************************)
EXTENDS MemoryManager

CONSTANTS
    MaxArgs     \* arguments of a call in this instance

ASSUME FuncCallAssumption == MaxArgs \in Nat

VARIABLES
    stage,      \* "idle", "marshal", "new" (within lib.new) or "call"
    args,       \* the arguments: [kind, proxy, length]
    packed,     \* packed_args
    var,        \* the local variable of marshal_args, None before its first use
    temporary,  \* the object lib.new is creating for marshal_args
    store       \* heap bytes: number of the argument written there last, 0 for none

callVars == <<stage, args, packed, var, temporary, store>>

Heap == BaseAddr .. BaseAddr + MaxSize - 1

(* An int travels as it is and needs no memory; it is left out.            *)
Bytes == [kind : {"bytes"}, proxy : {None}, length : Sizes]
Proxy(v) == [kind |-> "proxy", proxy |-> v, length |-> 0]

CallInit ==
    /\ Init
    /\ stage = "idle"
    /\ args = <<>>
    /\ packed = <<>>
    /\ var = None
    /\ temporary = None
    /\ store = [x \in Heap |-> 0]

(* Assigning to marshal_args' local variable drops the reference to the    *)
(* temporary it held; nothing else refers to that one.                     *)
Rebind(v) ==
    /\ var' = v
    /\ held' = held \ {var}
    /\ UNCHANGED <<pc, variable, i, search_address, allocated, address, size, freed>>

-----------------------------------------------------------------------------
(* The test calls a function with objects it holds and with bytes.         *)
BeginCall(a) ==
    /\ stage = "idle"
    /\ pc = "idle"
    /\ stage' = "marshal"
    /\ args' = a
    /\ packed' = <<>>
    /\ store' = [x \in Heap |-> 0]
    /\ UNCHANGED <<vars, var, temporary>>

Current == args[Len(packed) + 1]

(* Defect: var is deleted before the next object is created, so the        *)
(* temporary of the argument before is garbage by then.                    *)
MarshalBytesEarlyDrop(v) ==
    /\ stage = "marshal"
    /\ Len(packed) < Len(args)
    /\ Current.kind = "bytes"
    /\ pc = "idle"
    /\ v \notin held \cup ToSet(allocated)
    /\ pc' = "autofree"
    /\ variable' = v
    /\ i' = 1
    /\ address' = [address EXCEPT ![v] = 0]
    /\ size' = [size EXCEPT ![v] = Current.length]
    /\ held' = (held \ {var}) \cup {v}
    /\ freed' = 0
    /\ stage' = "new"
    /\ temporary' = v
    /\ UNCHANGED <<search_address, allocated, args, packed, var, store>>

MarshalProxy ==
    /\ stage = "marshal"
    /\ Len(packed) < Len(args)
    /\ Current.kind = "proxy"
    /\ packed' = Append(packed, address[Current.proxy])
    /\ UNCHANGED <<vars, stage, args, var, temporary, store>>

(* lib.new("uint8_t[]", len(arg)), while var is still the last temporary.  *)
MarshalBytes(v) ==
    /\ stage = "marshal"
    /\ Len(packed) < Len(args)
    /\ Current.kind = "bytes"
    /\ MallocCall(v, Current.length)
    /\ stage' = "new"
    /\ temporary' = v
    /\ UNCHANGED <<args, packed, var, store>>

(* var = ...; var[0 : len(arg)] = arg; packed_args.append(var._address)    *)
BytesWritten ==
    /\ stage = "new"
    /\ pc = "idle"
    /\ temporary \in held
    /\ Rebind(temporary)
    /\ store' = [x \in Heap |->
                    IF x \in address[temporary] .. address[temporary] + Current.length - 1
                    THEN Len(packed) + 1 ELSE store[x]]
    /\ packed' = Append(packed, address[temporary])
    /\ temporary' = None
    /\ stage' = "marshal"
    /\ UNCHANGED args

(* lib.new raised MemoryError: the call is given up.                       *)
NewFailed ==
    /\ stage = "new"
    /\ pc = "idle"
    /\ temporary \notin held
    /\ stage' = "idle"
    /\ args' = <<>>
    /\ packed' = <<>>
    /\ Rebind(None)
    /\ temporary' = None
    /\ UNCHANGED store

(* marshal_args returns the addresses, its local variable goes; then       *)
(* com.call sends the command.                                             *)
Marshalled ==
    /\ stage = "marshal"
    /\ Len(packed) = Len(args)
    /\ stage' = "call"
    /\ Rebind(None)
    /\ UNCHANGED <<args, packed, temporary, store>>

EndCall ==
    /\ stage = "call"
    /\ stage' = "idle"
    /\ args' = <<>>
    /\ packed' = <<>>
    /\ UNCHANGED <<vars, var, temporary, store>>

(* Between calls the test allocates and drops objects; within lib.new the  *)
(* allocator runs.                                                         *)
Allocating == stage \in {"idle", "new"} /\ MallocStep /\ UNCHANGED callVars

TestNew == stage = "idle" /\ (\E v \in Vars, n \in Sizes : MallocCall(v, n)) /\ UNCHANGED callVars

TestDrop == stage = "idle" /\ (\E v \in Vars : Drop(v)) /\ UNCHANGED callVars

Arguments(n) == [1 .. n -> Bytes \cup {Proxy(v) : v \in held}]

CallNext ==
    \/ TestNew
    \/ TestDrop
    \/ Allocating
    \/ \E n \in 0 .. MaxArgs : \E a \in Arguments(n) : BeginCall(a)
    \/ MarshalProxy
    \/ \E v \in Vars : MarshalBytes(v)
    \/ BytesWritten
    \/ NewFailed
    \/ Marshalled
    \/ EndCall

CallSpec == CallInit /\ [][CallNext]_<<vars, callVars>>

(* malloc runs to its end, in a call as well as outside.                   *)
FairCallSpec == CallSpec /\ WF_<<vars, callVars>>(Allocating)

-----------------------------------------------------------------------------
CallTypeOK ==
    /\ TypeOK
    /\ stage \in {"idle", "marshal", "new", "call"}
    /\ args \in Seq([kind : {"bytes", "proxy"}, proxy : Vars \cup {None}, length : Sizes \cup {0}])
    /\ packed \in Seq(Int)
    /\ {var, temporary} \subseteq Vars \cup {None}
    /\ store \in [Heap -> 0 .. MaxArgs]

(* When the command is sent, the memory each bytes argument points to      *)
(* holds that argument, all of it, and each object still has the address   *)
(* that was packed for it.                                                 *)
ArgumentsArrive ==
    stage = "call" =>
        \A k \in DOMAIN args :
            IF args[k].kind = "bytes"
            THEN \A x \in packed[k] .. packed[k] + args[k].length - 1 : store[x] = k
            ELSE /\ packed[k] = address[args[k].proxy]
                 /\ args[k].proxy \in ToSet(allocated)

(* Copying arguments to the device leaves the objects the test holds as    *)
(* they were.                                                              *)
BystandersUntouched ==
    stage = "call" =>
        \A v \in held : \A x \in address[v] .. address[v] + size[v] - 1 : store[x] = 0

=============================================================================
