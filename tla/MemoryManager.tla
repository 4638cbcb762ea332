---------------------------- MODULE MemoryManager ----------------------------
(***************************************************************************)
(* SimpleMemoryManager (pyroxene/memory_management.py): the allocator the  *)
(* host runs for the byte array `pyroxene_memory' of the device.  It never *)
(* talks to the device; its whole state is the Python list `allocated' and *)
(* the `_address' of the proxies in it.  A range is given back when        *)
(* sys.getrefcount says that only the list still knows the proxy.          *)
(*                                                                         *)
(* malloc is modelled at the grain of its loops: one step per iteration of *)
(* autofree and of _find_slot, with `pc' the loop being executed.  Python  *)
(* runs it to the end before the test continues, so no action of the test  *)
(* is enabled while pc # "idle".                                           *)
(***************************************************************************)
EXTENDS Integers, Sequences, SequencesExt

CONSTANTS
    Vars,       \* the VarProxy objects that can exist
    None,       \* "no object"
    Sizes,      \* the values lib.sizeof(variable) can take
    BaseAddr,   \* address of the heap array on the device
    MaxSize     \* sizeof(heap array)

(* sizeof is 0 for an empty array, an empty struct or void, and -1 for a   *)
(* type the ELF file only declares: all of them reach malloc.              *)
ASSUME MemoryManagerAssumption ==
    /\ None \notin Vars
    /\ Sizes \subseteq Int
    /\ BaseAddr \in Nat
    /\ MaxSize \in Nat

VARIABLES
    pc,             \* "idle", or the part of malloc being executed
    variable,       \* the argument of malloc, None when idle
    i,              \* list index of the running loop, from 1
    search_address, \* local of _find_slot
    allocated,      \* the list of entries, identified by their VarProxy
    address,        \* VarProxy._address
    size,           \* required_size of the entry of a VarProxy
    held,           \* objects referenced from outside `allocated'
    freed           \* history: entries deleted by the current malloc

vars == <<pc, variable, i, search_address, allocated, address, size, held, freed>>

-----------------------------------------------------------------------------
(* Operators whose comment begins with "Defect:" are defective variants of *)
(* the definition that follows them; no action uses them.                  *)

(* Defect: rounds down.                                                    *)
ceilintTruncating(value) == (value \div 8) * 8

(* Defect: an aligned value moves on to the next multiple.                 *)
ceilintNext(value) == (value \div 8 + 1) * 8

(* ceilint(value, multiple=8).                                             *)
ceilint(value) == ((value + 8 - 1) \div 8) * 8

(* Defect: "count == 4", one reference from outside the list.              *)
UnreferencedOffByOne(v) == v \in held

(* Entry v holds its proxy alone: getrefcount counts the tuple, the local  *)
(* variable of autofree and its own argument, "count == 3".                *)
Unreferenced(v) == v \notin held

Garbage == {v \in ToSet(allocated) : Unreferenced(v)}

Init ==
    /\ pc = "idle"
    /\ variable = None
    /\ i = 1
    /\ search_address = BaseAddr
    /\ allocated = <<>>
    /\ address = [v \in Vars |-> 0]
    /\ size = [v \in Vars |-> 0]
    /\ held = {}
    /\ freed = 0

(* LibProxy.new (and unmarshal_returntype, for a struct returned by value) *)
(* creates a proxy at address 0 and passes it to malloc.                   *)
MallocCall(v, n) ==
    /\ pc = "idle"
    /\ v \notin held \cup ToSet(allocated)
    /\ pc' = "autofree"
    /\ variable' = v
    /\ i' = 1
    /\ address' = [address EXCEPT ![v] = 0]
    /\ size' = [size EXCEPT ![v] = n]
    /\ held' = held \cup {v}
    /\ freed' = 0
    /\ UNCHANGED <<search_address, allocated>>

(* Defect: the index moves back after a deletion, as if `i += 1' were yet  *)
(* to come twice.                                                          *)
AutofreeDeleteBack ==
    /\ pc = "autofree"
    /\ i <= Len(allocated)
    /\ Unreferenced(allocated[i])
    /\ allocated' = RemoveAt(allocated, i)
    /\ i' = i - 1
    /\ freed' = freed + 1
    /\ UNCHANGED <<pc, variable, search_address, address, size, held>>

(* Defect: the index moves on twice after a deletion.                      *)
AutofreeDeleteTwice ==
    /\ pc = "autofree"
    /\ i <= Len(allocated)
    /\ Unreferenced(allocated[i])
    /\ allocated' = RemoveAt(allocated, i)
    /\ i' = i + 2
    /\ freed' = freed + 1
    /\ UNCHANGED <<pc, variable, search_address, address, size, held>>

(* Body of autofree's loop.  The index moves on after a deletion too, so   *)
(* the entry that takes the place of a deleted one is not looked at.       *)
AutofreeDelete ==
    /\ pc = "autofree"
    /\ i <= Len(allocated)
    /\ Unreferenced(allocated[i])
    /\ allocated' = RemoveAt(allocated, i)
    /\ i' = i + 1
    /\ freed' = freed + 1
    /\ UNCHANGED <<pc, variable, search_address, address, size, held>>

(* Defect: `i += 1' belongs to the if, so a live entry stops the loop.     *)
AutofreeKeepStuck ==
    /\ pc = "autofree"
    /\ i <= Len(allocated)
    /\ ~Unreferenced(allocated[i])
    /\ UNCHANGED vars

AutofreeKeep ==
    /\ pc = "autofree"
    /\ i <= Len(allocated)
    /\ ~Unreferenced(allocated[i])
    /\ i' = i + 1
    /\ UNCHANGED <<pc, variable, search_address, allocated, address, size, held, freed>>

(* f lists the positions of s in the order of allocated.sort(key=address): *)
(* by address, entries with the same address in their old order.           *)
StableOrder(s, f) ==
    \A j, k \in 1 .. Len(s) :
        j < k => \/ address[s[f[j]]] < address[s[f[k]]]
                 \/ address[s[f[j]]] = address[s[f[k]]] /\ f[j] < f[k]

(* Defect: the list is searched in the order of allocation.                *)
FindSlotUnsorted ==
    /\ pc = "autofree"
    /\ i > Len(allocated)
    /\ pc' = "scan"
    /\ i' = 1
    /\ search_address' = BaseAddr
    /\ UNCHANGED <<variable, allocated, address, size, held, freed>>

(* Start of _find_slot, once autofree has run off the list.                *)
FindSlotSort ==
    /\ pc = "autofree"
    /\ i > Len(allocated)
    /\ \E f \in Bijection(1 .. Len(allocated), 1 .. Len(allocated)) :
          /\ StableOrder(allocated, f)
          /\ allocated' = [k \in 1 .. Len(allocated) |-> allocated[f[k]]]
    /\ pc' = "scan"
    /\ i' = 1
    /\ search_address' = BaseAddr
    /\ UNCHANGED <<variable, address, size, held, freed>>

(* malloc after _find_slot has returned a.                                 *)
Place(a) ==
    /\ address' = [address EXCEPT ![variable] = a]
    /\ allocated' = Append(allocated, variable)
    /\ pc' = "idle"
    /\ variable' = None
    /\ i' = 1
    /\ search_address' = BaseAddr
    /\ freed' = 0
    /\ UNCHANGED <<size, held>>

(* The gap before the i-th entry is large enough.                          *)
GapBefore(v) == address[v] - search_address >= size[variable]

FindSlotBefore ==
    /\ pc = "scan"
    /\ i <= Len(allocated)
    /\ GapBefore(allocated[i])
    /\ Place(search_address)

(* Defect: the search starts over behind the entry.                        *)
FindSlotSkipRestart ==
    /\ pc = "scan"
    /\ i <= Len(allocated)
    /\ ~GapBefore(allocated[i])
    /\ search_address' = ceilint(address[allocated[i]] + size[allocated[i]])
    /\ i' = 1
    /\ UNCHANGED <<pc, variable, allocated, address, size, held, freed>>

FindSlotSkip ==
    /\ pc = "scan"
    /\ i <= Len(allocated)
    /\ ~GapBefore(allocated[i])
    /\ search_address' = ceilint(address[allocated[i]] + size[allocated[i]])
    /\ i' = i + 1
    /\ UNCHANGED <<pc, variable, allocated, address, size, held, freed>>

RoomAtEnd == BaseAddr + MaxSize - search_address >= size[variable]

FindSlotLast ==
    /\ pc = "scan"
    /\ i > Len(allocated)
    /\ RoomAtEnd
    /\ Place(search_address)

(* raise MemoryError: malloc's caller lets it pass, which drops the only   *)
(* reference to the new proxy.  The list stays pruned and sorted.          *)
OutOfMemory ==
    /\ pc = "scan"
    /\ i > Len(allocated)
    /\ ~RoomAtEnd
    /\ pc' = "idle"
    /\ held' = held \ {variable}
    /\ variable' = None
    /\ i' = 1
    /\ search_address' = BaseAddr
    /\ freed' = 0
    /\ UNCHANGED <<allocated, address, size>>

(* The test drops its last reference to a proxy (del, rebinding, return).  *)
Drop(v) ==
    /\ pc = "idle"
    /\ v \in held
    /\ held' = held \ {v}
    /\ UNCHANGED <<pc, variable, i, search_address, allocated, address, size, freed>>

MallocStep ==
    \/ AutofreeDelete
    \/ AutofreeKeep
    \/ FindSlotSort
    \/ FindSlotBefore
    \/ FindSlotSkip
    \/ FindSlotLast
    \/ OutOfMemory

Next ==
    \/ \E v \in Vars, n \in Sizes : MallocCall(v, n)
    \/ MallocStep
    \/ \E v \in Vars : Drop(v)

Spec == Init /\ [][Next]_vars

(* malloc runs to its end, and the test goes on allocating for ever.       *)
BusySpec == Spec /\ WF_vars(MallocStep) /\ WF_vars(\E v \in Vars, n \in Sizes : MallocCall(v, n))

-----------------------------------------------------------------------------
TypeOK ==
    /\ pc \in {"idle", "autofree", "scan"}
    /\ variable \in Vars \cup {None}
    /\ i \in Nat \ {0}
    /\ search_address \in Int
    /\ allocated \in Seq(Vars)
    /\ address \in [Vars -> Int]
    /\ size \in [Vars -> Int]
    /\ held \subseteq Vars
    /\ freed \in Nat

Entries == DOMAIN allocated
Start(j) == address[allocated[j]]
End(j) == address[allocated[j]] + size[allocated[j]]

(* Two entries of the list never share a byte of the heap and no entry     *)
(* leaves it: what every write through a proxy returned by lib.new relies  *)
(* on.  Entries nobody holds count too, autofree may leave them behind.    *)
NoOverlap ==
    \A j \in Entries :
        /\ BaseAddr <= Start(j)
        /\ End(j) <= BaseAddr + MaxSize
        /\ \A k \in Entries :
              j # k => ~(/\ size[allocated[j]] > 0
                         /\ size[allocated[k]] > 0
                         /\ Start(j) < End(k)
                         /\ Start(k) < End(j))

(* Garbage collection never takes the range of an object the test can      *)
(* still reach: whatever it holds, bar the object being created, has       *)
(* exactly one entry.                                                      *)
HeldIsAllocated ==
    \A v \in held \ {variable} : \E j \in Entries :
        /\ allocated[j] = v
        /\ \A k \in Entries : allocated[k] = v => k = j

(* Although autofree skips entries, each pass deletes at least half of     *)
(* what nobody references: every survivor follows a deleted entry.         *)
AutofreeFreesHalf == pc = "scan" => Cardinality(Garbage) <= freed

(* An address _find_slot may choose: the base or a multiple of 8, with n   *)
(* bytes of the heap from there in nobody's range.                         *)
Candidate(a, n) ==
    /\ a = BaseAddr \/ a % 8 = 0
    /\ a + n <= BaseAddr + MaxSize
    /\ \A k \in Entries : a + n <= Start(k) \/ End(k) <= a

(* The scan that jumps from entry to entry is a first-fit search: the      *)
(* chosen address is the lowest candidate of the whole heap, and           *)
(* MemoryError is raised only when there is none.                          *)
FirstFitStep ==
    pc = "scan" /\ pc' = "idle" =>
        LET found == {a \in BaseAddr .. BaseAddr + MaxSize : Candidate(a, size[variable])}
        IN  IF allocated' = allocated
            THEN found = {}
            ELSE /\ address'[variable] \in found
                 /\ \A a \in found : address'[variable] <= a

FirstFit == [][FirstFitStep]_vars

(* The iterations malloc may still make: autofree looks at an entry and    *)
(* then the scan does.  Deleting the last entry leaves i two past the end. *)
IterationsLeft ==
    CASE pc = "idle" -> 0
      [] pc = "autofree" -> 2 * Len(allocated) + 4 - i
      [] pc = "scan" -> Len(allocated) + 2 - i

(* malloc is bounded by twice the length of the list it finds: although    *)
(* autofree shortens the list it walks and the scan moves its address      *)
(* about, no iteration is in vain.                                         *)
MallocAdvances ==
    [][pc # "idle" => IterationsLeft' \in Nat /\ IterationsLeft' < IterationsLeft]_vars

(* Every malloc returns or raises.                                         *)
MallocReturns == pc # "idle" ~> pc = "idle"

(* "Remove objects which are not referenced anymore" (autofree, line 39):  *)
(* as long as the test goes on allocating, an abandoned range is given     *)
(* back some day.                                                          *)
GarbageIsReclaimed == \A v \in Vars : v \in Garbage ~> v \notin ToSet(allocated)

-----------------------------------------------------------------------------
(* The allocator implements the abstract heap: the object being created    *)
(* is not yet there.                                                       *)
Blocks == {[owner |-> v, start |-> address[v], size |-> size[v]] : v \in ToSet(allocated)}

AbstractHeap == INSTANCE Heap WITH blocks <- Blocks, held <- held \ {variable}

ImplementsHeap == AbstractHeap!Spec

=============================================================================
