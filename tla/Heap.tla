-------------------------------- MODULE Heap --------------------------------
(***************************************************************************)
(* What SimpleMemoryManager (pyroxene/memory_management.py) promises the   *)
(* test code: every proxy the test still holds owns a byte range of the    *)
(* device's heap array that no other range meets, that does not move and   *)
(* that is given back only once nobody holds the proxy any more.  Nothing  *)
(* is said about where a range is placed or when an abandoned range is     *)
(* given back.                                                             *)
(***************************************************************************)
EXTENDS Integers

CONSTANTS
    Vars,       \* the VarProxy objects that can exist
    Sizes,      \* the values lib.sizeof(variable) can take
    BaseAddr,   \* SimpleMemoryManager.base_addr
    MaxSize     \* SimpleMemoryManager.max_size

VARIABLES
    blocks,     \* the ranges in use: records [owner, start, size]
    held        \* the proxies the test code can still reach

heapVars == <<blocks, held>>

Block == [owner : Vars, start : Int, size : Sizes]

(* Two ranges that have a byte in common; an empty range has no byte.      *)
Overlap(a, m, b, n) == m > 0 /\ n > 0 /\ a < b + n /\ b < a + m

Fits(a, n) ==
    /\ BaseAddr <= a
    /\ a + n <= BaseAddr + MaxSize
    /\ \A b \in blocks : ~Overlap(a, n, b.start, b.size)

Init == blocks = {} /\ held = {}

Allocate(v, a, n) ==
    /\ \A b \in blocks : b.owner # v
    /\ Fits(a, n)
    /\ blocks' = blocks \cup {[owner |-> v, start |-> a, size |-> n]}
    /\ held' = held \cup {v}

Abandon(v) ==
    /\ held' = held \ {v}
    /\ UNCHANGED blocks

Reclaim(b) ==
    /\ b.owner \notin held
    /\ blocks' = blocks \ {b}
    /\ UNCHANGED held

Next ==
    \/ \E v \in Vars, a \in BaseAddr .. BaseAddr + MaxSize, n \in Sizes : Allocate(v, a, n)
    \/ \E v \in held : Abandon(v)
    \/ \E b \in blocks : Reclaim(b)

Spec == Init /\ [][Next]_heapVars

-----------------------------------------------------------------------------

TypeOK == blocks \subseteq Block /\ held \subseteq Vars

(* No two ranges share a byte and every range lies in the heap array.      *)
NoOverlap ==
    \A b \in blocks :
        /\ BaseAddr <= b.start
        /\ b.start + b.size <= BaseAddr + MaxSize
        /\ \A c \in blocks : b # c => ~Overlap(b.start, b.size, c.start, c.size)

(* A proxy the test holds owns a range.                                    *)
HeldOwns == \A v \in held : \E b \in blocks : b.owner = v

=============================================================================
