------------------------------ MODULE HeapProofs ------------------------------
(* The abstract heap keeps the promises it is there to state.              *)
EXTENDS Heap, TLAPS

(* Overlap does not depend on the order of the two ranges.                 *)
LEMMA OverlapSymmetric ==
    ASSUME NEW a \in Int, NEW m \in Int, NEW b \in Int, NEW n \in Int
    PROVE  Overlap(a, m, b, n) <=> Overlap(b, n, a, m)
BY DEF Overlap

(* A held object owns a range at all times: only a range whose owner       *)
(* nobody holds is given back.                                             *)
THEOREM HeldObjectsOwnRanges == Spec => []HeldOwns
<1>1. Init => HeldOwns
  BY DEF Init, HeldOwns
<1>2. HeldOwns /\ [Next]_heapVars => HeldOwns'
  <2>. SUFFICES ASSUME HeldOwns, [Next]_heapVars PROVE HeldOwns'
    OBVIOUS
  <2>1. ASSUME NEW v \in Vars, NEW a \in BaseAddr .. BaseAddr + MaxSize, NEW n \in Sizes,
               Allocate(v, a, n)
        PROVE  HeldOwns'
    <3>1. /\ held' = held \cup {v}
          /\ blocks' = blocks \cup {[owner |-> v, start |-> a, size |-> n]}
      BY <2>1 DEF Allocate
    <3>2. [owner |-> v, start |-> a, size |-> n].owner = v
      OBVIOUS
    <3>3. \E b \in blocks' : b.owner = v
      BY <3>1, <3>2, Zenon
    <3>4. \A w \in held : \E b \in blocks' : b.owner = w
      BY <3>1, Zenon DEF HeldOwns
    <3>. QED BY <3>1, <3>3, <3>4, Zenon DEF HeldOwns
  <2>2. ASSUME NEW v \in held, Abandon(v) PROVE HeldOwns'
    BY <2>2 DEF Abandon, HeldOwns
  <2>3. ASSUME NEW b \in blocks, Reclaim(b) PROVE HeldOwns'
    BY <2>3 DEF Reclaim, HeldOwns
  <2>4. CASE UNCHANGED heapVars
    BY <2>4 DEF heapVars, HeldOwns
  <2>. QED BY <2>1, <2>2, <2>3, <2>4 DEF Next
<1>. QED BY <1>1, <1>2, PTL DEF Spec

(* Ranges in use stay apart and inside the heap array.                     *)
THEOREM RangesStayApart ==
    ASSUME Sizes \subseteq Int, BaseAddr \in Int, MaxSize \in Int
    PROVE  Spec => [](TypeOK /\ NoOverlap)
<1>1. Init => TypeOK /\ NoOverlap
  BY DEF Init, TypeOK, NoOverlap
<1>2. TypeOK /\ NoOverlap /\ [Next]_heapVars => (TypeOK /\ NoOverlap)'
  <2>. SUFFICES ASSUME TypeOK, NoOverlap, [Next]_heapVars PROVE (TypeOK /\ NoOverlap)'
    OBVIOUS
  <2>a. \A b \in blocks : b.start \in Int /\ b.size \in Int
    BY DEF TypeOK, Block
  <2>1. ASSUME NEW v \in Vars, NEW a \in BaseAddr .. BaseAddr + MaxSize, NEW n \in Sizes,
               Allocate(v, a, n)
        PROVE  (TypeOK /\ NoOverlap)'
    <3>. DEFINE new == [owner |-> v, start |-> a, size |-> n]
    <3>1. blocks' = blocks \cup {new} /\ new \in Block /\ TypeOK'
      BY <2>1 DEF Allocate, TypeOK, Block
    <3>2. BaseAddr <= a /\ a + n <= BaseAddr + MaxSize
      BY <2>1 DEF Allocate, Fits
    <3>3. ASSUME NEW b \in blocks
          PROVE  ~Overlap(a, n, b.start, b.size) /\ ~Overlap(b.start, b.size, a, n)
      <4>1. ~Overlap(a, n, b.start, b.size)
        BY <2>1 DEF Allocate, Fits
      <4>2. b.start \in Int /\ b.size \in Int /\ a \in Int /\ n \in Int
        BY <2>a, <3>3
      <4>. QED BY <4>1, <4>2, OverlapSymmetric
    <3>. QED BY <3>1, <3>2, <3>3 DEF NoOverlap
  <2>2. ASSUME NEW v \in held, Abandon(v) PROVE (TypeOK /\ NoOverlap)'
    BY <2>2 DEF Abandon, TypeOK, NoOverlap
  <2>3. ASSUME NEW b \in blocks, Reclaim(b) PROVE (TypeOK /\ NoOverlap)'
    BY <2>3 DEF Reclaim, TypeOK, NoOverlap
  <2>4. CASE UNCHANGED heapVars
    BY <2>4 DEF heapVars, TypeOK, NoOverlap
  <2>. QED BY <2>1, <2>2, <2>3, <2>4 DEF Next
<1>. QED BY <1>1, <1>2, PTL DEF Spec

=============================================================================
