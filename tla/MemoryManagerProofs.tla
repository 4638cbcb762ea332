------------------------- MODULE MemoryManagerProofs -------------------------
(***************************************************************************)
(* Theorems about MemoryManager for any number of proxies, any heap and    *)
(* any sizes; where sizes have to be positive the theorem says so.         *)
(***************************************************************************)
EXTENDS MemoryManager, TLAPS, SequenceTheorems, FiniteSetTheorems

USE DEF Entries, Start, End

-----------------------------------------------------------------------------
(* The parts of the inductive invariant.                                   *)

(* A proxy has at most one entry.                                          *)
Distinct == \A j, k \in Entries : allocated[j] = allocated[k] => j = k

(* malloc's argument is referenced by its caller and not in the list yet.  *)
Pending ==
    /\ pc = "idle" <=> variable = None
    /\ variable # None => /\ variable \in held
                          /\ \A j \in Entries : allocated[j] # variable

(* Every other object referenced from outside the list is in it.           *)
Reserved == \A v \in held \ {variable} : \E j \in Entries : allocated[j] = v

ListInv == TypeOK /\ Distinct /\ Pending /\ Reserved

-----------------------------------------------------------------------------
(* Taking one entry out of the list leaves the others, in their order.     *)
LEMMA RemoveAtEntries ==
    ASSUME NEW S, NEW s \in Seq(S), NEW k \in 1 .. Len(s)
    PROVE  /\ RemoveAt(s, k) \in Seq(S)
           /\ Len(RemoveAt(s, k)) = Len(s) - 1
           /\ \A j \in 1 .. Len(s) - 1 :
                 RemoveAt(s, k)[j] = IF j < k THEN s[j] ELSE s[j + 1]
<1>. DEFINE front == SubSeq(s, 1, k - 1)
            back == SubSeq(s, k + 1, Len(s))
<1>1. /\ front \in Seq(S) /\ Len(front) = k - 1
      /\ \A j \in 1 .. k - 1 : front[j] = s[j]
  BY SubSeqProperties, SMT
<1>2. /\ back \in Seq(S) /\ Len(back) = Len(s) - k
      /\ \A j \in 1 .. Len(s) - k : back[j] = s[k + j]
  BY SubSeqProperties, SMT
<1>3. RemoveAt(s, k) = front \o back
  BY DEF RemoveAt
<1>. HIDE DEF front, back
<1>4. /\ front \o back \in Seq(S) /\ Len(front \o back) = Len(s) - 1
      /\ \A j \in 1 .. Len(s) - 1 :
            (front \o back)[j] = IF j < k THEN front[j] ELSE back[j - (k - 1)]
  <2>1. /\ front \o back \in Seq(S)
        /\ Len(front \o back) = Len(front) + Len(back)
        /\ \A j \in 1 .. Len(front) + Len(back) : (front \o back)[j] =
                IF j <= Len(front) THEN front[j] ELSE back[j - Len(front)]
    BY <1>1, <1>2, ConcatProperties, Zenon
  <2>. QED BY <1>1, <1>2, <2>1, SMT
<1>. QED BY <1>1, <1>2, <1>3, <1>4, SMT

(* Sorting the list leaves its set of entries, each at one place.          *)
LEMMA SortEntries ==
    ASSUME NEW S, NEW s \in Seq(S), NEW f \in Bijection(1 .. Len(s), 1 .. Len(s)),
           NEW t, t = [k \in 1 .. Len(s) |-> s[f[k]]]
    PROVE  /\ t \in Seq(S)
           /\ Len(t) = Len(s)
           /\ f \in [1 .. Len(s) -> 1 .. Len(s)]
           /\ \A j, k \in 1 .. Len(s) : f[j] = f[k] => j = k
           /\ \A m \in 1 .. Len(s) : \E k \in 1 .. Len(s) : f[k] = m
<1>1. /\ f \in [1 .. Len(s) -> 1 .. Len(s)]
      /\ \A j, k \in 1 .. Len(s) : f[j] = f[k] => j = k
      /\ \A m \in 1 .. Len(s) : \E k \in 1 .. Len(s) : f[k] = m
  BY DEF Bijection, Injection, Surjection, IsInjective
<1>2. \A m \in 1 .. Len(s) : s[m] \in S
  BY ElementOfSeq
<1>3. Len(s) \in Nat
  BY LenProperties
<1>4. t \in [1 .. Len(s) -> S]
  BY <1>1, <1>2
<1>5. t \in Seq(S) /\ Len(t) = Len(s)
  BY <1>3, <1>4
<1>. QED BY <1>1, <1>5

-----------------------------------------------------------------------------
(* The list after a deletion, a sort and an append, as the steps below use *)
(* it.                                                                     *)
LEMMA DeletedList ==
    ASSUME TypeOK, AutofreeDelete
    PROVE  /\ i \in 1 .. Len(allocated)
           /\ allocated' \in Seq(Vars)
           /\ Len(allocated') = Len(allocated) - 1
           /\ \A j \in 1 .. Len(allocated) - 1 :
                 allocated'[j] = IF j < i THEN allocated[j] ELSE allocated[j + 1]
<1>1. i \in 1 .. Len(allocated) /\ allocated \in Seq(Vars)
  BY DEF AutofreeDelete, TypeOK
<1>2. allocated' = RemoveAt(allocated, i)
  BY DEF AutofreeDelete
<1>. QED BY <1>1, <1>2, RemoveAtEntries

LEMMA SortedList ==
    ASSUME TypeOK, FindSlotSort
    PROVE  /\ allocated' \in Seq(Vars)
           /\ Len(allocated') = Len(allocated)
           /\ \E f \in [1 .. Len(allocated) -> 1 .. Len(allocated)] :
                 /\ StableOrder(allocated, f)
                 /\ \A k \in 1 .. Len(allocated) : allocated'[k] = allocated[f[k]]
                 /\ \A j, k \in 1 .. Len(allocated) : f[j] = f[k] => j = k
                 /\ \A m \in 1 .. Len(allocated) :
                       \E k \in 1 .. Len(allocated) : f[k] = m
<1>1. PICK f \in Bijection(1 .. Len(allocated), 1 .. Len(allocated)) :
        /\ StableOrder(allocated, f)
        /\ allocated' = [k \in 1 .. Len(allocated) |-> allocated[f[k]]]
  BY DEF FindSlotSort
<1>2. allocated \in Seq(Vars)
  BY DEF TypeOK
<1>3. /\ allocated' \in Seq(Vars)
      /\ Len(allocated') = Len(allocated)
      /\ f \in [1 .. Len(allocated) -> 1 .. Len(allocated)]
      /\ \A j, k \in 1 .. Len(allocated) : f[j] = f[k] => j = k
      /\ \A m \in 1 .. Len(allocated) : \E k \in 1 .. Len(allocated) : f[k] = m
  BY <1>1, <1>2, SortEntries
<1>. QED BY <1>1, <1>3

LEMMA PlacedList ==
    ASSUME TypeOK, variable \in Vars, NEW a \in Int, Place(a)
    PROVE  /\ allocated' \in Seq(Vars)
           /\ Len(allocated') = Len(allocated) + 1
           /\ \A j \in 1 .. Len(allocated) : allocated'[j] = allocated[j]
           /\ allocated'[Len(allocated) + 1] = variable
<1>1. allocated \in Seq(Vars) /\ allocated' = Append(allocated, variable)
  BY DEF TypeOK, Place
<1>. QED BY <1>1, AppendProperties

(* The entry of a deletion is of nobody the test holds, so every object    *)
(* referenced from outside keeps its entry, through all the steps of malloc *)
(* and whatever the test drops.                                            *)
LEMMA ListStep == ListInv /\ [Next]_vars => ListInv'
<1>. SUFFICES ASSUME ListInv, [Next]_vars PROVE ListInv'
  OBVIOUS
<1>. USE MemoryManagerAssumption DEF ListInv
<1>a. Len(allocated) \in Nat /\ Entries = 1 .. Len(allocated)
      /\ \A j \in Entries : allocated[j] \in Vars
  BY LenProperties, ElementOfSeq DEF TypeOK
<1>1. ASSUME NEW v \in Vars, NEW n \in Sizes, MallocCall(v, n) PROVE ListInv'
  <2>1. TypeOK' /\ Distinct'
    BY <1>1 DEF MallocCall, TypeOK, Distinct
  <2>2. Pending'
    <3>1. \A j \in Entries : allocated[j] # v
      BY <1>1 DEF MallocCall, ToSet
    <3>. QED BY <1>1, <3>1 DEF MallocCall, Pending
  <2>3. Reserved'
    BY <1>1 DEF MallocCall, TypeOK, Pending, Reserved
  <2>. QED BY <2>1, <2>2, <2>3
<1>2. CASE AutofreeDelete
  <2>1. /\ i \in Entries
        /\ allocated' \in Seq(Vars)
        /\ Entries' = 1 .. Len(allocated) - 1
        /\ \A j \in 1 .. Len(allocated) - 1 :
              allocated'[j] = IF j < i THEN allocated[j] ELSE allocated[j + 1]
    BY <1>2, <1>a, DeletedList, LenProperties
  <2>2. TypeOK'
    BY <1>2, <2>1 DEF AutofreeDelete, TypeOK
  <2>3. Distinct'
    <3>1. ASSUME NEW j \in Entries', NEW k \in Entries', allocated'[j] = allocated'[k]
          PROVE  j = k
      <4>. DEFINE Old(m) == IF m < i THEN m ELSE m + 1
      <4>1. Old(j) \in Entries /\ Old(k) \in Entries
        BY <1>a, <2>1, <3>1
      <4>2. allocated[Old(j)] = allocated[Old(k)]
        BY <2>1, <3>1
      <4>3. Old(j) = Old(k)
        BY <4>1, <4>2, Zenon DEF Distinct
      <4>. QED BY <1>a, <2>1, <4>3
    <3>. QED BY <3>1 DEF Distinct
  <2>4. Pending'
    BY <1>2, <1>a, <2>1 DEF AutofreeDelete, Pending
  <2>5. ASSUME NEW v \in held \ {variable} PROVE \E j \in Entries' : allocated'[j] = v
    <3>1. PICK j \in Entries : allocated[j] = v
      BY <2>5 DEF Reserved
    <3>2. j # i
      BY <1>2, <2>5, <3>1 DEF AutofreeDelete, Unreferenced
    <3>3. CASE j < i
      BY <1>a, <2>1, <3>1, <3>3
    <3>4. CASE j > i
      <4>1. j - 1 \in Entries' /\ allocated'[j - 1] = v
        BY <1>a, <2>1, <3>1, <3>4
      <4>. QED BY <4>1
    <3>. QED BY <1>a, <2>1, <3>2, <3>3, <3>4
  <2>. QED BY <1>2, <2>2, <2>3, <2>4, <2>5 DEF Reserved, AutofreeDelete
<1>3. CASE AutofreeKeep
  BY <1>3 DEF AutofreeKeep, TypeOK, Distinct, Pending, Reserved
<1>4. CASE FindSlotSort
  <2>1. /\ allocated' \in Seq(Vars)
        /\ Entries' = Entries
    BY <1>4, <1>a, SortedList, LenProperties
  <2>b. PICK f \in [1 .. Len(allocated) -> 1 .. Len(allocated)] :
          /\ StableOrder(allocated, f)
          /\ \A k \in 1 .. Len(allocated) : allocated'[k] = allocated[f[k]]
          /\ \A j, k \in 1 .. Len(allocated) : f[j] = f[k] => j = k
          /\ \A m \in 1 .. Len(allocated) : \E k \in 1 .. Len(allocated) : f[k] = m
    BY <1>4, SortedList, Zenon
  <2>2. /\ f \in [Entries -> Entries]
        /\ \A k \in Entries : allocated'[k] = allocated[f[k]]
        /\ \A j, k \in Entries : f[j] = f[k] => j = k
        /\ \A m \in Entries : \E k \in Entries : f[k] = m
    BY <1>a, <2>b, Zenon
  <2>. DEFINE Rest == /\ pc' = "scan" /\ pc # "idle" /\ i' = 1 /\ search_address' = BaseAddr
                      /\ UNCHANGED <<variable, address, size, held, freed>>
  <2>a. Rest
    BY <1>4 DEF FindSlotSort
  <2>3. TypeOK'
    BY <2>a, <2>1 DEF TypeOK
  <2>4. Distinct'
    <3>1. ASSUME NEW j \in Entries, NEW k \in Entries, allocated'[j] = allocated'[k]
          PROVE  j = k
      <4>1. allocated[f[j]] = allocated[f[k]] /\ f[j] \in Entries /\ f[k] \in Entries
        BY <2>2, <3>1
      <4>2. f[j] = f[k]
        BY <4>1, Zenon DEF Distinct
      <4>. QED BY <2>2, <4>2
    <3>. QED BY <2>1, <3>1 DEF Distinct
  <2>5. Pending'
    <3>1. variable # None => \A j \in Entries' : allocated'[j] # variable
      BY <2>1, <2>2 DEF Pending
    <3>. QED BY <2>a, <3>1 DEF Pending
  <2>6. Reserved'
    <3>1. ASSUME NEW v \in held \ {variable} PROVE \E k \in Entries' : allocated'[k] = v
      <4>1. PICK m \in Entries : allocated[m] = v
        BY <3>1 DEF Reserved
      <4>2. PICK k \in Entries : f[k] = m
        BY <2>2
      <4>. QED BY <2>1, <2>2, <4>1, <4>2
    <3>. QED BY <2>a, <3>1 DEF Reserved
  <2>. QED BY <2>3, <2>4, <2>5, <2>6
<1>5. ASSUME NEW a \in Int, Place(a), pc = "scan" PROVE ListInv'
  <2>0. variable \in Vars /\ variable # None
    BY <1>5 DEF Pending, TypeOK
  <2>1. /\ allocated' \in Seq(Vars)
        /\ Entries' = 1 .. Len(allocated) + 1
        /\ \A j \in 1 .. Len(allocated) : allocated'[j] = allocated[j]
        /\ allocated'[Len(allocated) + 1] = variable
    BY <1>5, <1>a, <2>0, PlacedList, LenProperties
  <2>2. TypeOK'
    BY <1>5, <2>0, <2>1 DEF Place, TypeOK
  <2>3. Distinct'
    BY <1>a, <2>0, <2>1 DEF Distinct, Pending
  <2>4. Pending'
    BY <1>5 DEF Place, Pending
  <2>5. ASSUME NEW v \in held \ {None} PROVE \E j \in Entries' : allocated'[j] = v
    <3>1. CASE v = variable
      BY <1>a, <2>1, <3>1
    <3>2. CASE v # variable
      BY <1>a, <2>1, <3>2 DEF Reserved
    <3>. QED BY <3>1, <3>2
  <2>6. Reserved'
    BY <1>5, <2>5 DEF Place, Reserved
  <2>. QED BY <2>2, <2>3, <2>4, <2>6
<1>6. search_address \in Int
  BY DEF TypeOK
<1>7. CASE FindSlotBefore
  BY <1>5, <1>6, <1>7 DEF FindSlotBefore
<1>8. CASE FindSlotSkip
  <2>1. allocated[i] \in Vars
    BY <1>8, <1>a DEF FindSlotSkip, TypeOK
  <2>2. search_address' \in Int
    BY <1>8, <2>1 DEF FindSlotSkip, ceilint, TypeOK
  <2>. QED BY <1>8, <2>2 DEF FindSlotSkip, TypeOK, Distinct, Pending, Reserved
<1>9. CASE FindSlotLast
  BY <1>5, <1>6, <1>9 DEF FindSlotLast
<1>10. CASE OutOfMemory
  BY <1>10 DEF OutOfMemory, TypeOK, Distinct, Pending, Reserved
<1>11. ASSUME NEW v \in Vars, Drop(v) PROVE ListInv'
  BY <1>11 DEF Drop, TypeOK, Distinct, Pending, Reserved
<1>12. CASE UNCHANGED vars
  BY <1>12 DEF vars, TypeOK, Distinct, Pending, Reserved
<1>. QED BY <1>1, <1>2, <1>3, <1>4, <1>7, <1>8, <1>9, <1>10, <1>11, <1>12
            DEF Next, MallocStep

LEMMA ListInvariant == Spec => []ListInv
<1>1. Init => ListInv
  BY MemoryManagerAssumption
     DEF Init, ListInv, TypeOK, Distinct, Pending, Reserved
<1>. QED BY <1>1, ListStep, PTL DEF Spec

(* The allocator's variables keep their types.                             *)
THEOREM TypeCorrect == Spec => []TypeOK
BY ListInvariant, PTL DEF ListInv

(* Garbage collection never takes the range of an object the test can      *)
(* still reach (autofree's reference count, lines 39-45), whatever the      *)
(* sizes: a live object keeps exactly one entry.                           *)
THEOREM LiveObjectsKeepTheirEntry == Spec => []HeldIsAllocated
<1>1. ListInv => HeldIsAllocated
  BY DEF ListInv, Distinct, Reserved, HeldIsAllocated
<1>. QED BY <1>1, ListInvariant, PTL

-----------------------------------------------------------------------------
(* The geometry of the heap.  An empty object breaks it (the run           *)
(* empty_object shows how), so the theorems below assume positive sizes.   *)
PositiveSizes == Sizes \subseteq Nat \ {0}

Sized ==
    /\ \A j \in Entries : size[allocated[j]] \in Sizes
    /\ variable # None => size[variable] \in Sizes

Placed == \A j \in Entries : BaseAddr <= Start(j) /\ End(j) <= BaseAddr + MaxSize

Disjoint == \A j, k \in Entries : j # k => End(j) <= Start(k) \/ End(k) <= Start(j)

(* _find_slot runs over the entries by address ...                         *)
Sorted == pc = "scan" => \A j, k \in Entries : j < k => Start(j) <= Start(k)

(* ... the ones it has passed end below search_address ...                 *)
Passed ==
    pc = "scan" =>
        /\ BaseAddr <= search_address
        /\ search_address = BaseAddr \/ search_address % 8 = 0
        /\ \A j \in Entries : j < i => End(j) <= search_address

(* ... and it has missed no place for the new object.                      *)
Lowest ==
    pc = "scan" =>
        \A a \in Int : BaseAddr <= a /\ Candidate(a, size[variable]) => search_address <= a

HeapInv == Sized /\ Placed /\ Disjoint /\ Sorted /\ Passed /\ Lowest

(* ceilint rounds up to the next multiple of 8.                            *)
LEMMA CeilintRoundsUp ==
    ASSUME NEW x \in Int
    PROVE  /\ ceilint(x) \in Int
           /\ x <= ceilint(x)
           /\ ceilint(x) % 8 = 0
           /\ \A a \in Int : x <= a /\ a % 8 = 0 => ceilint(x) <= a
BY SMT DEF ceilint

(* A list whose entries are, one to one, old entries with their old ranges *)
(* is as well placed as the old one.                                       *)
LEMMA RangesKept ==
    ASSUME Sized, Placed, Disjoint,
           NEW m, \A j \in Entries' : m[j] \in Entries,
           \A j, k \in Entries' : m[j] = m[k] => j = k,
           \A j \in Entries' : /\ size'[allocated'[j]] = size[allocated[m[j]]]
                              /\ address'[allocated'[j]] = address[allocated[m[j]]],
           variable' = variable,
           variable # None => size'[variable] = size[variable]
    PROVE  Sized' /\ Placed' /\ Disjoint'
<1>1. Sized'
  BY DEF Sized
<1>2. Placed'
  BY DEF Placed
<1>3. Disjoint'
  BY DEF Disjoint
<1>. QED BY <1>1, <1>2, <1>3

(* Every step keeps the entries apart and the scan on its way.             *)
LEMMA HeapStep ==
    ASSUME PositiveSizes, ListInv, HeapInv, [Next]_vars
    PROVE  HeapInv'
<1>. USE MemoryManagerAssumption DEF PositiveSizes, ListInv, HeapInv
<1>a. Len(allocated) \in Nat /\ Entries = 1 .. Len(allocated)
      /\ \A j \in Entries : allocated[j] \in Vars
  BY LenProperties, ElementOfSeq DEF TypeOK
<1>b. \A j \in Entries : /\ Start(j) \in Int /\ End(j) \in Int
                        /\ Start(j) < End(j)
  BY <1>a DEF TypeOK, Sized
<1>c. pc # "idle" => /\ variable \in Vars /\ variable # None
                     /\ size[variable] \in Nat \ {0}
  BY DEF TypeOK, Pending, Sized
<1>1. ASSUME NEW v \in Vars, NEW n \in Sizes, MallocCall(v, n) PROVE HeapInv'
  <2>1. \A j \in Entries : allocated[j] # v
    BY <1>1 DEF MallocCall, ToSet
  <2>2. \A j \in Entries : /\ address'[allocated[j]] = address[allocated[j]]
                          /\ size'[allocated[j]] = size[allocated[j]]
    BY <1>1, <1>a, <2>1 DEF MallocCall, TypeOK
  <2>3. Placed' /\ Disjoint'
    BY <1>1, <2>2 DEF MallocCall, Placed, Disjoint
  <2>4. Sized'
    BY <1>1, <2>2 DEF MallocCall, Sized, TypeOK
  <2>5. Sorted' /\ Passed' /\ Lowest'
    BY <1>1 DEF MallocCall, Sorted, Passed, Lowest
  <2>. QED BY <2>3, <2>4, <2>5
<1>2. CASE AutofreeDelete
  <2>. DEFINE m == [j \in Entries' |-> IF j < i THEN j ELSE j + 1]
  <2>1. /\ i \in Entries
        /\ Entries' = 1 .. Len(allocated) - 1
        /\ \A j \in 1 .. Len(allocated) - 1 :
              allocated'[j] = IF j < i THEN allocated[j] ELSE allocated[j + 1]
    BY <1>2, <1>a, DeletedList, LenProperties
  <2>2. \A j \in Entries' : m[j] \in Entries /\ allocated'[j] = allocated[m[j]]
    BY <1>a, <2>1
  <2>3. \A j, k \in Entries' : m[j] = m[k] => j = k
    BY <1>a, <2>1
  <2>4. UNCHANGED <<address, size, variable, pc>> /\ pc = "autofree"
    BY <1>2 DEF AutofreeDelete
  <2>. HIDE DEF m
  <2>5. Sized' /\ Placed' /\ Disjoint'
    BY <2>2, <2>3, <2>4, RangesKept
  <2>6. Sorted' /\ Passed' /\ Lowest'
    BY <2>4 DEF Sorted, Passed, Lowest
  <2>. QED BY <2>5, <2>6
<1>3. CASE AutofreeKeep
  <2>1. UNCHANGED <<allocated, address, size, variable, pc>> /\ pc = "autofree"
    BY <1>3 DEF AutofreeKeep
  <2>. QED BY <2>1 DEF Sized, Placed, Disjoint, Sorted, Passed, Lowest
<1>4. CASE FindSlotSort
  <2>1. Entries' = Entries
    BY <1>4, <1>a, SortedList, LenProperties
  <2>2. PICK f \in [1 .. Len(allocated) -> 1 .. Len(allocated)] :
          /\ StableOrder(allocated, f)
          /\ \A k \in 1 .. Len(allocated) : allocated'[k] = allocated[f[k]]
          /\ \A j, k \in 1 .. Len(allocated) : f[j] = f[k] => j = k
          /\ \A m \in 1 .. Len(allocated) : \E k \in 1 .. Len(allocated) : f[k] = m
    BY <1>4, SortedList, Zenon
  <2>3. /\ UNCHANGED <<address, size, variable>>
        /\ pc' = "scan" /\ i' = 1 /\ search_address' = BaseAddr
    BY <1>4 DEF FindSlotSort
  <2>a. \A j \in Entries' : /\ f[j] \in Entries
                             /\ size'[allocated'[j]] = size[allocated[f[j]]]
                             /\ address'[allocated'[j]] = address[allocated[f[j]]]
    BY <1>a, <2>1, <2>2, <2>3
  <2>b. \A j, k \in Entries' : f[j] = f[k] => j = k
    BY <1>a, <2>1, <2>2, Zenon
  <2>4. Sized' /\ Placed' /\ Disjoint'
    BY <2>a, <2>b, <2>3, RangesKept
  <2>5. Sorted'
    <3>1. ASSUME NEW j \in Entries', NEW k \in Entries', j < k
          PROVE  address'[allocated'[j]] <= address'[allocated'[k]]
      <4>1. \/ address[allocated[f[j]]] < address[allocated[f[k]]]
            \/ address[allocated[f[j]]] = address[allocated[f[k]]]
        BY <1>a, <2>1, <2>2, <3>1, Zenon DEF StableOrder
      <4>. QED BY <1>b, <2>a, <4>1
    <3>. QED BY <3>1 DEF Sorted
  <2>6. Passed' /\ Lowest'
    BY <1>a, <2>1, <2>3 DEF Passed, Lowest
  <2>. QED BY <2>4, <2>5, <2>6
<1>5. ASSUME NEW a \in Int, Place(a), pc = "scan",
             BaseAddr <= a, a + size[variable] <= BaseAddr + MaxSize,
             \A k \in Entries : a + size[variable] <= Start(k) \/ End(k) <= a
      PROVE  HeapInv'
  <2>0. variable \in Vars /\ variable # None /\ size[variable] \in Nat \ {0}
    BY <1>5, <1>c
  <2>. DEFINE new == Len(allocated) + 1
  <2>1. /\ Entries' = 1 .. new
        /\ \A j \in Entries : allocated'[j] = allocated[j]
        /\ allocated'[new] = variable
    BY <1>5, <1>a, <2>0, PlacedList, LenProperties
  <2>2. \A j \in Entries : /\ address'[allocated'[j]] = address[allocated[j]]
                          /\ size'[allocated'[j]] = size[allocated[j]]
    BY <1>5, <1>a, <2>0, <2>1 DEF Place, Pending, TypeOK
  <2>3. /\ address'[allocated'[new]] = a
        /\ size'[allocated'[new]] = size[variable]
    BY <1>5, <2>0, <2>1 DEF Place, TypeOK
  <2>4. Entries' = Entries \cup {new} /\ new \notin Entries
    BY <1>a, <2>1
  <2>. HIDE DEF new
  <2>5. Sized'
    BY <1>5, <2>0, <2>2, <2>3, <2>4 DEF Sized, Place
  <2>6. Placed'
    BY <1>5, <2>2, <2>3, <2>4 DEF Placed
  <2>7. Disjoint'
    BY <1>5, <2>2, <2>3, <2>4 DEF Disjoint
  <2>8. Sorted' /\ Passed' /\ Lowest'
    BY <1>5 DEF Place, Sorted, Passed, Lowest
  <2>. QED BY <2>5, <2>6, <2>7, <2>8
<1>6. search_address \in Int /\ i \in Nat \ {0}
  BY DEF TypeOK
<1>7. CASE FindSlotBefore
  <2>1. i \in Entries /\ pc = "scan" /\ Place(search_address)
    BY <1>7, <1>a, <1>6 DEF FindSlotBefore
  <2>2. size[variable] \in Nat \ {0} /\ search_address + size[variable] <= Start(i)
    BY <1>7, <1>b, <1>c, <1>6, <2>1 DEF FindSlotBefore, GapBefore
  <2>3. \A k \in Entries : k >= i => Start(i) <= Start(k)
    BY <1>a, <1>b, <2>1 DEF Sorted
  <2>4. \A k \in Entries : search_address + size[variable] <= Start(k) \/ End(k) <= search_address
    BY <1>a, <1>b, <1>6, <2>1, <2>2, <2>3 DEF Passed
  <2>5. BaseAddr <= search_address /\ search_address + size[variable] <= BaseAddr + MaxSize
    BY <1>b, <1>6, <2>1, <2>2 DEF Passed, Placed
  <2>. QED BY <1>5, <1>6, <2>1, <2>4, <2>5
<1>8. CASE FindSlotSkip
  <2>1. /\ i \in Entries /\ pc = "scan" /\ pc' = "scan"
        /\ UNCHANGED <<allocated, address, size, variable>>
        /\ i' = i + 1
        /\ search_address' = ceilint(End(i))
        /\ ~GapBefore(allocated[i])
    BY <1>8, <1>a, <1>6 DEF FindSlotSkip
  <2>2. /\ search_address' \in Int
        /\ End(i) <= search_address'
        /\ search_address' % 8 = 0
        /\ \A a \in Int : End(i) <= a /\ a % 8 = 0 => search_address' <= a
    BY <1>b, <2>1, CeilintRoundsUp
  <2>3. \A j \in Entries : j < i => End(j) <= Start(i)
    BY <1>a, <1>b, <2>1 DEF Sorted, Disjoint
  <2>4. BaseAddr < End(i)
    BY <1>b, <2>1 DEF Placed
  <2>5. Passed'
    <3>1. BaseAddr <= search_address'
      BY <1>b, <2>1, <2>2, <2>4
    <3>2. ASSUME NEW j \in Entries, j < i + 1 PROVE End(j) <= search_address'
      BY <1>a, <1>b, <1>6, <2>1, <2>2, <2>3, <3>2
    <3>. QED BY <2>1, <2>2, <3>1, <3>2 DEF Passed
  <2>6. ASSUME NEW a \in Int, BaseAddr <= a, Candidate(a, size[variable])
        PROVE  search_address' <= a
    <3>1. search_address <= a
      BY <2>1, <2>6 DEF Lowest
    <3>2. size[variable] \in Nat \ {0} /\ Start(i) < search_address + size[variable]
      BY <1>b, <1>c, <1>6, <2>1 DEF GapBefore
    <3>3. End(i) <= a
      BY <1>b, <1>6, <2>1, <2>6, <3>1, <3>2 DEF Candidate
    <3>4. a % 8 = 0
      BY <1>b, <2>1, <2>4, <2>6, <3>3 DEF Candidate
    <3>. QED BY <2>2, <3>3, <3>4
  <2>7. Lowest'
    BY <2>1, <2>6 DEF Lowest, Candidate
  <2>. QED BY <2>1, <2>5, <2>7 DEF Sized, Placed, Disjoint, Sorted
<1>9. CASE FindSlotLast
  <2>1. pc = "scan" /\ Place(search_address) /\ i > Len(allocated)
    BY <1>9 DEF FindSlotLast
  <2>2. search_address + size[variable] <= BaseAddr + MaxSize
    BY <1>9, <1>c, <1>6, <2>1 DEF FindSlotLast, RoomAtEnd
  <2>3. BaseAddr <= search_address /\ \A k \in Entries : End(k) <= search_address
    BY <1>a, <1>6, <2>1 DEF Passed
  <2>. QED BY <1>5, <1>6, <2>1, <2>2, <2>3
<1>10. CASE OutOfMemory
  BY <1>10 DEF OutOfMemory, Sized, Placed, Disjoint, Sorted, Passed, Lowest
<1>11. ASSUME NEW v \in Vars, Drop(v) PROVE HeapInv'
  BY <1>11 DEF Drop, Sized, Placed, Disjoint, Sorted, Passed, Lowest
<1>12. CASE UNCHANGED vars
  BY <1>12 DEF vars, Sized, Placed, Disjoint, Sorted, Passed, Lowest, Candidate
<1>. QED BY <1>1, <1>2, <1>3, <1>4, <1>7, <1>8, <1>9, <1>10, <1>11, <1>12
            DEF Next, MallocStep

LEMMA HeapInvariant == ASSUME PositiveSizes PROVE Spec => [](ListInv /\ HeapInv)
<1>1. Init => HeapInv
  BY MemoryManagerAssumption
     DEF Init, HeapInv, Sized, Placed, Disjoint, Sorted, Passed, Lowest
<1>2. ListInv /\ HeapInv /\ [Next]_vars => HeapInv'
  BY HeapStep
<1>. QED BY <1>1, <1>2, ListInvariant, ListStep, PTL DEF Spec

(* As long as no object is empty, the ranges malloc hands out lie in the   *)
(* heap array and never share a byte, whatever is allocated and dropped,   *)
(* in whatever order.                                                      *)
THEOREM RangesNeverOverlap == ASSUME PositiveSizes PROVE Spec => []NoOverlap
<1>1. ListInv /\ HeapInv => NoOverlap
  <2>. SUFFICES ASSUME ListInv, HeapInv PROVE NoOverlap
    OBVIOUS
  <2>1. \A j \in Entries : /\ allocated[j] \in Vars
                          /\ Start(j) \in Int /\ End(j) \in Int
    BY ElementOfSeq, LenProperties DEF ListInv, TypeOK
  <2>. QED BY <2>1 DEF HeapInv, Placed, Disjoint, NoOverlap
<1>. QED BY <1>1, HeapInvariant, PTL

(* What the scan has established when it stops.                            *)
LEMMA ScanResult ==
    ASSUME PositiveSizes, ListInv, HeapInv, pc = "scan",
           NEW found, found = {a \in BaseAddr .. BaseAddr + MaxSize : Candidate(a, size[variable])}
    PROVE  /\ \A a \in found : search_address <= a
           /\ OutOfMemory => found = {}
           /\ FindSlotBefore \/ FindSlotLast => search_address \in found
<1>. USE MemoryManagerAssumption DEF PositiveSizes, ListInv, HeapInv
<1>1. Len(allocated) \in Nat /\ Entries = 1 .. Len(allocated)
      /\ \A j \in Entries : /\ allocated[j] \in Vars
                           /\ Start(j) \in Int /\ End(j) \in Int
                           /\ Start(j) < End(j)
  BY LenProperties, ElementOfSeq DEF TypeOK, Sized
<1>2. size[variable] \in Nat \ {0} /\ search_address \in Int /\ i \in Nat \ {0}
  BY DEF TypeOK, Pending, Sized
<1>3. /\ BaseAddr <= search_address
      /\ search_address = BaseAddr \/ search_address % 8 = 0
      /\ \A j \in Entries : j < i => End(j) <= search_address
  BY DEF Passed
<1>4. \A a \in found : search_address <= a
  BY DEF Lowest
<1>5. ASSUME OutOfMemory PROVE found = {}
  <2>1. \A a \in found : a + size[variable] <= BaseAddr + MaxSize
    BY DEF Candidate
  <2>. QED BY <1>2, <1>4, <1>5, <2>1 DEF OutOfMemory, RoomAtEnd
<1>6. ASSUME FindSlotBefore PROVE search_address \in found
  <2>1. i \in Entries /\ search_address + size[variable] <= Start(i)
    BY <1>1, <1>2, <1>6 DEF FindSlotBefore, GapBefore
  <2>2. \A k \in Entries : k >= i => Start(i) <= Start(k)
    BY <1>1, <2>1 DEF Sorted
  <2>3. \A k \in Entries : search_address + size[variable] <= Start(k) \/ End(k) <= search_address
    BY <1>1, <1>2, <1>3, <2>1, <2>2
  <2>4. search_address + size[variable] <= BaseAddr + MaxSize
    BY <1>1, <1>2, <2>1 DEF Placed
  <2>. QED BY <1>2, <1>3, <2>3, <2>4 DEF Candidate
<1>7. ASSUME FindSlotLast PROVE search_address \in found
  <2>1. search_address + size[variable] <= BaseAddr + MaxSize
    BY <1>2, <1>7 DEF FindSlotLast, RoomAtEnd
  <2>2. \A k \in Entries : End(k) <= search_address
    BY <1>1, <1>2, <1>3, <1>7 DEF FindSlotLast
  <2>. QED BY <1>2, <1>3, <2>1, <2>2 DEF Candidate
<1>. QED BY <1>4, <1>5, <1>6, <1>7

(* As long as no object is empty, _find_slot returns the lowest address of *)
(* the heap that will do, and malloc raises only when there is none.       *)
THEOREM SearchIsFirstFit == ASSUME PositiveSizes PROVE Spec => FirstFit
<1>1. ASSUME ListInv, HeapInv, [Next]_vars, pc = "scan", pc' = "idle" PROVE FirstFitStep
  <2>. DEFINE found == {a \in BaseAddr .. BaseAddr + MaxSize : Candidate(a, size[variable])}
  <2>1. OutOfMemory \/ FindSlotBefore \/ FindSlotLast
    BY <1>1 DEF Next, MallocStep, MallocCall, AutofreeDelete, AutofreeKeep, FindSlotSort,
                FindSlotSkip, Drop, vars
  <2>2. /\ \A a \in found : search_address <= a
        /\ OutOfMemory => found = {}
        /\ FindSlotBefore \/ FindSlotLast => search_address \in found
    BY <1>1, ScanResult
  <2>3. CASE OutOfMemory
    BY <1>1, <2>2, <2>3 DEF FirstFitStep, OutOfMemory
  <2>4. CASE Place(search_address)
    <3>1. variable \in Vars /\ address'[variable] = search_address
      BY <1>1, <2>4 DEF Place, ListInv, Pending, TypeOK
    <3>2. Len(allocated') = Len(allocated) + 1 /\ Len(allocated) \in Nat
      BY <1>1, <2>4, <3>1, PlacedList, LenProperties DEF ListInv, TypeOK
    <3>3. allocated' # allocated
      BY <3>2
    <3>4. FindSlotBefore \/ FindSlotLast => FirstFitStep
      BY <2>2, <3>1, <3>3 DEF FirstFitStep
    <3>. QED BY <2>1, <2>3, <3>4
  <2>. QED BY <2>1, <2>3, <2>4 DEF FindSlotBefore, FindSlotLast
<1>2. ListInv /\ HeapInv /\ [Next]_vars => [FirstFitStep]_vars
  BY <1>1 DEF FirstFitStep
<1>. QED BY <1>2, HeapInvariant, PTL DEF FirstFit, Spec

-----------------------------------------------------------------------------
(* Steps that leave the entries and their ranges alone.                    *)
LEMMA BlocksKept ==
    ASSUME ToSet(allocated)' = ToSet(allocated),
           \A v \in ToSet(allocated) : address'[v] = address[v] /\ size'[v] = size[v]
    PROVE  Blocks' = Blocks
BY DEF Blocks

(* Every step of the allocator is a step of the heap or changes nothing of *)
(* it: the deletions of autofree are Reclaim, the end of a successful      *)
(* malloc is Allocate, a dropped reference is Abandon.                     *)
LEMMA HeapSimulation ==
    ASSUME PositiveSizes, ListInv, HeapInv, [Next]_vars
    PROVE  [AbstractHeap!Next]_(AbstractHeap!heapVars)
<1>. USE MemoryManagerAssumption DEF ListInv
<1>. DEFINE used == ToSet(allocated)
            range(v) == [owner |-> v, start |-> address[v], size |-> size[v]]
<1>a. /\ Len(allocated) \in Nat /\ Entries = 1 .. Len(allocated)
      /\ \A j \in Entries : allocated[j] \in Vars
      /\ used = {allocated[j] : j \in Entries}
      /\ used \subseteq Vars
  BY LenProperties, ElementOfSeq DEF TypeOK, ToSet
<1>s. ASSUME UNCHANGED Blocks, (held \ {variable})' = held \ {variable}
      PROVE  UNCHANGED AbstractHeap!heapVars
  BY <1>s DEF AbstractHeap!heapVars
<1>1. ASSUME NEW v \in Vars, NEW n \in Sizes, MallocCall(v, n)
      PROVE  UNCHANGED AbstractHeap!heapVars
  <2>1. \A w \in used : address'[w] = address[w] /\ size'[w] = size[w]
    BY <1>1, <1>a DEF MallocCall, TypeOK
  <2>2. Blocks' = Blocks
    BY <1>1, <2>1, BlocksKept DEF MallocCall
  <2>3. held' \ {variable'} = held \ {variable}
    BY <1>1 DEF MallocCall, Pending, TypeOK
  <2>. QED BY <1>s, <2>2, <2>3
<1>2. ASSUME AutofreeDelete PROVE AbstractHeap!Next
  <2>1. /\ i \in Entries
        /\ Entries' = 1 .. Len(allocated) - 1
        /\ \A j \in 1 .. Len(allocated) - 1 :
              allocated'[j] = IF j < i THEN allocated[j] ELSE allocated[j + 1]
    BY <1>2, <1>a, DeletedList, LenProperties
  <2>2. used' = used \ {allocated[i]}
    <3>1. used' = {allocated'[j] : j \in Entries'}
      BY DEF ToSet
    <3>2. ASSUME NEW j \in Entries' PROVE allocated'[j] \in used \ {allocated[i]}
      <4>1. CASE j < i
        BY <1>a, <2>1, <4>1 DEF Distinct
      <4>2. CASE j >= i
        <5>1. j + 1 \in Entries /\ j + 1 # i /\ allocated'[j] = allocated[j + 1]
          BY <1>a, <2>1, <4>2
        <5>. QED BY <1>a, <2>1, <5>1 DEF Distinct
      <4>. QED BY <1>a, <2>1, <4>1, <4>2
    <3>3. ASSUME NEW j \in Entries, j # i PROVE allocated[j] \in used'
      <4>1. CASE j < i
        BY <1>a, <2>1, <3>1, <3>3, <4>1
      <4>2. CASE j > i
        <5>1. j - 1 \in Entries' /\ allocated'[j - 1] = allocated[j]
          BY <1>a, <2>1, <4>2
        <5>. QED BY <3>1, <5>1
      <4>. QED BY <1>a, <2>1, <3>3, <4>1, <4>2
    <3>. QED BY <1>a, <3>1, <3>2, <3>3
  <2>3. UNCHANGED <<address, size, held, variable>> /\ allocated[i] \notin held
    BY <1>2 DEF AutofreeDelete, Unreferenced
  <2>. DEFINE b == range(allocated[i])
  <2>4. Blocks' = Blocks \ {b}
    BY <2>2, <2>3 DEF Blocks
  <2>5. b \in Blocks
    BY <1>a, <2>1 DEF Blocks
  <2>6. AbstractHeap!Reclaim(b)
    BY <2>3, <2>4 DEF AbstractHeap!Reclaim
  <2>. QED BY <2>5, <2>6 DEF AbstractHeap!Next
<1>3. CASE AutofreeKeep \/ FindSlotSkip \/ UNCHANGED vars
  <2>1. UNCHANGED <<allocated, address, size, held, variable>>
    BY <1>3 DEF AutofreeKeep, FindSlotSkip, vars
  <2>. QED BY <1>s, <2>1 DEF Blocks
<1>4. ASSUME FindSlotSort PROVE UNCHANGED AbstractHeap!heapVars
  <2>1. Entries' = Entries
    BY <1>4, <1>a, SortedList, LenProperties
  <2>2. PICK f \in [1 .. Len(allocated) -> 1 .. Len(allocated)] :
          /\ StableOrder(allocated, f)
          /\ \A k \in 1 .. Len(allocated) : allocated'[k] = allocated[f[k]]
          /\ \A j, k \in 1 .. Len(allocated) : f[j] = f[k] => j = k
          /\ \A m \in 1 .. Len(allocated) : \E k \in 1 .. Len(allocated) : f[k] = m
    BY <1>4, SortedList, Zenon
  <2>3. used' = {allocated'[j] : j \in Entries}
    BY <2>1 DEF ToSet
  <2>4. used' = used
    <3>1. ASSUME NEW j \in Entries PROVE allocated'[j] \in used
      BY <1>a, <2>2
    <3>2. ASSUME NEW m \in Entries PROVE allocated[m] \in used'
      <4>1. PICK k \in Entries : f[k] = m
        BY <1>a, <2>2
      <4>. QED BY <1>a, <2>2, <2>3, <4>1
    <3>. QED BY <1>a, <2>3, <3>1, <3>2
  <2>5. UNCHANGED <<address, size, held, variable>>
    BY <1>4 DEF FindSlotSort
  <2>. QED BY <1>s, <2>4, <2>5 DEF Blocks
<1>5. ASSUME NEW a \in Int, Place(a), pc = "scan",
             FindSlotBefore \/ FindSlotLast, a = search_address
      PROVE  AbstractHeap!Next
  <2>. DEFINE n == size[variable]
              found == {c \in BaseAddr .. BaseAddr + MaxSize : Candidate(c, n)}
  <2>1. variable \in Vars /\ variable # None /\ n \in Sizes /\ variable \notin used
    BY <1>5, <1>a DEF Pending, TypeOK, HeapInv, Sized
  <2>2. a \in found
    BY <1>5, ScanResult
  <2>3. /\ a \in BaseAddr .. BaseAddr + MaxSize
        /\ a + n <= BaseAddr + MaxSize
        /\ \A v \in used : a + n <= address[v] \/ address[v] + size[v] <= a
    BY <1>a, <2>2 DEF Candidate
  <2>4. AbstractHeap!Fits(a, n)
    <3>1. ASSUME NEW v \in used PROVE ~AbstractHeap!Overlap(a, n, address[v], size[v])
      <4>1. address[v] \in Int /\ size[v] \in Int /\ n \in Int
        BY <1>a, <2>1 DEF TypeOK
      <4>. QED BY <1>5, <2>3, <4>1 DEF AbstractHeap!Overlap
    <3>. QED BY <1>5, <2>3, <3>1 DEF AbstractHeap!Fits, Blocks
  <2>5. used' = used \cup {variable}
    <3>1. /\ Entries' = 1 .. Len(allocated) + 1
          /\ \A j \in 1 .. Len(allocated) : allocated'[j] = allocated[j]
          /\ allocated'[Len(allocated) + 1] = variable
      BY <1>5, <1>a, <2>1, PlacedList, LenProperties
    <3>2. Entries' = Entries \cup {Len(allocated) + 1}
      BY <1>a, <3>1
    <3>3. used' = {allocated'[j] : j \in Entries'}
      BY DEF ToSet
    <3>. QED BY <1>a, <3>1, <3>2, <3>3
  <2>6. /\ \A v \in used : address'[v] = address[v]
        /\ address'[variable] = a
        /\ size' = size
        /\ held' \ {variable'} = (held \ {variable}) \cup {variable}
    BY <1>5, <1>a, <2>1 DEF Place, TypeOK, Pending
  <2>7. Blocks' = Blocks \cup {[owner |-> variable, start |-> a, size |-> n]}
    BY <2>5, <2>6 DEF Blocks
  <2>8. \A b \in Blocks : b.owner # variable
    BY <2>1 DEF Blocks
  <2>9. AbstractHeap!Allocate(variable, a, n)
    BY <2>4, <2>6, <2>7, <2>8 DEF AbstractHeap!Allocate
  <2>. QED BY <2>1, <2>3, <2>9 DEF AbstractHeap!Next
<1>6. ASSUME OutOfMemory PROVE UNCHANGED AbstractHeap!heapVars
  <2>1. UNCHANGED <<allocated, address, size>>
    BY <1>6 DEF OutOfMemory
  <2>2. held' \ {variable'} = held \ {variable}
    BY <1>6 DEF OutOfMemory, TypeOK
  <2>. QED BY <1>s, <2>1, <2>2 DEF Blocks
<1>7. ASSUME NEW v \in Vars, Drop(v) PROVE AbstractHeap!Next
  <2>1. UNCHANGED <<allocated, address, size, variable>> /\ variable = None
    BY <1>7 DEF Drop, Pending
  <2>2. v \in held \ {variable} /\ held' \ {variable'} = (held \ {variable}) \ {v}
    BY <1>7, <2>1 DEF Drop
  <2>3. AbstractHeap!Abandon(v)
    BY <2>1, <2>2 DEF AbstractHeap!Abandon, Blocks
  <2>. QED BY <2>2, <2>3 DEF AbstractHeap!Next
<1>8. search_address \in Int
  BY DEF TypeOK
<1>9. CASE FindSlotBefore \/ FindSlotLast
  BY <1>5, <1>8, <1>9 DEF FindSlotBefore, FindSlotLast
<1>10. AbstractHeap!Next \/ UNCHANGED AbstractHeap!heapVars
  BY <1>1, <1>2, <1>3, <1>4, <1>6, <1>7, <1>9 DEF Next, MallocStep
<1>. QED BY <1>10

(* As long as no object is empty, the allocator keeps what the abstract    *)
(* heap promises: an object owns its range from the end of malloc until    *)
(* nobody references it, whatever autofree, the sort and the scan do.      *)
THEOREM AllocatorImplementsHeap == ASSUME PositiveSizes PROVE Spec => ImplementsHeap
<1>1. Init => AbstractHeap!Init
  BY DEF Init, AbstractHeap!Init, Blocks, ToSet
<1>2. ListInv /\ HeapInv /\ [Next]_vars => [AbstractHeap!Next]_(AbstractHeap!heapVars)
  BY HeapSimulation
<1>. QED BY <1>1, <1>2, HeapInvariant, PTL DEF Spec, ImplementsHeap, AbstractHeap!Spec

-----------------------------------------------------------------------------
(* What autofree has passed over and nobody references: the entries that   *)
(* took the place of a deleted one.  Each of them cost a deletion.         *)
Skipped == {allocated[j] : j \in {m \in Entries : m < i /\ Unreferenced(allocated[m])}}

SkippedInv ==
    /\ pc = "autofree" => IsFiniteSet(Skipped) /\ Cardinality(Skipped) <= freed
    /\ pc = "scan" => IsFiniteSet(Garbage) /\ Cardinality(Garbage) <= freed

(* A deletion passes over one entry more, the sort over none, and the scan *)
(* changes neither the entries nor what the test holds.                    *)
LEMMA SkippedStep == ListInv /\ SkippedInv /\ [Next]_vars => SkippedInv'
<1>. SUFFICES ASSUME ListInv, SkippedInv, [Next]_vars PROVE SkippedInv'
  OBVIOUS
<1>. USE MemoryManagerAssumption DEF ListInv
<1>a. /\ Len(allocated) \in Nat /\ Entries = 1 .. Len(allocated)
      /\ \A j \in Entries : allocated[j] \in Vars
      /\ i \in Nat \ {0} /\ freed \in Nat
  BY LenProperties, ElementOfSeq DEF TypeOK
<1>1. ASSUME NEW v \in Vars, NEW n \in Sizes, MallocCall(v, n) PROVE SkippedInv'
  <2>1. pc' = "autofree" /\ i' = 1 /\ freed' = 0 /\ Entries' = 1 .. Len(allocated)
    BY <1>1, <1>a DEF MallocCall
  <2>2. Skipped' = {}
    BY <2>1, <1>a DEF Skipped
  <2>3. IsFiniteSet(Skipped') /\ Cardinality(Skipped') = 0
    BY <2>2, FS_EmptySet, Zenon
  <2>. QED BY <2>1, <2>3 DEF SkippedInv
<1>2. CASE AutofreeDelete
  <2>1. /\ i \in Entries
        /\ Entries' = 1 .. Len(allocated) - 1
        /\ \A j \in 1 .. Len(allocated) - 1 :
              allocated'[j] = IF j < i THEN allocated[j] ELSE allocated[j + 1]
    BY <1>2, <1>a, DeletedList, LenProperties
  <2>2. pc = "autofree" /\ pc' = "autofree" /\ i' = i + 1 /\ freed' = freed + 1 /\ held' = held
    BY <1>2 DEF AutofreeDelete
  <2>. DEFINE more == Skipped \cup {allocated'[i]}
  <2>3. Skipped' \subseteq more
    <3>1. ASSUME NEW j \in Entries', j < i + 1, allocated'[j] \notin held
          PROVE  allocated'[j] \in more
      <4>1. CASE j < i
        BY <1>a, <2>1, <3>1, <4>1 DEF Skipped, Unreferenced
      <4>. QED BY <1>a, <2>1, <3>1, <4>1
    <3>. QED BY <2>2, <3>1 DEF Skipped, Unreferenced
  <2>4. IsFiniteSet(Skipped) /\ Cardinality(Skipped) <= freed /\ Cardinality(Skipped) \in Nat
    BY <2>2, FS_CardinalityType DEF SkippedInv
  <2>5. IsFiniteSet(more) /\ Cardinality(more) <= freed + 1 /\ Cardinality(more) \in Nat
    <3>1. /\ IsFiniteSet(more)
          /\ Cardinality(more) = IF allocated'[i] \in Skipped THEN Cardinality(Skipped)
                                                             ELSE Cardinality(Skipped) + 1
      BY <2>4, FS_AddElement
    <3>. HIDE DEF more
    <3>2. Cardinality(more) <= freed + 1 /\ Cardinality(more) \in Nat
      BY <1>a, <2>4, <3>1
    <3>. QED BY <3>1, <3>2
  <2>6. IsFiniteSet(Skipped') /\ Cardinality(Skipped') <= Cardinality(more)
    BY <2>3, <2>5, FS_Subset
  <2>7. Cardinality(Skipped') <= freed'
    BY <1>a, <2>2, <2>5, <2>6, FS_CardinalityType
  <2>. QED BY <2>2, <2>6, <2>7 DEF SkippedInv
<1>3. CASE AutofreeKeep
  <2>1. /\ pc = "autofree" /\ pc' = "autofree" /\ i' = i + 1 /\ i \in Entries
        /\ allocated[i] \in held
        /\ UNCHANGED <<allocated, held, freed>>
    BY <1>3, <1>a DEF AutofreeKeep, Unreferenced
  <2>2. \A m \in Entries : m < i + 1 /\ allocated[m] \notin held <=> m < i /\ allocated[m] \notin held
    BY <1>a, <2>1
  <2>3. Skipped' = Skipped
    BY <2>1, <2>2 DEF Skipped, Unreferenced
  <2>. QED BY <2>1, <2>3 DEF SkippedInv
<1>4. CASE FindSlotSort
  <2>1. /\ pc = "autofree" /\ pc' = "scan" /\ i > Len(allocated)
        /\ UNCHANGED <<held, freed>>
    BY <1>4 DEF FindSlotSort
  <2>2. Entries' = Entries
    BY <1>4, <1>a, SortedList, LenProperties
  <2>3. PICK f \in [1 .. Len(allocated) -> 1 .. Len(allocated)] :
          \A k \in 1 .. Len(allocated) : allocated'[k] = allocated[f[k]]
    BY <1>4, SortedList, Zenon
  <2>4. Garbage' \subseteq Skipped
    <3>1. ASSUME NEW k \in Entries, allocated'[k] \notin held
          PROVE  allocated'[k] \in Skipped
      <4>1. f[k] \in Entries /\ f[k] < i /\ allocated'[k] = allocated[f[k]]
        BY <1>a, <2>1, <2>3
      <4>. QED BY <3>1, <4>1 DEF Skipped, Unreferenced
    <3>. QED BY <2>1, <2>2, <3>1 DEF Garbage, ToSet, Unreferenced
  <2>5. IsFiniteSet(Skipped) /\ Cardinality(Skipped) <= freed /\ Cardinality(Skipped) \in Nat
    BY <2>1, FS_CardinalityType DEF SkippedInv
  <2>6. IsFiniteSet(Garbage') /\ Cardinality(Garbage') <= Cardinality(Skipped)
    BY <2>4, <2>5, FS_Subset
  <2>7. Cardinality(Garbage') <= freed'
    BY <1>a, <2>1, <2>5, <2>6, FS_CardinalityType
  <2>. QED BY <2>1, <2>6, <2>7 DEF SkippedInv
<1>5. CASE FindSlotSkip
  <2>1. pc = "scan" /\ pc' = "scan" /\ UNCHANGED <<allocated, held, freed>>
    BY <1>5 DEF FindSlotSkip
  <2>2. Garbage' = Garbage
    BY <2>1 DEF Garbage, Unreferenced
  <2>. QED BY <2>1, <2>2 DEF SkippedInv
<1>6. CASE FindSlotBefore \/ FindSlotLast \/ OutOfMemory
  BY <1>6 DEF FindSlotBefore, FindSlotLast, OutOfMemory, Place, SkippedInv
<1>7. ASSUME NEW v \in Vars, Drop(v) PROVE SkippedInv'
  BY <1>7 DEF Drop, SkippedInv
<1>8. CASE UNCHANGED vars
  BY <1>8 DEF vars, SkippedInv, Skipped, Garbage, Unreferenced
<1>. QED BY <1>1, <1>2, <1>3, <1>4, <1>5, <1>6, <1>7, <1>8 DEF Next, MallocStep

(* One pass of autofree leaves at most as much garbage as it deletes, for  *)
(* lists of any length, objects of any size and any order of dropping      *)
(* them, although it does not look at the entry after a deleted one.       *)
THEOREM AutofreeHalvesGarbage == Spec => []AutofreeFreesHalf
<1>1. Init => SkippedInv
  BY DEF Init, SkippedInv
<1>2. SkippedInv => AutofreeFreesHalf
  BY DEF SkippedInv, AutofreeFreesHalf
<1>. QED BY <1>1, <1>2, SkippedStep, ListInvariant, PTL DEF Spec

-----------------------------------------------------------------------------
(* How far the loops of malloc get past the end of the list.               *)
WalkInv ==
    /\ pc = "autofree" => i <= Len(allocated) + 2
    /\ pc = "scan" => i <= Len(allocated) + 1

(* Each iteration is one step nearer to the return.                        *)
LEMMA WalkStep ==
    ListInv /\ WalkInv /\ [Next]_vars =>
        /\ WalkInv'
        /\ [pc # "idle" => IterationsLeft' \in Nat /\ IterationsLeft' < IterationsLeft]_vars
<1>. DEFINE Nearer ==
        pc # "idle" => IterationsLeft' \in Nat /\ IterationsLeft' < IterationsLeft
<1>. SUFFICES ASSUME ListInv, WalkInv, [Next]_vars PROVE WalkInv' /\ [Nearer]_vars
  OBVIOUS
<1>. USE MemoryManagerAssumption DEF ListInv, WalkInv
<1>a. Len(allocated) \in Nat /\ i \in Nat \ {0} /\ pc \in {"idle", "autofree", "scan"}
  BY LenProperties DEF TypeOK
<1>b. /\ pc = "idle" => IterationsLeft = 0
      /\ pc = "autofree" => IterationsLeft = 2 * Len(allocated) + 4 - i
      /\ pc = "scan" => IterationsLeft = Len(allocated) + 2 - i
  BY Zenon DEF IterationsLeft
<1>c. /\ pc' = "idle" => IterationsLeft' = 0
      /\ pc' = "autofree" => IterationsLeft' = 2 * Len(allocated') + 4 - i'
      /\ pc' = "scan" => IterationsLeft' = Len(allocated') + 2 - i'
  BY Zenon DEF IterationsLeft
<1>1. ASSUME NEW v \in Vars, NEW n \in Sizes, MallocCall(v, n) PROVE WalkInv' /\ Nearer
  <2>1. pc = "idle" /\ pc' = "autofree" /\ i' = 1 /\ allocated' = allocated
    BY <1>1 DEF MallocCall
  <2>. QED BY <1>a, <2>1
<1>2. CASE AutofreeDelete
  <2>1. /\ pc = "autofree" /\ pc' = "autofree" /\ i' = i + 1
        /\ i <= Len(allocated) /\ Len(allocated') = Len(allocated) - 1
    BY <1>2, DeletedList DEF AutofreeDelete
  <2>. QED BY <1>a, <1>b, <1>c, <2>1
<1>3. CASE AutofreeKeep
  <2>1. /\ pc = "autofree" /\ pc' = "autofree" /\ i' = i + 1
        /\ i <= Len(allocated) /\ allocated' = allocated
    BY <1>3 DEF AutofreeKeep
  <2>. QED BY <1>a, <1>b, <1>c, <2>1
<1>4. CASE FindSlotSort
  <2>1. /\ pc = "autofree" /\ pc' = "scan" /\ i' = 1
        /\ Len(allocated') = Len(allocated)
    BY <1>4, SortedList DEF FindSlotSort
  <2>. QED BY <1>a, <1>b, <1>c, <2>1
<1>5. CASE FindSlotSkip
  <2>1. /\ pc = "scan" /\ pc' = "scan" /\ i' = i + 1
        /\ i <= Len(allocated) /\ allocated' = allocated
    BY <1>5 DEF FindSlotSkip
  <2>. QED BY <1>a, <1>b, <1>c, <2>1
<1>6. CASE FindSlotBefore \/ FindSlotLast \/ OutOfMemory
  <2>1. pc = "scan" /\ pc' = "idle"
    BY <1>6 DEF FindSlotBefore, FindSlotLast, OutOfMemory, Place
  <2>. QED BY <1>a, <1>b, <1>c, <2>1
<1>7. ASSUME NEW v \in Vars, Drop(v) PROVE WalkInv' /\ Nearer
  BY <1>7 DEF Drop
<1>8. CASE UNCHANGED vars
  BY <1>8 DEF vars
<1>. QED BY <1>1, <1>2, <1>3, <1>4, <1>5, <1>6, <1>7, <1>8 DEF Next, MallocStep

(* malloc returns or raises after at most 2 n + 3 steps, n the entries it  *)
(* finds: for any sizes, autofree's deletions included, neither of its     *)
(* loops can go on for ever.                                               *)
THEOREM MallocIsBounded == Spec => MallocAdvances
<1>1. Init => WalkInv
  BY DEF Init, WalkInv
<1>. QED BY <1>1, WalkStep, ListInvariant, PTL DEF Spec, MallocAdvances

=============================================================================
