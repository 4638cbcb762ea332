--------------------------- MODULE VarProxyProofs ---------------------------
(***************************************************************************)
(* What VarProxy reads and writes, for any library, byte and byte order.   *)
(***************************************************************************)
EXTENDS VarProxy, NumeralsProofs

-----------------------------------------------------------------------------
(* The layout of objects: an element has Parts(o) parts, one in an array   *)
(* and the members in a struct.                                            *)

Parts(o) == IF o.proxy.type.kind = "int" THEN 1 ELSE Len(o.proxy.type.members)

PartOffset(o, k) == IF o.proxy.type.kind = "int" THEN 0 ELSE o.proxy.type.members[k].offset

PartType(o, k) == IF o.proxy.type.kind = "int" THEN o.proxy.type ELSE o.proxy.type.members[k].type

Cells(p) == p.address .. p.address + p.size - 1

(* Element i of an array of n, and a part of it.                           *)
LEMMA BlockInside ==
    ASSUME NEW n \in Nat, NEW i \in 1 .. n, NEW size \in Nat, NEW offset \in Nat, NEW part \in Nat,
           offset + part <= size
    PROVE  /\ (i - 1) * size \in Nat
           /\ (i - 1) * size + offset \in Nat
           /\ (i - 1) * size + offset + part <= n * size
<1>1. i - 1 \in Nat /\ n - i \in Nat
  OBVIOUS
<1>2. (i - 1) * size \in Nat /\ (n - i) * size \in Nat /\ n * size \in Nat
  BY <1>1
<1>3. n * size = (i - 1) * size + size + (n - i) * size
  OBVIOUS
<1>. QED
  BY <1>2, <1>3

LEMMA BlocksApart ==
    ASSUME NEW i \in Nat, NEW j \in Nat, i < j, NEW size \in Nat
    PROVE  (i - 1) * size + size <= (j - 1) * size
<1>1. j - i - 1 \in Nat
  OBVIOUS
<1>2. (j - i - 1) * size \in Nat
  BY <1>1
<1>3. (j - 1) * size = (i - 1) * size + size + (j - i - 1) * size
  OBVIOUS
<1>. QED
  BY <1>2, <1>3

LEMMA IntervalInside ==
    ASSUME NEW a \in Nat, NEW x \in Nat, NEW n \in Nat, NEW y \in Nat, x + n <= y
    PROVE  (a + x) .. (a + x) + n - 1 \subseteq a .. a + y - 1
OBVIOUS

LEMMA OffsetInInterval ==
    ASSUME NEW a \in Nat, NEW n \in Nat, NEW b \in Nat, NEW size \in Nat \ {0},
           b .. b + size - 1 \subseteq a .. a + n - 1
    PROVE  b - a \in Nat /\ b = a + (b - a) /\ (b - a) + size <= n
<1>1. b \in b .. b + size - 1 /\ b + size - 1 \in b .. b + size - 1
  OBVIOUS
<1>2. b \in a .. a + n - 1 /\ b + size - 1 \in a .. a + n - 1
  BY <1>1
<1>. QED
  BY <1>2

LEMMA ProductOfPositives ==
    ASSUME NEW m \in Nat \ {0}, NEW n \in Nat \ {0}
    PROVE  m * n \in Nat \ {0}
OBVIOUS

LEMMA ObjectProperties ==
    ASSUME NEW o \in Objects
    PROVE  /\ o.proxy.address \in Nat
           /\ o.proxy.type.size \in Nat \ {0}
           /\ o.proxy.length \in Nat \ {0, 1}
           /\ DOMAIN o.items = 1 .. o.proxy.length
           /\ Len(o.items) = o.proxy.length
           /\ Sizeof(o.proxy) = o.proxy.length * o.proxy.type.size
           /\ Sizeof(o.proxy) \in Nat \ {0}
           /\ Region(o) \subseteq Addrs \cup DOMAIN Rom
           /\ o \in Variables => Region(o) \subseteq Addrs
           /\ o.proxy.type.kind \in {"int", "struct"}
<1>1. LaidOut(o)
  BY VarProxyAssumption
<1>2. /\ o.proxy.address \in Nat
      /\ o.proxy.type.size \in Nat \ {0}
      /\ o.proxy.length \in Nat \ {0, 1}
      /\ DOMAIN o.items = 1 .. o.proxy.length
      /\ Len(o.items) = o.proxy.length
  BY <1>1, Zenon DEF LaidOut
<1>3. Sizeof(o.proxy) = o.proxy.length * o.proxy.type.size
  BY <1>2 DEF Sizeof
<1>4. o.proxy.length * o.proxy.type.size \in Nat \ {0}
  BY ONLY <1>2, ProductOfPositives
<1>5. /\ Region(o) \subseteq Addrs \cup DOMAIN Rom
      /\ o \in Variables => Region(o) \subseteq Addrs
  <2>1. Linked(o) /\ (o \in Variables => o.proxy.data = None)
    BY <1>1, Zenon DEF LaidOut, Variables
  <2>. QED
    BY <2>1 DEF Linked
<1>6. o.proxy.type.kind \in {"int", "struct"}
  <2>1. IsArray(o) \/ IsStructs(o)
    BY <1>1, Zenon DEF LaidOut
  <2>. QED
    BY <2>1 DEF IsArray, IsStructs
<1>. QED
  BY <1>2, <1>3, <1>4, <1>5, <1>6

LEMMA KindsDiffer ==
    /\ "int" # "struct" /\ "int" # "pointer" /\ "int" # "array"
    /\ "struct" # "pointer" /\ "struct" # "array" /\ "pointer" # "array"
OBVIOUS

LEMMA PartProperties ==
    ASSUME NEW o \in Objects
    PROVE  /\ Parts(o) \in Nat
           /\ \A k \in 1 .. Parts(o) : 
                 /\ PartOffset(o, k) \in Nat
                 /\ PartType(o, k).size \in Nat \ {0}
                 /\ PartOffset(o, k) + PartType(o, k).size <= o.proxy.type.size
                 /\ \/ PartType(o, k).kind = "int" /\ PartType(o, k).signed \in BOOLEAN
                    \/ PartType(o, k).kind = "pointer" /\ PartType(o, k).size <= SizeofLong
           /\ \A k, l \in 1 .. Parts(o) : k < l =>
                 \/ PartOffset(o, k) + PartType(o, k).size <= PartOffset(o, l)
                 \/ PartOffset(o, l) + PartType(o, l).size <= PartOffset(o, k)
<1>1. LaidOut(o)
  BY VarProxyAssumption
<1>2. CASE o.proxy.type.kind = "int"
  <2>1. IsArray(o)
    BY <1>1, <1>2, KindsDiffer, Zenon DEF LaidOut, IsStructs
  <2>2. o.proxy.type.signed \in BOOLEAN /\ o.proxy.type.size \in Nat \ {0}
    BY <2>1, ObjectProperties DEF IsArray
  <2>3. Parts(o) = 1 /\ \A k : PartOffset(o, k) = 0 /\ PartType(o, k) = o.proxy.type
    BY <1>2, Zenon DEF Parts, PartOffset, PartType
  <2>. QED
    BY ONLY <1>2, <2>2, <2>3
<1>3. CASE o.proxy.type.kind # "int"
  <2>1. AreMembers(o.proxy.type.members, o.proxy.type.size)
    BY <1>1, <1>3, Zenon DEF LaidOut, IsArray, IsStructs
  <2>. QED
    BY <1>3, <2>1 DEF AreMembers, Parts, PartOffset, PartType
<1>. QED
  BY <1>2, <1>3

(* The place of a part of an element.                                      *)
LEMMA PlaceOfPart ==
    ASSUME NEW o \in Objects, NEW i \in DOMAIN o.items
    PROVE  /\ DOMAIN o.items[i] = 1 .. Parts(o)
           /\ Len(o.items[i]) = Parts(o)
           /\ \A k \in 1 .. Parts(o) :
                 o.items[i][k] = [address |-> o.proxy.address + (i - 1) * o.proxy.type.size + PartOffset(o, k),
                                  size |-> PartType(o, k).size,
                                  signed |-> PartType(o, k).kind = "int" /\ PartType(o, k).signed]
<1>1. LaidOut(o)
  BY VarProxyAssumption
<1>2. CASE o.proxy.type.kind = "int"
  <2>1. IsArray(o)
    BY <1>1, <1>2, KindsDiffer, Zenon DEF LaidOut, IsStructs
  <2>2. o.items[i] = <<[address |-> o.proxy.address + (i - 1) * o.proxy.type.size,
                        size |-> o.proxy.type.size,
                        signed |-> o.proxy.type.signed]>>
    BY <2>1 DEF IsArray
  <2>3. i \in Int /\ o.proxy.address \in Int /\ o.proxy.type.size \in Int
    BY ObjectProperties
  <2>4. (i - 1) * o.proxy.type.size \in Int
    BY <2>3
  <2>5. o.proxy.address + (i - 1) * o.proxy.type.size + 0 = o.proxy.address + (i - 1) * o.proxy.type.size
    BY <2>3, <2>4
  <2>6. o.proxy.type.signed \in BOOLEAN
    BY <2>1 DEF IsArray
  <2>7. (o.proxy.type.kind = "int" /\ o.proxy.type.signed) = o.proxy.type.signed
    BY ONLY <1>2, <2>6, Zenon
  <2>. QED
    BY <1>2, <2>2, <2>5, <2>7 DEF Parts, PartOffset, PartType
<1>3. CASE o.proxy.type.kind # "int"
  <2>1. IsStructs(o)
    BY <1>1, <1>3, Zenon DEF LaidOut, IsArray
  <2>2. /\ Len(o.proxy.type.members) \in Nat
        /\ DOMAIN o.proxy.type.members = 1 .. Len(o.proxy.type.members)
    BY <2>1, Zenon DEF IsStructs, AreMembers
  <2>3. o.items[i] = [k \in DOMAIN o.proxy.type.members |->
                [address |-> o.proxy.address + (i - 1) * o.proxy.type.size + o.proxy.type.members[k].offset,
                 size |-> o.proxy.type.members[k].type.size,
                 signed |-> o.proxy.type.members[k].type.kind = "int" /\ o.proxy.type.members[k].type.signed]]
    BY <2>1, Zenon DEF IsStructs
  <2>4. DOMAIN o.items[i] = 1 .. Len(o.proxy.type.members)
    BY <2>2, <2>3
  <2>5. Len(o.items[i]) = Len(o.proxy.type.members)
    BY <2>2, <2>4
  <2>. QED
    BY <1>3, <2>2, <2>3, <2>4, <2>5, Zenon DEF Parts, PartOffset, PartType
<1>. QED
  BY <1>2, <1>3

-----------------------------------------------------------------------------
(* Places.                                                                 *)

LEMMA PlaceProperties ==
    ASSUME NEW o \in Objects, NEW i \in 1 .. o.proxy.length, NEW k \in 1 .. Parts(o)
    PROVE  /\ o.items[i][k] \in Places
           /\ o.items[i][k].address = o.proxy.address + (i - 1) * o.proxy.type.size + PartOffset(o, k)
           /\ o.items[i][k].size = PartType(o, k).size
           /\ o.items[i][k].signed = (PartType(o, k).kind = "int" /\ PartType(o, k).signed)
           /\ o.items[i][k].address \in Nat
           /\ o.items[i][k].size \in Nat \ {0}
           /\ o.items[i][k].signed \in BOOLEAN
           /\ Cells(o.items[i][k]) \subseteq Region(o)
<1>. DEFINE p == o.items[i][k]
<1>1. i \in DOMAIN o.items
  BY ObjectProperties
<1>2. k \in DOMAIN o.items[i]
  BY <1>1, PlaceOfPart
<1>3. p \in Places
  <2>1. p \in Range(o.items[i])
    BY <1>2 DEF Range
  <2>2. p \in UNION {Range(o.items[j]) : j \in DOMAIN o.items}
    BY <1>1, <2>1
  <2>. HIDE DEF p
  <2>. QED
    BY <2>2 DEF Places
<1>4. /\ p.address = o.proxy.address + (i - 1) * o.proxy.type.size + PartOffset(o, k)
      /\ p.size = PartType(o, k).size
      /\ p.signed = (PartType(o, k).kind = "int" /\ PartType(o, k).signed)
  <2>1. p = [address |-> o.proxy.address + (i - 1) * o.proxy.type.size + PartOffset(o, k),
             size |-> PartType(o, k).size,
             signed |-> PartType(o, k).kind = "int" /\ PartType(o, k).signed]
    BY <1>1, PlaceOfPart, Zenon
  <2>. HIDE DEF p
  <2>. QED
    BY ONLY <2>1, Zenon
<1>5. /\ PartOffset(o, k) \in Nat
      /\ PartType(o, k).size \in Nat \ {0}
      /\ PartOffset(o, k) + PartType(o, k).size <= o.proxy.type.size
      /\ \/ PartType(o, k).kind = "int" /\ PartType(o, k).signed \in BOOLEAN
         \/ PartType(o, k).kind = "pointer"
  BY PartProperties
<1>6. p.signed \in BOOLEAN
  BY ONLY <1>4, <1>5, KindsDiffer, Zenon
<1>7. /\ o.proxy.address \in Nat /\ o.proxy.type.size \in Nat \ {0} /\ o.proxy.length \in Nat
      /\ Sizeof(o.proxy) = o.proxy.length * o.proxy.type.size
  BY ObjectProperties
<1>8. /\ (i - 1) * o.proxy.type.size + PartOffset(o, k) \in Nat
      /\ (i - 1) * o.proxy.type.size \in Nat
      /\ (i - 1) * o.proxy.type.size + PartOffset(o, k) + PartType(o, k).size
            <= o.proxy.length * o.proxy.type.size
  BY ONLY <1>5, <1>7, BlockInside
<1>9. o.proxy.length * o.proxy.type.size \in Nat
  BY ONLY <1>7
<1>. DEFINE a == o.proxy.address
            x == (i - 1) * o.proxy.type.size
            y == PartOffset(o, k)
            s == PartType(o, k).size
            n == o.proxy.length * o.proxy.type.size
<1>10. /\ a \in Nat /\ x \in Nat /\ y \in Nat /\ s \in Nat \ {0} /\ n \in Nat
       /\ x + y + s <= n
       /\ p.address = a + x + y /\ p.size = s
  BY <1>4, <1>5, <1>7, <1>8, <1>9
<1>11. Region(o) = a .. a + n - 1
  BY <1>7 DEF Region
<1>. HIDE DEF a, x, y, s, n, p
<1>12. p.address \in Nat /\ p.size \in Nat \ {0}
  BY <1>10
<1>13. Cells(p) \subseteq Region(o)
  BY <1>10, <1>11 DEF Cells
<1>. QED
  BY <1>3, <1>4, <1>6, <1>12, <1>13 DEF p

LEMMA PlacesAreParts ==
    ASSUME NEW p \in Places
    PROVE  \E o \in Objects : \E i \in 1 .. o.proxy.length : \E k \in 1 .. Parts(o) : p = o.items[i][k]
<1>1. PICK o \in Objects : \E i \in DOMAIN o.items : \E k \in DOMAIN o.items[i] : p = o.items[i][k]
  <2>1. PICK o \in Objects : p \in UNION {Range(o.items[i]) : i \in DOMAIN o.items}
    BY DEF Places
  <2>2. PICK i \in DOMAIN o.items : p \in Range(o.items[i])
    BY <2>1
  <2>. QED
    BY <2>2, Zenon DEF Range
<1>2. PICK i \in DOMAIN o.items : \E k \in DOMAIN o.items[i] : p = o.items[i][k]
  BY <1>1
<1>3. i \in 1 .. o.proxy.length /\ DOMAIN o.items[i] = 1 .. Parts(o)
  BY <1>2, ObjectProperties, PlaceOfPart
<1>. QED
  BY <1>2, <1>3

(* No part lies over another.                                              *)
LEMMA PartsApart ==
    ASSUME NEW o \in Objects, NEW i \in 1 .. o.proxy.length, NEW k \in 1 .. Parts(o),
           NEW q \in Objects, NEW j \in 1 .. q.proxy.length, NEW l \in 1 .. Parts(q),
           ~ (o = q /\ i = j /\ k = l)
    PROVE  Cells(o.items[i][k]) \cap Cells(q.items[j][l]) = {}
<1>1. CASE o # q
  <2>1. Region(o) \cap Region(q) = {}
    BY <1>1, VarProxyAssumption
  <2>2. Cells(o.items[i][k]) \subseteq Region(o) /\ Cells(q.items[j][l]) \subseteq Region(q)
    BY PlaceProperties
  <2>. QED
    BY <2>1, <2>2
<1>2. ASSUME NEW a \in 1 .. o.proxy.length, NEW b \in 1 .. o.proxy.length,
             NEW c \in 1 .. Parts(o), NEW d \in 1 .. Parts(o),
             a < b \/ (a = b /\ c < d)
      PROVE  Cells(o.items[a][c]) \cap Cells(o.items[b][d]) = {}
  <2>. DEFINE p == o.items[a][c]
              r == o.items[b][d]
              base == o.proxy.address
              size == o.proxy.type.size
              x == (a - 1) * size
              y == (b - 1) * size
  <2>1. /\ p.address = base + x + PartOffset(o, c) /\ p.size = PartType(o, c).size
        /\ r.address = base + y + PartOffset(o, d) /\ r.size = PartType(o, d).size
    BY PlaceProperties
  <2>2. base \in Nat /\ size \in Nat \ {0} /\ o.proxy.length \in Nat
    BY ObjectProperties
  <2>3. /\ PartOffset(o, c) \in Nat /\ PartType(o, c).size \in Nat \ {0}
        /\ PartOffset(o, d) \in Nat /\ PartType(o, d).size \in Nat \ {0}
        /\ PartOffset(o, c) + PartType(o, c).size <= size
    BY PartProperties
  <2>4. x \in Nat /\ y \in Nat
    BY ONLY <2>2
  <2>. HIDE DEF p, r, base
  <2>5. CASE a < b
    <3>1. a \in Nat /\ b \in Nat /\ size \in Nat
      BY <2>2
    <3>. HIDE DEF size
    <3>2. x + size <= y
      BY ONLY <3>1, <2>5, BlocksApart
    <3>. HIDE DEF x, y
    <3>3. p.address + p.size <= r.address /\ p.address \in Nat /\ p.size \in Nat /\ r.address \in Nat /\ r.size \in Nat
      BY <2>1, <2>2, <2>3, <2>4, <3>1, <3>2
    <3>. QED
      BY <3>3 DEF Cells, p, r
  <2>6. CASE a = b /\ c < d
    <3>1. x = y
      BY <2>6
    <3>2. \/ PartOffset(o, c) + PartType(o, c).size <= PartOffset(o, d)
          \/ PartOffset(o, d) + PartType(o, d).size <= PartOffset(o, c)
      BY <2>6, PartProperties
    <3>. HIDE DEF x, y, size
    <3>3. /\ p.address + p.size <= r.address \/ r.address + r.size <= p.address
          /\ p.address \in Nat /\ p.size \in Nat /\ r.address \in Nat /\ r.size \in Nat
      BY <2>1, <2>2, <2>3, <2>4, <3>1, <3>2
    <3>. QED
      BY <3>3 DEF Cells, p, r
  <2>. QED
    BY <1>2, <2>5, <2>6
<1>3. CASE o = q
  <2>1. \/ i < j \/ (i = j /\ k < l)
        \/ j < i \/ (j = i /\ l < k)
    BY <1>3, ObjectProperties, PartProperties
  <2>. QED
    BY <1>2, <1>3, <2>1
<1>. QED
  BY <1>1, <1>3

LEMMA PlacesProperties ==
    ASSUME NEW p \in Places
    PROVE  /\ p.address \in Nat /\ p.size \in Nat \ {0} /\ p.signed \in BOOLEAN
           /\ Cells(p) \subseteq Addrs \cup DOMAIN Rom
           /\ Modulus[p] = Power[p.size]
           /\ Modulus[p] \in Nat \ {0}
           /\ Modulus[p] = 2 * (Modulus[p] \div 2) /\ Modulus[p] \div 2 \in Nat \ {0}
<1>1. \E o \in Objects : \E i \in 1 .. o.proxy.length : \E k \in 1 .. Parts(o) : p = o.items[i][k]
  BY PlacesAreParts
<1>. PICK o \in Objects : \E i \in 1 .. o.proxy.length : \E k \in 1 .. Parts(o) : p = o.items[i][k]
  BY <1>1
<1>. PICK i \in 1 .. o.proxy.length, k \in 1 .. Parts(o) : p = o.items[i][k]
  OBVIOUS
<1>2. /\ p.address \in Nat /\ p.size \in Nat \ {0} /\ p.signed \in BOOLEAN
      /\ Cells(p) \subseteq Region(o)
  BY <1>1, PlaceProperties
<1>3. Region(o) \subseteq Addrs \cup DOMAIN Rom
  BY ObjectProperties
<1>4. Modulus[p] = Power[p.size]
  BY DEF Modulus
<1>5. /\ Power[p.size] \in Nat \ {0}
      /\ Power[p.size] = 2 * (Power[p.size] \div 2) /\ Power[p.size] \div 2 \in Nat \ {0}
  <2>1. p.size \in Nat /\ p.size # 0
    BY <1>2
  <2>. QED
    BY ONLY <2>1, PowerProperties
<1>. QED
  BY <1>2, <1>3, <1>4, <1>5

LEMMA PlacesApart ==
    ASSUME NEW p \in Places, NEW q \in Places, p # q
    PROVE  Cells(p) \cap Cells(q) = {}
<1>1. \E o \in Objects : \E i \in 1 .. o.proxy.length : \E k \in 1 .. Parts(o) : p = o.items[i][k]
  BY PlacesAreParts
<1>. PICK o \in Objects : \E i \in 1 .. o.proxy.length : \E k \in 1 .. Parts(o) : p = o.items[i][k]
  BY <1>1
<1>. PICK i \in 1 .. o.proxy.length, k \in 1 .. Parts(o) : p = o.items[i][k]
  OBVIOUS
<1>2. \E r \in Objects : \E j \in 1 .. r.proxy.length : \E l \in 1 .. Parts(r) : q = r.items[j][l]
  BY PlacesAreParts
<1>. PICK r \in Objects : \E j \in 1 .. r.proxy.length : \E l \in 1 .. Parts(r) : q = r.items[j][l]
  BY <1>2
<1>. PICK j \in 1 .. r.proxy.length, l \in 1 .. Parts(r) : q = r.items[j][l]
  OBVIOUS
<1>3. ~ (o = r /\ i = j /\ k = l)
  OBVIOUS
<1>4. Cells(o.items[i][k]) \cap Cells(r.items[j][l]) = {}
  BY ONLY <1>3, PartsApart, Zenon
<1>. QED
  BY <1>4

-----------------------------------------------------------------------------
(* The number in the bytes of a place.                                     *)

Representable(p) == Typed!Representable(p)
Converted(p, v) == Typed!Converted(p, v)

Decoded(p, bytes) ==
    IF p.signed /\ FromBytes(bytes) >= Modulus[p] \div 2
    THEN FromBytes(bytes) - Modulus[p]
    ELSE FromBytes(bytes)

(* Converted is the only number to represent v.                            *)
LEMMA Conversion ==
    ASSUME NEW p \in Places, NEW v \in Int, NEW w \in Representable(p), (v - w) % Modulus[p] = 0
    PROVE  Converted(p, v) = w
<1>. DEFINE M == Modulus[p]
            h == M \div 2
<1>1. M \in Nat \ {0} /\ h \in Nat \ {0} /\ M = 2 * h /\ p.signed \in BOOLEAN
  BY PlacesProperties
<1>2. Representable(p) = IF p.signed THEN -h .. h - 1 ELSE 0 .. M - 1
  BY DEF Representable, Typed!Representable
<1>3. Converted(p, v) = CHOOSE x \in Representable(p) : (v - x) % M = 0
  BY DEF Converted, Typed!Converted, Representable
<1>. HIDE DEF M, h
<1>4. \A x \in Representable(p) : x \in Int
  BY <1>1, <1>2
<1>5. ASSUME NEW x \in Representable(p), (v - x) % M = 0
      PROVE  x = w
  <2>1. x \in Int /\ w \in Int
    BY <1>4
  <2>2. v % M = x % M /\ v % M = w % M
    BY <1>1, <1>5, <2>1, Congruence DEF M
  <2>3. x - w < M /\ w - x < M
    BY <1>1, <1>2, <2>1
  <2>. QED
    BY <1>1, <2>1, <2>2, <2>3, ResiduesDiffer
<1>6. (v - w) % M = 0
  BY DEF M
<1>. QED
  BY <1>3, <1>5, <1>6

LEMMA DecodedProperties ==
    ASSUME NEW p \in Places, NEW bytes \in [1 .. p.size -> Bytes]
    PROVE  /\ Decoded(p, bytes) \in Representable(p)
           /\ Decoded(p, bytes) \in Int
           /\ Decoded(p, bytes) % Modulus[p] = FromBytes(bytes)
           /\ FromBytes(bytes) \in 0 .. Modulus[p] - 1
<1>. DEFINE M == Modulus[p]
            h == M \div 2
            n == FromBytes(bytes)
            d == Decoded(p, bytes)
<1>1. /\ M \in Nat \ {0} /\ h \in Nat \ {0} /\ M = 2 * h /\ p.signed \in BOOLEAN
      /\ M = Power[p.size] /\ p.size \in Nat
  BY PlacesProperties
<1>2. Representable(p) = IF p.signed THEN -h .. h - 1 ELSE 0 .. M - 1
  BY DEF Representable, Typed!Representable
<1>3. n \in 0 .. M - 1
  BY <1>1, FromBytesProperties
<1>4. d = IF p.signed /\ n >= h THEN n - M ELSE n
  BY DEF Decoded
<1>. HIDE DEF M, h, n, d
<1>5. d \in Representable(p) /\ d \in Int
  BY <1>1, <1>2, <1>3, <1>4
<1>6. d % M = n
  <2>1. n % M = n
    BY <1>1, <1>3, SmallDivision
  <2>2. CASE d = n
    BY <2>1, <2>2
  <2>3. CASE d = n - M
    <3>1. n \in Int /\ -1 \in Int
      BY <1>1, <1>3
    <3>2. (n + M * (-1)) % M = n % M
      BY ONLY <1>1, <3>1, Shifted
    <3>3. n + M * (-1) = n - M
      BY <1>1, <3>1
    <3>. QED
      BY <2>1, <2>3, <3>2, <3>3
  <2>. QED
    BY <1>4, <2>2, <2>3
<1>. QED
  BY <1>3, <1>5, <1>6 DEF M, n, d

(* Bytes with the remainder of v are those of v, converted.                *)
LEMMA DecodedIsConverted ==
    ASSUME NEW p \in Places, NEW bytes \in [1 .. p.size -> Bytes], NEW v \in Int,
           v % Modulus[p] = FromBytes(bytes)
    PROVE  Decoded(p, bytes) = Converted(p, v)
<1>1. /\ Decoded(p, bytes) \in Representable(p)
      /\ Decoded(p, bytes) \in Int
      /\ Decoded(p, bytes) % Modulus[p] = v % Modulus[p]
  BY DecodedProperties
<1>2. Modulus[p] \in Nat \ {0}
  BY PlacesProperties
<1>3. (v - Decoded(p, bytes)) % Modulus[p] = 0
  BY <1>1, <1>2, Congruence
<1>. QED
  BY <1>1, <1>3, Conversion

LEMMA DecodedToBytes ==
    ASSUME NEW p \in Places, NEW v \in Int
    PROVE  Decoded(p, ToBytes(v, p.size)) = Converted(p, v)
<1>1. p.size \in Nat /\ Modulus[p] = Power[p.size]
  BY PlacesProperties
<1>2. ToBytes(v, p.size) \in [1 .. p.size -> Bytes]
  BY <1>1, ToBytesProperties
<1>3. FromBytes(ToBytes(v, p.size)) = v % Modulus[p]
  BY <1>1, FromToBytes
<1>. QED
  BY <1>2, <1>3, DecodedIsConverted

-----------------------------------------------------------------------------
(* Memory.                                                                 *)

Memories == {m \in [Addrs \cup DOMAIN Rom -> Bytes] : \A a \in DOMAIN Rom : m[a] = Rom[a]}

LEMMA SliceProperties ==
    ASSUME NEW m \in Memories, NEW a \in Nat, NEW n \in Nat,
           a .. a + n - 1 \subseteq Addrs \cup DOMAIN Rom
    PROVE  Slice(m, a, n) \in [1 .. n -> Bytes]
<1>1. \A k \in 1 .. n : a + k - 1 \in a .. a + n - 1
  OBVIOUS
<1>2. \A k \in 1 .. n : m[a + k - 1] \in Bytes
  BY <1>1 DEF Memories
<1>. QED
  BY <1>2 DEF Slice

LEMMA ValueProperties ==
    ASSUME NEW m \in Memories, NEW p \in Places
    PROVE  /\ Slice(m, p.address, p.size) \in [1 .. p.size -> Bytes]
           /\ Value(p, m) = Decoded(p, Slice(m, p.address, p.size))
           /\ Value(p, m) \in Representable(p)
           /\ Value(p, m) \in Int
           /\ Value(p, m) % Modulus[p] = FromBytes(Slice(m, p.address, p.size))
           /\ FromBytes(Slice(m, p.address, p.size)) \in 0 .. Modulus[p] - 1
<1>1. p.address \in Nat /\ p.size \in Nat /\ p.address .. p.address + p.size - 1 \subseteq Addrs \cup DOMAIN Rom
  BY PlacesProperties DEF Cells
<1>2. Slice(m, p.address, p.size) \in [1 .. p.size -> Bytes]
  BY <1>1, SliceProperties
<1>3. Value(p, m) = Decoded(p, Slice(m, p.address, p.size))
  <2>. DEFINE n == p.size
              bytes == Slice(m, p.address, n)
              d == Decoded(p, bytes)
              At(k) == p.address + (IF Endian = "big" THEN n - 1 - k ELSE k)
              Has(v) == \A k \in 0 .. n - 1 : m[At(k)] = Digit(v, k)
  <2>1. /\ d \in Representable(p) /\ d \in Int
        /\ d % Modulus[p] = FromBytes(bytes) /\ FromBytes(bytes) \in 0 .. Modulus[p] - 1
    BY <1>2, DecodedProperties
  <2>2. /\ Modulus[p] = Power[n] /\ Modulus[p] \in Nat \ {0}
        /\ Modulus[p] = 2 * (Modulus[p] \div 2) /\ Modulus[p] \div 2 \in Nat \ {0}
    BY PlacesProperties
  <2>3. Value(p, m) = CHOOSE v \in Representable(p) : Has(v)
    BY Zenon DEF Value, Representable, Typed!Representable
  <2>. HIDE DEF d
  <2>4. Has(d)
    <3>1. FromBytes(bytes) \in Int /\ FromBytes(bytes) % Power[n] = FromBytes(bytes)
      BY <2>1, <2>2, SmallDivision
    <3>2. ToBytes(d, n) = ToBytes(FromBytes(bytes), n)
      BY ONLY <1>1, <2>1, <2>2, <3>1, BytesDetermine
    <3>3. ToBytes(d, n) = bytes
      BY <1>1, <1>2, <3>2, FromBytesProperties
    <3>. HIDE DEF n
    <3>. SUFFICES ASSUME NEW k \in 0 .. n - 1 PROVE m[At(k)] = Digit(d, k)
      OBVIOUS
    <3>. DEFINE x == IF Endian = "big" THEN n - k ELSE k + 1
    <3>4. /\ x \in 1 .. n /\ p.address + x - 1 = At(k)
          /\ (IF Endian = "big" THEN n - x ELSE x - 1) = k
      BY ONLY <1>1, k \in 0 .. n - 1 DEF n
    <3>. HIDE DEF x, At
    <3>5. bytes[x] = m[At(k)]
      BY <3>4 DEF Slice
    <3>. HIDE DEF bytes
    <3>6. ToBytes(d, n)[x] = Digit(d, k)
      BY <3>4 DEF ToBytes
    <3>. QED
      BY <3>3, <3>5, <3>6
  <2>5. ASSUME NEW v \in Representable(p), Has(v) PROVE v = d
    <3>1. v \in Int
      BY <2>2 DEF Representable, Typed!Representable
    <3>2. \A k \in 0 .. n - 1 : Digit(v, k) = Digit(d, k)
      BY <2>4, <2>5
    <3>3. v % Power[n] = d % Power[n]
      BY <1>1, <2>1, <3>1, <3>2, DigitsDetermine
    <3>4. v - d < Modulus[p] /\ d - v < Modulus[p]
      BY <2>1, <2>2 DEF Representable, Typed!Representable
    <3>. HIDE DEF n
    <3>. QED
      BY <2>1, <2>2, <3>1, <3>3, <3>4, ResiduesDiffer
  <2>. HIDE DEF Has
  <2>. QED
    BY <2>1, <2>3, <2>4, <2>5 DEF d
<1>. QED
  BY <1>2, <1>3, DecodedProperties

(* n bytes for the cells of variables.                                     *)
Writable(m, a, n, bytes) ==
    /\ m \in Memories
    /\ a \in Nat /\ n \in Nat /\ a .. a + n - 1 \subseteq Addrs
    /\ bytes \in [1 .. n -> Bytes]

(* A place beside n cells from a, and one in them.                         *)
Beside(p, a, n) == Cells(p) \cap (a .. a + n - 1) = {}

Within(p, a, n, offset) == offset \in Nat /\ p.address = a + offset /\ offset + p.size <= n

Part(bytes, offset, n) == [k \in 1 .. n |-> bytes[offset + k]]

LEMMA WrittenProperties ==
    ASSUME NEW m, NEW a, NEW n, NEW bytes, Writable(m, a, n, bytes)
    PROVE  /\ Written(m, a, bytes) \in Memories
           /\ \A x \in a .. a + n - 1 : Written(m, a, bytes)[x] = bytes[x - a + 1]
           /\ \A x \in (Addrs \cup DOMAIN Rom) \ (a .. a + n - 1) : Written(m, a, bytes)[x] = m[x]
<1>. USE DEF Writable
<1>1. Len(bytes) = n
  OBVIOUS
<1>2. DOMAIN m = Addrs \cup DOMAIN Rom
  BY DEF Memories
<1>3. Written(m, a, bytes) =
          [x \in Addrs \cup DOMAIN Rom |-> IF x \in a .. a + n - 1 THEN bytes[x - a + 1] ELSE m[x]]
  BY <1>1, <1>2 DEF Written
<1>4. \A x \in a .. a + n - 1 : x - a + 1 \in 1 .. n
  OBVIOUS
<1>5. \A x \in a .. a + n - 1 : Written(m, a, bytes)[x] = bytes[x - a + 1]
  BY <1>3
<1>6. \A x \in (Addrs \cup DOMAIN Rom) \ (a .. a + n - 1) : Written(m, a, bytes)[x] = m[x]
  BY <1>3
<1>7. Written(m, a, bytes) \in [Addrs \cup DOMAIN Rom -> Bytes]
  BY <1>3, <1>4 DEF Memories
<1>8. \A x \in DOMAIN Rom : Written(m, a, bytes)[x] = Rom[x]
  BY <1>6, VarProxyAssumption DEF Memories
<1>9. Written(m, a, bytes) \in Memories
  BY <1>7, <1>8 DEF Memories
<1>. QED
  BY <1>5, <1>6, <1>9

(* A write changes no place outside of it.                                 *)
LEMMA ValueElsewhere ==
    ASSUME NEW m, NEW a, NEW n, NEW bytes, Writable(m, a, n, bytes),
           NEW p \in Places, Beside(p, a, n)
    PROVE  Value(p, Written(m, a, bytes)) = Value(p, m)
<1>1. p.address \in Nat /\ p.size \in Nat /\ Cells(p) \subseteq Addrs \cup DOMAIN Rom
  BY PlacesProperties
<1>2. \A k \in 1 .. p.size : p.address + k - 1 \in Cells(p)
  BY <1>1 DEF Cells
<1>3. \A k \in 1 .. p.size : Written(m, a, bytes)[p.address + k - 1] = m[p.address + k - 1]
  <2>1. \A x \in (Addrs \cup DOMAIN Rom) \ (a .. a + n - 1) : Written(m, a, bytes)[x] = m[x]
    BY WrittenProperties
  <2>. QED
    BY <1>1, <1>2, <2>1 DEF Beside
<1>4. Slice(Written(m, a, bytes), p.address, p.size) = Slice(m, p.address, p.size)
  BY <1>3 DEF Slice
<1>. QED
  BY <1>4, WrittenProperties, ValueProperties DEF Writable

(* A place in a write has its bytes.                                       *)
LEMMA ValueWithin ==
    ASSUME NEW m, NEW a, NEW n, NEW bytes, Writable(m, a, n, bytes),
           NEW p \in Places, NEW offset, Within(p, a, n, offset)
    PROVE  Value(p, Written(m, a, bytes)) = Decoded(p, Part(bytes, offset, p.size))
<1>1. /\ p.address \in Nat /\ p.size \in Nat /\ a \in Nat /\ n \in Nat
      /\ offset \in Nat /\ p.address = a + offset /\ offset + p.size <= n
  BY PlacesProperties DEF Writable, Within
<1>2. ASSUME NEW k \in 1 .. p.size
      PROVE  Written(m, a, bytes)[p.address + k - 1] = bytes[offset + k]
  <2>. DEFINE x == p.address + k - 1
  <2>1. x \in a .. a + n - 1 /\ x - a + 1 = offset + k
    BY <1>1
  <2>. HIDE DEF x
  <2>2. Written(m, a, bytes)[x] = bytes[x - a + 1]
    BY <2>1, WrittenProperties
  <2>. QED
    BY <2>1, <2>2 DEF x
<1>3. Slice(Written(m, a, bytes), p.address, p.size) = Part(bytes, offset, p.size)
  BY <1>2 DEF Slice, Part
<1>. QED
  BY <1>3, WrittenProperties, ValueProperties

-----------------------------------------------------------------------------
(* Assigning a number.                                                     *)

(* A proxy of the integer or pointer at a place.                           *)
StandsFor(x, p) == x.address = p.address /\ x.type.size = p.size

(* m is as before but for p, which has v.                                  *)
Stored(p, v, before, m) ==
    /\ m \in Memories
    /\ Value(p, m) = Converted(p, v)
    /\ \A q \in Places \ {p} : Value(q, m) = Value(q, before)

(* What a write returns.                                                   *)
Writings == [memory : Memories, raised : BOOLEAN]

LEMMA ConvertedRemainder ==
    ASSUME NEW p \in Places, NEW u \in Int, NEW v \in Int, u % Modulus[p] = v % Modulus[p]
    PROVE  Converted(p, u) = Converted(p, v)
<1>1. p.size \in Nat /\ Modulus[p] = Power[p.size]
  BY PlacesProperties
<1>2. ToBytes(u, p.size) \in [1 .. p.size -> Bytes]
  BY <1>1, ToBytesProperties
<1>3. FromBytes(ToBytes(u, p.size)) = v % Modulus[p]
  BY <1>1, FromToBytes
<1>. QED
  BY <1>2, <1>3, DecodedIsConverted, DecodedToBytes

LEMMA NumberIsStored ==
    ASSUME NEW m \in Memories, NEW p \in Places, Cells(p) \subseteq Addrs,
           NEW x, StandsFor(x, p), NEW v \in Int
    PROVE  /\ SetNumber(x, v, m) \in Writings
           /\ Typed!Fits(p, v) => /\ SetNumber(x, v, m).raised = FALSE
                                  /\ Stored(p, v, m, SetNumber(x, v, m).memory)
           /\ ~ Typed!Fits(p, v) => SetNumber(x, v, m) = [memory |-> m, raised |-> TRUE]
<1>. DEFINE M == Modulus[p]
            u == IF v < 0 THEN M + v ELSE v
            n == p.size
            bytes == ToBytes(u, n)
<1>1. /\ M \in Nat \ {0} /\ M = Power[n] /\ n \in Nat
      /\ p.address \in Nat /\ p.address .. p.address + n - 1 \subseteq Addrs
  BY PlacesProperties DEF Cells
<1>2. x.address = p.address /\ x.type.size = n
  BY DEF StandsFor
<1>3. SetNumber(x, v, m) = IF u \in 0 .. M - 1
                           THEN [memory |-> Written(m, p.address, bytes), raised |-> FALSE]
                           ELSE [memory |-> m, raised |-> TRUE]
  <2>1. Power[x.type.size] = M
    BY <1>1, <1>2
  <2>. HIDE DEF M, n
  <2>. QED
    BY <1>2, <2>1, Zenon DEF SetNumber, Encodable, Wrote, Failed
<1>. HIDE DEF M
<1>4. u \in Int /\ (u \in 0 .. M - 1 <=> v \in -M .. M - 1)
  BY <1>1
<1>5. Typed!Fits(p, v) <=> v \in -M .. M - 1
  BY DEF Typed!Fits, M
<1>6. u % M = v % M
  <2>1. 1 \in Int /\ (v + M * 1) % M = v % M
    BY ONLY v \in Int, 1 \in Int, <1>1, Shifted, Zenon
  <2>2. v + M * 1 = M + v
    BY <1>1
  <2>. QED
    BY <2>1, <2>2
<1>. HIDE DEF u
<1>7. bytes \in [1 .. n -> Bytes]
  BY <1>1, <1>4, ToBytesProperties
<1>. HIDE DEF bytes, n
<1>8. Writable(m, p.address, n, bytes)
  BY <1>1, <1>7 DEF Writable
<1>9. Value(p, Written(m, p.address, bytes)) = Converted(p, v)
  <2>1. Converted(p, u) = Converted(p, v)
    BY <1>4, <1>6, ConvertedRemainder DEF M
  <2>2. Decoded(p, bytes) = Converted(p, u)
    BY <1>4, DecodedToBytes DEF bytes, n
  <2>3. Value(p, Written(m, p.address, bytes)) = Decoded(p, Part(bytes, 0, p.size))
    <3>1. Within(p, p.address, n, 0)
      BY <1>1 DEF n, Within
    <3>. QED
      BY ONLY <1>8, <3>1, ValueWithin
  <2>4. Part(bytes, 0, p.size) = bytes
    BY <1>1, <1>7 DEF n, Part
  <2>. QED
    BY <2>1, <2>2, <2>3, <2>4
<1>10. Written(m, p.address, bytes) \in Memories
  BY <1>8, WrittenProperties
<1>11. \A q \in Places \ {p} : Value(q, Written(m, p.address, bytes)) = Value(q, m)
  <2>. SUFFICES ASSUME NEW q \in Places, q # p
                PROVE  Value(q, Written(m, p.address, bytes)) = Value(q, m)
    OBVIOUS
  <2>1. Beside(q, p.address, n)
    BY PlacesApart DEF Cells, Beside, n
  <2>. QED
    BY ONLY <1>8, <2>1, ValueElsewhere
<1>12. Stored(p, v, m, Written(m, p.address, bytes))
  BY <1>9, <1>10, <1>11, Zenon DEF Stored
<1>13. CASE Typed!Fits(p, v)
  <2>1. SetNumber(x, v, m) = [memory |-> Written(m, p.address, bytes), raised |-> FALSE]
    BY <1>3, <1>4, <1>5, <1>13, Zenon
  <2>2. /\ SetNumber(x, v, m).raised = FALSE
        /\ SetNumber(x, v, m).memory = Written(m, p.address, bytes)
    BY ONLY <2>1
  <2>3. SetNumber(x, v, m) \in Writings
    BY ONLY <1>10, <2>1 DEF Writings
  <2>. QED
    BY <1>12, <1>13, <2>2, <2>3, Zenon
<1>14. CASE ~ Typed!Fits(p, v)
  <2>1. SetNumber(x, v, m) = [memory |-> m, raised |-> TRUE]
    BY <1>3, <1>4, <1>5, <1>14, Zenon
  <2>2. SetNumber(x, v, m) \in Writings
    BY ONLY m \in Memories, <2>1 DEF Writings
  <2>. QED
    BY <1>14, <2>1, <2>2, Zenon
<1>. QED
  BY <1>13, <1>14, Zenon

-----------------------------------------------------------------------------
(* Assigning numbers in turn.                                              *)

(* Distinct places of variables and the proxies for them.                  *)
Assignable(proxies, places, n) ==
    /\ \A k \in 1 .. n : /\ places[k] \in Places
                         /\ Cells(places[k]) \subseteq Addrs
                         /\ StandsFor(proxies[k], places[k])
    /\ \A k, l \in 1 .. n : places[k] = places[l] => k = l

(* m is as before but for the first c places, which have their values.     *)
StoredFirst(places, values, c, before, m) ==
    /\ m \in Memories
    /\ \A k \in 1 .. c : Value(places[k], m) = Converted(places[k], values[k])
    /\ \A p \in Places : (\A k \in 1 .. c : places[k] # p) => Value(p, m) = Value(p, before)

(* The first c of n values fit, and no more.                               *)
FirstFit(places, values, c, n) ==
    /\ c \in 0 .. n
    /\ \A k \in 1 .. c : Typed!Fits(places[k], values[k])
    /\ c < n => ~ Typed!Fits(places[c + 1], values[c + 1])

LEMMA InTurnIsRecursive ==
    ASSUME NEW m \in Memories, NEW n \in Nat, NEW values \in [1 .. n -> Int],
           NEW proxies, NEW places, Assignable(proxies, places, n)
    PROVE  \E g : /\ g[0] = [memory |-> m, raised |-> FALSE]
                  /\ \A k \in 1 .. n :
                        g[k] = IF g[k - 1].raised THEN g[k - 1]
                               ELSE SetNumber(proxies[k], values[k], g[k - 1].memory)
                  /\ g[n] = InTurn(proxies, values, m)
<1>. DEFINE start == [memory |-> m, raised |-> FALSE]
            Then(k, w) == IF w.raised THEN w ELSE SetNumber(proxies[k], values[k], w.memory)
            F == [k \in Nat |-> [w \in Writings |-> IF k \in 1 .. n THEN Then(k, w) ELSE w]]
            Step(f) == f = [k \in 0 .. n |-> IF k = 0 THEN start ELSE Then(k, f[k - 1])]
<1>1. start \in Writings
  BY DEF Writings
<1>2. ASSUME NEW k \in 1 .. n, NEW w \in Writings PROVE Then(k, w) \in Writings
  <2>1. w.memory \in Memories /\ w.raised \in BOOLEAN
    BY DEF Writings
  <2>2. /\ places[k] \in Places /\ Cells(places[k]) \subseteq Addrs
        /\ StandsFor(proxies[k], places[k]) /\ values[k] \in Int
    BY DEF Assignable
  <2>3. SetNumber(proxies[k], values[k], w.memory) \in Writings
    BY ONLY <2>1, <2>2, NumberIsStored
  <2>. QED
    BY <2>3
<1>. HIDE DEF Then, start
<1>3. F \in [Nat -> [Writings -> Writings]]
  BY <1>2
<1>4. \E f : Approximates(f, n, Writings, start, F)
  <2>. HIDE DEF F
  <2>. QED
    BY <1>1, <1>3, Approximation, Zenon
<1>5. PICK f : Approximates(f, n, Writings, start, F)
  BY <1>4
<1>6. Step(f)
  <2>1. f = [k \in 0 .. n |-> f[k]]
    BY <1>5 DEF Approximates
  <2>2. ASSUME NEW k \in 0 .. n
        PROVE  f[k] = IF k = 0 THEN start ELSE Then(k, f[k - 1])
    <3>1. CASE k = 0
      BY <1>5, <3>1 DEF Approximates
    <3>2. CASE k # 0
      <4>1. k \in 1 .. n /\ k \in Nat /\ k - 1 \in 0 .. n
        BY <3>2
      <4>2. f[k] = F[k][f[k - 1]] /\ f[k - 1] \in Writings
        BY <1>5, <4>1 DEF Approximates
      <4>. QED
        BY <3>2, <4>1, <4>2
    <3>. QED
      BY <3>1, <3>2
  <2>. QED
    BY <2>1, <2>2
<1>. DEFINE g == CHOOSE h : Step(h)
<1>7. Step(g)
  <2>. HIDE DEF Step
  <2>. QED
    BY <1>6
<1>8. InTurn(proxies, values, m) = g[n]
  <2>1. Len(values) = n
    OBVIOUS
  <2>. QED
    BY <2>1, Zenon DEF InTurn, Then, start
<1>. HIDE DEF g
<1>9. g[0] = start /\ \A k \in 1 .. n : g[k] = Then(k, g[k - 1])
  BY <1>7
<1>. QED
  BY <1>8, <1>9, Zenon DEF Then, start

(* The values are stored up to the first that does not fit.                *)
LEMMA StoredInTurn ==
    ASSUME NEW m \in Memories, NEW n \in Nat, NEW values \in [1 .. n -> Int],
           NEW proxies, NEW places, Assignable(proxies, places, n)
    PROVE  \E c : /\ FirstFit(places, values, c, n)
                  /\ InTurn(proxies, values, m).raised <=> c < n
                  /\ StoredFirst(places, values, c, m, InTurn(proxies, values, m).memory)
<1>1. PICK g : /\ g[0] = [memory |-> m, raised |-> FALSE]
               /\ \A k \in 1 .. n :
                     g[k] = IF g[k - 1].raised THEN g[k - 1]
                            ELSE SetNumber(proxies[k], values[k], g[k - 1].memory)
               /\ g[n] = InTurn(proxies, values, m)
  BY InTurnIsRecursive
<1>. DEFINE Stops(c, i) == /\ FirstFit(places, values, c, i)
                           /\ g[i].raised <=> c < i
                           /\ StoredFirst(places, values, c, m, g[i].memory)
            T == {i \in Nat : i <= n => \E c : Stops(c, i)}
<1>2. 0 \in T
  <2>1. Stops(0, 0)
    BY <1>1 DEF FirstFit, StoredFirst
  <2>. QED
    BY <2>1
<1>3. ASSUME NEW i \in Nat, i \in T PROVE i + 1 \in T
  <2>. SUFFICES ASSUME i + 1 <= n PROVE \E c : Stops(c, i + 1)
    OBVIOUS
  <2>1. i <= n /\ i + 1 \in 1 .. n /\ (i + 1) - 1 = i
    OBVIOUS
  <2>2. PICK c : Stops(c, i)
    BY <1>3, <2>1
  <2>3. g[i + 1] = IF g[i].raised THEN g[i]
                   ELSE SetNumber(proxies[i + 1], values[i + 1], g[i].memory)
    BY <1>1, <2>1
  <2>4. c \in 0 .. i
    BY <2>2 DEF FirstFit
  <2>5. CASE c < i
    <3>1. g[i].raised /\ g[i + 1] = g[i]
      BY <2>2, <2>3, <2>5
    <3>2. FirstFit(places, values, c, i + 1)
      BY <2>2, <2>4, <2>5 DEF FirstFit
    <3>3. c < i + 1
      BY <2>4, <2>5
    <3>4. Stops(c, i + 1)
      BY <2>2, <3>1, <3>2, <3>3, Zenon
    <3>. QED
      BY <3>4
  <2>6. CASE c = i
    <3>. DEFINE p == places[i + 1]
                v == values[i + 1]
                w == SetNumber(proxies[i + 1], v, g[i].memory)
    <3>1. ~ g[i].raised /\ g[i + 1] = w
      BY <2>2, <2>3, <2>6
    <3>2. /\ p \in Places /\ Cells(p) \subseteq Addrs /\ StandsFor(proxies[i + 1], p)
          /\ v \in Int /\ \A k \in 1 .. i : places[k] # p
      BY <2>1 DEF Assignable
    <3>3. g[i].memory \in Memories
      BY <2>2 DEF StoredFirst
    <3>4. /\ Typed!Fits(p, v) => w.raised = FALSE /\ Stored(p, v, g[i].memory, w.memory)
          /\ ~ Typed!Fits(p, v) => w = [memory |-> g[i].memory, raised |-> TRUE]
      BY ONLY <3>2, <3>3, NumberIsStored
    <3>5. CASE Typed!Fits(p, v)
      <4>1. FirstFit(places, values, i + 1, i + 1)
        BY <2>2, <2>4, <2>6, <3>5 DEF FirstFit
      <4>. HIDE DEF w
      <4>2. StoredFirst(places, values, i + 1, m, w.memory)
        <5>1. Stored(p, v, g[i].memory, w.memory)
          BY <3>4, <3>5
        <5>2. StoredFirst(places, values, i, m, g[i].memory)
          BY <2>2, <2>6
        <5>3. \A k \in 1 .. i + 1 : k = i + 1 \/ k \in 1 .. i
          OBVIOUS
        <5>4. \A k \in 1 .. i : k \in 1 .. i + 1
          OBVIOUS
        <5>5. ASSUME NEW k \in 1 .. i + 1 PROVE Value(places[k], w.memory) = Converted(places[k], values[k])
          BY <2>1, <3>2, <5>1, <5>2, <5>3 DEF Stored, StoredFirst, Assignable
        <5>6. ASSUME NEW q \in Places, \A k \in 1 .. i + 1 : places[k] # q
              PROVE  Value(q, w.memory) = Value(q, m)
          <6>1. q # p /\ \A k \in 1 .. i : places[k] # q
            BY <2>1, <5>4, <5>6
          <6>. QED
            BY <5>1, <5>2, <6>1 DEF Stored, StoredFirst
        <5>. QED
          BY <5>1, <5>5, <5>6 DEF Stored, StoredFirst
      <4>3. w.raised = FALSE
        BY <3>4, <3>5
      <4>4. Stops(i + 1, i + 1)
        BY <3>1, <4>1, <4>2, <4>3
      <4>. QED
        BY <4>4
    <3>6. CASE ~ Typed!Fits(p, v)
      <4>1. FirstFit(places, values, i, i + 1)
        BY <2>2, <2>4, <2>6, <3>6 DEF FirstFit
      <4>2. w.memory = g[i].memory /\ w.raised
        BY <3>4, <3>6
      <4>. HIDE DEF w
      <4>3. Stops(i, i + 1)
        BY <2>2, <2>6, <3>1, <4>1, <4>2
      <4>. QED
        BY <4>3
    <3>. QED
      BY <3>5, <3>6
  <2>. QED
    BY <2>4, <2>5, <2>6
<1>4. n \in T
  <2>. HIDE DEF T
  <2>. QED
    BY <1>2, <1>3, AllNumbers
<1>5. PICK c : Stops(c, n)
  BY <1>4
<1>. QED
  BY <1>1, <1>5

-----------------------------------------------------------------------------
(* Sequences of n items each, one behind the other.                        *)

LEMMA IndexInJoined ==
    ASSUME NEW n \in Nat, NEW i \in Nat \ {0}, NEW k \in 1 .. n
    PROVE  /\ ((i - 1) * n + k - 1) \div n = i - 1
           /\ ((i - 1) * n + k - 1) % n = k - 1
<1>1. n \in Nat \ {0} /\ i - 1 \in Int /\ k - 1 \in 0 .. n - 1
  OBVIOUS
<1>2. (n * (i - 1) + (k - 1)) \div n = i - 1 /\ (n * (i - 1) + (k - 1)) % n = k - 1
  BY ONLY <1>1, DivisionIsUnique
<1>3. n * (i - 1) + (k - 1) = (i - 1) * n + k - 1
  <2>1. n * (i - 1) = (i - 1) * n /\ (i - 1) * n \in Int
    BY <1>1
  <2>. QED
    BY <1>1, <2>1
<1>. QED
  BY <1>2, <1>3

(* s has the items of l sequences.                                         *)
Joins(s, sequences, l, n) ==
    /\ l * n \in Nat
    /\ DOMAIN s = 1 .. l * n
    /\ Len(s) = l * n
    /\ \A i \in 1 .. l, k \in 1 .. n :
          /\ (i - 1) * n + k \in 1 .. l * n
          /\ s[(i - 1) * n + k] = sequences[i][k]
    /\ \A x \in 1 .. l * n : \E i \in 1 .. l, k \in 1 .. n : x = (i - 1) * n + k

LEMMA JoinedProperties ==
    ASSUME NEW sequences, NEW l \in Nat, Len(sequences) = l, NEW n \in Nat
    PROVE  Joins(Joined(sequences, n), sequences, l, n)
<1>1. l * n \in Nat
  OBVIOUS
<1>2. DOMAIN Joined(sequences, n) = 1 .. l * n
  BY DEF Joined
<1>3. Len(Joined(sequences, n)) = l * n
  BY <1>1, <1>2
<1>4. ASSUME NEW i \in 1 .. l, NEW k \in 1 .. n
      PROVE  /\ (i - 1) * n + k \in 1 .. l * n
             /\ Joined(sequences, n)[(i - 1) * n + k] = sequences[i][k]
  <2>. DEFINE x == (i - 1) * n + k
  <2>1. (i - 1) * n \in Nat /\ (i - 1) * n + (k - 1) + 1 <= l * n
    <3>1. k - 1 \in Nat /\ (k - 1) + 1 <= n /\ 1 \in Nat
      OBVIOUS
    <3>. QED
      BY ONLY <3>1, l \in Nat, i \in 1 .. l, n \in Nat, BlockInside
  <2>2. x \in 1 .. l * n
    BY <1>1, <2>1
  <2>3. i \in Nat \ {0}
    OBVIOUS
  <2>4. (x - 1) \div n = i - 1 /\ (x - 1) % n = k - 1
    BY ONLY <2>3, n \in Nat, k \in 1 .. n, IndexInJoined
  <2>. HIDE DEF x
  <2>5. Joined(sequences, n)[x] = sequences[(x - 1) \div n + 1][((x - 1) % n) + 1]
    BY <2>2 DEF Joined
  <2>6. (i - 1) + 1 = i /\ (k - 1) + 1 = k
    OBVIOUS
  <2>7. Joined(sequences, n)[x] = sequences[i][k]
    BY <2>4, <2>5, <2>6
  <2>. QED
    BY <2>2, <2>7 DEF x
<1>5. ASSUME NEW x \in 1 .. l * n
      PROVE  \E i \in 1 .. l, k \in 1 .. n : x = (i - 1) * n + k
  <2>1. n # 0
    BY <1>5
  <2>. DEFINE q == (x - 1) \div n
              r == (x - 1) % n
  <2>2. x - 1 \in Int /\ x - 1 >= 0 /\ x - 1 < l * n
    BY <1>1
  <2>3. q \in Int /\ r \in 0 .. n - 1 /\ x - 1 = n * q + r
    BY <2>1, <2>2, Division
  <2>. HIDE DEF q, r
  <2>4. q >= 0
    <3>. SUFFICES ASSUME q <= -1 PROVE FALSE
      BY <2>3
    <3>1. n * q <= -n
      BY <2>1, <2>3
    <3>. QED
      BY <2>2, <2>3, <3>1
  <2>5. q < l
    <3>. SUFFICES ASSUME q >= l PROVE FALSE
      BY <2>3
    <3>1. n * q >= n * l /\ n * l = l * n
      BY <2>1, <2>3
    <3>. QED
      BY <2>2, <2>3, <3>1
  <2>6. q + 1 \in 1 .. l /\ r + 1 \in 1 .. n /\ (q + 1) - 1 = q
    BY <2>3, <2>4, <2>5
  <2>7. x = q * n + (r + 1)
    <3>1. n * q = q * n /\ n * q \in Int
      BY <2>3
    <3>. QED
      BY <2>2, <2>3, <3>1
  <2>. QED
    BY <2>6, <2>7
<1>. QED
  BY <1>1, <1>2, <1>3, <1>4, <1>5 DEF Joins

(* The places of an object, in their order.                                *)
LEMMA AllProperties ==
    ASSUME NEW o \in Objects
    PROVE  /\ DOMAIN All(o) = 1 .. o.proxy.length * Parts(o)
           /\ Len(All(o)) = o.proxy.length * Parts(o)
           /\ o.proxy.length * Parts(o) \in Nat
           /\ \A i \in 1 .. o.proxy.length, k \in 1 .. Parts(o) :
                 /\ (i - 1) * Parts(o) + k \in 1 .. o.proxy.length * Parts(o)
                 /\ All(o)[(i - 1) * Parts(o) + k] = o.items[i][k]
           /\ \A x \in DOMAIN All(o) : \E i \in 1 .. o.proxy.length, k \in 1 .. Parts(o) :
                 x = (i - 1) * Parts(o) + k /\ All(o)[x] = o.items[i][k]
           /\ \A x \in DOMAIN All(o) : All(o)[x] \in Places
           /\ \A x, y \in DOMAIN All(o) : All(o)[x] = All(o)[y] => x = y
<1>1. /\ o.proxy.length \in Nat \ {0, 1} /\ Len(o.items) = o.proxy.length
      /\ DOMAIN o.items = 1 .. o.proxy.length
  BY ObjectProperties
<1>2. Parts(o) \in Nat
  BY PartProperties
<1>3. Len(o.items[1]) = Parts(o)
  BY <1>1, PlaceOfPart
<1>4. All(o) = Joined(o.items, Parts(o))
  BY <1>3 DEF All
<1>. DEFINE l == o.proxy.length
            n == Parts(o)
<1>5. Joins(All(o), o.items, l, n)
  <2>1. l \in Nat
    BY <1>1
  <2>2. Joins(Joined(o.items, n), o.items, l, n)
    BY <1>1, <1>2, <2>1, JoinedProperties
  <2>. QED
    BY <1>4, <2>2
<1>. HIDE DEF l, n
<1>6. \A x \in DOMAIN All(o) : \E i \in 1 .. l, k \in 1 .. n :
         x = (i - 1) * n + k /\ All(o)[x] = o.items[i][k]
  <2>. SUFFICES ASSUME NEW x \in DOMAIN All(o)
                PROVE  \E i \in 1 .. l, k \in 1 .. n : x = (i - 1) * n + k /\ All(o)[x] = o.items[i][k]
    OBVIOUS
  <2>1. x \in 1 .. l * n
    BY <1>5 DEF Joins
  <2>2. PICK i \in 1 .. l, k \in 1 .. n : x = (i - 1) * n + k
    BY <1>5, <2>1, Zenon DEF Joins
  <2>3. All(o)[(i - 1) * n + k] = o.items[i][k]
    BY <1>5, Zenon DEF Joins
  <2>. QED
    BY <2>2, <2>3
<1>7. \A x \in DOMAIN All(o) : All(o)[x] \in Places
  BY <1>6, PlaceProperties DEF l, n
<1>8. ASSUME NEW x \in DOMAIN All(o), NEW y \in DOMAIN All(o), All(o)[x] = All(o)[y]
      PROVE  x = y
  <2>1. PICK i \in 1 .. l, k \in 1 .. n : x = (i - 1) * n + k /\ All(o)[x] = o.items[i][k]
    BY <1>6
  <2>2. PICK j \in 1 .. l, h \in 1 .. n : y = (j - 1) * n + h /\ All(o)[y] = o.items[j][h]
    BY <1>6
  <2>. SUFFICES ASSUME ~ (o = o /\ i = j /\ k = h) PROVE FALSE
    BY <2>1, <2>2
  <2>3. /\ i \in 1 .. o.proxy.length /\ j \in 1 .. o.proxy.length
        /\ k \in 1 .. Parts(o) /\ h \in 1 .. Parts(o)
    BY DEF l, n
  <2>4. Cells(o.items[i][k]) \cap Cells(o.items[j][h]) = {}
    BY ONLY o \in Objects, ~ (o = o /\ i = j /\ k = h), <2>3, PartsApart, Zenon
  <2>5. o.items[i][k].address \in Cells(o.items[i][k])
    BY <2>3, PlaceProperties DEF Cells
  <2>. QED
    BY <1>8, <2>1, <2>2, <2>4, <2>5
<1>9. /\ DOMAIN All(o) = 1 .. l * n
      /\ Len(All(o)) = l * n
      /\ l * n \in Nat
      /\ \A i \in 1 .. l, k \in 1 .. n :
            /\ (i - 1) * n + k \in 1 .. l * n
            /\ All(o)[(i - 1) * n + k] = o.items[i][k]
  BY <1>5, Zenon DEF Joins
<1>. QED
  BY <1>6, <1>7, <1>8, <1>9, Zenon DEF l, n

-----------------------------------------------------------------------------
(* Proxies of elements and members, and reading them.                      *)

Proxy(type, address) == [type |-> type, address |-> address, length |-> -1, data |-> None]

LEMMA KindOfPart ==
    ASSUME NEW o \in Objects, NEW k \in 1 .. Parts(o)
    PROVE  PartType(o, k).kind # "array" /\ o.proxy.type.kind # "array"
<1>1. PartType(o, k).kind = "int" \/ PartType(o, k).kind = "pointer"
  BY PartProperties
<1>2. o.proxy.type.kind \in {"int", "struct"}
  BY ObjectProperties
<1>. QED
  BY ONLY <1>1, <1>2, KindsDiffer, Zenon

LEMMA ElementOfVariable ==
    ASSUME NEW o \in Variables, NEW i \in 1 .. o.proxy.length
    PROVE  Element(o.proxy, i - 1) =
               Proxy(o.proxy.type, o.proxy.address + (i - 1) * o.proxy.type.size)
<1>1. o.proxy.data = None /\ o \in Objects
  BY DEF Variables
<1>2. o.proxy.type.kind # "array"
  <2>1. o.proxy.type.kind \in {"int", "struct"}
    BY <1>1, ObjectProperties
  <2>. QED
    BY ONLY <2>1, KindsDiffer, Zenon
<1>. QED
  BY <1>1, <1>2, Zenon DEF Element, NewProxy, Proxy

LEMMA MemberOfElement ==
    ASSUME NEW o \in Structs, NEW i \in 1 .. o.proxy.length, NEW k \in 1 .. Parts(o)
    PROVE  Member(Element(o.proxy, i - 1), k) = Proxy(PartType(o, k), o.items[i][k].address)
<1>1. o \in Variables /\ o \in Objects /\ o.proxy.type.kind = "struct"
  BY DEF Structs, Variables
<1>2. PartType(o, k) = o.proxy.type.members[k].type /\ PartOffset(o, k) = o.proxy.type.members[k].offset
  BY ONLY <1>1, KindsDiffer, Zenon DEF PartType, PartOffset
<1>3. PartType(o, k).kind # "array"
  BY <1>1, KindOfPart
<1>. DEFINE e == Element(o.proxy, i - 1)
            address == o.proxy.address + (i - 1) * o.proxy.type.size
<1>4. e = Proxy(o.proxy.type, address)
  BY <1>1, ElementOfVariable
<1>5. o.items[i][k].address = address + PartOffset(o, k)
  BY <1>1, PlaceProperties
<1>. HIDE DEF e, address
<1>6. e.type = o.proxy.type /\ e.address = address
  BY ONLY <1>4 DEF Proxy
<1>7. Member(e, k) = NewProxy(PartType(o, k), o.items[i][k].address, -1, None)
  BY <1>2, <1>5, <1>6, Zenon DEF Member
<1>. QED
  BY <1>3, <1>7, Zenon DEF NewProxy, Proxy, e

LEMMA ElementIsPlace ==
    ASSUME NEW o \in Arrays, NEW i \in 1 .. o.proxy.length
    PROVE  /\ o \in Objects /\ Parts(o) = 1
           /\ DOMAIN o.items[i] = {1} /\ o.items[i] = <<o.items[i][1]>>
           /\ o.items[i][1] \in Places
           /\ o.items[i][1].address = o.proxy.address + (i - 1) * o.proxy.type.size
           /\ o.items[i][1].size = o.proxy.type.size
           /\ o.items[i][1].signed = o.proxy.type.signed
           /\ Cells(o.items[i][1]) \subseteq Region(o)
<1>1. o \in Objects /\ o.proxy.type.kind = "int" /\ Parts(o) = 1
  BY DEF Arrays, Parts
<1>2. IsArray(o)
  <2>1. LaidOut(o)
    BY <1>1, VarProxyAssumption
  <2>. QED
    BY <1>1, <2>1, KindsDiffer, Zenon DEF LaidOut, IsStructs
<1>3. i \in DOMAIN o.items
  BY <1>1, ObjectProperties
<1>4. o.items[i] = <<[address |-> o.proxy.address + (i - 1) * o.proxy.type.size,
                      size |-> o.proxy.type.size,
                      signed |-> o.proxy.type.signed]>>
  BY <1>2, <1>3 DEF IsArray
<1>. DEFINE p == [address |-> o.proxy.address + (i - 1) * o.proxy.type.size,
                  size |-> o.proxy.type.size,
                  signed |-> o.proxy.type.signed]
<1>5. /\ p.address = o.proxy.address + (i - 1) * o.proxy.type.size
      /\ p.size = o.proxy.type.size
      /\ p.signed = o.proxy.type.signed
  OBVIOUS
<1>6. o.items[i] = <<p>>
  BY <1>4
<1>. HIDE DEF p
<1>7. o.items[i][1] = p /\ DOMAIN o.items[i] = {1}
  BY ONLY <1>6
<1>8. 1 \in 1 .. Parts(o)
  BY <1>1
<1>9. o.items[i][1] \in Places /\ Cells(o.items[i][1]) \subseteq Region(o)
  BY <1>1, <1>8, PlaceProperties
<1>. QED
  BY <1>1, <1>5, <1>6, <1>7, <1>9, Zenon

LEMMA SignedIsDecoded ==
    ASSUME NEW p \in Places, NEW bytes \in [1 .. p.size -> Bytes],
           NEW type, type.size = p.size, type.signed = p.signed
    PROVE  Signed(FromBytes(bytes), type) = Decoded(p, bytes)
<1>. DEFINE M == Modulus[p]
            h == M \div 2
            n == FromBytes(bytes)
<1>1. M \in Nat \ {0} /\ h \in Nat \ {0} /\ M = 2 * h /\ M = Power[p.size]
  BY PlacesProperties
<1>2. n \in 0 .. M - 1
  BY DecodedProperties
<1>3. Power[type.size] = M /\ Power[type.size] \div 2 = h
  BY <1>1
<1>. HIDE DEF M, h, n
<1>4. n \div h # 0 <=> n >= h
  <2>1. CASE n >= h
    <3>1. n = h * 1 + (n - h) /\ 1 \in Int /\ n - h \in 0 .. h - 1
      BY <1>1, <1>2, <2>1
    <3>2. (h * 1 + (n - h)) \div h = 1
      BY ONLY <1>1, <3>1, DivisionIsUnique
    <3>. QED
      BY <2>1, <3>1, <3>2
  <2>2. CASE ~ (n >= h)
    <3>1. n \in 0 .. h - 1
      BY <1>1, <1>2, <2>2
    <3>2. n \div h = 0
      BY ONLY <1>1, <3>1, SmallDivision
    <3>. QED
      BY <2>2, <3>2
  <2>. QED
    BY <2>1, <2>2
<1>5. Signed(n, type) = IF p.signed /\ n >= h THEN n - M ELSE n
  BY <1>3, <1>4, Zenon DEF Signed
<1>. QED
  BY <1>5, Zenon DEF Decoded, M, h, n

(* The k-th n bytes.                                                       *)
Chunk(bytes, k, n) == SubSeq(bytes, (k - 1) * n + 1, k * n)

LEMMA SubSeqIsPart ==
    ASSUME NEW s, NEW i \in Nat, NEW n \in Nat
    PROVE  SubSeq(s, i + 1, i + n) = Part(s, i, n)
BY DEF Part

LEMMA SubSeqIsAll ==
    ASSUME NEW s, NEW n \in Nat, DOMAIN s = 1 .. n, s = [k \in DOMAIN s |-> s[k]]
    PROVE  SubSeq(s, 1, n) = s
<1>1. SubSeq(s, 0 + 1, 0 + n) = Part(s, 0, n)
  BY SubSeqIsPart
<1>2. Part(s, 0, n) = s
  BY DEF Part
<1>. QED
  BY <1>1, <1>2

(* The k-th of l chunks of n bytes, size bytes from a, is at b.            *)
IsChunk(a, size, l, n, k, b) ==
    /\ a \in Nat /\ l \in Nat /\ n \in Nat /\ k \in 1 .. l
    /\ size = l * n /\ b = a + (k - 1) * n

LEMMA ChunkOfSlice ==
    ASSUME NEW m, NEW a, NEW size, NEW l, NEW n, NEW k, NEW b, IsChunk(a, size, l, n, k, b)
    PROVE  Chunk(Slice(m, a, size), k, n) = Slice(m, b, n)
<1>. USE DEF IsChunk
<1>. DEFINE s == Slice(m, a, size)
            from == (k - 1) * n
<1>1. size \in Nat /\ from \in Nat /\ from + n <= size /\ k * n = from + n
  <2>1. from \in Nat /\ from + 0 + n <= l * n
    <3>1. 0 \in Nat /\ 0 + n <= n
      OBVIOUS
    <3>. QED
      BY ONLY <3>1, IsChunk(a, size, l, n, k, b), BlockInside
  <2>2. k * n = from + n /\ l * n \in Nat
    OBVIOUS
  <2>. QED
    BY <2>1, <2>2
<1>2. b = a + from
  OBVIOUS
<1>. HIDE DEF from
<1>3. s = [x \in 1 .. size |-> m[a + x - 1]]
  BY DEF Slice
<1>. HIDE DEF s
<1>4. SubSeq(s, from + 1, from + n) = Part(s, from, n)
  BY <1>1, SubSeqIsPart
<1>5. ASSUME NEW x \in 1 .. n PROVE s[from + x] = m[b + x - 1]
  <2>1. from + x \in 1 .. size /\ a + (from + x) - 1 = b + x - 1
    BY <1>1, <1>2
  <2>. QED
    BY <1>3, <2>1
<1>6. Part(s, from, n) = Slice(m, b, n)
  BY <1>5 DEF Part, Slice
<1>7. Chunk(s, k, n) = SubSeq(s, from + 1, from + n)
  BY <1>1 DEF Chunk, from
<1>. QED
  BY <1>4, <1>6, <1>7 DEF s

LEMMA NumberIsRead ==
    ASSUME NEW m \in Memories, NEW p \in Places,
           NEW type, type.size = p.size, type.signed = p.signed
    PROVE  GetValue(Proxy(type, p.address), m) = Answer("number", <<Value(p, m)>>)
<1>. DEFINE x == Proxy(type, p.address)
            n == p.size
            bytes == Slice(m, p.address, n)
<1>1. n \in Nat \ {0} /\ p.address \in Nat
  BY PlacesProperties
<1>2. bytes \in [1 .. n -> Bytes] /\ Value(p, m) = Decoded(p, bytes)
  BY ValueProperties
<1>3. x.type = type /\ x.address = p.address /\ x.length = -1 /\ x.data = None
  BY DEF Proxy
<1>. HIDE DEF x
<1>4. type.size * 1 = n /\ type.size = n
  BY <1>1
<1>5. ~ (-1 > 0)
  OBVIOUS
<1>6. Content(x, m) = bytes
  BY <1>3, <1>4, <1>5 DEF Content
<1>. HIDE DEF bytes, n
<1>7. Len(bytes) = n
  BY <1>1, <1>2
<1>8. Len(bytes) \div n = 1
  <2>1. 0 \in 0 .. n - 1 /\ 1 \in Int /\ n = n * 1 + 0
    BY <1>1
  <2>2. (n * 1 + 0) \div n = 1
    BY ONLY <1>1, <2>1, DivisionIsUnique
  <2>. QED
    BY <1>7, <2>1, <2>2
<1>9. Chunk(bytes, 1, n) = bytes
  <2>1. (1 - 1) * n + 1 = 1 /\ 1 * n = n
    BY <1>1
  <2>2. SubSeq(bytes, 1, n) = bytes
    BY <1>1, <1>2, SubSeqIsAll
  <2>. QED
    BY <2>1, <2>2 DEF Chunk
<1>. DEFINE values == [k \in 1 .. Len(bytes) \div n |->
                          Signed(FromBytes(Chunk(bytes, k, n)), type)]
<1>10. values = <<Value(p, m)>>
  <2>1. Signed(FromBytes(bytes), type) = Value(p, m)
    BY <1>2, SignedIsDecoded DEF n
  <2>2. \A k \in 1 .. 1 : k = 1
    OBVIOUS
  <2>3. \A k \in 1 .. 1 : Signed(FromBytes(Chunk(bytes, k, n)), type) = Value(p, m)
    BY <1>9, <2>1, <2>2
  <2>4. values = [k \in 1 .. 1 |-> Value(p, m)]
    BY <1>8, <2>3
  <2>. QED
    BY <2>4
<1>11. GetValue(x, m) = Answer(IF Len(values) = 1 THEN "number" ELSE "list", values)
  BY <1>3, <1>4, <1>6, Zenon DEF GetValue, Chunk
<1>. HIDE DEF values
<1>12. Len(values) = 1
  BY <1>10
<1>. QED
  BY <1>10, <1>11, <1>12, Zenon DEF x

(* What GetSlice reads from an array, from memory or from the ELF file.    *)
LEMMA ContentOfArray ==
    ASSUME NEW m \in Memories, NEW o \in Arrays
    PROVE  \E x : /\ x.type = o.proxy.type
                  /\ GetSlice(o.proxy, 0, Len(o.items), m) = GetValue(x, m)
                  /\ Content(x, m) = Slice(m, o.proxy.address, o.proxy.length * o.proxy.type.size)
<1>. DEFINE type == o.proxy.type
            n == type.size
            l == o.proxy.length
            a == o.proxy.address
            x == NewProxy(type, a + 0 * n, l - 0,
                          IF o.proxy.data = None THEN None ELSE SubSeq(o.proxy.data, 0 * n + 1, l * n))
<1>1. o \in Objects /\ type.kind # "array"
  BY KindsDiffer, Zenon DEF Arrays
<1>2. /\ a \in Nat /\ n \in Nat \ {0} /\ l \in Nat \ {0, 1} /\ Len(o.items) = l
      /\ Sizeof(o.proxy) = l * n /\ l * n \in Nat \ {0}
      /\ Region(o) \subseteq Addrs \cup DOMAIN Rom
  BY <1>1, ObjectProperties
<1>3. GetSlice(o.proxy, 0, Len(o.items), m) = GetValue(x, m)
  BY <1>2, Zenon DEF GetSlice
<1>4. a + 0 * n = a /\ l - 0 = l /\ 0 * n + 1 = 1 /\ l > 0 /\ n * l = l * n
  BY <1>2
<1>5. /\ x.type = type /\ x.address = a /\ x.length = l
      /\ x.data = IF o.proxy.data = None THEN None ELSE SubSeq(o.proxy.data, 1, l * n)
  <2>1. x = [type |-> type, address |-> a, length |-> l,
             data |-> IF o.proxy.data = None THEN None ELSE SubSeq(o.proxy.data, 1, l * n)]
    BY <1>1, <1>4 DEF NewProxy
  <2>. HIDE DEF x, type, n, a, l
  <2>. QED
    BY <2>1
<1>. HIDE DEF x
<1>6. CASE x.data = None
  BY <1>3, <1>4, <1>5, <1>6 DEF Content
<1>7. CASE x.data # None
  <2>1. o.proxy.data # None /\ x.data = SubSeq(o.proxy.data, 1, l * n)
    BY <1>5, <1>7
  <2>2. Linked(o)
    BY <1>1, VarProxyAssumption DEF LaidOut
  <2>3. Region(o) \subseteq DOMAIN Rom /\ o.proxy.data = [k \in 1 .. l * n |-> Rom[a + k - 1]]
    BY <1>2, <2>1, <2>2 DEF Linked
  <2>4. \A k \in 1 .. l * n : a + k - 1 \in Region(o)
    BY <1>2 DEF Region
  <2>5. \A k \in 1 .. l * n : Rom[a + k - 1] = m[a + k - 1]
    BY <2>3, <2>4 DEF Memories
  <2>6. o.proxy.data = Slice(m, a, l * n)
    BY <2>3, <2>5 DEF Slice
  <2>7. SubSeq(Slice(m, a, l * n), 1, l * n) = Slice(m, a, l * n)
    <3>. DEFINE bytes == Slice(m, a, l * n)
    <3>1. DOMAIN bytes = 1 .. l * n /\ bytes = [k \in DOMAIN bytes |-> bytes[k]] /\ l * n \in Nat
      BY <1>2 DEF Slice
    <3>. HIDE DEF bytes
    <3>. QED
      BY <3>1, SubSeqIsAll DEF bytes
  <2>8. Content(x, m) = x.data
    BY <1>7 DEF Content
  <2>. QED
    BY <1>3, <1>5, <2>1, <2>6, <2>7, <2>8
<1>. QED
  BY <1>6, <1>7

LEMMA ListIsRead ==
    ASSUME NEW m \in Memories, NEW o \in Arrays
    PROVE  GetSlice(o.proxy, 0, Len(o.items), m)
               = Answer("list", [k \in 1 .. o.proxy.length |-> Value(o.items[k][1], m)])
<1>. DEFINE type == o.proxy.type
            n == type.size
            l == o.proxy.length
            a == o.proxy.address
            bytes == Slice(m, a, l * n)
            values == [k \in 1 .. Len(bytes) \div n |->
                          Signed(FromBytes(Chunk(bytes, k, n)), type)]
<1>1. PICK x : /\ x.type = type
               /\ GetSlice(o.proxy, 0, Len(o.items), m) = GetValue(x, m)
               /\ Content(x, m) = bytes
  BY ContentOfArray
<1>2. /\ a \in Nat /\ n \in Nat \ {0} /\ l \in Nat \ {0, 1} /\ l * n \in Nat
      /\ o \in Objects
  BY ObjectProperties DEF Arrays
<1>3. GetValue(x, m) = Answer(IF Len(values) = 1 THEN "number" ELSE "list", values)
  BY <1>1, Zenon DEF GetValue, Chunk
<1>4. Len(bytes) \div n = l
  <2>1. Len(bytes) = l * n
    BY <1>2 DEF Slice
  <2>. HIDE DEF n, l, bytes
  <2>2. 0 \in 0 .. n - 1 /\ l \in Int
    BY <1>2
  <2>3. (n * l + 0) \div n = l
    BY ONLY <1>2, <2>2, DivisionIsUnique
  <2>4. n * l + 0 = l * n
    BY <1>2
  <2>. QED
    BY <2>1, <2>3, <2>4
<1>5. ASSUME NEW k \in 1 .. l
      PROVE  Signed(FromBytes(Chunk(bytes, k, n)), type) = Value(o.items[k][1], m)
  <2>. DEFINE p == o.items[k][1]
  <2>1. p \in Places /\ p.address = a + (k - 1) * n /\ p.size = n /\ p.signed = type.signed
    BY ElementIsPlace
  <2>2. l \in Nat /\ n \in Nat
    BY <1>2
  <2>. DEFINE size == l * n
  <2>. HIDE DEF p, a, n, l, size
  <2>3. Chunk(bytes, k, n) = Slice(m, p.address, p.size)
    <3>1. IsChunk(a, size, l, n, k, p.address)
      BY <1>2, <2>1, <2>2 DEF IsChunk, size
    <3>2. Chunk(Slice(m, a, size), k, n) = Slice(m, p.address, n)
      BY <3>1, ChunkOfSlice
    <3>. QED
      BY <2>1, <3>2 DEF size
  <2>. HIDE DEF bytes
  <2>4. /\ Slice(m, p.address, p.size) \in [1 .. p.size -> Bytes]
        /\ Value(p, m) = Decoded(p, Slice(m, p.address, p.size))
    BY <2>1, ValueProperties
  <2>5. Signed(FromBytes(Slice(m, p.address, p.size)), type) = Decoded(p, Slice(m, p.address, p.size))
    BY <2>1, <2>4, SignedIsDecoded DEF n
  <2>. QED
    BY <2>3, <2>4, <2>5 DEF p
<1>. HIDE DEF l, n, a, bytes
<1>6. values = [k \in 1 .. l |-> Value(o.items[k][1], m)]
  BY <1>4, <1>5
<1>. HIDE DEF values
<1>7. Len(values) = l /\ l # 1
  BY <1>2, <1>6
<1>. QED
  BY <1>1, <1>3, <1>6, <1>7 DEF l

-----------------------------------------------------------------------------
(* What each way to write does to the places it is about.                  *)

(* w stores values up to the first that does not fit.                      *)
Sets(w, places, values, m) ==
    \E c : /\ FirstFit(places, values, c, Len(places))
           /\ w.raised <=> c < Len(places)
           /\ StoredFirst(places, values, c, m, w.memory)

LEMMA NumberSets ==
    ASSUME NEW m \in Memories, NEW p \in Places, Cells(p) \subseteq Addrs,
           NEW x, StandsFor(x, p), NEW v \in Int
    PROVE  Sets(SetNumber(x, v, m), <<p>>, <<v>>, m)
<1>. DEFINE w == SetNumber(x, v, m)
<1>1. /\ Typed!Fits(p, v) => w.raised = FALSE /\ Stored(p, v, m, w.memory)
      /\ ~ Typed!Fits(p, v) => w = [memory |-> m, raised |-> TRUE]
  BY NumberIsStored
<1>. HIDE DEF w
<1>2. /\ Len(<<p>>) = 1 /\ <<p>>[1] = p /\ <<v>>[1] = v
      /\ \A k \in 1 .. 1 : k = 1 /\ 1 \in 0 .. 1 /\ 0 \in 0 .. 1 /\ 0 + 1 = 1
      /\ \A k \in 1 .. 0 : FALSE
  OBVIOUS
<1>3. CASE Typed!Fits(p, v)
  <2>1. FirstFit(<<p>>, <<v>>, 1, 1)
    BY <1>2, <1>3 DEF FirstFit
  <2>2. w.raised = FALSE /\ Stored(p, v, m, w.memory)
    BY <1>1, <1>3
  <2>3. StoredFirst(<<p>>, <<v>>, 1, m, w.memory)
    BY <1>2, <2>2 DEF Stored, StoredFirst
  <2>. QED
    BY <1>2, <2>1, <2>2, <2>3 DEF Sets, w
<1>4. CASE ~ Typed!Fits(p, v)
  <2>1. FirstFit(<<p>>, <<v>>, 0, 1)
    BY <1>2, <1>4 DEF FirstFit
  <2>2. w.raised = TRUE /\ w.memory = m
    BY <1>1, <1>4
  <2>3. StoredFirst(<<p>>, <<v>>, 0, m, w.memory)
    BY <1>2, <2>2 DEF StoredFirst
  <2>4. 0 < 1
    OBVIOUS
  <2>. QED
    BY <1>2, <2>1, <2>2, <2>3, <2>4 DEF Sets, w
<1>. QED
  BY <1>3, <1>4

(* o[i] = v                                                                *)
LEMMA ItemIsSet ==
    ASSUME NEW m \in Memories, NEW o \in Arrays \cap Variables, NEW i \in 1 .. o.proxy.length, NEW v \in Int
    PROVE  Sets(SetNumber(Element(o.proxy, i - 1), v, m), o.items[i], <<v>>, m)
<1>. DEFINE p == o.items[i][1]
            x == Element(o.proxy, i - 1)
<1>1. /\ p \in Places /\ p.address = o.proxy.address + (i - 1) * o.proxy.type.size
      /\ p.size = o.proxy.type.size /\ Cells(p) \subseteq Region(o) /\ o.items[i] = <<p>>
      /\ o \in Objects
  BY ElementIsPlace
<1>2. x = Proxy(o.proxy.type, o.proxy.address + (i - 1) * o.proxy.type.size)
  BY ElementOfVariable
<1>. HIDE DEF p, x
<1>3. StandsFor(x, p)
  BY <1>1, <1>2 DEF StandsFor, Proxy
<1>4. Cells(p) \subseteq Addrs
  BY <1>1, ObjectProperties
<1>. QED
  BY <1>1, <1>3, <1>4, NumberSets DEF x

(* o[i].member = v                                                         *)
LEMMA MemberIsSet ==
    ASSUME NEW m \in Memories, NEW o \in Structs, NEW i \in 1 .. o.proxy.length,
           NEW k \in 1 .. Parts(o), NEW v \in Int
    PROVE  /\ StandsFor(Member(Element(o.proxy, i - 1), k), o.items[i][k])
           /\ o.items[i][k] \in Places
           /\ Cells(o.items[i][k]) \subseteq Addrs
           /\ Sets(SetNumber(Member(Element(o.proxy, i - 1), k), v, m), <<o.items[i][k]>>, <<v>>, m)
<1>. DEFINE p == o.items[i][k]
            x == Member(Element(o.proxy, i - 1), k)
<1>1. o \in Objects /\ o \in Variables
  BY DEF Structs, Variables
<1>2. p \in Places /\ p.size = PartType(o, k).size /\ Cells(p) \subseteq Region(o)
  BY <1>1, PlaceProperties
<1>3. x = Proxy(PartType(o, k), p.address)
  BY MemberOfElement
<1>. HIDE DEF p, x
<1>4. StandsFor(x, p)
  BY <1>2, <1>3 DEF StandsFor, Proxy
<1>5. Cells(p) \subseteq Addrs
  BY <1>1, <1>2, ObjectProperties
<1>6. Sets(SetNumber(x, v, m), <<p>>, <<v>>, m)
  BY <1>2, <1>4, <1>5, NumberSets
<1>. QED
  BY <1>2, <1>4, <1>5, <1>6 DEF p, x

LEMMA InTurnSets ==
    ASSUME NEW m \in Memories, NEW n \in Nat, NEW values \in [1 .. n -> Int],
           NEW proxies, NEW places, Assignable(proxies, places, n), Len(places) = n
    PROVE  Sets(InTurn(proxies, values, m), places, values, m)
BY StoredInTurn DEF Sets

(* new(type, values)                                                       *)
LEMMA ElementsAreSet ==
    ASSUME NEW m \in Memories, NEW o \in Arrays \cap Variables, NEW values \in [1 .. o.proxy.length -> Int]
    PROVE  Sets(SetElements(o.proxy, values, m), All(o), values, m)
<1>. DEFINE n == o.proxy.length
            proxies == [k \in DOMAIN values |-> Element(o.proxy, k - 1)]
<1>1. o \in Objects /\ Parts(o) = 1 /\ n \in Nat \ {0, 1}
  <2>1. o \in Objects /\ Parts(o) = 1
    BY DEF Arrays, Parts
  <2>. QED
    BY <2>1, ObjectProperties
<1>2. /\ DOMAIN All(o) = 1 .. n /\ Len(All(o)) = n
      /\ \A x, y \in 1 .. n : All(o)[x] = All(o)[y] => x = y
  <2>1. n * Parts(o) = n
    BY <1>1
  <2>. QED
    BY <1>1, <2>1, AllProperties
<1>3. ASSUME NEW k \in 1 .. n
      PROVE  /\ All(o)[k] \in Places /\ Cells(All(o)[k]) \subseteq Addrs
             /\ StandsFor(proxies[k], All(o)[k])
  <2>1. All(o)[k] = o.items[k][1]
    <3>1. 1 \in 1 .. Parts(o) /\ (k - 1) * Parts(o) + 1 = k
      BY <1>1
    <3>2. All(o)[(k - 1) * Parts(o) + 1] = o.items[k][1]
      BY <1>1, <3>1, AllProperties
    <3>. QED
      BY <3>1, <3>2
  <2>2. /\ o.items[k][1] \in Places
        /\ o.items[k][1].address = o.proxy.address + (k - 1) * o.proxy.type.size
        /\ o.items[k][1].size = o.proxy.type.size /\ Cells(o.items[k][1]) \subseteq Region(o)
    BY ElementIsPlace
  <2>3. proxies[k] = Proxy(o.proxy.type, o.proxy.address + (k - 1) * o.proxy.type.size)
    BY ElementOfVariable
  <2>. HIDE DEF proxies
  <2>4. StandsFor(proxies[k], o.items[k][1])
    BY <2>2, <2>3 DEF StandsFor, Proxy
  <2>5. Region(o) \subseteq Addrs
    BY <1>1, ObjectProperties
  <2>. QED
    BY <2>1, <2>2, <2>4, <2>5
<1>4. SetElements(o.proxy, values, m) = InTurn(proxies, values, m)
  BY DEF SetElements
<1>. HIDE DEF proxies
<1>5. Assignable(proxies, All(o), n)
  BY <1>2, <1>3 DEF Assignable
<1>. QED
  BY <1>1, <1>2, <1>4, <1>5, InTurnSets

LEMMA IntegersComeFirst ==
    ASSUME NEW o \in Structs
    PROVE  /\ \A kind : MembersOf(o, kind) = {k \in 1 .. Parts(o) : PartType(o, k).kind = kind}
           /\ \E c \in 0 .. Parts(o) : MembersOf(o, "int") = 1 .. c
<1>1. o \in Objects /\ o.proxy.type.kind = "struct" /\ o.proxy.type.kind # "int"
  BY KindsDiffer, Zenon DEF Structs, Variables
<1>2. AreMembers(o.proxy.type.members, o.proxy.type.size)
  <2>1. LaidOut(o)
    BY <1>1, VarProxyAssumption
  <2>. QED
    BY <1>1, <2>1, Zenon DEF LaidOut, IsArray, IsStructs
<1>. DEFINE n == Parts(o)
            Is(k) == PartType(o, k).kind = "int"
<1>3. n \in Nat /\ DOMAIN o.proxy.type.members = 1 .. n
  BY <1>1, <1>2 DEF AreMembers, Parts
<1>4. \A k : PartType(o, k) = o.proxy.type.members[k].type
  BY <1>1 DEF PartType
<1>5. \A kind : MembersOf(o, kind) = {k \in 1 .. n : PartType(o, k).kind = kind}
  BY <1>3, <1>4 DEF MembersOf
<1>6. \A k, l \in 1 .. n : k < l /\ Is(l) => Is(k)
  <2>1. \A k, l \in DOMAIN o.proxy.type.members :
           k < l => (o.proxy.type.members[l].type.kind = "int" => o.proxy.type.members[k].type.kind = "int")
    BY <1>2, Zenon DEF AreMembers
  <2>. QED
    BY <1>3, <1>4, <2>1, Zenon
<1>. DEFINE T == {k \in 1 .. n : ~ Is(k)}
<1>7. CASE T = {}
  <2>1. MembersOf(o, "int") = 1 .. n
    BY <1>5, <1>7
  <2>. QED
    BY <1>3, <1>5, <2>1
<1>8. CASE T # {}
  <2>1. T \subseteq Nat
    OBVIOUS
  <2>2. PICK l \in T : \A k \in T : l <= k
    <3>. HIDE DEF T
    <3>. QED
      BY <1>8, <2>1, LeastNumber
  <2>3. l \in 1 .. n /\ ~ Is(l)
    OBVIOUS
  <2>. HIDE DEF Is
  <2>4. l - 1 \in 0 .. n
    BY <1>3, <2>3
  <2>5. \A k \in 1 .. n : Is(k) <=> k < l
    <3>. SUFFICES ASSUME NEW k \in 1 .. n PROVE Is(k) <=> k < l
      OBVIOUS
    <3>1. k < l => Is(k)
      BY <1>3, <2>2, <2>3
    <3>2. k > l => ~ Is(k)
      BY <1>3, <1>6, <2>3
    <3>3. k = l => ~ Is(k)
      BY <2>3
    <3>4. k < l \/ k = l \/ k > l
      BY <1>3, <2>3
    <3>5. k > l => ~ (k < l)
      BY <1>3, <2>3
    <3>6. k = l => ~ (k < l)
      BY <1>3, <2>3
    <3>. QED
      BY <3>1, <3>2, <3>3, <3>4, <3>5, <3>6
  <2>6. {k \in 1 .. n : Is(k)} = 1 .. l - 1
    BY <1>3, <2>3, <2>5
  <2>7. MembersOf(o, "int") = 1 .. l - 1
    BY <1>5, <2>6 DEF Is
  <2>. QED
    BY <1>5, <2>4, <2>7
<1>. QED
  BY <1>7, <1>8

(* o[i] = values, for the first members of a struct.                       *)
LEMMA MembersAreSet ==
    ASSUME NEW m \in Memories, NEW o \in Structs, NEW i \in 1 .. o.proxy.length,
           NEW values \in [MembersOf(o, "int") -> Int]
    PROVE  /\ Sets(SetMembers(Element(o.proxy, i - 1), values, m),
                   SubSeq(o.items[i], 1, Len(values)), values, m)
           /\ Range(SubSeq(o.items[i], 1, Len(values))) \subseteq Places
<1>. DEFINE e == Element(o.proxy, i - 1)
            proxies == [k \in DOMAIN values |-> Member(e, k)]
<1>1. PICK c \in 0 .. Parts(o) : MembersOf(o, "int") = 1 .. c
  BY IntegersComeFirst
<1>2. o \in Objects /\ o \in Variables
  BY DEF Structs, Variables
<1>3. Parts(o) \in Nat
  BY <1>2, PartProperties
<1>4. c \in Nat /\ DOMAIN values = 1 .. c /\ values \in [1 .. c -> Int] /\ Len(values) = c
  BY <1>1, <1>3
<1>. DEFINE places == Part(o.items[i], 0, c)
<1>5. SubSeq(o.items[i], 1, Len(values)) = places
  <2>1. SubSeq(o.items[i], 0 + 1, 0 + c) = Part(o.items[i], 0, c)
    BY <1>4, SubSeqIsPart
  <2>. QED
    BY <1>4, <2>1
<1>6. DOMAIN places = 1 .. c /\ Len(places) = c /\ \A k \in 1 .. c : places[k] = o.items[i][k]
  BY <1>4 DEF Part
<1>. HIDE DEF places
<1>7. ASSUME NEW k \in 1 .. c
      PROVE  /\ places[k] \in Places /\ Cells(places[k]) \subseteq Addrs
             /\ StandsFor(proxies[k], places[k])
             /\ k \in 1 .. Parts(o)
  <2>1. k \in 1 .. Parts(o) /\ 0 \in Int
    BY <1>1, <1>3
  <2>2. /\ StandsFor(Member(e, k), o.items[i][k])
        /\ o.items[i][k] \in Places /\ Cells(o.items[i][k]) \subseteq Addrs
    BY <2>1, MemberIsSet
  <2>3. proxies[k] = Member(e, k)
    BY <1>4
  <2>. QED
    BY <1>6, <2>1, <2>2, <2>3
<1>8. ASSUME NEW k \in 1 .. c, NEW l \in 1 .. c, places[k] = places[l]
      PROVE  k = l
  <2>. SUFFICES ASSUME ~ (o = o /\ i = i /\ k = l) PROVE FALSE
    OBVIOUS
  <2>1. k \in 1 .. Parts(o) /\ l \in 1 .. Parts(o)
    BY <1>7
  <2>2. Cells(o.items[i][k]) \cap Cells(o.items[i][l]) = {}
    BY ONLY <1>2, i \in 1 .. o.proxy.length, <2>1, ~ (o = o /\ i = i /\ k = l), PartsApart, Zenon
  <2>3. o.items[i][k].address \in Cells(o.items[i][k])
    BY <1>2, <2>1, PlaceProperties DEF Cells
  <2>4. o.items[i][k] = o.items[i][l]
    BY <1>6, <1>8
  <2>. QED
    BY <2>2, <2>3, <2>4
<1>9. SetMembers(e, values, m) = InTurn(proxies, values, m)
  BY DEF SetMembers
<1>. HIDE DEF proxies, e
<1>10. Assignable(proxies, places, c)
  BY <1>7, <1>8 DEF Assignable
<1>11. Sets(SetMembers(e, values, m), places, values, m)
  BY <1>4, <1>6, <1>9, <1>10, InTurnSets
<1>12. Range(places) \subseteq Places
  BY <1>6, <1>7 DEF Range
<1>. QED
  BY <1>5, <1>11, <1>12 DEF e

(* A write of all the cells of some places, and of no other.               *)
Covers(places, c, a, n) ==
    /\ \A k \in 1 .. c : places[k] \in Places /\ \E offset : Within(places[k], a, n, offset)
    /\ \A p \in Places : (\A k \in 1 .. c : places[k] # p) => Beside(p, a, n)

LEMMA BlockIsStored ==
    ASSUME NEW m, NEW a, NEW n, NEW bytes, Writable(m, a, n, bytes),
           NEW c, NEW places, Covers(places, c, a, n),
           NEW values,
           \A k \in 1 .. c : \A offset : Within(places[k], a, n, offset) =>
               Decoded(places[k], Part(bytes, offset, places[k].size)) = Converted(places[k], values[k])
    PROVE  StoredFirst(places, values, c, m, Written(m, a, bytes))
<1>1. Written(m, a, bytes) \in Memories
  BY WrittenProperties
<1>2. ASSUME NEW k \in 1 .. c
      PROVE  Value(places[k], Written(m, a, bytes)) = Converted(places[k], values[k])
  <2>1. places[k] \in Places
    BY DEF Covers
  <2>2. PICK offset : Within(places[k], a, n, offset)
    BY DEF Covers
  <2>3. Value(places[k], Written(m, a, bytes)) = Decoded(places[k], Part(bytes, offset, places[k].size))
    BY <2>1, <2>2, ValueWithin
  <2>. QED
    BY <2>2, <2>3
<1>3. ASSUME NEW p \in Places, \A k \in 1 .. c : places[k] # p
      PROVE  Value(p, Written(m, a, bytes)) = Value(p, m)
  <2>1. Beside(p, a, n)
    BY <1>3 DEF Covers
  <2>. QED
    BY <2>1, ValueElsewhere
<1>. QED
  BY <1>1, <1>2, <1>3 DEF StoredFirst

LEMMA ObjectIsCovered ==
    ASSUME NEW o \in Objects
    PROVE  /\ Covers(All(o), Len(All(o)), o.proxy.address, Sizeof(o.proxy))
           /\ o.proxy.address .. o.proxy.address + Sizeof(o.proxy) - 1 = Region(o)
<1>. DEFINE a == o.proxy.address
            n == Sizeof(o.proxy)
            c == Len(All(o))
<1>1. a \in Nat /\ n \in Nat \ {0} /\ a .. a + n - 1 = Region(o)
  BY ObjectProperties DEF Region
<1>2. c \in Nat /\ DOMAIN All(o) = 1 .. c
  BY AllProperties
<1>3. ASSUME NEW k \in 1 .. c
      PROVE  All(o)[k] \in Places /\ \E offset : Within(All(o)[k], a, n, offset)
  <2>. DEFINE p == All(o)[k]
  <2>1. p \in Places
    BY <1>2, AllProperties
  <2>2. \A x \in DOMAIN All(o) : \E i \in 1 .. o.proxy.length, h \in 1 .. Parts(o) :
           x = (i - 1) * Parts(o) + h /\ All(o)[x] = o.items[i][h]
    BY ONLY o \in Objects, AllProperties, Zenon
  <2>3. PICK i \in 1 .. o.proxy.length, h \in 1 .. Parts(o) : p = o.items[i][h]
    BY <1>2, <2>2, Zenon
  <2>4. Cells(p) \subseteq a .. a + n - 1
    BY <1>1, <2>3, PlaceProperties
  <2>5. p.address \in Nat /\ p.size \in Nat \ {0}
    BY <2>1, PlacesProperties
  <2>. HIDE DEF p, a, n
  <2>6. p.address .. p.address + p.size - 1 \subseteq a .. a + n - 1
    BY <2>4, Zenon DEF Cells
  <2>7. p.address - a \in Nat /\ p.address = a + (p.address - a) /\ (p.address - a) + p.size <= n
    <3>1. n \in Nat /\ a \in Nat
      BY ONLY <1>1
    <3>. QED
      BY ONLY <2>5, <2>6, <3>1, OffsetInInterval
  <2>. QED
    BY <2>1, <2>7 DEF Within, p
<1>4. ASSUME NEW p \in Places, \A k \in 1 .. c : All(o)[k] # p
      PROVE  Beside(p, a, n)
  <2>1. PICK q \in Objects : \E i \in 1 .. q.proxy.length : \E k \in 1 .. Parts(q) : p = q.items[i][k]
    BY PlacesAreParts
  <2>2. PICK i \in 1 .. q.proxy.length, k \in 1 .. Parts(q) : p = q.items[i][k]
    BY <2>1
  <2>3. o # q
    <3>. SUFFICES ASSUME o = q PROVE FALSE
      OBVIOUS
    <3>1. /\ (i - 1) * Parts(o) + k \in DOMAIN All(o)
          /\ All(o)[(i - 1) * Parts(o) + k] = p
      BY <2>2, AllProperties
    <3>. QED
      BY <1>2, <1>4, <3>1
  <2>4. Region(o) \cap Region(q) = {}
    BY <2>3, VarProxyAssumption
  <2>5. Cells(p) \subseteq Region(q)
    BY <2>2, PlaceProperties
  <2>. QED
    BY <1>1, <2>4, <2>5 DEF Beside
<1>. QED
  BY <1>1, <1>3, <1>4 DEF Covers

LEMMA ElementIsCovered ==
    ASSUME NEW o \in Objects, NEW i \in 1 .. o.proxy.length
    PROVE  LET a == o.proxy.address + (i - 1) * o.proxy.type.size
               n == o.proxy.type.size
           IN  /\ a \in Nat
               /\ Covers(o.items[i], Len(o.items[i]), a, n)
               /\ a .. a + n - 1 \subseteq Region(o)
               /\ \A k \in 1 .. Parts(o) : Within(o.items[i][k], a, n, PartOffset(o, k))
<1>. DEFINE n == o.proxy.type.size
            a == o.proxy.address + (i - 1) * n
            l == o.proxy.length
            c == Len(o.items[i])
<1>1. /\ n \in Nat \ {0} /\ o.proxy.address \in Nat /\ l \in Nat
      /\ Region(o) = o.proxy.address .. o.proxy.address + l * n - 1
      /\ i \in DOMAIN o.items
  BY ObjectProperties DEF Region
<1>. DEFINE x == (i - 1) * n
            y == l * n
<1>2. x \in Nat /\ x + n <= y /\ y \in Nat
  <2>1. x \in Nat /\ x + 0 + n <= y
    <3>1. 0 \in Nat /\ n \in Nat /\ 0 + n <= n
      BY ONLY <1>1
    <3>. QED
      BY ONLY <1>1, <3>1, i \in 1 .. o.proxy.length, BlockInside
  <2>2. y \in Nat
    BY ONLY <1>1
  <2>. HIDE DEF x, y, n
  <2>. QED
    BY ONLY <1>1, <2>1, <2>2
<1>3. a \in Nat
  <2>. HIDE DEF x, y, n
  <2>1. o.proxy.address + x \in Nat
    BY ONLY <1>1, <1>2
  <2>. QED
    BY <2>1 DEF x, n
<1>4. a .. a + n - 1 \subseteq Region(o)
  <2>1. n \in Nat /\ o.proxy.address \in Nat
    BY ONLY <1>1
  <2>. HIDE DEF x, y, n
  <2>2. (o.proxy.address + x) .. (o.proxy.address + x) + n - 1
           \subseteq o.proxy.address .. o.proxy.address + y - 1
    BY ONLY <1>2, <2>1, IntervalInside
  <2>. QED
    BY <1>1, <2>2 DEF x, y
<1>. HIDE DEF x, y
<1>5. ASSUME NEW k \in 1 .. Parts(o) PROVE Within(o.items[i][k], a, n, PartOffset(o, k))
  <2>1. /\ PartOffset(o, k) \in Nat /\ PartOffset(o, k) + PartType(o, k).size <= n
        /\ o.items[i][k].address = a + PartOffset(o, k) /\ o.items[i][k].size = PartType(o, k).size
    BY PartProperties, PlaceProperties
  <2>. QED
    BY <2>1 DEF Within
<1>6. c = Parts(o)
  BY <1>1, PlaceOfPart
<1>7. ASSUME NEW k \in 1 .. c
      PROVE  o.items[i][k] \in Places /\ \E offset : Within(o.items[i][k], a, n, offset)
  BY <1>5, <1>6, PlaceProperties
<1>8. ASSUME NEW p \in Places, \A k \in 1 .. c : o.items[i][k] # p
      PROVE  Beside(p, a, n)
  <2>1. PICK q \in Objects : \E j \in 1 .. q.proxy.length : \E k \in 1 .. Parts(q) : p = q.items[j][k]
    BY PlacesAreParts
  <2>2. PICK j \in 1 .. q.proxy.length, k \in 1 .. Parts(q) : p = q.items[j][k]
    BY <2>1
  <2>3. CASE o # q
    <3>1. Region(o) \cap Region(q) = {}
      BY <2>3, VarProxyAssumption
    <3>2. Cells(p) \subseteq Region(q)
      BY <2>2, PlaceProperties
    <3>. QED
      BY <1>4, <3>1, <3>2 DEF Beside
  <2>4. CASE o = q
    <3>. DEFINE b == o.proxy.address + (j - 1) * n
    <3>1. i # j
      BY <1>6, <1>8, <2>2, <2>4
    <3>2. /\ p.address = b + PartOffset(o, k) /\ p.size = PartType(o, k).size
          /\ PartOffset(o, k) \in Nat /\ PartType(o, k).size \in Nat
          /\ PartOffset(o, k) + PartType(o, k).size <= n
      BY <2>2, <2>4, PlaceProperties, PartProperties
    <3>3. j \in Nat /\ i \in Nat
      BY <1>1, <2>4
    <3>4. a + n <= b \/ b + n <= a
      <4>. DEFINE u == (i - 1) * n
                  v == (j - 1) * n
      <4>1. u + n <= v \/ v + n <= u
        <5>1. i < j => u + n <= v
          BY <1>1, <3>3, BlocksApart
        <5>2. j < i => v + n <= u
          BY <1>1, <3>3, BlocksApart
        <5>3. i < j \/ j < i
          BY ONLY <3>1, <3>3
        <5>. QED
          BY ONLY <5>1, <5>2, <5>3
      <4>2. u \in Int /\ v \in Int /\ a = o.proxy.address + u /\ b = o.proxy.address + v
        BY ONLY <1>1, <3>3
      <4>3. o.proxy.address \in Int /\ n \in Int
        BY ONLY <1>1
      <4>. HIDE DEF u, v, a, b, n
      <4>. QED
        BY ONLY <4>1, <4>2, <4>3
    <3>5. b \in Int /\ n \in Int
      BY <1>1, <3>3
    <3>. HIDE DEF a, b, n
    <3>. QED
      BY ONLY <1>3, <3>2, <3>4, <3>5 DEF Beside, Cells
  <2>. QED
    BY <2>3, <2>4
<1>. QED
  BY <1>3, <1>4, <1>5, <1>7, <1>8 DEF Covers

LEMMA ToBytesOfZero ==
    ASSUME NEW n \in Nat
    PROVE  ToBytes(0, n) = [k \in 1 .. n |-> 0]
<1>1. ASSUME NEW k \in Nat PROVE Digit(0, k) = 0
  <2>1. Power[k] \in Nat \ {0} /\ ByteValues \in Nat \ {0}
    BY PowerProperties, NumeralsAssumption
  <2>2. \A b \in Nat \ {0} : 0 \div b = 0 /\ 0 % b = 0
    OBVIOUS
  <2>. QED
    BY <2>1, <2>2 DEF Digit
<1>2. \A k \in 1 .. n : n - k \in Nat /\ k - 1 \in Nat
  OBVIOUS
<1>. QED
  BY <1>1, <1>2 DEF ToBytes

(* All the bytes of a number of places are those of their values.          *)
LEMMA MemsetStores ==
    ASSUME NEW m \in Memories, NEW o \in Variables
    PROVE  LET zeros == [k \in DOMAIN All(o) |-> 0]
               w == Wrote(m, o.proxy.address, [k \in 1 .. Sizeof(o.proxy) |-> 0])
           IN  StoredFirst(All(o), zeros, Len(All(o)), m, w.memory)
<1>. DEFINE a == o.proxy.address
            n == Sizeof(o.proxy)
            c == Len(All(o))
            bytes == [k \in 1 .. n |-> 0]
            zeros == [k \in DOMAIN All(o) |-> 0]
<1>1. o \in Objects
  BY DEF Variables
<1>2. /\ a \in Nat /\ n \in Nat \ {0} /\ a .. a + n - 1 = Region(o) /\ Region(o) \subseteq Addrs
      /\ Covers(All(o), c, a, n) /\ DOMAIN All(o) = 1 .. c
  BY <1>1, ObjectProperties, ObjectIsCovered, AllProperties
<1>3. 0 \in Bytes
  BY NumeralsAssumption DEF Bytes
<1>4. Writable(m, a, n, bytes)
  BY <1>2, <1>3 DEF Writable
<1>5. ASSUME NEW k \in 1 .. c, NEW offset, Within(All(o)[k], a, n, offset)
      PROVE  Decoded(All(o)[k], Part(bytes, offset, All(o)[k].size)) = Converted(All(o)[k], zeros[k])
  <2>. DEFINE p == All(o)[k]
  <2>1. p \in Places /\ zeros[k] = 0
    BY <1>2 DEF Covers
  <2>2. p.size \in Nat
    BY <2>1, PlacesProperties
  <2>3. offset \in Nat /\ offset + p.size <= n
    BY <1>5 DEF Within
  <2>. HIDE DEF p, zeros, n
  <2>4. \A h \in 1 .. p.size : offset + h \in 1 .. n
    BY <1>2, <2>2, <2>3
  <2>5. Part(bytes, offset, p.size) = [h \in 1 .. p.size |-> 0]
    BY <2>4 DEF Part
  <2>6. Part(bytes, offset, p.size) = ToBytes(0, p.size)
    BY <2>2, <2>5, ToBytesOfZero
  <2>7. Decoded(p, ToBytes(0, p.size)) = Converted(p, 0)
    BY <2>1, DecodedToBytes
  <2>. QED
    BY <2>1, <2>6, <2>7 DEF p
<1>. HIDE DEF a, n, c, bytes, zeros
<1>6. StoredFirst(All(o), zeros, c, m, Written(m, a, bytes))
  BY <1>2, <1>4, <1>5, BlockIsStored
<1>. QED
  BY <1>6 DEF Wrote, a, n, c, bytes, zeros

(* l sequences of n bytes.                                                 *)
AreBlocks(sequences, l, n) ==
    l \in Nat /\ n \in Nat /\ sequences \in [1 .. l -> [1 .. n -> Bytes]]

LEMMA JoinedOfBlocks ==
    ASSUME NEW sequences, NEW l, NEW n, AreBlocks(sequences, l, n)
    PROVE  /\ l * n \in Nat
           /\ Joined(sequences, n) \in [1 .. l * n -> Bytes]
           /\ \A i \in 1 .. l : Part(Joined(sequences, n), (i - 1) * n, n) = sequences[i]
<1>. DEFINE s == Joined(sequences, n)
            total == l * n
<1>1. l \in Nat /\ n \in Nat /\ sequences \in [1 .. l -> [1 .. n -> Bytes]]
  BY DEF AreBlocks
<1>2. Joins(s, sequences, l, n)
  <2>1. Len(sequences) = l
    BY <1>1
  <2>. QED
    BY ONLY <1>1, <2>1, JoinedProperties
<1>3. s = [x \in DOMAIN s |-> s[x]]
  BY DEF Joined
<1>. HIDE DEF s
<1>4. total \in Nat /\ DOMAIN s = 1 .. total
  BY <1>2 DEF Joins
<1>5. \A i \in 1 .. l, k \in 1 .. n : s[(i - 1) * n + k] = sequences[i][k]
  BY <1>2 DEF Joins
<1>6. \A x \in 1 .. total : \E i \in 1 .. l, k \in 1 .. n : x = (i - 1) * n + k
  BY <1>2 DEF Joins
<1>. HIDE DEF total
<1>7. ASSUME NEW x \in 1 .. total PROVE s[x] \in Bytes
  <2>1. PICK i \in 1 .. l, k \in 1 .. n : x = (i - 1) * n + k
    BY <1>6, Zenon
  <2>2. s[x] = sequences[i][k]
    BY <1>5, <2>1
  <2>. QED
    BY <1>1, <2>2
<1>8. s \in [1 .. total -> Bytes]
  BY <1>3, <1>4, <1>7
<1>9. ASSUME NEW i \in 1 .. l PROVE Part(s, (i - 1) * n, n) = sequences[i]
  <2>1. sequences[i] \in [1 .. n -> Bytes]
    BY <1>1
  <2>. QED
    BY <1>5, <2>1 DEF Part
<1>. QED
  BY <1>4, <1>8, <1>9 DEF s, total

(* An array's places, and its cells.                                       *)
LEMMA ArrayProperties ==
    ASSUME NEW o \in Arrays
    PROVE  /\ o \in Objects
           /\ DOMAIN All(o) = 1 .. o.proxy.length /\ Len(All(o)) = o.proxy.length
           /\ \A k \in 1 .. o.proxy.length :
                 /\ All(o)[k] = o.items[k][1]
                 /\ All(o)[k] \in Places
                 /\ All(o)[k].address = o.proxy.address + (k - 1) * o.proxy.type.size
                 /\ All(o)[k].size = o.proxy.type.size
                 /\ Modulus[All(o)[k]] = Power[o.proxy.type.size]
<1>. DEFINE a == o.proxy.address
            size == o.proxy.type.size
            l == o.proxy.length
<1>1. o \in Objects
  BY DEF Arrays
<1>2. l \in Nat \ {0, 1}
  BY <1>1, ObjectProperties
<1>3. ASSUME NEW k \in 1 .. l
      PROVE  /\ Parts(o) = 1
             /\ o.items[k][1] \in Places
             /\ o.items[k][1].address = a + (k - 1) * size
             /\ o.items[k][1].size = size
             /\ Modulus[o.items[k][1]] = Power[size]
  <2>1. /\ Parts(o) = 1
        /\ o.items[k][1] \in Places
        /\ o.items[k][1].address = a + (k - 1) * size
        /\ o.items[k][1].size = size
    BY ElementIsPlace
  <2>. QED
    BY <2>1, PlacesProperties
<1>4. Parts(o) = 1
  BY <1>2, <1>3
<1>5. l * 1 = l /\ \A k \in 1 .. l : (k - 1) * 1 + 1 = k /\ 1 \in 1 .. 1
  BY <1>2
<1>6. /\ DOMAIN All(o) = 1 .. l * 1 /\ Len(All(o)) = l * 1
      /\ \A k \in 1 .. l : All(o)[(k - 1) * 1 + 1] = o.items[k][1]
  BY <1>1, <1>4, <1>5, AllProperties
<1>7. \A k \in 1 .. l : All(o)[k] = o.items[k][1]
  BY <1>5, <1>6
<1>. HIDE DEF l, a, size
<1>8. \A k \in 1 .. l : /\ All(o)[k] \in Places
                        /\ All(o)[k].address = a + (k - 1) * size
                        /\ All(o)[k].size = size
                        /\ Modulus[All(o)[k]] = Power[size]
  BY <1>3, <1>7
<1>. QED
  BY <1>1, <1>5, <1>6, <1>7, <1>8 DEF l, a, size

(* The bytes for place k of an array are those at (k - 1) times its size.  *)
LEMMA PartOfArray ==
    ASSUME NEW o \in Arrays, NEW k \in 1 .. o.proxy.length, NEW n, NEW offset,
           Within(All(o)[k], o.proxy.address, n, offset)
    PROVE  offset = (k - 1) * o.proxy.type.size
<1>. DEFINE a == o.proxy.address
            x == (k - 1) * o.proxy.type.size
<1>1. All(o)[k].address = a + x /\ o \in Objects
  BY ArrayProperties
<1>2. a \in Nat /\ x \in Int
  BY <1>1, ObjectProperties
<1>3. offset \in Nat /\ All(o)[k].address = a + offset
  BY DEF Within
<1>. HIDE DEF a, x
<1>4. offset = x
  BY <1>1, <1>2, <1>3
<1>. QED
  BY <1>4 DEF x

LEMMA SliceIsSet ==
    ASSUME NEW m \in Memories, NEW o \in Arrays \cap Variables,
           NEW n \in Nat, NEW values \in [1 .. n -> Int]
    PROVE  LET w == SetSlice(o.proxy, 0, Len(o.items), values, m)
               fits == /\ Len(values) = Len(All(o))
                       /\ \A k \in DOMAIN All(o) : values[k] \in 0 .. Modulus[All(o)[k]] - 1
           IN  /\ fits => w.raised = FALSE /\ StoredFirst(All(o), values, Len(All(o)), m, w.memory)
               /\ ~ fits => w = Failed(m)
<1>. DEFINE a == o.proxy.address
            size == o.proxy.type.size
            l == o.proxy.length
            w == SetSlice(o.proxy, 0, Len(o.items), values, m)
            fits == /\ Len(values) = Len(All(o))
                    /\ \A k \in DOMAIN All(o) : values[k] \in 0 .. Modulus[All(o)[k]] - 1
            seqs == [k \in DOMAIN values |-> ToBytes(values[k], size)]
            bytes == Joined(seqs, size)
            total == l * size
<1>1. o \in Objects /\ o \in Variables /\ o \in Arrays
  BY DEF Arrays
<1>2. /\ a \in Nat /\ size \in Nat \ {0} /\ l \in Nat \ {0, 1} /\ l # -1 /\ Len(o.items) = l
      /\ Sizeof(o.proxy) = total /\ a .. a + Sizeof(o.proxy) - 1 = Region(o) /\ Region(o) \subseteq Addrs
      /\ Covers(All(o), Len(All(o)), a, Sizeof(o.proxy))
  BY <1>1, ObjectProperties, ObjectIsCovered
<1>3. /\ DOMAIN All(o) = 1 .. l /\ Len(All(o)) = l
      /\ \A k \in 1 .. l : /\ All(o)[k] \in Places
                           /\ All(o)[k].size = size
                           /\ Modulus[All(o)[k]] = Power[size]
  BY ArrayProperties
<1>4. DOMAIN values = 1 .. n /\ Len(values) = n
  OBVIOUS
<1>5. w = IF l - 0 = n /\ \A k \in 1 .. n : Encodable(values[k], size)
          THEN Wrote(m, a + 0 * size, bytes) ELSE Failed(m)
  BY <1>2, <1>4, Zenon DEF SetSlice
<1>6. l - 0 = l /\ a + 0 * size = a
  BY <1>2
<1>. HIDE DEF w, l, a, size, bytes, seqs, total
<1>7. fits <=> l - 0 = n /\ \A k \in 1 .. n : Encodable(values[k], size)
  BY <1>3, <1>4, <1>6 DEF Encodable
<1>. HIDE DEF fits
<1>8. CASE fits
  <2>1. n = l /\ w = Wrote(m, a, bytes)
    BY <1>5, <1>6, <1>7, <1>8
  <2>2. l \in Nat /\ size \in Nat
    BY <1>2
  <2>3. seqs \in [1 .. l -> [1 .. size -> Bytes]] /\ \A k \in 1 .. l : seqs[k] = ToBytes(values[k], size)
    BY <1>4, <2>1, <2>2, ToBytesProperties DEF seqs
  <2>4. /\ total \in Nat /\ bytes \in [1 .. total -> Bytes]
        /\ \A k \in 1 .. l : Part(bytes, (k - 1) * size, size) = seqs[k]
    <3>1. AreBlocks(seqs, l, size)
      BY <2>2, <2>3 DEF AreBlocks
    <3>2. /\ l * size \in Nat /\ Joined(seqs, size) \in [1 .. l * size -> Bytes]
          /\ \A k \in 1 .. l : Part(Joined(seqs, size), (k - 1) * size, size) = seqs[k]
      BY ONLY <3>1, JoinedOfBlocks
    <3>. QED
      BY <3>2 DEF bytes, total
  <2>5. Writable(m, a, total, bytes)
    BY <1>2, <2>4 DEF Writable
  <2>6. ASSUME NEW k \in 1 .. l, NEW offset, Within(All(o)[k], a, total, offset)
        PROVE  Decoded(All(o)[k], Part(bytes, offset, All(o)[k].size)) = Converted(All(o)[k], values[k])
    <3>. DEFINE p == All(o)[k]
    <3>1. p \in Places /\ p.size = size /\ values[k] \in Int
      BY <1>3, <2>1
    <3>2. offset = (k - 1) * size
      BY <1>1, <2>6, PartOfArray DEF l, a, size
    <3>3. Part(bytes, offset, size) = ToBytes(values[k], size)
      BY <2>3, <2>4, <3>2
    <3>4. Decoded(p, ToBytes(values[k], p.size)) = Converted(p, values[k])
      BY <3>1, DecodedToBytes
    <3>. HIDE DEF p
    <3>. QED
      BY <3>1, <3>3, <3>4 DEF p
  <2>7. Covers(All(o), l, a, total)
    BY <1>2, <1>3
  <2>8. StoredFirst(All(o), values, l, m, Written(m, a, bytes))
    BY <2>5, <2>6, <2>7, BlockIsStored
  <2>9. w.raised = FALSE /\ w.memory = Written(m, a, bytes)
    BY <2>1 DEF Wrote
  <2>. QED
    BY <1>3, <1>8, <2>8, <2>9, Zenon DEF w, fits
<1>9. CASE ~ fits
  <2>1. w = Failed(m)
    BY <1>5, <1>7, <1>9, Zenon
  <2>. QED
    BY <1>9, <2>1, Zenon DEF w, fits
<1>. QED
  BY <1>8, <1>9, Zenon

(* A place of the copied cells, and the place it is copied from.           *)
Mirrors(p, q, a, b, n) ==
    /\ q \in Places /\ q.size = p.size
    /\ \A offset : Within(p, a, n, offset) => q.address = b + offset

Copyable(m, a, b, n) ==
    /\ m \in Memories
    /\ a \in Nat /\ b \in Nat /\ n \in Nat
    /\ a .. a + n - 1 \subseteq Addrs
    /\ b .. b + n - 1 \subseteq Addrs \cup DOMAIN Rom

LEMMA BlockIsCopied ==
    ASSUME NEW m, NEW a, NEW b, NEW n, Copyable(m, a, b, n),
           NEW c, NEW places, Covers(places, c, a, n),
           NEW from, \A k \in 1 .. c : Mirrors(places[k], from[k], a, b, n),
           NEW values, \A k \in 1 .. c : values[k] = Value(from[k], m)
    PROVE  StoredFirst(places, values, c, m, Written(m, a, Slice(m, b, n)))
<1>. DEFINE bytes == Slice(m, b, n)
<1>1. /\ m \in Memories /\ a \in Nat /\ b \in Nat /\ n \in Nat
      /\ a .. a + n - 1 \subseteq Addrs /\ b .. b + n - 1 \subseteq Addrs \cup DOMAIN Rom
  BY DEF Copyable
<1>2. bytes \in [1 .. n -> Bytes]
  BY ONLY <1>1, SliceProperties
<1>3. Writable(m, a, n, bytes)
  BY <1>1, <1>2 DEF Writable
<1>4. ASSUME NEW k \in 1 .. c, NEW offset, Within(places[k], a, n, offset)
      PROVE  Decoded(places[k], Part(bytes, offset, places[k].size)) = Converted(places[k], values[k])
  <2>. DEFINE p == places[k]
              q == from[k]
              s == p.size
  <2>1. p \in Places /\ q \in Places /\ q.size = s /\ q.address = b + offset /\ values[k] = Value(q, m)
    BY <1>4 DEF Covers, Mirrors
  <2>2. offset \in Nat /\ offset + s <= n
    BY <1>4 DEF Within
  <2>3. s \in Nat /\ Modulus[p] = Modulus[q]
    BY <2>1, PlacesProperties
  <2>. HIDE DEF p, q, s
  <2>4. Part(bytes, offset, s) = Slice(m, q.address, q.size)
    <3>1. \A h \in 1 .. s : offset + h \in 1 .. n /\ b + (offset + h) - 1 = b + offset + h - 1
      BY <1>1, <2>2, <2>3
    <3>. QED
      BY <2>1, <3>1 DEF Part, Slice
  <2>5. /\ Slice(m, q.address, q.size) \in [1 .. q.size -> Bytes]
        /\ Value(q, m) \in Int
        /\ Value(q, m) % Modulus[q] = FromBytes(Slice(m, q.address, q.size))
    BY <1>1, <2>1, ValueProperties
  <2>6. Decoded(p, Slice(m, q.address, q.size)) = Converted(p, Value(q, m))
    <3>. DEFINE read == Slice(m, q.address, q.size)
                v == Value(q, m)
    <3>1. read \in [1 .. p.size -> Bytes] /\ v \in Int /\ v % Modulus[p] = FromBytes(read)
      BY <2>1, <2>3, <2>5 DEF s
    <3>. HIDE DEF read, v
    <3>2. Decoded(p, read) = Converted(p, v)
      BY <2>1, <3>1, DecodedIsConverted
    <3>. QED
      BY <3>2 DEF read, v
  <2>. QED
    BY <2>1, <2>4, <2>6 DEF p, s
<1>. HIDE DEF bytes
<1>5. StoredFirst(places, values, c, m, Written(m, a, bytes))
  BY <1>3, <1>4, BlockIsStored
<1>. QED
  BY <1>5 DEF bytes

LEMMA MemmoveStores ==
    ASSUME NEW m \in Memories, NEW o \in Arrays \cap Variables, NEW source \in Arrays,
           source.proxy.type.size = o.proxy.type.size, source.proxy.length = o.proxy.length
    PROVE  LET values == [k \in DOMAIN All(source) |-> Value(All(source)[k], m)]
               w == Wrote(m, o.proxy.address, Slice(m, source.proxy.address, Sizeof(o.proxy)))
           IN  /\ StoredFirst(All(o), values, Len(All(o)), m, w.memory)
               /\ \A k \in DOMAIN All(source) : All(source)[k] \in Places
<1>. DEFINE a == o.proxy.address
            b == source.proxy.address
            n == Sizeof(o.proxy)
            c == Len(All(o))
            places == All(o)
            from == All(source)
            values == [k \in DOMAIN from |-> Value(from[k], m)]
<1>1. o \in Arrays /\ o \in Variables /\ o \in Objects /\ source \in Objects
  BY DEF Arrays
<1>2. /\ a \in Nat /\ n \in Nat \ {0} /\ a .. a + n - 1 = Region(o) /\ Region(o) \subseteq Addrs
      /\ Covers(places, c, a, n)
  BY <1>1, ObjectProperties, ObjectIsCovered
<1>3. /\ b \in Nat /\ b .. b + Sizeof(source.proxy) - 1 = Region(source)
      /\ Region(source) \subseteq Addrs \cup DOMAIN Rom
      /\ Sizeof(source.proxy) = n
  <2>1. Sizeof(source.proxy) = source.proxy.length * source.proxy.type.size /\ n = o.proxy.length * o.proxy.type.size
    BY <1>1, ObjectProperties
  <2>. QED
    BY <1>1, <2>1, ObjectProperties, ObjectIsCovered
<1>4. Copyable(m, a, b, n)
  BY <1>2, <1>3 DEF Copyable
<1>5. /\ DOMAIN from = 1 .. c /\ c = o.proxy.length
      /\ \A k \in 1 .. c : /\ from[k] \in Places
                           /\ from[k].address = b + (k - 1) * o.proxy.type.size
                           /\ from[k].size = places[k].size
  <2>1. /\ c = o.proxy.length
        /\ \A k \in 1 .. c : places[k].size = o.proxy.type.size
    BY <1>1, ArrayProperties
  <2>2. /\ DOMAIN from = 1 .. source.proxy.length
        /\ \A k \in 1 .. source.proxy.length :
              /\ from[k] \in Places
              /\ from[k].address = b + (k - 1) * source.proxy.type.size
              /\ from[k].size = source.proxy.type.size
    BY <1>1, ArrayProperties
  <2>. QED
    BY <2>1, <2>2
<1>6. ASSUME NEW k \in 1 .. c PROVE Mirrors(places[k], from[k], a, b, n)
  <2>1. ASSUME NEW offset, Within(places[k], a, n, offset)
        PROVE  offset = (k - 1) * o.proxy.type.size
    BY <1>1, <1>5, <2>1, PartOfArray
  <2>. HIDE DEF a, b, n, places, from, c
  <2>. QED
    BY <1>5, <2>1 DEF Mirrors
<1>. HIDE DEF a, b, n, places, from, c
<1>7. \A k \in 1 .. c : values[k] = Value(from[k], m)
  BY <1>5
<1>. HIDE DEF values
<1>8. StoredFirst(places, values, c, m, Written(m, a, Slice(m, b, n)))
  BY <1>2, <1>4, <1>6, <1>7, BlockIsCopied
<1>. QED
  BY <1>5, <1>8 DEF Wrote, a, b, n, places, from, c, values

LEMMA StructIsCopied ==
    ASSUME NEW m \in Memories, NEW o \in Structs,
           NEW i \in 1 .. o.proxy.length, NEW j \in 1 .. o.proxy.length
    PROVE  LET values == [k \in DOMAIN o.items[j] |-> Value(o.items[j][k], m)]
               w == SetProxy(Element(o.proxy, i - 1), Element(o.proxy, j - 1), m)
           IN  /\ w.raised = FALSE
               /\ StoredFirst(o.items[i], values, Len(o.items[i]), m, w.memory)
<1>. DEFINE n == o.proxy.type.size
            a == o.proxy.address + (i - 1) * n
            b == o.proxy.address + (j - 1) * n
            places == o.items[i]
            from == o.items[j]
            c == Len(places)
            values == [k \in DOMAIN from |-> Value(from[k], m)]
            w == SetProxy(Element(o.proxy, i - 1), Element(o.proxy, j - 1), m)
<1>1. o \in Objects /\ o \in Variables /\ o.proxy.type.kind # "pointer"
  BY KindsDiffer, Zenon DEF Structs, Variables
<1>2. n \in Nat \ {0} /\ Region(o) \subseteq Addrs /\ i \in DOMAIN o.items /\ j \in DOMAIN o.items
  BY <1>1, ObjectProperties
<1>3. /\ a \in Nat /\ Covers(places, c, a, n) /\ a .. a + n - 1 \subseteq Region(o)
      /\ \A k \in 1 .. Parts(o) : Within(places[k], a, n, PartOffset(o, k))
  BY <1>1, ElementIsCovered
<1>4. b \in Nat /\ b .. b + n - 1 \subseteq Region(o)
  BY <1>1, ElementIsCovered
<1>5. DOMAIN from = 1 .. c /\ c = Parts(o)
  BY <1>1, <1>2, PlaceOfPart
<1>6. w.raised = FALSE /\ w.memory = Written(m, a, Slice(m, b, n))
  <2>1. /\ Element(o.proxy, i - 1) = Proxy(o.proxy.type, a)
        /\ Element(o.proxy, j - 1) = Proxy(o.proxy.type, b)
    BY <1>1, ElementOfVariable
  <2>. DEFINE x == Proxy(o.proxy.type, a)
              y == Proxy(o.proxy.type, b)
  <2>2. /\ x.type = o.proxy.type /\ x.address = a
        /\ y.type = o.proxy.type /\ y.address = b /\ y.length = -1 /\ y.data = None
    BY DEF Proxy
  <2>. HIDE DEF x, y, n, a, b
  <2>3. w = SetProxy(x, y, m)
    BY <2>1, Zenon DEF x, y, n
  <2>4. n * 1 = n /\ ~ (-1 > 0)
    BY <1>2
  <2>5. Content(y, m) = Slice(m, b, n)
    BY <2>2, <2>4 DEF Content, n
  <2>. HIDE DEF w
  <2>6. w = Wrote(m, a, Slice(m, b, n))
    BY <1>1, <2>2, <2>3, <2>5 DEF SetProxy
  <2>. QED
    BY <2>6 DEF Wrote
<1>. HIDE DEF w
<1>7. ASSUME NEW k \in 1 .. c PROVE Mirrors(places[k], from[k], a, b, n)
  <2>1. /\ places[k].size = PartType(o, k).size
        /\ places[k].address = a + PartOffset(o, k)
        /\ from[k] \in Places
        /\ from[k].size = PartType(o, k).size
        /\ from[k].address = b + PartOffset(o, k)
        /\ PartOffset(o, k) \in Nat
    BY <1>1, <1>5, PlaceProperties, PartProperties
  <2>. HIDE DEF places, from, a, b, n, c
  <2>2. ASSUME NEW offset, Within(places[k], a, n, offset) PROVE offset = PartOffset(o, k)
    BY <1>3, <2>1, <2>2 DEF Within
  <2>. QED
    BY <2>1, <2>2 DEF Mirrors
<1>. HIDE DEF places, from, a, b, n, c
<1>8. Copyable(m, a, b, n)
  BY <1>2, <1>3, <1>4 DEF Copyable
<1>9. \A k \in 1 .. c : values[k] = Value(from[k], m)
  BY <1>5
<1>. HIDE DEF values
<1>10. StoredFirst(places, values, c, m, Written(m, a, Slice(m, b, n)))
  BY <1>3, <1>7, <1>8, <1>9, BlockIsCopied
<1>11. w.raised = FALSE /\ StoredFirst(places, values, c, m, w.memory)
  BY <1>6, <1>10
<1>. QED
  BY <1>11 DEF w, places, from, c, values

(* A pointer is set to where an array is.                                  *)
LEMMA PointerIsSet ==
    ASSUME NEW m \in Memories, NEW o \in Structs, NEW i \in 1 .. o.proxy.length,
           NEW k \in MembersOf(o, "pointer"), NEW t \in Arrays
    PROVE  Sets(SetProxy(Member(Element(o.proxy, i - 1), k), t.proxy, m),
                <<o.items[i][k]>>, <<t.items[1][1].address>>, m)
<1>. DEFINE x == Member(Element(o.proxy, i - 1), k)
            v == t.items[1][1].address
<1>1. k \in 1 .. Parts(o) /\ PartType(o, k).kind = "pointer"
  BY IntegersComeFirst
<1>2. x = Proxy(PartType(o, k), o.items[i][k].address)
  BY <1>1, MemberOfElement
<1>3. x.type.kind = "pointer"
  BY <1>1, <1>2 DEF Proxy
<1>4. v = t.proxy.address /\ v \in Int
  <2>1. t \in Objects /\ 1 \in 1 .. t.proxy.length
    BY ObjectProperties DEF Arrays
  <2>2. v = t.proxy.address + (1 - 1) * t.proxy.type.size
    BY <2>1, ElementIsPlace
  <2>3. t.proxy.address \in Nat /\ t.proxy.type.size \in Nat
    BY <2>1, ObjectProperties
  <2>. QED
    BY <2>2, <2>3
<1>. HIDE DEF v
<1>5. Sets(SetNumber(x, v, m), <<o.items[i][k]>>, <<v>>, m)
  BY <1>1, <1>4, MemberIsSet
<1>. HIDE DEF x
<1>6. SetProxy(x, t.proxy, m) = SetNumber(x, v, m)
  BY <1>3, <1>4 DEF SetProxy
<1>. QED
  BY <1>5, <1>6 DEF x, v

-----------------------------------------------------------------------------
(* Every access as a step of TypedMemory.                                  *)

Kinds == {"nothing", "exception", "number", "list"}

(* What an access leaves, as TypeOK has it.                                *)
Keeps ==
    /\ memory' \in Memories
    /\ Range(call'.places) \subseteq Places
    /\ reply'.is \in Kinds

Contents(m) == [p \in Places |-> Value(p, m)]

(* Places without repetition.                                              *)
ArePlaces(places) ==
    /\ Len(places) \in Nat
    /\ DOMAIN places = 1 .. Len(places)
    /\ \A k \in DOMAIN places : places[k] \in Places
    /\ \A k, l \in DOMAIN places : places[k] = places[l] => k = l

LEMMA Singleton ==
    ASSUME NEW x
    PROVE  DOMAIN <<x>> = {1} /\ <<x>>[1] = x /\ \A k \in DOMAIN <<x>> : <<x>>[k] = x
OBVIOUS

LEMMA RangeOfPlaces ==
    ASSUME NEW places, \A k \in DOMAIN places : places[k] \in Places
    PROVE  Range(places) \subseteq Places
BY DEF Range

LEMMA AccessFields ==
    ASSUME NEW op, NEW places, NEW values, NEW from, Access(op, places, values, from)
    PROVE  call'.op = op /\ call'.places = places /\ call'.values = values /\ call'.from = from
BY DEF Access

LEMMA AnswerFields ==
    ASSUME NEW is, NEW values
    PROVE  Answer(is, values) = Typed!Answer(is, values) /\ Answer(is, values).is = is
BY DEF Answer, Typed!Answer

LEMMA ReadStep ==
    ASSUME memory \in Memories, NEW answer, answer.is \in Kinds, Reads(answer),
           NEW op, NEW places, NEW values, NEW from, Access(op, places, values, from),
           \A k \in DOMAIN places : places[k] \in Places
    PROVE  /\ Keeps
           /\ reply' = answer
           /\ Contents(memory') = Contents(memory)
<1>1. reply' = answer /\ memory' = memory
  BY DEF Reads
<1>2. call'.places = places
  BY AccessFields
<1>. QED
  BY <1>1, <1>2, RangeOfPlaces DEF Keeps

LEMMA LoadStep ==
    ASSUME memory \in Memories, NEW p \in Places,
           Access("get", <<p>>, <<>>, <<>>), Reads(Answer("number", <<Value(p, memory)>>))
    PROVE  Keeps /\ Typed!Next
<1>1. \A k \in DOMAIN <<p>> : <<p>>[k] \in Places
  OBVIOUS
<1>2. Answer("number", <<Value(p, memory)>>).is \in Kinds
  BY AnswerFields DEF Kinds
<1>3. /\ Keeps
      /\ reply' = Answer("number", <<Value(p, memory)>>)
      /\ Contents(memory') = Contents(memory)
  BY <1>1, <1>2, ReadStep
<1>4. call'.op = "get" /\ call'.places = <<p>>
  BY AccessFields
<1>5. <<p>> # <<>> /\ <<p>>[1] = p
  OBVIOUS
<1>6. reply' = Typed!Answer("number", <<Contents(memory)[call'.places[1]]>>)
  BY <1>3, <1>4, <1>5, AnswerFields DEF Contents
<1>7. Typed!Load(call')
  BY <1>3, <1>4, <1>5, <1>6 DEF Typed!Load, Contents
<1>. QED
  BY <1>3, <1>7 DEF Typed!Next

LEMMA LoadBeyondStep ==
    ASSUME memory \in Memories,
           Access("get", <<>>, <<>>, <<>>), Reads(Answer("exception", <<>>))
    PROVE  Keeps /\ Typed!Next
<1>1. Answer("exception", <<>>).is \in Kinds
  BY AnswerFields DEF Kinds
<1>2. /\ Keeps
      /\ reply' = Answer("exception", <<>>)
      /\ Contents(memory') = Contents(memory)
  BY <1>1, ReadStep
<1>3. call'.op = "get" /\ call'.places = <<>>
  BY AccessFields
<1>4. Typed!Load(call')
  BY <1>2, <1>3, AnswerFields DEF Typed!Load, Typed!Raised, Contents
<1>. QED
  BY <1>2, <1>4 DEF Typed!Next

LEMMA LoadSliceStep ==
    ASSUME memory \in Memories, NEW places, \A k \in DOMAIN places : places[k] \in Places,
           Access("get slice", places, <<>>, <<>>),
           Reads(Answer("list", [k \in DOMAIN places |-> Value(places[k], memory)]))
    PROVE  Keeps /\ Typed!Next
<1>. DEFINE values == [k \in DOMAIN places |-> Value(places[k], memory)]
<1>1. Answer("list", values).is \in Kinds
  BY AnswerFields, Zenon DEF Kinds
<1>2. /\ Keeps
      /\ reply' = Answer("list", values)
      /\ Contents(memory') = Contents(memory)
  BY <1>1, ReadStep
<1>3. call'.op = "get slice" /\ call'.places = places
  BY AccessFields
<1>4. values = [k \in DOMAIN call'.places |-> Contents(memory)[call'.places[k]]]
  BY <1>3 DEF Contents
<1>5. Typed!LoadSlice(call')
  <2>1. /\ call'.op = "get slice"
        /\ reply' = Typed!Answer("list", [k \in DOMAIN call'.places |-> Contents(memory)[call'.places[k]]])
        /\ Contents(memory') = Contents(memory)
    BY ONLY <1>2, <1>3, <1>4, AnswerFields, Zenon
  <2>. QED
    BY <2>1, Zenon DEF Typed!LoadSlice, Contents
<1>. QED
  BY <1>2, <1>5 DEF Typed!Next

LEMMA LoadThroughStep ==
    ASSUME memory \in Memories, NEW p \in Places, NEW index, NEW places, NEW q \in Range(places),
           q \in Places, q.address = Value(p, memory) + index * q.size,
           Access("get through", <<p>>, <<index>>, places),
           Reads(Answer("number", <<Value(q, memory)>>))
    PROVE  Keeps /\ Typed!Next
<1>. DEFINE answer == Answer("number", <<Value(q, memory)>>)
<1>1. \A k \in DOMAIN <<p>> : <<p>>[k] \in Places
  BY ONLY p \in Places, Singleton
<1>2. answer.is \in Kinds
  BY AnswerFields, Zenon DEF Kinds
<1>3. /\ call'.op = "get through" /\ call'.places = <<p>>
      /\ call'.values = <<index>> /\ call'.from = places
  BY AccessFields
<1>4. answer = Typed!Answer("number", <<Contents(memory)[q]>>)
  BY AnswerFields DEF Contents
<1>. HIDE DEF answer
<1>5. Keeps /\ reply' = answer /\ Contents(memory') = Contents(memory)
  BY <1>1, <1>2, ReadStep DEF answer
<1>6. q.address = Contents(memory)[call'.places[1]] + call'.values[1] * q.size
  <2>1. call'.places[1] = p /\ call'.values[1] = index
    BY <1>3, Singleton, Zenon
  <2>2. Contents(memory)[p] = Value(p, memory)
    BY DEF Contents
  <2>. QED
    BY <2>1, <2>2
<1>7. q \in Typed!Range(call'.from)
  BY <1>3 DEF Range, Typed!Range
<1>8. /\ call'.op = "get through"
      /\ \E x \in Typed!Range(call'.from) :
            /\ x.address = Contents(memory)[call'.places[1]] + call'.values[1] * x.size
            /\ reply' = Typed!Answer("number", <<Contents(memory)[x]>>)
      /\ Contents(memory') = Contents(memory)
  BY <1>3, <1>4, <1>5, <1>6, <1>7, Zenon
<1>9. Typed!LoadThrough(call')
  BY <1>8, Zenon DEF Typed!LoadThrough, Contents
<1>. QED
  BY <1>5, <1>9 DEF Typed!Next

LEMMA AssignStep ==
    ASSUME NEW places, ArePlaces(places), NEW values,
           StoredFirst(places, values, Len(places), memory, memory')
    PROVE  Typed!Assign(places, values)
<1>1. /\ DOMAIN places = 1 .. Len(places)
      /\ \A k \in DOMAIN places : places[k] \in Places
      /\ \A k, l \in DOMAIN places : places[k] = places[l] => k = l
  BY DEF ArePlaces
<1>2. /\ \A k \in DOMAIN places : Value(places[k], memory') = Converted(places[k], values[k])
      /\ \A p \in Places : (\A k \in DOMAIN places : places[k] # p) => Value(p, memory') = Value(p, memory)
  BY <1>1 DEF StoredFirst
<1>3. ASSUME NEW p \in Places
      PROVE  Value(p, memory') = IF p \in Typed!Range(places)
                                 THEN Converted(p, values[CHOOSE k \in DOMAIN places : places[k] = p])
                                 ELSE Contents(memory)[p]
  <2>1. CASE p \in Typed!Range(places)
    <3>. DEFINE h == CHOOSE k \in DOMAIN places : places[k] = p
    <3>1. \E k \in DOMAIN places : places[k] = p
      BY <2>1 DEF Typed!Range
    <3>2. h \in DOMAIN places /\ places[h] = p
      BY <3>1
    <3>. HIDE DEF h
    <3>3. Value(p, memory') = Converted(p, values[h])
      BY <1>2, <3>2
    <3>. QED
      BY <2>1, <3>3 DEF h
  <2>2. CASE p \notin Typed!Range(places)
    <3>1. \A k \in DOMAIN places : places[k] # p
      BY <2>2 DEF Typed!Range
    <3>. QED
      BY <1>2, <2>2, <3>1 DEF Contents
  <2>. QED
    BY <2>1, <2>2
<1>4. Contents(memory') = [p \in Places |->
         IF p \in Typed!Range(places)
         THEN Converted(p, values[CHOOSE k \in DOMAIN places : places[k] = p])
         ELSE Contents(memory)[p]]
  BY <1>3, Zenon DEF Contents
<1>. QED
  BY <1>4, Zenon DEF Typed!Assign, Contents, Converted

LEMMA FirstPlaces ==
    ASSUME NEW places, ArePlaces(places), NEW c \in 0 .. Len(places)
    PROVE  /\ ArePlaces(SubSeq(places, 1, c))
           /\ Len(SubSeq(places, 1, c)) = c
           /\ \A k \in 1 .. c : SubSeq(places, 1, c)[k] = places[k]
<1>1. /\ Len(places) \in Nat /\ DOMAIN places = 1 .. Len(places)
      /\ \A k \in DOMAIN places : places[k] \in Places
      /\ \A k, l \in DOMAIN places : places[k] = places[l] => k = l
  BY DEF ArePlaces
<1>2. c \in Nat /\ \A k \in 1 .. c : k \in DOMAIN places
  BY <1>1
<1>3. SubSeq(places, 1, c) = [k \in 1 .. c |-> places[k]]
  <2>1. \A k \in 1 .. c : 0 + k = k
    OBVIOUS
  <2>2. SubSeq(places, 0 + 1, 0 + c) = Part(places, 0, c)
    BY <1>2, SubSeqIsPart
  <2>3. 0 + 1 = 1 /\ 0 + c = c
    BY <1>2
  <2>. QED
    BY <2>1, <2>2, <2>3 DEF Part
<1>. DEFINE s == SubSeq(places, 1, c)
<1>4. DOMAIN s = 1 .. c /\ Len(s) = c /\ \A k \in 1 .. c : s[k] = places[k]
  BY <1>2, <1>3
<1>. HIDE DEF s
<1>5. ArePlaces(s)
  BY <1>1, <1>2, <1>4 DEF ArePlaces
<1>. QED
  BY <1>4, <1>5 DEF s

LEMMA WriteStep ==
    ASSUME NEW w, w.memory \in Memories, Writes(w),
           NEW op, NEW places, ArePlaces(places), NEW values, NEW from, Access(op, places, values, from)
    PROVE  Keeps /\ memory' = w.memory /\ reply' = IF w.raised THEN Typed!Raised ELSE Typed!Done
<1>1. memory' = w.memory /\ reply' = IF w.raised THEN Typed!Raised ELSE Typed!Done
  BY DEF Writes
<1>2. Typed!Raised.is \in Kinds /\ Typed!Done.is \in Kinds
  BY DEF Typed!Raised, Typed!Done, Typed!Answer, Kinds
<1>3. Range(call'.places) \subseteq Places
  BY AccessFields, RangeOfPlaces DEF ArePlaces
<1>. QED
  BY <1>1, <1>2, <1>3 DEF Keeps

LEMMA StoreStep ==
    ASSUME NEW w, NEW places, ArePlaces(places), NEW values, Sets(w, places, values, memory),
           Writes(w), Access("set", places, values, <<>>)
    PROVE  Keeps /\ Typed!Next
<1>1. PICK c : /\ FirstFit(places, values, c, Len(places))
               /\ w.raised <=> c < Len(places)
               /\ StoredFirst(places, values, c, memory, w.memory)
  BY DEF Sets
<1>2. c \in 0 .. Len(places) /\ Len(places) \in Nat
  BY <1>1 DEF FirstFit, ArePlaces
<1>3. w.memory \in Memories
  BY <1>1 DEF StoredFirst
<1>4. Keeps /\ memory' = w.memory /\ reply' = IF w.raised THEN Typed!Raised ELSE Typed!Done
  BY <1>3, WriteStep
<1>5. call'.op = "set" /\ call'.places = places /\ call'.values = values
  BY AccessFields
<1>. DEFINE s == SubSeq(places, 1, c)
<1>6. ArePlaces(s) /\ Len(s) = c /\ \A k \in 1 .. c : s[k] = places[k]
  BY <1>2, FirstPlaces
<1>. HIDE DEF s
<1>7. StoredFirst(s, values, Len(s), memory, memory')
  BY <1>1, <1>4, <1>6 DEF StoredFirst
<1>8. Typed!Assign(s, values)
  BY <1>6, <1>7, AssignStep
<1>9. reply' = IF c = Len(places) THEN Typed!Done ELSE Typed!Raised
  <2>1. w.raised <=> c # Len(places)
    BY <1>1, <1>2
  <2>. QED
    BY <1>4, <2>1
<1>10. /\ \A k \in 1 .. c : Typed!Fits(places[k], values[k])
       /\ c < Len(places) => ~ Typed!Fits(places[c + 1], values[c + 1])
  BY <1>1 DEF FirstFit
<1>11. Typed!Store(call')
  BY <1>2, <1>5, <1>8, <1>9, <1>10, Zenon DEF Typed!Store, s
<1>. QED
  BY <1>4, <1>11 DEF Typed!Next

LEMMA StoreSliceStep ==
    ASSUME memory \in Memories, NEW places, ArePlaces(places), NEW values, NEW w,
           LET fits == /\ Len(values) = Len(places)
                       /\ \A k \in DOMAIN places : values[k] \in 0 .. Modulus[places[k]] - 1
           IN  /\ fits => w.raised = FALSE /\ StoredFirst(places, values, Len(places), memory, w.memory)
               /\ ~ fits => w = Failed(memory),
           Writes(w), Access("set slice", places, values, <<>>)
    PROVE  Keeps /\ Typed!Next
<1>. DEFINE fits == /\ Len(values) = Len(places)
                    /\ \A k \in DOMAIN places : values[k] \in 0 .. Modulus[places[k]] - 1
<1>1. /\ fits => w.raised = FALSE /\ StoredFirst(places, values, Len(places), memory, w.memory)
      /\ ~ fits => w = Failed(memory)
  OBVIOUS
<1>2. call'.op = "set slice" /\ call'.places = places /\ call'.values = values
  BY AccessFields
<1>3. fits <=> /\ Len(call'.values) = Len(call'.places)
               /\ \A k \in DOMAIN call'.places : call'.values[k] \in 0 .. Modulus[call'.places[k]] - 1
  BY <1>2
<1>. HIDE DEF fits
<1>4. CASE fits
  <2>1. w.raised = FALSE /\ StoredFirst(places, values, Len(places), memory, w.memory)
    BY <1>1, <1>4
  <2>2. w.memory \in Memories
    BY <2>1 DEF StoredFirst
  <2>3. Keeps /\ memory' = w.memory /\ reply' = Typed!Done
    BY <2>1, <2>2, WriteStep
  <2>4. Typed!Assign(places, values)
    BY <2>1, <2>3, AssignStep
  <2>5. Typed!StoreSlice(call')
    BY <1>2, <1>3, <1>4, <2>3, <2>4, Zenon DEF Typed!StoreSlice
  <2>. QED
    BY <2>3, <2>5 DEF Typed!Next
<1>5. CASE ~ fits
  <2>1. w.raised = TRUE /\ w.memory = memory
    <3>1. w = [memory |-> memory, raised |-> TRUE]
      BY <1>1, <1>5, Zenon DEF Failed
    <3>. QED
      BY ONLY <3>1
  <2>2. Keeps /\ memory' = memory /\ reply' = Typed!Raised
    BY <2>1, WriteStep
  <2>3. Contents(memory') = Contents(memory)
    BY <2>2
  <2>4. Typed!StoreSlice(call')
    BY <1>2, <1>3, <1>5, <2>2, <2>3, Zenon DEF Typed!StoreSlice, Contents
  <2>. QED
    BY <2>2, <2>4 DEF Typed!Next
<1>. QED
  BY <1>4, <1>5

LEMMA CopyStep ==
    ASSUME NEW places, ArePlaces(places), NEW from, \A k \in DOMAIN from : from[k] \in Places, NEW w,
           w.raised = FALSE,
           StoredFirst(places, [k \in DOMAIN from |-> Value(from[k], memory)], Len(places), memory, w.memory),
           Writes(w), Access("copy", places, <<>>, from)
    PROVE  Keeps /\ Typed!Next
<1>. DEFINE values == [k \in DOMAIN from |-> Value(from[k], memory)]
<1>1. values = [k \in DOMAIN from |-> Contents(memory)[from[k]]]
  BY DEF Contents
<1>2. StoredFirst(places, values, Len(places), memory, w.memory)
  OBVIOUS
<1>. HIDE DEF values
<1>3. w.memory \in Memories
  BY <1>2 DEF StoredFirst
<1>4. Keeps /\ memory' = w.memory /\ reply' = Typed!Done
  BY <1>3, WriteStep
<1>5. Typed!Assign(places, values)
  BY <1>2, <1>4, AssignStep
<1>6. call'.op = "copy" /\ call'.places = places /\ call'.from = from
  BY AccessFields
<1>7. Typed!Copy(call')
  BY <1>1, <1>4, <1>5, <1>6, Zenon DEF Typed!Copy, Contents
<1>. QED
  BY <1>4, <1>7 DEF Typed!Next

LEMMA ArrayPlaces ==
    ASSUME NEW o \in Objects
    PROVE  /\ ArePlaces(All(o))
           /\ \A i \in DOMAIN o.items : i \in 1 .. o.proxy.length /\ ArePlaces(o.items[i])
<1>1. ArePlaces(All(o))
  BY AllProperties DEF ArePlaces
<1>2. ASSUME NEW i \in DOMAIN o.items PROVE i \in 1 .. o.proxy.length /\ ArePlaces(o.items[i])
  <2>1. i \in 1 .. o.proxy.length
    BY ObjectProperties
  <2>2. DOMAIN o.items[i] = 1 .. Parts(o) /\ Len(o.items[i]) = Parts(o) /\ Parts(o) \in Nat
    BY PlaceOfPart, PartProperties
  <2>3. \A k \in 1 .. Parts(o) : o.items[i][k] \in Places
    BY <2>1, PlaceProperties
  <2>4. ASSUME NEW k \in 1 .. Parts(o), NEW l \in 1 .. Parts(o), o.items[i][k] = o.items[i][l], k # l
        PROVE  FALSE
    <3>. DEFINE p == o.items[i][k]
    <3>1. Cells(p) \cap Cells(p) = {}
      BY <2>1, <2>4, PartsApart
    <3>2. p \in Places
      BY <2>3
    <3>3. p.address \in Nat /\ p.size \in Nat \ {0}
      BY <3>2, PlacesProperties
    <3>. HIDE DEF p
    <3>4. p.address \in Cells(p)
      BY <3>3 DEF Cells
    <3>. QED
      BY <3>1, <3>4
  <2>. QED
    BY <2>1, <2>2, <2>3, <2>4 DEF ArePlaces
<1>. QED
  BY <1>1, <1>2

LEMMA SinglePlace ==
    ASSUME NEW p \in Places
    PROVE  ArePlaces(<<p>>)
<1>1. Len(<<p>>) = 1 /\ DOMAIN <<p>> = 1 .. 1
  OBVIOUS
<1>2. \A k \in 1 .. 1 : k = 1
  OBVIOUS
<1>3. <<p>>[1] = p
  OBVIOUS
<1>. QED
  BY <1>1, <1>2, <1>3 DEF ArePlaces

-----------------------------------------------------------------------------
(* The actions.                                                            *)

LEMMA ReadSliceImplements ==
    ASSUME memory \in Memories, ReadSlice
    PROVE  Keeps /\ Typed!Next
<1>1. PICK o \in Arrays : /\ Access("get slice", All(o), <<>>, <<>>)
                          /\ Reads(GetSlice(o.proxy, 0, Len(o.items), memory))
  BY DEF ReadSlice
<1>. DEFINE places == All(o)
<1>2. /\ DOMAIN places = 1 .. o.proxy.length
      /\ \A k \in DOMAIN places : places[k] = o.items[k][1] /\ places[k] \in Places
  BY ArrayProperties
<1>. HIDE DEF places
<1>3. [k \in 1 .. o.proxy.length |-> Value(o.items[k][1], memory)]
          = [k \in DOMAIN places |-> Value(places[k], memory)]
  BY <1>2
<1>4. GetSlice(o.proxy, 0, Len(o.items), memory)
          = Answer("list", [k \in DOMAIN places |-> Value(places[k], memory)])
  BY <1>3, ListIsRead
<1>5. /\ Access("get slice", places, <<>>, <<>>)
      /\ Reads(Answer("list", [k \in DOMAIN places |-> Value(places[k], memory)]))
  BY <1>1, <1>4, Zenon DEF places
<1>. QED
  BY <1>2, <1>5, LoadSliceStep

(* An integer member, and a pointer.                                       *)
LEMMA MemberProperties ==
    ASSUME NEW o \in Structs, NEW i \in DOMAIN o.items, NEW kind, NEW k \in MembersOf(o, kind)
    PROVE  /\ o \in Objects /\ o \in Variables /\ i \in 1 .. o.proxy.length /\ k \in 1 .. Parts(o)
           /\ PartType(o, k).kind = kind
           /\ o.proxy.type.members[k].type = PartType(o, k)
           /\ o.items[i][k] \in Places
           /\ o.items[i][k].size = PartType(o, k).size
           /\ o.items[i][k].signed = (PartType(o, k).kind = "int" /\ PartType(o, k).signed)
           /\ Member(Element(o.proxy, i - 1), k) = Proxy(PartType(o, k), o.items[i][k].address)
<1>1. o \in Objects /\ o \in Variables /\ o.proxy.type.kind = "struct"
  BY DEF Structs, Variables
<1>2. i \in 1 .. o.proxy.length
  BY <1>1, ObjectProperties
<1>3. k \in 1 .. Parts(o) /\ PartType(o, k).kind = kind
  BY IntegersComeFirst
<1>4. o.proxy.type.members[k].type = PartType(o, k)
  BY <1>1, KindsDiffer DEF PartType
<1>5. /\ o.items[i][k] \in Places
      /\ o.items[i][k].size = PartType(o, k).size
      /\ o.items[i][k].signed = (PartType(o, k).kind = "int" /\ PartType(o, k).signed)
  BY <1>1, <1>2, <1>3, PlaceProperties
<1>6. Member(Element(o.proxy, i - 1), k) = Proxy(PartType(o, k), o.items[i][k].address)
  BY <1>2, <1>3, MemberOfElement
<1>. QED
  BY <1>1, <1>2, <1>3, <1>4, <1>5, <1>6

LEMMA ReadMemberImplements ==
    ASSUME memory \in Memories, ReadMember
    PROVE  Keeps /\ Typed!Next
<1>1. PICK o \in Structs : \E i \in DOMAIN o.items, k \in MembersOf(o, "int") :
          /\ Access("get", <<o.items[i][k]>>, <<>>, <<>>)
          /\ Reads(GetValue(Member(Element(o.proxy, i - 1), k), memory))
  BY DEF ReadMember
<1>2. PICK i \in DOMAIN o.items, k \in MembersOf(o, "int") :
          /\ Access("get", <<o.items[i][k]>>, <<>>, <<>>)
          /\ Reads(GetValue(Member(Element(o.proxy, i - 1), k), memory))
  BY <1>1
<1>. DEFINE p == o.items[i][k]
            type == PartType(o, k)
<1>3. /\ p \in Places /\ p.size = type.size /\ p.signed = (type.kind = "int" /\ type.signed)
      /\ type.kind = "int" /\ o \in Objects /\ k \in 1 .. Parts(o)
      /\ Member(Element(o.proxy, i - 1), k) = Proxy(type, p.address)
  BY MemberProperties
<1>4. type.signed = p.signed
  <2>1. type.signed \in BOOLEAN
    BY <1>3, PartProperties, KindsDiffer
  <2>. QED
    BY <1>3, <2>1
<1>. HIDE DEF p, type
<1>5. GetValue(Proxy(type, p.address), memory) = Answer("number", <<Value(p, memory)>>)
  BY <1>3, <1>4, NumberIsRead
<1>6. Access("get", <<p>>, <<>>, <<>>) /\ Reads(Answer("number", <<Value(p, memory)>>))
  BY <1>2, <1>3, <1>5, Zenon DEF p
<1>. QED
  BY <1>3, <1>6, LoadStep

LEMMA ElementOfProxy ==
    ASSUME NEW type, type.kind # "array", NEW address, NEW index
    PROVE  Element(Proxy(type, address), index) = Proxy(type, address + index * type.size)
<1>. DEFINE x == Proxy(type, address)
<1>1. x.type = type /\ x.address = address /\ x.data = None
  BY DEF Proxy
<1>. HIDE DEF x
<1>2. Element(x, index) = NewProxy(type, address + index * type.size, -1, None)
  BY <1>1, Zenon DEF Element
<1>3. NewProxy(type, address + index * type.size, -1, None) = Proxy(type, address + index * type.size)
  BY DEF NewProxy, Proxy
<1>. QED
  BY <1>2, <1>3 DEF x

LEMMA FirstItem ==
    ASSUME NEW t \in Arrays
    PROVE  /\ t \in Objects /\ 1 \in 1 .. t.proxy.length
           /\ t.proxy.address \in Nat /\ t.proxy.type.size \in Nat \ {0} /\ t.proxy.length \in Nat \ {0, 1}
           /\ t.proxy.type.kind # "array"
           /\ t.items[1][1].address = t.proxy.address
<1>1. /\ t \in Objects /\ 1 \in 1 .. t.proxy.length
      /\ t.proxy.address \in Nat /\ t.proxy.type.size \in Nat \ {0} /\ t.proxy.length \in Nat \ {0, 1}
  BY ObjectProperties DEF Arrays
<1>2. t.items[1][1].address = t.proxy.address + (1 - 1) * t.proxy.type.size
  BY <1>1, ElementIsPlace
<1>3. t.proxy.type.kind # "array"
  BY KindsDiffer DEF Arrays
<1>. QED
  BY <1>1, <1>2, <1>3

(* Indexing a pointer to an array.                                         *)
LEMMA ItemThrough ==
    ASSUME NEW m \in Memories, NEW t \in Arrays, NEW j \in 1 .. t.proxy.length
    PROVE  GetItem(Proxy(t.proxy.type, t.proxy.address), j - 1, m)
               = Answer("number", <<Value(t.items[j][1], m)>>)
<1>. DEFINE type == t.proxy.type
            a == t.proxy.address
            p == t.items[j][1]
            x == Proxy(type, a)
<1>1. /\ p \in Places /\ p.address = a + (j - 1) * type.size
      /\ p.size = type.size /\ p.signed = type.signed
  BY ElementIsPlace
<1>2. x.length = -1
  BY DEF Proxy
<1>. HIDE DEF p
<1>3. Element(x, j - 1) = Proxy(type, p.address)
  BY <1>1, FirstItem, ElementOfProxy
<1>4. GetValue(Proxy(type, p.address), m) = Answer("number", <<Value(p, m)>>)
  BY <1>1, NumberIsRead
<1>. HIDE DEF x
<1>5. GetItem(x, j - 1, m) = GetValue(Element(x, j - 1), m)
  BY <1>2, Zenon DEF GetItem, OutOfRange
<1>. QED
  BY <1>3, <1>4, <1>5 DEF x, p

(* The proxy of what a pointer is at.                                      *)
LEMMA PointerIsFollowed ==
    ASSUME NEW m \in Memories, NEW p \in Places, ~ p.signed,
           NEW type, type.size = p.size, type.kind = "pointer",
           NEW t \in Arrays, type.base = t.proxy.type, Value(p, m) = t.items[1][1].address
    PROVE  Dereference(Proxy(type, p.address), 0, m) = Proxy(t.proxy.type, t.proxy.address)
<1>. DEFINE x == Proxy(type, p.address)
            n == p.size
<1>1. p.address \in Nat /\ n \in Nat \ {0}
  BY PlacesProperties
<1>2. p.address + 0 * type.size = p.address /\ n * 1 = n /\ ~ (-1 > 0)
  BY <1>1
<1>3. Element(x, 0) = x
  <2>1. type.kind # "array"
    BY KindsDiffer
  <2>2. Element(x, 0) = Proxy(type, p.address + 0 * type.size)
    BY <2>1, ElementOfProxy
  <2>. QED
    BY <1>2, <2>2
<1>4. x.type = type /\ x.address = p.address /\ x.length = -1 /\ x.data = None
  BY DEF Proxy
<1>. HIDE DEF x
<1>5. Content(x, m) = Slice(m, p.address, n)
  BY <1>2, <1>4 DEF Content
<1>6. FromBytes(Slice(m, p.address, n)) = Value(p, m)
  BY ValueProperties DEF Decoded
<1>7. FromBytes(Content(Element(x, 0), m)) = t.proxy.address
  BY <1>3, <1>5, <1>6, FirstItem
<1>8. Dereference(x, 0, m) = NewProxy(t.proxy.type, t.proxy.address, -1, None)
  BY <1>4, <1>7, Zenon DEF Dereference
<1>9. t.proxy.type.kind # "array"
  BY FirstItem
<1>. QED
  BY <1>8, <1>9 DEF NewProxy, Proxy, x

LEMMA ReadThroughImplements ==
    ASSUME memory \in Memories, ReadThrough
    PROVE  Keeps /\ Typed!Next
<1>1. PICK o \in Structs : \E i \in DOMAIN o.items, k \in MembersOf(o, "pointer"), t \in Arrays \cap Variables :
        \E j \in DOMAIN t.items :
            /\ o.proxy.type.members[k].type.base = t.proxy.type
            /\ Value(o.items[i][k], memory) = t.items[1][1].address
            /\ Access("get through", <<o.items[i][k]>>, <<j - 1>>, All(t))
            /\ Reads(GetItem(Dereference(Member(Element(o.proxy, i - 1), k), 0, memory), j - 1, memory))
  BY DEF ReadThrough
<1>2. PICK i \in DOMAIN o.items, k \in MembersOf(o, "pointer"), t \in Arrays \cap Variables :
        \E j \in DOMAIN t.items :
            /\ o.proxy.type.members[k].type.base = t.proxy.type
            /\ Value(o.items[i][k], memory) = t.items[1][1].address
            /\ Access("get through", <<o.items[i][k]>>, <<j - 1>>, All(t))
            /\ Reads(GetItem(Dereference(Member(Element(o.proxy, i - 1), k), 0, memory), j - 1, memory))
  BY <1>1
<1>3. PICK j \in DOMAIN t.items :
            /\ o.proxy.type.members[k].type.base = t.proxy.type
            /\ Value(o.items[i][k], memory) = t.items[1][1].address
            /\ Access("get through", <<o.items[i][k]>>, <<j - 1>>, All(t))
            /\ Reads(GetItem(Dereference(Member(Element(o.proxy, i - 1), k), 0, memory), j - 1, memory))
  BY <1>2
<1>. DEFINE p == o.items[i][k]
            type == PartType(o, k)
            q == t.items[j][1]
            index == j - 1
<1>4. /\ p \in Places /\ p.size = type.size /\ p.signed = (type.kind = "int" /\ type.signed)
      /\ type.kind = "pointer" /\ type.base = t.proxy.type
      /\ Member(Element(o.proxy, i - 1), k) = Proxy(type, p.address)
  <2>1. /\ p \in Places /\ p.size = type.size /\ p.signed = (type.kind = "int" /\ type.signed)
        /\ type.kind = "pointer" /\ o.proxy.type.members[k].type = type
        /\ Member(Element(o.proxy, i - 1), k) = Proxy(type, p.address)
    BY MemberProperties
  <2>2. o.proxy.type.members[k].type.base = t.proxy.type
    BY <1>3
  <2>. HIDE DEF p, type
  <2>. QED
    BY <2>1, <2>2
<1>5. ~ p.signed
  BY <1>4, KindsDiffer
<1>6. t \in Arrays /\ t \in Objects /\ j \in 1 .. t.proxy.length
  BY ObjectProperties DEF Arrays
<1>7. /\ q \in Places /\ q \in Range(All(t))
      /\ q.address = t.proxy.address + index * q.size
  BY <1>6, ArrayProperties DEF Range
<1>8. Value(p, memory) = t.proxy.address
  BY <1>3, <1>6, FirstItem
<1>. HIDE DEF p, type
<1>9. Dereference(Proxy(type, p.address), 0, memory) = Proxy(t.proxy.type, t.proxy.address)
  BY <1>3, <1>4, <1>5, <1>6, PointerIsFollowed DEF p
<1>10. GetItem(Proxy(t.proxy.type, t.proxy.address), index, memory)
          = Answer("number", <<Value(q, memory)>>)
  BY <1>6, ItemThrough
<1>. HIDE DEF q, index
<1>11. /\ Access("get through", <<p>>, <<index>>, All(t))
       /\ Reads(Answer("number", <<Value(q, memory)>>))
  BY ONLY <1>3, <1>4, <1>9, <1>10, Zenon DEF p, index
<1>12. q.address = Value(p, memory) + index * q.size
  BY <1>7, <1>8
<1>. QED
  BY <1>4, <1>7, <1>11, <1>12, LoadThroughStep

(* What a function returns of an unsigned place is its value.              *)
LEMMA ReturnThroughImplements ==
    ASSUME memory \in Memories, ReturnThrough
    PROVE  Keeps /\ Typed!Next
<1>1. PICK o \in Structs : \E i \in DOMAIN o.items, k \in MembersOf(o, "pointer"), t \in Arrays \cap Variables :
        \E j \in DOMAIN t.items :
            /\ o.proxy.type.members[k].type.base = t.proxy.type
            /\ Value(o.items[i][k], memory) = t.items[1][1].address
            /\ Access("get through", <<o.items[i][k]>>, <<j - 1>>, All(t))
            /\ LET returned == ReturnedPointer(Result(o.items[i][k]), o.proxy.type.members[k].type)
               IN  Reads(GetItem(returned, j - 1, memory))
  BY DEF ReturnThrough
<1>2. PICK i \in DOMAIN o.items, k \in MembersOf(o, "pointer"), t \in Arrays \cap Variables :
        \E j \in DOMAIN t.items :
            /\ o.proxy.type.members[k].type.base = t.proxy.type
            /\ Value(o.items[i][k], memory) = t.items[1][1].address
            /\ Access("get through", <<o.items[i][k]>>, <<j - 1>>, All(t))
            /\ Reads(GetItem(ReturnedPointer(Result(o.items[i][k]), o.proxy.type.members[k].type), j - 1, memory))
  BY <1>1
<1>3. PICK j \in DOMAIN t.items :
            /\ o.proxy.type.members[k].type.base = t.proxy.type
            /\ Value(o.items[i][k], memory) = t.items[1][1].address
            /\ Access("get through", <<o.items[i][k]>>, <<j - 1>>, All(t))
            /\ Reads(GetItem(ReturnedPointer(Result(o.items[i][k]), o.proxy.type.members[k].type), j - 1, memory))
  BY <1>2
<1>. DEFINE p == o.items[i][k]
            type == PartType(o, k)
            q == t.items[j][1]
            index == j - 1
            v == Value(p, memory)
<1>4. /\ p \in Places /\ p.size = type.size /\ p.signed = (type.kind = "int" /\ type.signed)
      /\ type.kind = "pointer" /\ type.base = t.proxy.type
      /\ o.proxy.type.members[k].type = type
      /\ o \in Objects /\ k \in 1 .. Parts(o)
  <2>1. /\ p \in Places /\ p.size = type.size /\ p.signed = (type.kind = "int" /\ type.signed)
        /\ type.kind = "pointer" /\ o.proxy.type.members[k].type = type
        /\ o \in Objects /\ k \in 1 .. Parts(o)
    BY MemberProperties
  <2>2. o.proxy.type.members[k].type.base = t.proxy.type
    BY <1>3
  <2>. HIDE DEF p, type
  <2>. QED
    BY <2>1, <2>2
<1>5. ~ p.signed /\ p.size <= SizeofLong
  BY <1>4, PartProperties, KindsDiffer
<1>6. t \in Arrays /\ t \in Objects /\ j \in 1 .. t.proxy.length
  BY ObjectProperties DEF Arrays
<1>7. /\ q \in Places /\ q \in Range(All(t))
      /\ q.address = t.proxy.address + index * q.size
  BY <1>6, ArrayProperties DEF Range
<1>8. v = t.proxy.address
  BY <1>3, <1>6, FirstItem
<1>9. v % Power[SizeofLong] = v
  <2>1. v \in Representable(p) /\ v \in Int
    BY <1>4, ValueProperties
  <2>2. v \in 0 .. Modulus[p] - 1
    BY <1>5, <2>1 DEF Representable, Typed!Representable
  <2>3. p.size \in Nat /\ Modulus[p] = Power[p.size] /\ Modulus[p] \in Nat
    BY <1>4, PlacesProperties
  <2>4. SizeofLong \in Nat
    BY VarProxyAssumption
  <2>5. Power[p.size] <= Power[SizeofLong] /\ Power[SizeofLong] \in Nat \ {0}
    BY <1>5, <2>3, <2>4, PowerMonotonic, PowerProperties
  <2>. HIDE DEF v
  <2>6. v \in 0 .. Power[SizeofLong] - 1
    BY <2>2, <2>3, <2>5
  <2>. QED
    BY ONLY <2>5, <2>6, SmallDivision
<1>. HIDE DEF p, type
<1>10. ReturnedPointer(Result(p), type) = Proxy(t.proxy.type, t.proxy.address)
  <2>1. Result(p) = t.proxy.address
    BY <1>8, <1>9 DEF Result
  <2>2. ReturnedPointer(Result(p), type) = NewProxy(t.proxy.type, t.proxy.address, -1, None)
    BY <1>4, <2>1 DEF ReturnedPointer
  <2>3. t.proxy.type.kind # "array"
    BY <1>6, FirstItem
  <2>. QED
    BY <2>2, <2>3 DEF NewProxy, Proxy
<1>11. GetItem(Proxy(t.proxy.type, t.proxy.address), index, memory)
          = Answer("number", <<Value(q, memory)>>)
  BY <1>6, ItemThrough
<1>. HIDE DEF q, index
<1>12. /\ Access("get through", <<p>>, <<index>>, All(t))
       /\ Reads(Answer("number", <<Value(q, memory)>>))
  BY ONLY <1>3, <1>4, <1>10, <1>11, Zenon DEF p, index
<1>13. q.address = Value(p, memory) + index * q.size
  BY <1>7, <1>8
<1>. QED
  BY <1>4, <1>7, <1>12, <1>13, LoadThroughStep

(* A result is converted like a number that is read.                       *)
LEMMA ReturnItemImplements ==
    ASSUME memory \in Memories, ReturnItem
    PROVE  Keeps /\ Typed!Next
<1>1. PICK o \in Arrays : \E i \in DOMAIN o.items :
        /\ o.proxy.type.size = SizeofLong
        /\ Access("get", o.items[i], <<>>, <<>>)
        /\ Reads(ReturnedNumber(Result(o.items[i][1]), o.proxy.type))
  BY DEF ReturnItem
<1>2. PICK i \in DOMAIN o.items :
        /\ o.proxy.type.size = SizeofLong
        /\ Access("get", o.items[i], <<>>, <<>>)
        /\ Reads(ReturnedNumber(Result(o.items[i][1]), o.proxy.type))
  BY <1>1
<1>. DEFINE p == o.items[i][1]
            type == o.proxy.type
            bytes == Slice(memory, p.address, p.size)
<1>3. i \in 1 .. o.proxy.length
  BY ObjectProperties DEF Arrays
<1>4. /\ p \in Places /\ o.items[i] = <<p>>
      /\ p.size = type.size /\ p.signed = type.signed
  BY <1>3, ElementIsPlace
<1>5. p.signed \in BOOLEAN /\ Modulus[p] = Power[p.size]
  BY <1>4, PlacesProperties
<1>. HIDE DEF p, type
<1>6. /\ bytes \in [1 .. p.size -> Bytes]
      /\ Value(p, memory) = Decoded(p, bytes)
      /\ Value(p, memory) % Modulus[p] = FromBytes(bytes)
  BY <1>4, ValueProperties
<1>. HIDE DEF bytes
<1>7. Result(p) = FromBytes(bytes)
  BY <1>2, <1>4, <1>5, <1>6 DEF Result, type
<1>8. Signed(FromBytes(bytes), type) = Value(p, memory)
  BY <1>4, <1>6, SignedIsDecoded
<1>9. \A n : (IF type.signed THEN uint2int(n, type.size) ELSE n) = Signed(n, type)
  BY DEF uint2int, Signed
<1>10. ReturnedNumber(Result(p), type) = Answer("number", <<Value(p, memory)>>)
  BY <1>7, <1>8, <1>9, Zenon DEF ReturnedNumber
<1>11. Access("get", <<p>>, <<>>, <<>>) /\ Reads(Answer("number", <<Value(p, memory)>>))
  BY <1>2, <1>4, <1>10, Zenon DEF p, type
<1>. QED
  BY <1>4, <1>11, LoadStep

LEMMA WriteItemImplements ==
    ASSUME memory \in Memories, WriteItem
    PROVE  Keeps /\ Typed!Next
<1>1. PICK o \in Arrays \cap Variables : \E i \in DOMAIN o.items, v \in Numbers :
        /\ Access("set", o.items[i], <<v>>, <<>>)
        /\ Writes(SetNumber(Element(o.proxy, i - 1), v, memory))
  BY DEF WriteItem
<1>2. PICK i \in DOMAIN o.items, v \in Numbers :
        /\ Access("set", o.items[i], <<v>>, <<>>)
        /\ Writes(SetNumber(Element(o.proxy, i - 1), v, memory))
  BY <1>1
<1>3. i \in 1 .. o.proxy.length /\ ArePlaces(o.items[i])
  BY ArrayPlaces DEF Arrays
<1>4. v \in Int
  BY VarProxyAssumption
<1>5. Sets(SetNumber(Element(o.proxy, i - 1), v, memory), o.items[i], <<v>>, memory)
  BY <1>3, <1>4, ItemIsSet
<1>. QED
  BY <1>2, <1>3, <1>5, StoreStep

LEMMA WriteSliceImplements ==
    ASSUME memory \in Memories, WriteSlice
    PROVE  Keeps /\ Typed!Next
<1>1. PICK o \in Arrays \cap Variables :
        \E values \in UNION {[1 .. n -> Numbers] : n \in {Len(o.items) - 1, Len(o.items)}} :
            /\ Access("set slice", All(o), values, <<>>)
            /\ Writes(SetSlice(o.proxy, 0, Len(o.items), values, memory))
  BY DEF WriteSlice
<1>2. PICK values \in UNION {[1 .. n -> Numbers] : n \in {Len(o.items) - 1, Len(o.items)}} :
            /\ Access("set slice", All(o), values, <<>>)
            /\ Writes(SetSlice(o.proxy, 0, Len(o.items), values, memory))
  BY <1>1
<1>3. PICK n \in {Len(o.items) - 1, Len(o.items)} : values \in [1 .. n -> Numbers]
  OBVIOUS
<1>4. o \in Arrays /\ o \in Objects /\ n \in Nat
  BY ObjectProperties DEF Arrays
<1>5. values \in [1 .. n -> Int]
  BY <1>3, VarProxyAssumption
<1>. DEFINE w == SetSlice(o.proxy, 0, Len(o.items), values, memory)
            places == All(o)
<1>6. LET fits == /\ Len(values) = Len(places)
                  /\ \A k \in DOMAIN places : values[k] \in 0 .. Modulus[places[k]] - 1
      IN  /\ fits => w.raised = FALSE /\ StoredFirst(places, values, Len(places), memory, w.memory)
          /\ ~ fits => w = Failed(memory)
  BY <1>4, <1>5, SliceIsSet
<1>7. ArePlaces(places)
  BY <1>4, ArrayPlaces
<1>8. Access("set slice", places, values, <<>>) /\ Writes(w)
  BY <1>2
<1>. HIDE DEF w, places
<1>. QED
  BY <1>6, <1>7, <1>8, StoreSliceStep

LEMMA InitialiseImplements ==
    ASSUME memory \in Memories, Initialise
    PROVE  Keeps /\ Typed!Next
<1>1. PICK o \in Arrays \cap Variables : \E values \in [DOMAIN o.items -> Numbers] :
        /\ Access("set", All(o), values, <<>>)
        /\ Writes(SetElements(o.proxy, values, memory))
  BY DEF Initialise
<1>2. PICK values \in [DOMAIN o.items -> Numbers] :
        /\ Access("set", All(o), values, <<>>)
        /\ Writes(SetElements(o.proxy, values, memory))
  BY <1>1
<1>3. o \in Objects /\ DOMAIN o.items = 1 .. o.proxy.length
  BY ObjectProperties DEF Arrays
<1>4. values \in [1 .. o.proxy.length -> Int]
  BY <1>3, VarProxyAssumption
<1>5. Sets(SetElements(o.proxy, values, memory), All(o), values, memory)
  BY <1>4, ElementsAreSet
<1>. QED
  BY <1>2, <1>3, <1>5, ArrayPlaces, StoreStep

LEMMA WriteMemberImplements ==
    ASSUME memory \in Memories, WriteMember
    PROVE  Keeps /\ Typed!Next
<1>1. PICK o \in Structs : \E i \in DOMAIN o.items, k \in MembersOf(o, "int"), v \in Numbers :
        /\ Access("set", <<o.items[i][k]>>, <<v>>, <<>>)
        /\ Writes(SetNumber(Member(Element(o.proxy, i - 1), k), v, memory))
  BY DEF WriteMember
<1>2. PICK i \in DOMAIN o.items, k \in MembersOf(o, "int"), v \in Numbers :
        /\ Access("set", <<o.items[i][k]>>, <<v>>, <<>>)
        /\ Writes(SetNumber(Member(Element(o.proxy, i - 1), k), v, memory))
  BY <1>1
<1>3. i \in 1 .. o.proxy.length /\ k \in 1 .. Parts(o) /\ o.items[i][k] \in Places
  BY MemberProperties
<1>4. v \in Int
  BY VarProxyAssumption
<1>5. /\ ArePlaces(<<o.items[i][k]>>)
      /\ Sets(SetNumber(Member(Element(o.proxy, i - 1), k), v, memory), <<o.items[i][k]>>, <<v>>, memory)
  BY <1>3, <1>4, MemberIsSet, SinglePlace
<1>. QED
  BY <1>2, <1>5, StoreStep

LEMMA WritePointerImplements ==
    ASSUME memory \in Memories, WritePointer
    PROVE  Keeps /\ Typed!Next
<1>1. PICK o \in Structs : \E i \in DOMAIN o.items, k \in MembersOf(o, "pointer"), t \in Arrays \cap Variables :
        /\ Access("set", <<o.items[i][k]>>, <<t.items[1][1].address>>, <<>>)
        /\ Writes(SetProxy(Member(Element(o.proxy, i - 1), k), t.proxy, memory))
  BY DEF WritePointer
<1>2. PICK i \in DOMAIN o.items, k \in MembersOf(o, "pointer"), t \in Arrays \cap Variables :
        /\ Access("set", <<o.items[i][k]>>, <<t.items[1][1].address>>, <<>>)
        /\ Writes(SetProxy(Member(Element(o.proxy, i - 1), k), t.proxy, memory))
  BY <1>1
<1>3. i \in 1 .. o.proxy.length /\ k \in 1 .. Parts(o) /\ o.items[i][k] \in Places
  BY MemberProperties
<1>4. /\ ArePlaces(<<o.items[i][k]>>)
      /\ Sets(SetProxy(Member(Element(o.proxy, i - 1), k), t.proxy, memory),
              <<o.items[i][k]>>, <<t.items[1][1].address>>, memory)
  BY <1>3, PointerIsSet, SinglePlace
<1>. QED
  BY <1>2, <1>4, StoreStep

LEMMA WriteMembersImplements ==
    ASSUME memory \in Memories, WriteMembers
    PROVE  Keeps /\ Typed!Next
<1>1. PICK o \in Structs : \E i \in DOMAIN o.items : \E values \in [MembersOf(o, "int") -> Numbers] :
        /\ Access("set", SubSeq(o.items[i], 1, Len(values)), values, <<>>)
        /\ Writes(SetMembers(Element(o.proxy, i - 1), values, memory))
  BY DEF WriteMembers
<1>2. PICK i \in DOMAIN o.items : \E values \in [MembersOf(o, "int") -> Numbers] :
        /\ Access("set", SubSeq(o.items[i], 1, Len(values)), values, <<>>)
        /\ Writes(SetMembers(Element(o.proxy, i - 1), values, memory))
  BY <1>1
<1>3. PICK values \in [MembersOf(o, "int") -> Numbers] :
        /\ Access("set", SubSeq(o.items[i], 1, Len(values)), values, <<>>)
        /\ Writes(SetMembers(Element(o.proxy, i - 1), values, memory))
  BY <1>2
<1>4. o \in Objects
  BY DEF Structs, Variables
<1>5. i \in 1 .. o.proxy.length /\ ArePlaces(o.items[i]) /\ Len(o.items[i]) = Parts(o)
  BY <1>4, ArrayPlaces, PlaceOfPart
<1>6. values \in [MembersOf(o, "int") -> Int]
  BY VarProxyAssumption
<1>7. PICK c \in 0 .. Parts(o) : MembersOf(o, "int") = 1 .. c
  BY IntegersComeFirst
<1>8. c \in Nat /\ Len(values) = c /\ Parts(o) \in Nat
  <2>1. Parts(o) \in Nat
    BY <1>4, PartProperties
  <2>. QED
    BY <1>7, <2>1
<1>9. ArePlaces(SubSeq(o.items[i], 1, Len(values)))
  BY <1>5, <1>7, <1>8, FirstPlaces
<1>10. Sets(SetMembers(Element(o.proxy, i - 1), values, memory),
            SubSeq(o.items[i], 1, Len(values)), values, memory)
  BY <1>5, <1>6, MembersAreSet
<1>. QED
  BY <1>3, <1>9, <1>10, StoreStep

LEMMA WriteStructImplements ==
    ASSUME memory \in Memories, WriteStruct
    PROVE  Keeps /\ Typed!Next
<1>1. PICK o \in Structs : \E i, j \in DOMAIN o.items :
        /\ Access("copy", o.items[i], <<>>, o.items[j])
        /\ Writes(SetProxy(Element(o.proxy, i - 1), Element(o.proxy, j - 1), memory))
  BY DEF WriteStruct
<1>2. PICK i \in DOMAIN o.items, j \in DOMAIN o.items :
        /\ Access("copy", o.items[i], <<>>, o.items[j])
        /\ Writes(SetProxy(Element(o.proxy, i - 1), Element(o.proxy, j - 1), memory))
  BY <1>1
<1>3. o \in Objects
  BY DEF Structs, Variables
<1>. DEFINE w == SetProxy(Element(o.proxy, i - 1), Element(o.proxy, j - 1), memory)
            places == o.items[i]
            from == o.items[j]
<1>4. /\ i \in 1 .. o.proxy.length /\ j \in 1 .. o.proxy.length
      /\ ArePlaces(places) /\ ArePlaces(from)
  BY <1>3, ArrayPlaces
<1>5. /\ w.raised = FALSE
      /\ StoredFirst(places, [k \in DOMAIN from |-> Value(from[k], memory)], Len(places), memory, w.memory)
  BY <1>4, StructIsCopied
<1>6. \A k \in DOMAIN from : from[k] \in Places
  BY <1>4 DEF ArePlaces
<1>7. Writes(w) /\ Access("copy", places, <<>>, from)
  BY <1>2
<1>. HIDE DEF w, places, from
<1>. QED
  BY <1>4, <1>5, <1>6, <1>7, CopyStep

LEMMA MemsetImplements ==
    ASSUME memory \in Memories, Memset
    PROVE  Keeps /\ Typed!Next
<1>1. PICK o \in Variables :
        /\ Access("set", All(o), [k \in DOMAIN All(o) |-> 0], <<>>)
        /\ Writes(Wrote(memory, o.proxy.address, [k \in 1 .. Sizeof(o.proxy) |-> 0]))
  BY DEF Memset
<1>. DEFINE w == Wrote(memory, o.proxy.address, [k \in 1 .. Sizeof(o.proxy) |-> 0])
            places == All(o)
            zeros == [k \in DOMAIN places |-> 0]
<1>2. ArePlaces(places)
  BY ArrayPlaces DEF Variables
<1>3. StoredFirst(places, zeros, Len(places), memory, w.memory)
  BY MemsetStores
<1>4. w.raised = FALSE
  BY DEF Wrote
<1>5. Writes(w) /\ Access("set", places, zeros, <<>>)
  BY <1>1
<1>. HIDE DEF w, places
<1>6. /\ Len(places) \in Nat /\ DOMAIN places = 1 .. Len(places)
      /\ \A k \in DOMAIN places : places[k] \in Places
  BY <1>2 DEF ArePlaces
<1>7. \A k \in 1 .. Len(places) : Typed!Fits(places[k], zeros[k])
  <2>. TAKE k \in 1 .. Len(places)
  <2>1. places[k] \in Places /\ zeros[k] = 0
    BY <1>6
  <2>2. Modulus[places[k]] \in Nat \ {0}
    BY <2>1, PlacesProperties
  <2>. QED
    BY <2>1, <2>2 DEF Typed!Fits
<1>. HIDE DEF zeros
<1>8. FirstFit(places, zeros, Len(places), Len(places))
  BY <1>6, <1>7 DEF FirstFit
<1>9. Sets(w, places, zeros, memory)
  <2>1. w.raised <=> Len(places) < Len(places)
    BY <1>4, <1>6
  <2>. QED
    BY <1>3, <1>8, <2>1, Zenon DEF Sets
<1>. QED
  BY <1>2, <1>5, <1>9, StoreStep

LEMMA MemmoveImplements ==
    ASSUME memory \in Memories, Memmove
    PROVE  Keeps /\ Typed!Next
<1>1. PICK o \in Arrays \cap Variables, source \in Arrays :
        /\ source.proxy.type.size = o.proxy.type.size
        /\ source.proxy.length = o.proxy.length
        /\ Access("copy", All(o), <<>>, All(source))
        /\ Writes(Wrote(memory, o.proxy.address,
                        Slice(memory, source.proxy.address, Sizeof(o.proxy))))
  BY DEF Memmove
<1>. DEFINE w == Wrote(memory, o.proxy.address,
                       Slice(memory, source.proxy.address, Sizeof(o.proxy)))
            places == All(o)
            from == All(source)
<1>2. ArePlaces(places)
  BY ArrayPlaces DEF Variables
<1>3. /\ StoredFirst(places, [k \in DOMAIN from |-> Value(from[k], memory)], Len(places), memory, w.memory)
      /\ \A k \in DOMAIN from : from[k] \in Places
  BY <1>1, MemmoveStores
<1>4. w.raised = FALSE
  BY DEF Wrote
<1>5. Writes(w) /\ Access("copy", places, <<>>, from)
  BY <1>1
<1>. HIDE DEF w, places, from
<1>. QED
  BY <1>2, <1>3, <1>4, <1>5, CopyStep

LEMMA ReadItemKeeps ==
    ASSUME memory \in Memories, ReadItem
    PROVE  Keeps
<1>0. PICK o \in Arrays \cap OneByOne : \E i \in 0 .. Len(o.items) :
        /\ Access("get", IF i < Len(o.items) THEN o.items[i + 1] ELSE <<>>, <<>>, <<>>)
        /\ Reads(GetItem(o.proxy, i, memory))
  BY DEF ReadItem
<1>1. PICK i \in 0 .. Len(o.items) :
        /\ Access("get", IF i < Len(o.items) THEN o.items[i + 1] ELSE <<>>, <<>>, <<>>)
        /\ Reads(GetItem(o.proxy, i, memory))
  BY <1>0
<1>2. o \in Objects /\ Len(o.items) \in Nat /\ DOMAIN o.items = 1 .. Len(o.items)
  BY ObjectProperties DEF Arrays
<1>. DEFINE places == IF i < Len(o.items) THEN o.items[i + 1] ELSE <<>>
            answer == GetItem(o.proxy, i, memory)
<1>3. \A k \in DOMAIN places : places[k] \in Places
  <2>1. CASE i < Len(o.items)
    <3>1. i + 1 \in DOMAIN o.items
      BY <1>2, <2>1
    <3>2. ArePlaces(o.items[i + 1])
      BY <1>2, <3>1, ArrayPlaces
    <3>. QED
      BY <2>1, <3>2 DEF ArePlaces
  <2>2. CASE ~ (i < Len(o.items))
    BY <2>2
  <2>. QED
    BY <2>1, <2>2
<1>4. answer.is \in Kinds
  <2>1. \E is \in Kinds : \E values : answer = Answer(is, values)
    BY DEF GetItem, GetValue, Kinds
  <2>. QED
    BY <2>1, AnswerFields
<1>5. Access("get", places, <<>>, <<>>) /\ Reads(answer)
  BY <1>1
<1>. HIDE DEF places, answer
<1>. QED
  BY <1>3, <1>4, <1>5, ReadStep

(* An item of a variable; those of a constant are read wrong (see OneByOne). *)
LEMMA ReadItemImplements ==
    ASSUME memory \in Memories, OneByOne \subseteq Variables, ReadItem
    PROVE  Typed!Next
<1>0. PICK o \in Arrays \cap OneByOne : \E i \in 0 .. Len(o.items) :
        /\ Access("get", IF i < Len(o.items) THEN o.items[i + 1] ELSE <<>>, <<>>, <<>>)
        /\ Reads(GetItem(o.proxy, i, memory))
  BY DEF ReadItem
<1>1. PICK i \in 0 .. Len(o.items) :
        /\ Access("get", IF i < Len(o.items) THEN o.items[i + 1] ELSE <<>>, <<>>, <<>>)
        /\ Reads(GetItem(o.proxy, i, memory))
  BY <1>0
<1>2. /\ o \in Arrays /\ o \in Variables /\ o \in Objects
      /\ o.proxy.length \in Nat \ {0, 1} /\ Len(o.items) = o.proxy.length
      /\ o.proxy.length # -1
  BY ObjectProperties DEF Arrays
<1>3. OutOfRange(o.proxy, i) <=> ~ (i < Len(o.items))
  BY <1>2 DEF OutOfRange
<1>4. CASE i < Len(o.items)
  <2>. DEFINE h == i + 1
              p == o.items[h][1]
              type == o.proxy.type
  <2>1. h \in 1 .. o.proxy.length /\ h - 1 = i
    BY <1>2, <1>4
  <2>. HIDE DEF h
  <2>2. /\ p \in Places /\ o.items[h] = <<p>>
        /\ p.address = o.proxy.address + (h - 1) * type.size
        /\ p.size = type.size /\ p.signed = type.signed
    BY <1>2, <2>1, ElementIsPlace
  <2>3. Element(o.proxy, h - 1) = Proxy(type, p.address)
    BY <1>2, <2>1, <2>2, ElementOfVariable
  <2>. HIDE DEF p, type
  <2>4. GetValue(Proxy(type, p.address), memory) = Answer("number", <<Value(p, memory)>>)
    BY <2>2, NumberIsRead
  <2>5. GetItem(o.proxy, i, memory) = Answer("number", <<Value(p, memory)>>)
    BY <1>3, <1>4, <2>1, <2>3, <2>4, Zenon DEF GetItem
  <2>6. Access("get", <<p>>, <<>>, <<>>) /\ Reads(Answer("number", <<Value(p, memory)>>))
    BY <1>1, <1>4, <2>2, <2>5, Zenon DEF h
  <2>. QED
    BY <2>2, <2>6, LoadStep
<1>5. CASE ~ (i < Len(o.items))
  <2>1. GetItem(o.proxy, i, memory) = Answer("exception", <<>>)
    BY <1>3, <1>5, Zenon DEF GetItem
  <2>2. Access("get", <<>>, <<>>, <<>>) /\ Reads(Answer("exception", <<>>))
    BY <1>1, <1>5, <2>1, Zenon
  <2>. QED
    BY <2>2, LoadBeyondStep
<1>. QED
  BY <1>4, <1>5

LEMMA EveryActionKeeps ==
    ASSUME memory \in Memories, Next
    PROVE  Keeps
BY ReadItemKeeps, ReadSliceImplements, ReadMemberImplements, ReadThroughImplements,
   ReturnItemImplements, ReturnThroughImplements, WriteItemImplements, WriteSliceImplements,
   InitialiseImplements, WriteMemberImplements, WritePointerImplements, WriteMembersImplements,
   WriteStructImplements, MemsetImplements, MemmoveImplements DEF Next

LEMMA EveryActionImplements ==
    ASSUME memory \in Memories, OneByOne \subseteq Variables, Next
    PROVE  Typed!Next
BY ReadItemImplements, ReadSliceImplements, ReadMemberImplements, ReadThroughImplements,
   ReturnItemImplements, ReturnThroughImplements, WriteItemImplements, WriteSliceImplements,
   InitialiseImplements, WriteMemberImplements, WritePointerImplements, WriteMembersImplements,
   WriteStructImplements, MemsetImplements, MemmoveImplements DEF Next

-----------------------------------------------------------------------------
LEMMA MemoriesAreTyped ==
    ASSUME NEW m
    PROVE  m \in Memories <=> /\ m \in [Addrs \cup DOMAIN Rom -> 0 .. ByteValues - 1]
                              /\ Restrict(m, DOMAIN Rom) = Rom
<1>1. Rom = [a \in DOMAIN Rom |-> Rom[a]]
  BY VarProxyAssumption
<1>2. Restrict(m, DOMAIN Rom) = Rom <=> \A a \in DOMAIN Rom : m[a] = Rom[a]
  BY <1>1 DEF Restrict
<1>. QED
  BY <1>2 DEF Memories, Bytes

(* Whatever a test reads or writes, memory keeps its extent, every byte of *)
(* it is a byte, the library's constants keep theirs, and an access is     *)
(* about places of the test's objects.                                     *)
THEOREM VarProxyTypes == Spec => []TypeOK
<1>1. Init => TypeOK
  <2>. SUFFICES ASSUME Init PROVE TypeOK
    OBVIOUS
  <2>1. memory = [a \in Addrs \cup DOMAIN Rom |-> IF a \in Addrs THEN 0 ELSE Rom[a]]
    BY DEF Init
  <2>2. 0 \in Bytes /\ \A a \in DOMAIN Rom : Rom[a] \in Bytes /\ a \notin Addrs
    BY NumeralsAssumption, VarProxyAssumption DEF Bytes
  <2>3. memory \in Memories
    BY <2>1, <2>2 DEF Memories
  <2>4. call.op = "none" /\ reply.is = "nothing"
    BY DEF Init, Typed!NoCall, Typed!Done, Typed!Answer
  <2>. QED
    BY <2>3, <2>4, MemoriesAreTyped DEF TypeOK
<1>2. TypeOK /\ [Next]_vars => TypeOK'
  <2>. SUFFICES ASSUME TypeOK, [Next]_vars PROVE TypeOK'
    OBVIOUS
  <2>1. memory \in Memories
    BY MemoriesAreTyped DEF TypeOK
  <2>2. CASE Next
    <3>1. Keeps
      BY <2>1, <2>2, EveryActionKeeps
    <3>. QED
      BY <3>1, MemoriesAreTyped DEF Keeps, Kinds, TypeOK
  <2>3. CASE UNCHANGED vars
    BY <2>3 DEF vars, TypeOK
  <2>. QED
    BY <2>2, <2>3
<1>. QED
  BY <1>1, <1>2, PTL DEF Spec

(* Through the bytes of either order, the offsets of C and the conversions *)
(* of get_value and set_value, a proxy is the typed memory it stands for:  *)
(* for every library, if the constants' elements are not read one by one.  *)
THEOREM VarProxyImplementsTypedMemory ==
    ASSUME OneByOne \subseteq Variables
    PROVE  Spec => ImplementsTypedMemory
<1>1. Init => Typed!Init
  <2>. SUFFICES ASSUME Init PROVE Typed!Init
    OBVIOUS
  <2>1. memory \in Memories
    <3>1. memory = [a \in Addrs \cup DOMAIN Rom |-> IF a \in Addrs THEN 0 ELSE Rom[a]]
      BY DEF Init
    <3>2. 0 \in Bytes /\ \A a \in DOMAIN Rom : Rom[a] \in Bytes /\ a \notin Addrs
      BY NumeralsAssumption, VarProxyAssumption DEF Bytes
    <3>. QED
      BY <3>1, <3>2 DEF Memories
  <2>2. \A p \in Places : Value(p, memory) \in Typed!Representable(p)
    BY <2>1, ValueProperties DEF Representable
  <2>. QED
    BY <2>2 DEF Init, Typed!Init
<1>2. TypeOK /\ [Next]_vars => [Typed!Next]_Typed!typedVars
  <2>. SUFFICES ASSUME TypeOK, [Next]_vars PROVE [Typed!Next]_Typed!typedVars
    OBVIOUS
  <2>1. memory \in Memories
    BY MemoriesAreTyped DEF TypeOK
  <2>2. CASE Next
    BY <2>1, <2>2, EveryActionImplements
  <2>3. CASE UNCHANGED vars
    BY <2>3 DEF vars, Typed!typedVars
  <2>. QED
    BY <2>2, <2>3
<1>. QED
  BY <1>1, <1>2, VarProxyTypes, PTL DEF Spec, ImplementsTypedMemory, Typed!Spec

=============================================================================
