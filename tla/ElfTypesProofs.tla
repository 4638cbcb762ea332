--------------------------- MODULE ElfTypesProofs ---------------------------
(***************************************************************************)
(* Proofs about ElfTypes: whatever the entries of the file, what is known  *)
(* stays known, variables get the address of their definition in any order *)
(* of the units, and every registered struct or union has its members once *)
(* they have been made.  The recursion over entries is bounded, although   *)
(* structs refer to each other, and reading entries never raises where the *)
(* classes know their kinds and a name is one thing throughout.            *)
(***************************************************************************)
EXTENDS ElfTypes, SequenceTheorems, TLAPS

(* Sequences of whatever there is.                                         *)
IsSeq(s) == \E S : s \in Seq(S)

Appended(s, x, t) ==
    /\ IsSeq(t)
    /\ Len(t) = Len(s) + 1
    /\ DOMAIN t = 1 .. (Len(s) + 1) /\ DOMAIN s = 1 .. Len(s) /\ Len(s) \in Nat
    /\ t[Len(s) + 1] = x
    /\ \A k \in DOMAIN s : t[k] = s[k]

LEMMA AppendedIs == ASSUME NEW s, NEW x, IsSeq(s) PROVE Appended(s, x, Append(s, x))
<1>1. PICK S : s \in Seq(S)
  BY DEF IsSeq
<1> DEFINE T == S \cup {x}
<1>2. s \in Seq(T) /\ x \in T
  <2>1. Len(s) \in Nat /\ DOMAIN s = 1 .. Len(s) /\ s \in [1 .. Len(s) -> S]
    BY <1>1
  <2>2. s \in [1 .. Len(s) -> T]
    BY <2>1
  <2> QED
    BY <2>1, <2>2
<1>3. Append(s, x) \in Seq(T)
  BY <1>2
<1>4. IsSeq(Append(s, x))
  BY <1>3 DEF IsSeq
<1> HIDE DEF T
<1> QED
  BY <1>2, <1>4 DEF Appended

LEMMA ExceptIsSeq ==
    ASSUME NEW s, NEW k, NEW x, IsSeq(s)
    PROVE  LET t == [s EXCEPT ![k] = x]
           IN  IsSeq(t) /\ DOMAIN t = DOMAIN s
<1>1. PICK S : s \in Seq(S)
  BY DEF IsSeq
<1>2. Len(s) \in Nat /\ DOMAIN s = 1 .. Len(s) /\ s \in [1 .. Len(s) -> S]
  BY <1>1
<1> DEFINE T == S \cup {x}
           t == [s EXCEPT ![k] = x]
<1>3. t \in [1 .. Len(s) -> T]
  BY <1>2
<1>4. t \in Seq(T)
  BY <1>2, <1>3
<1> QED
  BY <1>2, <1>3, <1>4 DEF IsSeq

LEMMA IsSeqDomain == ASSUME NEW s, IsSeq(s) PROVE Len(s) \in Nat /\ DOMAIN s = 1 .. Len(s)
  BY DEF IsSeq

-----------------------------------------------------------------------------
(* The fields an object has, given the objects there are.                  *)
IsObject(object, objects) ==
    /\ {"kind", "typename", "size", "typedef"} \subseteq DOMAIN object
    /\ object.typedef \in BOOLEAN
    /\ object.kind \in {"variable", "function"} => "address" \in DOMAIN object
    /\ object.kind \in {"struct", "union"} => "members" \in DOMAIN object
    /\ object.kind \in {"pointer", "array"} =>
          "base" \in DOMAIN object /\ object.base \in DOMAIN objects
    /\ object.kind = "array" /\ ~object.typedef =>
          "length" \in DOMAIN object /\ (object.length = -1 => object.size = -1)
    /\ object.kind = "array" /\ object.typedef => objects[object.base].kind = "array"

IsBackend(b) ==
    /\ DOMAIN b = {"objects", "types", "enums"}
    /\ IsSeq(b.objects)
    /\ \A t \in DOMAIN b.objects : IsObject(b.objects[t], b.objects)
    /\ \A name \in DOMAIN b.types :
          b.types[name] \in DOMAIN b.objects /\ b.objects[b.types[name]].typename = name
    /\ "void" \in DOMAIN b.types

(* What an object keeps.                                                   *)
Keeps(before, after) ==
    /\ after.kind = before.kind
    /\ after.typename = before.typename
    /\ after.typedef = before.typedef
    /\ before.kind = "array" => after.base = before.base
    /\ before.kind \in {"variable", "function"} /\ before.address # None => after.address = before.address
    /\ before.size # -1 => after.size = before.size

Grows(b, c) ==
    /\ DOMAIN b.objects \subseteq DOMAIN c.objects
    /\ \A t \in DOMAIN b.objects : Keeps(b.objects[t], c.objects[t])
    /\ \A name \in DOMAIN b.types : name \in DOMAIN c.types /\ c.types[name] = b.types[name]

MembersKept(b, c) ==
    \A t \in DOMAIN b.objects :
        b.objects[t].kind \in {"struct", "union"} => c.objects[t].members = b.objects[t].members

LEMMA GrowsReflexive == ASSUME NEW b PROVE Grows(b, b) /\ MembersKept(b, b)
  BY DEF Grows, MembersKept, Keeps

LEMMA GrowsTransitive ==
    ASSUME NEW b, NEW c, NEW d, Grows(b, c), Grows(c, d)
    PROVE  Grows(b, d) /\ (MembersKept(b, c) /\ MembersKept(c, d) => MembersKept(b, d))
<1>1. DOMAIN b.objects \subseteq DOMAIN d.objects
  BY DEF Grows
<1>2. \A t \in DOMAIN b.objects : Keeps(b.objects[t], d.objects[t])
  <2> TAKE t \in DOMAIN b.objects
  <2>1. Keeps(b.objects[t], c.objects[t]) /\ Keeps(c.objects[t], d.objects[t])
    BY DEF Grows
  <2> QED
    BY <2>1 DEF Keeps
<1>3. \A name \in DOMAIN b.types : name \in DOMAIN d.types /\ d.types[name] = b.types[name]
  BY DEF Grows
<1>4. MembersKept(b, c) /\ MembersKept(c, d) => MembersKept(b, d)
  BY DEF MembersKept, Grows, Keeps
<1> QED
  BY <1>1, <1>2, <1>3, <1>4 DEF Grows

(* Objects that keep what they are keep objects that refer to them well    *)
(* formed.                                                                 *)
LEMMA ObjectStays ==
    ASSUME NEW o, NEW before, NEW after, IsObject(o, before),
           DOMAIN before \subseteq DOMAIN after,
           \A t \in DOMAIN before : after[t].kind = before[t].kind
    PROVE  IsObject(o, after)
  BY DEF IsObject

-----------------------------------------------------------------------------
(* An object is made, and it is the only difference.                       *)
Adds(b, o, c) ==
    /\ IsBackend(c) /\ Grows(b, c) /\ MembersKept(b, c)
    /\ Len(b.objects) + 1 \in DOMAIN c.objects
    /\ c.objects[Len(b.objects) + 1] = o
    /\ \A t \in DOMAIN c.objects : t \in DOMAIN b.objects \/ t = Len(b.objects) + 1
    /\ \A t \in DOMAIN b.objects : c.objects[t] = b.objects[t]
    /\ c.types = b.types

LEMMA ObjectsAppended ==
    ASSUME NEW b, NEW o, NEW c, IsBackend(b), IsObject(o, b.objects),
           DOMAIN c = DOMAIN b, c.types = b.types, c.objects = Append(b.objects, o)
    PROVE  Adds(b, o, c)
<1> DEFINE n == Len(b.objects)
<1>1. Appended(b.objects, o, c.objects)
  BY AppendedIs DEF IsBackend
<1>2. /\ n \in Nat /\ DOMAIN b.objects = 1 .. n /\ DOMAIN c.objects = 1 .. (n + 1)
      /\ c.objects[n + 1] = o
      /\ \A t \in 1 .. n : c.objects[t] = b.objects[t]
  BY <1>1 DEF Appended
<1> HIDE DEF n
<1>3. DOMAIN b.objects \subseteq DOMAIN c.objects
  BY <1>2
<1>4. \A t \in DOMAIN c.objects : t \in DOMAIN b.objects \/ t = n + 1
  BY <1>2
<1>5. \A x : IsObject(x, b.objects) => IsObject(x, c.objects)
  <2>1. \A t \in DOMAIN b.objects : c.objects[t].kind = b.objects[t].kind
    BY <1>2
  <2> QED
    BY <1>3, <2>1, ObjectStays
<1>6. \A t \in DOMAIN b.objects : IsObject(b.objects[t], b.objects)
  BY DEF IsBackend
<1>7. \A t \in DOMAIN c.objects : IsObject(c.objects[t], c.objects)
  BY <1>2, <1>4, <1>5, <1>6
<1>8. IsBackend(c)
  <2>1. IsSeq(c.objects)
    BY <1>1 DEF Appended
  <2> QED
    BY <2>1, <1>2, <1>3, <1>7 DEF IsBackend
<1>9. Grows(b, c) /\ MembersKept(b, c)
  BY <1>2, <1>3 DEF Grows, MembersKept, Keeps
<1> QED
  BY <1>2, <1>3, <1>4, <1>8, <1>9 DEF Adds, n

LEMMA NewAdds ==
    ASSUME NEW b, NEW o, IsBackend(b), IsObject(o, b.objects)
    PROVE  Adds(b, o, New(b, o).backend) /\ New(b, o).type = Len(b.objects) + 1
<1> DEFINE c == [b EXCEPT !.objects = Append(@, o)]
<1>1. New(b, o).backend = c /\ New(b, o).type = Len(b.objects) + 1
  BY DEF New, Made
<1>2. DOMAIN c = DOMAIN b /\ c.types = b.types /\ c.objects = Append(b.objects, o)
  BY DEF IsBackend
<1> HIDE DEF c
<1>3. Adds(b, o, c)
  BY <1>2, ObjectsAppended
<1> QED
  BY <1>1, <1>3

(* A name is given, unless it is known.                                    *)
Names(b, t, c) ==
    /\ IsBackend(c) /\ Grows(b, c) /\ MembersKept(b, c)
    /\ c.objects = b.objects
    /\ DOMAIN c.types = DOMAIN b.types \cup {b.objects[t].typename}
    /\ \A name \in DOMAIN b.types : c.types[name] = b.types[name]
    /\ b.objects[t].typename \notin DOMAIN b.types => c.types[b.objects[t].typename] = t

LEMMA RegisterNames ==
    ASSUME NEW b, NEW t, IsBackend(b), t \in DOMAIN b.objects
    PROVE  Names(b, t, Register(b, t))
<1> DEFINE name == b.objects[t].typename
           types == [n \in DOMAIN b.types \cup {name} |-> IF n \in DOMAIN b.types THEN b.types[n] ELSE t]
           c == Register(b, t)
<1>1. DOMAIN c = DOMAIN b /\ c.types = types /\ c.objects = b.objects
  BY DEF Register, IsBackend
<1>2. /\ DOMAIN types = DOMAIN b.types \cup {name}
      /\ \A n \in DOMAIN b.types : types[n] = b.types[n]
      /\ name \notin DOMAIN b.types => types[name] = t
  OBVIOUS
<1> HIDE DEF c, types, name
<1>3. \A n \in DOMAIN types : types[n] \in DOMAIN b.objects /\ b.objects[types[n]].typename = n
  <2> TAKE n \in DOMAIN types
  <2>1. CASE n \in DOMAIN b.types
    BY <2>1, <1>2 DEF IsBackend
  <2>2. CASE n \notin DOMAIN b.types
    BY <2>2, <1>2 DEF name
  <2> QED
    BY <2>1, <2>2
<1>4. IsBackend(c)
  BY <1>1, <1>2, <1>3 DEF IsBackend
<1>5. Grows(b, c) /\ MembersKept(b, c)
  BY <1>1, <1>2 DEF Grows, MembersKept, Keeps
<1>6. Names(b, t, c)
  BY <1>1, <1>2, <1>4, <1>5 DEF Names, name
<1> QED
  BY <1>6 DEF c

-----------------------------------------------------------------------------
(* Objects change, none is made, and no name is given.                     *)
Updates(b, c) ==
    /\ IsBackend(c) /\ Grows(b, c)
    /\ DOMAIN c.objects = DOMAIN b.objects /\ c.types = b.types

LEMMA ReplacedUpdates ==
    ASSUME NEW b, NEW t, NEW o, NEW c, IsBackend(b), t \in DOMAIN b.objects,
           IsObject(o, b.objects), Keeps(b.objects[t], o),
           DOMAIN c = DOMAIN b, c.types = b.types, c.objects = [b.objects EXCEPT ![t] = o]
    PROVE  /\ Updates(b, c)
           /\ (b.objects[t].kind \in {"struct", "union"} => o.members = b.objects[t].members) => MembersKept(b, c)
<1>1. IsSeq(c.objects) /\ DOMAIN c.objects = DOMAIN b.objects
  BY ExceptIsSeq DEF IsBackend
<1>2. c.objects[t] = o /\ \A u \in DOMAIN b.objects : u # t => c.objects[u] = b.objects[u]
  OBVIOUS
<1>3. \A u \in DOMAIN b.objects : Keeps(b.objects[u], c.objects[u])
  BY <1>2 DEF Keeps
<1>4. \A u \in DOMAIN b.objects : IsObject(c.objects[u], c.objects)
  <2>1. \A u \in DOMAIN b.objects : IsObject(c.objects[u], b.objects)
    BY <1>2 DEF IsBackend
  <2>2. \A u \in DOMAIN b.objects : c.objects[u].kind = b.objects[u].kind
    BY <1>3 DEF Keeps
  <2> QED
    BY <2>1, <2>2, <1>1, ObjectStays
<1>5. \A name \in DOMAIN c.types :
          c.types[name] \in DOMAIN c.objects /\ c.objects[c.types[name]].typename = name
  BY <1>1, <1>3 DEF IsBackend, Keeps
<1>6. IsBackend(c)
  BY <1>1, <1>4, <1>5 DEF IsBackend
<1>7. Grows(b, c)
  BY <1>1, <1>3 DEF Grows
<1>8. (b.objects[t].kind \in {"struct", "union"} => o.members = b.objects[t].members) => MembersKept(b, c)
  BY <1>2 DEF MembersKept
<1> QED
  BY <1>1, <1>6, <1>7, <1>8 DEF Updates

LEMMA ArrayUpdateKeeps ==
    ASSUME NEW objects, NEW self, NEW other, IsObject(self, objects), IsObject(other, objects),
           self.kind = "array", ~self.typedef, other.kind = "array", self.length = -1 => ~other.typedef
    PROVE  IsObject(ArrayUpdate(self, other), objects) /\ Keeps(self, ArrayUpdate(self, other))
<1>1. CASE self.length = -1 /\ other.length # -1
  <2> DEFINE o == [self EXCEPT !.length = other.length, !.size = other.size]
  <2>1. /\ DOMAIN o = DOMAIN self /\ o.length = other.length /\ o.size = other.size
        /\ o.kind = self.kind /\ o.typename = self.typename /\ o.typedef = self.typedef /\ o.base = self.base
    BY DEF IsObject
  <2>2. self.size = -1
    BY <1>1 DEF IsObject
  <2>3. ArrayUpdate(self, other) = o
    BY <1>1 DEF ArrayUpdate
  <2> HIDE DEF o
  <2>4. IsObject(o, objects)
    BY <2>1, <1>1 DEF IsObject
  <2>5. Keeps(self, o)
    BY <2>1, <2>2 DEF Keeps
  <2> QED
    BY <2>3, <2>4, <2>5
<1>2. CASE ~(self.length = -1 /\ other.length # -1)
  BY <1>2 DEF ArrayUpdate, Keeps
<1> QED
  BY <1>1, <1>2

LEMMA VariableUpdateKeeps ==
    ASSUME NEW objects, NEW self, NEW other, IsObject(self, objects), self.kind = "variable"
    PROVE  /\ IsObject(VariableUpdate(self, other), objects) /\ Keeps(self, VariableUpdate(self, other))
           /\ VariableUpdate(self, other).address = IF self.address = None THEN other.address ELSE self.address
<1> DEFINE o == IF self.address = None
                THEN [self EXCEPT !.address = other.address, !.type = other.type, !.data = other.data]
                ELSE self
           p == IF o.size = -1
                THEN [o EXCEPT !.size = other.size, !.type = other.type, !.data = other.data]
                ELSE o
<1>1. /\ DOMAIN o = DOMAIN self /\ o.kind = self.kind /\ o.typename = self.typename
      /\ o.typedef = self.typedef /\ o.size = self.size
      /\ o.address = IF self.address = None THEN other.address ELSE self.address
  BY DEF IsObject
<1>2. VariableUpdate(self, other) = p
  BY DEF VariableUpdate
<1>3. {"kind", "typename", "size", "typedef", "address"} \subseteq DOMAIN self
  BY DEF IsObject
<1> HIDE DEF o
<1>4. /\ DOMAIN p = DOMAIN self /\ p.kind = self.kind /\ p.typename = self.typename
      /\ p.typedef = self.typedef /\ p.address = o.address
      /\ self.size # -1 => p.size = self.size
  BY <1>1, <1>3
<1> HIDE DEF p
<1>5. IsObject(p, objects)
  BY <1>4 DEF IsObject
<1>6. Keeps(self, p)
  BY <1>1, <1>4 DEF Keeps
<1> QED
  BY <1>1, <1>2, <1>4, <1>5, <1>6

(* The objects after an update.                                            *)
Completed(b, t, u) == [b EXCEPT !.objects = Updated(@, t, u)]

Completes(b, t, u) ==
    /\ Updates(b, Completed(b, t, u)) /\ MembersKept(b, Completed(b, t, u))
    /\ Completed(b, t, u).objects = Updated(b.objects, t, u)

LEMMA UpdatedUpdates ==
    ASSUME NEW b, NEW t, NEW u, IsBackend(b), t \in DOMAIN b.objects, u \in DOMAIN b.objects,
           Updatable(b.objects, t, u)
    PROVE  Completes(b, t, u)
<1> DEFINE c == Completed(b, t, u)
           self == b.objects[t]
           other == b.objects[u]
<1>1. DOMAIN c = DOMAIN b /\ c.types = b.types /\ c.objects = Updated(b.objects, t, u)
  BY DEF IsBackend, Completed
<1>2. IsObject(self, b.objects) /\ IsObject(other, b.objects)
  BY DEF IsBackend
<1>3. CASE self.kind = "variable"
  <2>1. c.objects = [b.objects EXCEPT ![t] = VariableUpdate(self, other)]
    BY <1>1, <1>3 DEF Updated
  <2> HIDE DEF c, Completes
  <2>2. IsObject(VariableUpdate(self, other), b.objects) /\ Keeps(self, VariableUpdate(self, other))
    BY <1>2, <1>3, VariableUpdateKeeps
  <2>3. Updates(b, c) /\ MembersKept(b, c)
    BY <1>1, <1>3, <2>1, <2>2, ReplacedUpdates
  <2> QED
    BY <1>1, <2>3 DEF c, Completes
<1>4. CASE self.kind = "array" /\ ~self.typedef
  <2>1. c.objects = [b.objects EXCEPT ![t] = ArrayUpdate(self, other)]
    BY <1>1, <1>4 DEF Updated
  <2> HIDE DEF c, Completes
  <2>2. IsObject(ArrayUpdate(self, other), b.objects) /\ Keeps(self, ArrayUpdate(self, other))
    BY <1>2, <1>4, ArrayUpdateKeeps DEF Updatable
  <2>3. Updates(b, c) /\ MembersKept(b, c)
    BY <1>1, <1>4, <2>1, <2>2, ReplacedUpdates
  <2> QED
    BY <1>1, <2>3 DEF c, Completes
<1>5. CASE self.kind = "array" /\ self.typedef /\ self.size = -1
  <2> DEFINE o == [self EXCEPT !.size = other.size]
             d == [b EXCEPT !.objects = [@ EXCEPT ![t] = o]]
             base == b.objects[self.base]
             p == ArrayUpdate(base, b.objects[other.base])
  <2>1. c.objects = [[b.objects EXCEPT ![t] = o] EXCEPT ![self.base] = p]
    BY <1>1, <1>5 DEF Updated
  <2>2. DOMAIN d = DOMAIN b /\ d.types = b.types /\ d.objects = [b.objects EXCEPT ![t] = o]
    BY DEF IsBackend
  <2>3. /\ DOMAIN o = DOMAIN self /\ o.kind = self.kind /\ o.typename = self.typename
        /\ o.typedef = self.typedef /\ o.base = self.base
    OBVIOUS
  <2> HIDE DEF c, d, o
  <2>4. IsObject(o, b.objects) /\ Keeps(self, o)
    BY <1>2, <1>5, <2>3 DEF IsObject, Keeps
  <2>5. Updates(b, d) /\ MembersKept(b, d)
    BY <1>5, <2>2, <2>4, ReplacedUpdates
  <2>6. other.kind = "array" /\ other.typedef /\ ~base.typedef /\ ~b.objects[other.base].typedef
    BY <1>5 DEF Updatable
  <2>7. /\ self.base \in DOMAIN b.objects /\ other.base \in DOMAIN b.objects
        /\ base.kind = "array" /\ b.objects[other.base].kind = "array"
    BY <1>2, <1>5, <2>6 DEF IsObject
  <2>8. IsObject(p, b.objects) /\ Keeps(base, p)
    <3>1. IsObject(base, b.objects) /\ IsObject(b.objects[other.base], b.objects)
      BY <2>7 DEF IsBackend
    <3> HIDE DEF base
    <3> QED
      BY <2>6, <2>7, <3>1, ArrayUpdateKeeps
  <2>9. d.objects[self.base] = base /\ self.base \in DOMAIN d.objects
    BY <2>2, <2>6, <2>7, <1>5
  <2> HIDE DEF p
  <2>10. IsObject(p, d.objects)
    <3>1. DOMAIN b.objects \subseteq DOMAIN d.objects /\ \A x \in DOMAIN b.objects : d.objects[x].kind = b.objects[x].kind
      BY <2>5 DEF Updates, Grows, Keeps
    <3> QED
      BY <3>1, <2>8, ObjectStays
  <2>11. Updates(d, c) /\ MembersKept(d, c)
    <3>1. IsBackend(d) /\ DOMAIN c = DOMAIN d /\ c.types = d.types /\ c.objects = [d.objects EXCEPT ![self.base] = p]
      BY <1>1, <2>1, <2>2, <2>5 DEF Updates
    <3>2. Keeps(d.objects[self.base], p) /\ d.objects[self.base].kind = "array"
      BY <2>7, <2>8, <2>9
    <3> QED
      BY <3>1, <3>2, <2>9, <2>10, ReplacedUpdates
  <2>12. Updates(b, c) /\ MembersKept(b, c)
    BY <2>5, <2>11, GrowsTransitive DEF Updates
  <2> QED
    BY <1>1, <2>12 DEF c, Completes
<1>6. CASE /\ self.kind # "variable" /\ ~(self.kind = "array" /\ ~self.typedef)
           /\ ~(self.kind = "array" /\ self.typedef /\ self.size = -1)
  <2>1. c.objects = b.objects
    BY <1>1, <1>6 DEF Updated
  <2> HIDE DEF c, Completes
  <2>2. IsBackend(c)
    BY <1>1, <2>1 DEF IsBackend
  <2>3. Grows(b, c) /\ MembersKept(b, c)
    BY <1>1, <2>1 DEF Grows, MembersKept, Keeps
  <2> QED
    BY <1>1, <2>1, <2>2, <2>3 DEF Updates, c, Completes
<1> QED
  BY <1>3, <1>4, <1>5, <1>6

-----------------------------------------------------------------------------
Types(b) == DOMAIN b.objects \cup {None}

CallsOf(b) == [die : DOMAIN Dies, types : Seq(Types(b)), composite : Types(b)]

(* What fromdie gives is a new object, a variable if the DIE is one, ...   *)
Makes(b, d, m, o) ==
    /\ IsObject(o, b.objects)
    /\ Adds(b, o, m.backend)
    /\ m.type = Len(b.objects) + 1
    /\ o.kind = "variable" <=> Dies[d].tag = "variable"
    /\ Dies[d].tag = "variable" => o.typename = Typename(Declaration(d)) /\ o.address = loc2addr(d)
    /\ o.typedef => Dies[d].tag = "typedef" /\ Has(d, "type")

(* ... or a type there is.                                                 *)
Passes(b, c, m) ==
    /\ m.backend = b
    /\ m.type \in Types(b)
    /\ Dies[c.die].tag # "variable"

IsQualified(d) == Dies[d].tag \in {"const_type", "volatile_type"}

AllKnown(types) == \A k \in DOMAIN types : types[k] # None

Gives(b, c, m) ==
    /\ (\E o : Makes(b, c.die, m, o)) \/ Passes(b, c, m)
    /\ IsType(c.die) /\ (IsQualified(c.die) => AllKnown(c.types)) => m.type # None

LEMMA NewMakes ==
    ASSUME NEW b, NEW d, NEW o, IsBackend(b), IsObject(o, b.objects),
           o.kind = "variable" <=> Dies[d].tag = "variable",
           Dies[d].tag = "variable" => o.typename = Typename(Declaration(d)) /\ o.address = loc2addr(d),
           o.typedef => Dies[d].tag = "typedef" /\ Has(d, "type")
    PROVE  Makes(b, d, New(b, o), o)
  BY NewAdds DEF Makes

LEMMA LenNotNone == ASSUME NEW b, IsBackend(b) PROVE Len(b.objects) + 1 # None /\ None \notin DOMAIN b.objects
<1>1. Len(b.objects) \in Nat /\ DOMAIN b.objects = 1 .. Len(b.objects)
  BY IsSeqDomain DEF IsBackend
<1>2. None \notin Nat
  BY ElfTypesAssumption
<1> QED
  BY <1>1, <1>2

LEMMA VoidIsType == ASSUME NEW b, IsBackend(b) PROVE b.types["void"] \in DOMAIN b.objects
  BY DEF IsBackend

LEMMA FromDieGives ==
    ASSUME NEW b, NEW c, IsBackend(b), c \in CallsOf(b), Complete(b, c)
    PROVE  Gives(b, c, FromDie(b, c))
<1> DEFINE d == c.die
           tag == Dies[d].tag
           m == FromDie(b, c)
           Known == IsQualified(d) => AllKnown(c.types)
<1>1. c.types \in Seq(Types(b))
  BY DEF CallsOf
<1>2. c.types # <<>> => c.types[1] \in Types(b) /\ 1 \in DOMAIN c.types /\ Last(c.types) \in Types(b)
  BY <1>1 DEF Last
<1>3. ASSUME NEW o, Makes(b, d, m, o) PROVE Gives(b, c, m)
  BY <1>3, LenNotNone DEF Gives, Makes
<1>4. ASSUME Passes(b, c, m), IsType(d) /\ Known => m.type # None PROVE Gives(b, c, m)
  BY <1>4 DEF Gives
<1>5. CASE tag = "base_type"
  <2> DEFINE o == BaseType(Typename(d), ByteSize(d), Dies[d].encoding)
  <2>1. m = New(b, o)
    BY <1>5 DEF FromDie, BaseTypeFromDie
  <2>2. IsObject(o, b.objects) /\ o.kind # "variable" /\ ~o.typedef
    BY DEF BaseType, IsObject
  <2> QED
    BY <1>3, <1>5, <2>1, <2>2, NewMakes
<1>6. CASE tag = "typedef"
  <2>1. CASE Has(d, "type")
    <3> DEFINE o == Typedef(Typename(d), c.types[1], b)
    <3>1. m = New(b, o)
      BY <1>6, <2>1 DEF FromDie, TypedefFromDie
    <3>2. /\ c.types[1] \in DOMAIN b.objects
          /\ b.objects[c.types[1]].kind \in {"int", "struct", "pointer", "array", "union"}
      BY <1>2, <1>6, <2>1 DEF Complete, Types
    <3>3. IsObject(o, b.objects) /\ o.kind # "variable"
      BY <3>2 DEF Typedef, IsObject
    <3> QED
      BY <1>3, <1>6, <2>1, <3>1, <3>3, NewMakes
  <2>2. CASE ~Has(d, "type")
    <3>1. m = Made(b, None)
      BY <1>6, <2>2 DEF FromDie, TypedefFromDie
    <3> QED
      BY <1>4, <1>6, <2>2, <3>1 DEF Passes, Made, IsType, Types
  <2> QED
    BY <2>1, <2>2
<1>7. CASE tag \in {"structure_type", "union_type"}
  <2> DEFINE kind == IF tag = "structure_type" THEN "struct" ELSE "union"
             o == Composite(kind, Typename(d), ByteSize(d))
  <2>1. m = New(b, o)
    BY <1>7 DEF FromDie
  <2>2. IsObject(o, b.objects) /\ o.kind # "variable" /\ ~o.typedef
    BY DEF Composite, IsObject
  <2> QED
    BY <1>3, <1>7, <2>1, <2>2, NewMakes
<1>8. CASE tag = "pointer_type"
  <2> DEFINE base == IF c.types = <<>> \/ Last(c.types) = None THEN b.types["void"] ELSE Last(c.types)
             o == IF Has(d, "type")
                  THEN Pointer(Typename(d), ByteSize(d), base, b)
                  ELSE Pointer("void *", 0, base, b)
  <2>1. m = New(b, o)
    BY <1>8 DEF FromDie, PointerFromDie
  <2>2. base \in DOMAIN b.objects
    BY <1>2, VoidIsType DEF Types
  <2> HIDE DEF base
  <2>3. IsObject(o, b.objects) /\ o.kind # "variable" /\ ~o.typedef
    BY <2>2 DEF Pointer, IsObject
  <2> QED
    BY <1>3, <1>8, <2>1, <2>3, NewMakes
<1>9. CASE tag = "array_type"
  <2> DEFINE o == Array(c.types[1], Length(d), b)
  <2>1. m = New(b, o)
    BY <1>9 DEF FromDie
  <2>2. c.types[1] \in DOMAIN b.objects
    BY <1>2, <1>9 DEF Complete, Types
  <2>3. IsObject(o, b.objects) /\ o.kind # "variable" /\ ~o.typedef
    BY <2>2 DEF Array, IsObject
  <2> QED
    BY <1>3, <1>9, <2>1, <2>3, NewMakes
<1>10. CASE tag = "variable"
  <2>1. PICK data : m = New(b, Variable(Typename(Declaration(d)), c.types[1], loc2addr(d), data, b))
    BY <1>10 DEF FromDie, VariableFromDie
  <2> DEFINE o == Variable(Typename(Declaration(d)), c.types[1], loc2addr(d), data, b)
  <2>2. /\ IsObject(o, b.objects) /\ o.kind = "variable" /\ ~o.typedef
        /\ o.typename = Typename(Declaration(d)) /\ o.address = loc2addr(d)
    BY DEF Variable, IsObject
  <2> HIDE DEF o
  <2> QED
    BY <1>3, <1>10, <2>1, <2>2, NewMakes DEF o
<1>11. CASE tag = "subprogram"
  <2>1. CASE Has(d, "low_pc")
    <3>1. PICK returns, arguments :
              m = New(b, Function(Typename(d), ByteSize(d), Dies[d].low_pc, returns, arguments))
      BY <1>11, <2>1 DEF FromDie, FunctionFromDie
    <3> DEFINE o == Function(Typename(d), ByteSize(d), Dies[d].low_pc, returns, arguments)
    <3>2. IsObject(o, b.objects) /\ o.kind # "variable" /\ ~o.typedef
      BY DEF Function, IsObject
    <3> HIDE DEF o
    <3> QED
      BY <1>3, <1>11, <3>1, <3>2, NewMakes DEF o
  <2>2. CASE ~Has(d, "low_pc")
    <3>1. m = Made(b, None)
      BY <1>11, <2>2 DEF FromDie, FunctionFromDie
    <3> QED
      BY <1>4, <1>11, <3>1 DEF Passes, Made, IsType, TypeTags, Types
  <2> QED
    BY <2>1, <2>2
<1>12. CASE tag = "enumeration_type"
  <2> DEFINE o == Enumeration(Typename(d), ByteSize(d))
  <2>1. /\ m.type = Len(b.objects) + 1
        /\ DOMAIN m.backend = DOMAIN b /\ m.backend.types = b.types /\ m.backend.objects = Append(b.objects, o)
    <3>1. PICK enums : m = New([b EXCEPT !.enums = enums], o)
      BY <1>12 DEF FromDie, EnumerationFromDie
    <3> DEFINE e == [b EXCEPT !.enums = enums]
    <3>2. DOMAIN e = DOMAIN b /\ e.types = b.types /\ e.objects = b.objects /\ {"objects", "types"} \subseteq DOMAIN e
      BY DEF IsBackend
    <3> HIDE DEF o, e
    <3>3. m = [backend |-> [e EXCEPT !.objects = Append(e.objects, o)], type |-> Len(e.objects) + 1]
      BY <3>1 DEF New, Made, e
    <3> QED
      BY <3>2, <3>3
  <2>2. IsObject(o, b.objects) /\ o.kind # "variable" /\ ~o.typedef
    BY DEF Enumeration, IsObject
  <2> HIDE DEF m, o
  <2>3. Adds(b, o, m.backend)
    BY <2>1, <2>2, ObjectsAppended
  <2>4. Makes(b, d, m, o)
    BY <1>12, <2>1, <2>2, <2>3 DEF Makes
  <2> QED
    BY <1>3, <2>4 DEF m
<1>13. CASE tag = "const_type"
  <2>1. m = Made(b, IF c.types = <<>> THEN b.types["void"] ELSE c.types[1])
    BY <1>13 DEF FromDie
  <2>2. m.type \in Types(b) /\ (Known => m.type # None)
    BY <1>2, <1>13, <2>1, VoidIsType, LenNotNone DEF Types, Made, IsQualified, AllKnown
  <2> QED
    BY <1>4, <1>13, <2>1, <2>2 DEF Passes, Made
<1>14. CASE tag = "volatile_type"
  <2>1. m = Made(b, c.types[1]) /\ c.types # <<>>
    BY <1>14 DEF FromDie, Complete
  <2>2. m.type \in Types(b) /\ (Known => m.type # None)
    BY <1>2, <1>14, <2>1 DEF Made, IsQualified, AllKnown
  <2> QED
    BY <1>4, <1>14, <2>1, <2>2 DEF Passes, Made
<1>15. CASE tag \notin TypeTags \cup {"variable", "subprogram"}
  <2>1. m = Made(b, None)
    BY <1>15 DEF FromDie, TypeTags
  <2> QED
    BY <1>4, <1>15, <2>1 DEF Passes, Made, IsType, Types
<1> QED
  BY <1>5, <1>6, <1>7, <1>8, <1>9, <1>10, <1>11, <1>12, <1>13, <1>14, <1>15 DEF TypeTags

-----------------------------------------------------------------------------
(* What has a name is registered.                                          *)
Named(b) ==
    \A t \in DOMAIN b.objects : b.objects[t].typename # "?" => b.objects[t].typename \in DOMAIN b.types

(* What a declaration makes.                                               *)
Declares(b, m) ==
    /\ IsBackend(m.backend) /\ Grows(b, m.backend) /\ MembersKept(b, m.backend)
    /\ m.type \in DOMAIN m.backend.objects
    /\ \A t \in DOMAIN m.backend.objects :
          \/ t \in DOMAIN b.objects /\ m.backend.objects[t] = b.objects[t]
          \/ m.backend.objects[t].kind \in {"pointer", "array"}
    /\ \A name \in DOMAIN m.backend.types :
          name \in DOMAIN b.types \/ m.backend.objects[m.backend.types[name]].kind \in {"pointer", "array"}
    /\ Named(b) => Named(m.backend)

(* An object is made and has its name.                                     *)
AddsNamed(b, o, n, d) ==
    /\ IsBackend(d) /\ Grows(b, d) /\ MembersKept(b, d)
    /\ Named(b) => Named(d)
    /\ n \in DOMAIN d.objects /\ d.objects[n] = o
    /\ \A t \in DOMAIN d.objects : t \in DOMAIN b.objects \/ t = n
    /\ \A t \in DOMAIN b.objects : d.objects[t] = b.objects[t]
    /\ DOMAIN d.types = DOMAIN b.types \cup {o.typename}
    /\ o.typename \notin DOMAIN b.types => d.types[o.typename] = n
    /\ \A name \in DOMAIN b.types : d.types[name] = b.types[name]

LEMMA AddedIsNamed ==
    ASSUME NEW b, NEW o, NEW c, NEW d, Adds(b, o, c), Names(c, Len(b.objects) + 1, d)
    PROVE  AddsNamed(b, o, Len(b.objects) + 1, d)
<1> DEFINE n == Len(b.objects) + 1
<1>1. IsBackend(d) /\ Grows(b, d) /\ MembersKept(b, d)
  BY GrowsTransitive DEF Adds, Names
<1>2. /\ n \in DOMAIN d.objects /\ d.objects[n] = o
      /\ \A t \in DOMAIN d.objects : t \in DOMAIN b.objects \/ t = n
      /\ \A t \in DOMAIN b.objects : d.objects[t] = b.objects[t]
      /\ DOMAIN d.types = DOMAIN b.types \cup {o.typename}
      /\ o.typename \notin DOMAIN b.types => d.types[o.typename] = n
      /\ \A name \in DOMAIN b.types : d.types[name] = b.types[name]
  BY DEF Adds, Names
<1> HIDE DEF n
<1>3. Named(b) => Named(d)
  BY <1>2 DEF Named
<1> QED
  BY <1>1, <1>2, <1>3 DEF n, AddsNamed

LEMMA TypeFromStringDeclares ==
    ASSUME NEW b, NEW decl, IsBackend(b), decl.base \in DOMAIN b.types,
           decl.is \in {"name", "pointer", "array"}
    PROVE  Declares(b, TypeFromString(b, decl))
<1> DEFINE base == b.types[decl.base]
           o == IF decl.is = "pointer" THEN Pointer("?", SizeofVoidp, base, b) ELSE Array(base, decl.length, b)
           made == IF decl.is = "name" THEN Made(b, base) ELSE New(b, o)
           name == made.backend.objects[made.type].typename
           m == TypeFromString(b, decl)
<1>1. base \in DOMAIN b.objects /\ b.objects[base].typename = decl.base
  BY DEF IsBackend
<1>2. m = IF name \in DOMAIN b.types
          THEN Made(b, b.types[name])
          ELSE Made(Register(made.backend, made.type), made.type)
  BY DEF TypeFromString
<1>3. ASSUME name \in DOMAIN b.types PROVE Declares(b, m)
  <2>1. m = Made(b, b.types[name])
    BY <1>2, <1>3
  <2> HIDE DEF m, name
  <2>2. b.types[name] \in DOMAIN b.objects
    BY <1>3 DEF IsBackend
  <2> QED
    BY <2>1, <2>2, GrowsReflexive DEF Declares, Made, m
<1>4. CASE decl.is = "name"
  <2>1. name \in DOMAIN b.types
    BY <1>1, <1>4 DEF Made
  <2> QED
    BY <1>3, <2>1
<1>5. CASE decl.is # "name" /\ name \notin DOMAIN b.types
  <2> DEFINE n == Len(b.objects) + 1
             c == made.backend
             d == Register(c, n)
  <2>1. IsObject(o, b.objects) /\ o.kind \in {"pointer", "array"}
    BY <1>1 DEF Pointer, Array, IsObject
  <2>2. made = New(b, o)
    BY <1>5
  <2>3. Adds(b, o, c) /\ made.type = n
    <3> HIDE DEF o, made
    <3> QED
      BY <2>1, <2>2, NewAdds
  <2>4. m = Made(d, n) /\ o.typename \notin DOMAIN b.types
    BY <1>2, <1>5, <2>3 DEF Adds
  <2> HIDE DEF o, made, m, n
  <2>5. Names(c, n, d)
    BY <2>3, RegisterNames DEF Adds, n
  <2> HIDE DEF c, d
  <2>6. AddsNamed(b, o, n, d)
    BY <2>3, <2>5, AddedIsNamed DEF n
  <2> QED
    BY <2>1, <2>4, <2>6 DEF AddsNamed, Declares, Made, m
<1> QED
  BY <1>3, <1>4, <1>5

-----------------------------------------------------------------------------
(* What a call wants are DIEs.                                             *)
LEMMA DieIs == ASSUME NEW d \in DOMAIN Dies PROVE IsDie(Dies[d])
  BY ElfTypesAssumption DEF Range

LEMMA TypeIs == ASSUME NEW d \in DOMAIN Dies PROVE Type(d) \in Seq(DOMAIN Dies)
<1>1. CASE Has(d, "type")
  <2>1. Dies[d].type \in DOMAIN Dies
    BY <1>1, DieIs DEF Has, IsDie
  <2>2. Type(d) = <<Dies[d].type>>
    BY <1>1 DEF Type
  <2> QED
    BY <2>1, <2>2
<1>2. CASE ~Has(d, "type")
  BY <1>2 DEF Type
<1> QED
  BY <1>1, <1>2

LEMMA ChildrenAre ==
    ASSUME NEW d \in DOMAIN Dies,
           NEW tag \in {"member", "formal_parameter", "enumerator", "subrange_type"}
    PROVE  Children(d, tag) \in Seq({e \in DOMAIN Dies : Dies[e].tag = tag})
<1>1. CASE Has(d, tag)
  BY <1>1, DieIs DEF Children, Has, IsDie
<1>2. CASE ~Has(d, tag)
  BY <1>2 DEF Children
<1> QED
  BY <1>1, <1>2

LEMMA MappedIs ==
    ASSUME NEW S, NEW T, NEW s \in Seq(S), NEW f, \A x \in S : f[x] \in T
    PROVE  [k \in DOMAIN s |-> f[s[k]]] \in Seq(T)
<1>1. Len(s) \in Nat /\ DOMAIN s = 1 .. Len(s) /\ \A k \in DOMAIN s : s[k] \in S
  OBVIOUS
<1>2. [k \in DOMAIN s |-> f[s[k]]] \in [1 .. Len(s) -> T]
  BY <1>1
<1> QED
  BY <1>1, <1>2

LEMMA ArgumentsAre == ASSUME NEW d \in DOMAIN Dies PROVE Arguments(d) \in Seq(DOMAIN Dies)
<1> DEFINE S == {e \in DOMAIN Dies : Dies[e].tag = "formal_parameter"}
           f == [e \in S |-> IF Has(e, "type") THEN Dies[e].type ELSE Dies[e].abstract_origin]
           s == Children(BaseDie(d), "formal_parameter")
<1>1. BaseDie(d) \in DOMAIN Dies
  BY DieIs DEF BaseDie, Has, IsDie
<1>2. s \in Seq(S)
  BY <1>1, ChildrenAre
<1>3. \A e \in S : f[e] \in DOMAIN Dies
  BY DieIs DEF Has, IsDie
<1>4. Arguments(d) = [k \in DOMAIN s |-> f[s[k]]]
  <2>1. \A k \in DOMAIN s : s[k] \in S
    BY <1>2
  <2> QED
    BY <2>1 DEF Arguments
<1> HIDE DEF S, f, s
<1> QED
  BY <1>2, <1>3, <1>4, MappedIs

LEMMA WantedAre ==
    ASSUME NEW b, NEW c \in CallsOf(b)
    PROVE  Wanted(c) \in Seq(DOMAIN Dies)
<1> DEFINE d == c.die
           tag == Dies[d].tag
<1>1. d \in DOMAIN Dies
  BY DEF CallsOf
<1>2. CASE c.composite # None
  <2> DEFINE S == {e \in DOMAIN Dies : Dies[e].tag = "member"}
             f == [e \in S |-> Dies[e].type]
  <2>1. Members(c) \in Seq(S)
    BY <1>1, ChildrenAre DEF Members
  <2>2. \A e \in S : f[e] \in DOMAIN Dies
    BY DieIs DEF IsDie
  <2>3. Wanted(c) = [k \in DOMAIN Members(c) |-> f[Members(c)[k]]]
    <3>1. \A k \in DOMAIN Members(c) : Members(c)[k] \in S
      BY <2>1
    <3> QED
      BY <1>2, <3>1 DEF Wanted
  <2> HIDE DEF S, f
  <2> QED
    BY <2>1, <2>2, <2>3, MappedIs
<1>3. CASE c.composite = None /\ tag \in {"typedef", "array_type", "const_type", "volatile_type"}
  BY <1>1, <1>3, TypeIs DEF Wanted
<1>4. CASE c.composite = None /\ tag = "pointer_type"
  <2>1. Wanted(c) = PointedTo(c)
    BY <1>4 DEF Wanted
  <2>2. Has(d, "type") => Dies[d].type \in DOMAIN Dies
    BY <1>1, DieIs DEF Has, IsDie
  <2>3. Type(d) \in Seq(DOMAIN Dies) /\ (Has(d, "type") => Type(Dies[d].type) \in Seq(DOMAIN Dies))
    BY <1>1, <2>2, TypeIs
  <2>4. CASE Has(d, "type") /\ c.types # <<>> /\ c.types[1] = None
    <3> DEFINE s == Type(d)
               t == Type(Dies[d].type)
    <3>1. Wanted(c) = s \o t
      BY <2>1, <2>4 DEF PointedTo
    <3>2. s \in Seq(DOMAIN Dies) /\ t \in Seq(DOMAIN Dies)
      BY <2>3, <2>4
    <3> HIDE DEF s, t
    <3> QED
      BY <3>1, <3>2
  <2>5. CASE ~(Has(d, "type") /\ c.types # <<>> /\ c.types[1] = None)
    BY <2>1, <2>3, <2>5 DEF PointedTo
  <2> QED
    BY <2>4, <2>5
<1>5. CASE c.composite = None /\ tag = "variable"
  <2>1. Wanted(c) = VariableType(d)
    BY <1>5 DEF Wanted
  <2>2. Declaration(d) \in DOMAIN Dies /\ Has(Declaration(d), "type")
    BY <1>1, <1>5, DieIs DEF Declaration, Has, IsDie
  <2>3. Dies[Declaration(d)].type \in DOMAIN Dies
    BY <2>2, DieIs DEF Has, IsDie
  <2> QED
    BY <2>1, <2>2, <2>3, TypeIs DEF VariableType
<1>6. CASE c.composite = None /\ tag = "subprogram"
  <2>1. CASE Has(d, "low_pc")
    <3>1. Wanted(c) = Type(BaseDie(d)) \o Arguments(d)
      BY <1>6, <2>1 DEF Wanted
    <3>2. BaseDie(d) \in DOMAIN Dies
      BY <1>1, DieIs DEF BaseDie, Has, IsDie
    <3>3. Type(BaseDie(d)) \in Seq(DOMAIN Dies) /\ Arguments(d) \in Seq(DOMAIN Dies)
      BY <1>1, <3>2, TypeIs, ArgumentsAre
    <3> QED
      BY <3>1, <3>3
  <2>2. CASE ~Has(d, "low_pc")
    BY <1>6, <2>2 DEF Wanted
  <2> QED
    BY <2>1, <2>2
<1>7. CASE /\ c.composite = None
           /\ tag \notin {"typedef", "array_type", "const_type", "volatile_type", "pointer_type", "variable",
                          "subprogram"}
  <2>1. Wanted(c) = <<>>
    BY <1>7 DEF Wanted
  <2> QED
    BY <2>1
<1> QED
  BY <1>2, <1>3, <1>4, <1>5, <1>6, <1>7

-----------------------------------------------------------------------------
(* What becomes of the calls.                                              *)
LEMMA CallsGrow ==
    ASSUME NEW b, NEW c, Grows(b, c)
    PROVE  CallsOf(b) \subseteq CallsOf(c) /\ Seq(CallsOf(b)) \subseteq Seq(CallsOf(c))
<1>1. Types(b) \subseteq Types(c)
  BY DEF Types, Grows
<1> HIDE DEF Types
<1>2. Seq(Types(b)) \subseteq Seq(Types(c))
  BY <1>1, SeqMonotonic
<1>3. CallsOf(b) \subseteq CallsOf(c)
  BY <1>1, <1>2 DEF CallsOf
<1> QED
  BY <1>3, SeqMonotonic

Pushed(cs, c, ds) ==
    /\ Len(ds) = Len(cs) + 1
    /\ ds[1] = c
    /\ \A k \in 1 .. Len(cs) : ds[k + 1] = cs[k]

Replaced(cs, c, ds) ==
    /\ Len(ds) = Len(cs)
    /\ ds[1] = c
    /\ \A k \in 2 .. Len(cs) : ds[k] = cs[k]

Returned(cs, type, ds) ==
    /\ Len(ds) = Len(cs) - 1
    /\ Len(cs) > 1 => ds[1] = [cs[2] EXCEPT !.types = Append(@, type)]
    /\ \A k \in 2 .. Len(ds) : ds[k] = cs[k + 1]

LEMMA PushedIs ==
    ASSUME NEW S, NEW cs \in Seq(S), NEW c \in S
    PROVE  <<c>> \o cs \in Seq(S) /\ Pushed(cs, c, <<c>> \o cs)
  BY DEF Pushed

LEMMA ReplacedIs ==
    ASSUME NEW S, NEW cs \in Seq(S), cs # <<>>, NEW c \in S
    PROVE  <<c>> \o Tail(cs) \in Seq(S) /\ Replaced(cs, c, <<c>> \o Tail(cs))
<1>1. Tail(cs) \in Seq(S) /\ Len(Tail(cs)) = Len(cs) - 1
  OBVIOUS
<1>2. \A k \in 1 .. Len(cs) - 1 : Tail(cs)[k] = cs[k + 1]
  OBVIOUS
<1> DEFINE t == Tail(cs)
<1> HIDE DEF t
<1>3. <<c>> \o t \in Seq(S) /\ Pushed(t, c, <<c>> \o t)
  BY <1>1, PushedIs DEF t
<1>4. Replaced(cs, c, <<c>> \o t)
  BY <1>1, <1>2, <1>3 DEF Pushed, Replaced, t
<1> QED
  BY <1>3, <1>4 DEF t

LEMMA ReturnedIs ==
    ASSUME NEW S, NEW cs \in Seq(S), cs # <<>>, NEW type,
           Len(cs) > 1 => [cs[2] EXCEPT !.types = Append(@, type)] \in S
    PROVE  LET ds == IF Len(cs) = 1
                     THEN <<>>
                     ELSE <<[cs[2] EXCEPT !.types = Append(@, type)]>> \o Tail(Tail(cs))
           IN  ds \in Seq(S) /\ Returned(cs, type, ds)
<1>1. CASE Len(cs) = 1
  BY <1>1 DEF Returned
<1>2. CASE Len(cs) # 1
  <2> DEFINE c == [cs[2] EXCEPT !.types = Append(@, type)]
             t == Tail(cs)
  <2> HIDE DEF c
  <2>1. Len(cs) \in Nat /\ Len(cs) > 1
    BY ONLY cs \in Seq(S), cs # <<>>, <1>2
  <2>2. t \in Seq(S) /\ Len(t) = Len(cs) - 1 /\ t # <<>>
    BY ONLY cs \in Seq(S), cs # <<>>, <2>1
  <2>3. \A k \in 1 .. Len(t) : t[k] = cs[k + 1]
    BY ONLY cs \in Seq(S), cs # <<>>, <2>1, <2>2
  <2>4. c \in S
    BY <2>1 DEF c
  <2> HIDE DEF t
  <2>5. <<c>> \o Tail(t) \in Seq(S) /\ Replaced(t, c, <<c>> \o Tail(t))
    BY <2>2, <2>4, ReplacedIs
  <2>6. Returned(cs, type, <<c>> \o Tail(t))
    BY <2>1, <2>2, <2>3, <2>5 DEF Replaced, Returned, c
  <2> QED
    BY <1>2, <2>5, <2>6 DEF c, t
<1> QED
  BY <1>1, <1>2

-----------------------------------------------------------------------------
(* What all that follows rests on: objects are well formed and registered, *)
(* and the calls are of DIEs and of types there are.                       *)
WellFormed ==
    /\ IsBackend(backend) /\ Named(backend)
    /\ calls \in Seq(CallsOf(backend))
    /\ entries \in Seq(DOMAIN Dies)
    /\ units \subseteq Units

(* What a return does.                                                     *)
Returns(b, type) ==
    /\ type \in Types(b)
    /\ calls' \in Seq(CallsOf(b)) /\ Returned(calls, type, calls')
    /\ backend' = b /\ units' = units /\ entries' = entries

LEMMA AnsweredIs ==
    ASSUME NEW b, NEW c \in CallsOf(b), NEW type \in Types(b)
    PROVE  [c EXCEPT !.types = Append(@, type)] \in CallsOf(b)
<1> DEFINE T == Types(b)
           types == Append(c.types, type)
<1>1. CallsOf(b) = [die : DOMAIN Dies, types : Seq(T), composite : T] /\ type \in T
  BY DEF CallsOf
<1> HIDE DEF T
<1>2. types \in Seq(T)
  BY <1>1
<1> HIDE DEF types
<1>3. [c EXCEPT !.types = types] \in [die : DOMAIN Dies, types : Seq(T), composite : T]
  BY <1>1, <1>2
<1> QED
  BY <1>1, <1>3 DEF types

LEMMA ReturnReturns ==
    ASSUME WellFormed, calls # <<>>, NEW b, Grows(backend, b), NEW type \in Types(b), Return(b, type)
    PROVE  Returns(b, type)
<1> DEFINE S == CallsOf(b)
<1>1. calls \in Seq(S)
  BY CallsGrow DEF WellFormed
<1>2. Len(calls) > 1 => [calls[2] EXCEPT !.types = Append(@, type)] \in S
  <2> SUFFICES ASSUME Len(calls) > 1 PROVE [calls[2] EXCEPT !.types = Append(@, type)] \in S
    OBVIOUS
  <2>1. calls[2] \in S
    BY <1>1
  <2> QED
    BY <2>1, AnsweredIs
<1> HIDE DEF S
<1> DEFINE ds == IF Len(calls) = 1
                 THEN <<>>
                 ELSE <<[calls[2] EXCEPT !.types = Append(@, type)]>> \o Tail(Tail(calls))
<1>3. ds \in Seq(S) /\ Returned(calls, type, ds)
  BY <1>1, <1>2, ReturnedIs
<1>4. calls' = ds /\ backend' = b /\ units' = units /\ entries' = entries
  BY DEF Return
<1> HIDE DEF ds
<1> QED
  BY <1>3, <1>4 DEF Returns, S

LEMMA HeadIs ==
    ASSUME WellFormed, calls # <<>>
    PROVE  Head(calls) = calls[1] /\ calls[1] \in CallsOf(backend) /\ Len(calls) \in Nat \ {0}
  BY DEF WellFormed

LEMMA FinishGives ==
    ASSUME WellFormed, Finish
    PROVE  /\ calls # <<>> /\ Head(calls).composite = None
           /\ \E m : /\ Gives(backend, Head(calls), m)
                     /\ \/ ReturnNameless(m.backend, m.type)
                        \/ ReturnKnown(m.backend, m.type)
                        \/ ReturnNew(m.backend, m.type)
                        \/ RegisterComposite(m.backend, m.type)
<1> DEFINE m == FromDie(backend, Head(calls))
<1>1. calls # <<>> /\ Head(calls).composite = None /\ Complete(backend, Head(calls))
  BY DEF Finish, Ready
<1>2. Gives(backend, Head(calls), m)
  BY <1>1, HeadIs, FromDieGives DEF WellFormed
<1>3. \/ ReturnNameless(m.backend, m.type)
      \/ ReturnKnown(m.backend, m.type)
      \/ ReturnNew(m.backend, m.type)
      \/ RegisterComposite(m.backend, m.type)
  BY DEF Finish
<1> HIDE DEF m
<1> QED
  BY <1>1, <1>2, <1>3

(* A type that has been made, before it is registered.                     *)
Half(m) ==
    /\ IsBackend(m.backend) /\ Grows(backend, m.backend) /\ MembersKept(backend, m.backend)
    /\ m.type \in Types(m.backend)
    /\ m.backend.types = backend.types
    /\ \A t \in DOMAIN m.backend.objects :
          \/ t \in DOMAIN backend.objects /\ m.backend.objects[t] = backend.objects[t]
          \/ t = m.type
    /\ \A t \in DOMAIN m.backend.objects :
          \/ t = m.type
          \/ m.backend.objects[t].typename # "?" => m.backend.objects[t].typename \in DOMAIN m.backend.types

LEMMA GivesHalf ==
    ASSUME WellFormed, NEW c, NEW m, Gives(backend, c, m)
    PROVE  Half(m)
<1>1. ASSUME NEW o, Makes(backend, c.die, m, o) PROVE Half(m)
  BY <1>1 DEF WellFormed, Makes, Adds, Half, Types, Named
<1>2. ASSUME Passes(backend, c, m) PROVE Half(m)
  BY <1>2, GrowsReflexive DEF WellFormed, Passes, Half, Types, Named
<1> QED
  BY <1>1, <1>2 DEF Gives

LEMMA NamelessReturns ==
    ASSUME WellFormed, calls # <<>>, NEW m, Half(m), ReturnNameless(m.backend, m.type)
    PROVE  Returns(m.backend, m.type) /\ Named(m.backend)
<1>1. Returns(m.backend, m.type)
  BY ReturnReturns DEF Half, ReturnNameless
<1>2. Named(m.backend)
  BY LenNotNone DEF Half, ReturnNameless, HasName, Named
<1> QED
  BY <1>1, <1>2

(* The object of a known name, and the backend once it is updated.         *)
KnownType(m) == m.backend.types[m.backend.objects[m.type].typename]

KnownBackend(m) == Completed(m.backend, KnownType(m), m.type)

LEMMA KnownReturns ==
    ASSUME WellFormed, calls # <<>>, NEW m, Half(m), ReturnKnown(m.backend, m.type)
    PROVE  /\ Returns(KnownBackend(m), KnownType(m)) /\ KnownType(m) \in DOMAIN KnownBackend(m).objects
           /\ IsBackend(KnownBackend(m)) /\ Grows(backend, KnownBackend(m)) /\ MembersKept(backend, KnownBackend(m))
           /\ Named(KnownBackend(m)) /\ KnownBackend(m).types = backend.types
           /\ m.type \in DOMAIN m.backend.objects
           /\ KnownBackend(m).objects = Updated(m.backend.objects, KnownType(m), m.type)
           /\ m.backend.objects[m.type].typename \in DOMAIN backend.types
           /\ Updatable(m.backend.objects, KnownType(m), m.type)
<1> DEFINE b == m.backend
           type == m.type
           name == b.objects[type].typename
           t == KnownType(m)
           c == KnownBackend(m)
<1>1. type \in DOMAIN b.objects /\ name \in DOMAIN b.types /\ Updatable(b.objects, t, type)
      /\ Return(c, t)
  BY DEF ReturnKnown, HasName, Half, Types, KnownType, KnownBackend, Completed
<1>2. t \in DOMAIN b.objects
  BY <1>1 DEF Half, IsBackend, KnownType
<1>3. Updates(b, c) /\ MembersKept(b, c) /\ c.objects = Updated(b.objects, t, type)
  BY <1>1, <1>2, UpdatedUpdates DEF Half, KnownBackend, Completes
<1>4. IsBackend(c) /\ Grows(backend, c) /\ MembersKept(backend, c) /\ c.types = backend.types
  BY <1>3, GrowsTransitive DEF Half, Updates
<1>5. t \in DOMAIN c.objects
  BY <1>2, <1>3 DEF Updates
<1>6. Returns(c, t)
  BY <1>1, <1>4, <1>5, ReturnReturns DEF Types
<1>7. Named(c)
  <2>1. \A u \in DOMAIN b.objects : b.objects[u].typename # "?" => b.objects[u].typename \in DOMAIN b.types
    BY <1>1 DEF Half
  <2> QED
    BY <2>1, <1>3 DEF Updates, Grows, Keeps, Named
<1> QED
  BY <1>1, <1>3, <1>4, <1>5, <1>6, <1>7 DEF Half

(* The object of a new name.                                               *)
LEMMA NewIsNamed ==
    ASSUME WellFormed, calls # <<>>, NEW c, NEW m, Gives(backend, c, m), HasName(m.backend, m.type),
           m.backend.objects[m.type].typename \notin DOMAIN m.backend.types
    PROVE  \E o : /\ Makes(backend, c.die, m, o)
                  /\ AddsNamed(backend, o, m.type, Register(m.backend, m.type))
                  /\ o = m.backend.objects[m.type] /\ o.typename \notin DOMAIN backend.types
                  /\ m.type \in DOMAIN m.backend.objects
<1>1. Half(m)
  BY GivesHalf
<1>2. m.type \in DOMAIN m.backend.objects
  BY <1>1 DEF Half, Types, HasName
<1>3. ~Passes(backend, c, m)
  BY <1>2 DEF Passes, WellFormed, Named, HasName
<1>4. PICK o : Makes(backend, c.die, m, o)
  BY <1>3 DEF Gives
<1>5. Names(m.backend, m.type, Register(m.backend, m.type))
  BY <1>1, <1>2, RegisterNames DEF Half
<1>6. Adds(backend, o, m.backend) /\ m.type = Len(backend.objects) + 1
  BY <1>4 DEF Makes
<1>7. AddsNamed(backend, o, m.type, Register(m.backend, m.type))
  BY <1>5, <1>6, AddedIsNamed
<1>8. o = m.backend.objects[m.type] /\ o.typename \notin DOMAIN backend.types
  BY <1>6 DEF Adds
<1> QED
  BY <1>2, <1>4, <1>7, <1>8

-----------------------------------------------------------------------------
(* The steps other than Finish.                                            *)
LEMMA CallIs == ASSUME NEW b, NEW d \in DOMAIN Dies PROVE Call(d) \in CallsOf(b)
<1> DEFINE T == Types(b)
<1>1. None \in T
  BY DEF Types
<1> HIDE DEF T
<1>2. <<>> \in Seq(T)
  OBVIOUS
<1>3. CallsOf(b) = [die : DOMAIN Dies, types : Seq(T), composite : T]
  BY DEF CallsOf, T
<1> QED
  BY <1>1, <1>2, <1>3 DEF Call

LEMMA CreatePushes ==
    ASSUME WellFormed, Create
    PROVE  /\ calls = <<>> /\ entries # <<>> /\ Head(entries) \in DOMAIN Dies
           /\ calls' = <<Call(Head(entries))>> /\ calls' \in Seq(CallsOf(backend))
           /\ entries' \in Seq(DOMAIN Dies)
<1>1. calls = <<>> /\ entries # <<>> /\ calls' = <<Call(Head(entries))>> /\ entries' = Tail(entries)
  BY DEF Create
<1>2. Head(entries) \in DOMAIN Dies /\ entries' \in Seq(DOMAIN Dies)
  BY <1>1 DEF WellFormed
<1>3. calls' \in Seq(CallsOf(backend))
  BY <1>1, <1>2, CallIs
<1> QED
  BY <1>1, <1>2, <1>3

LEMMA TypeFromDiePushes ==
    ASSUME WellFormed, TypeFromDie
    PROVE  LET c == calls[1]
               d == Wanted(c)[Len(c.types) + 1]
           IN  /\ calls # <<>> /\ Len(c.types) \in Nat /\ Len(c.types) + 1 \in DOMAIN Wanted(c)
               /\ d \in DOMAIN Dies
               /\ Pushed(calls, Call(d), calls') /\ calls' \in Seq(CallsOf(backend))
<1> DEFINE c == calls[1]
           d == Wanted(c)[Len(c.types) + 1]
           S == CallsOf(backend)
<1>1. calls # <<>> /\ Len(c.types) < Len(Wanted(c)) /\ calls' = <<Call(d)>> \o calls
  BY HeadIs DEF TypeFromDie
<1>2. c \in S /\ Wanted(c) \in Seq(DOMAIN Dies)
  BY <1>1, HeadIs, WantedAre
<1>3. Len(c.types) \in Nat
  BY <1>2 DEF CallsOf
<1>4. Len(c.types) + 1 \in DOMAIN Wanted(c) /\ d \in DOMAIN Dies
  BY ONLY <1>1, <1>2, <1>3
<1>5. Call(d) \in S /\ calls \in Seq(S)
  BY <1>4, CallIs DEF WellFormed
<1> HIDE DEF S
<1>6. calls' \in Seq(S) /\ Pushed(calls, Call(d), calls')
  BY <1>1, <1>5, PushedIs
<1> QED
  BY <1>1, <1>3, <1>4, <1>6 DEF S

LEMMA CompositeReplaces ==
    ASSUME WellFormed, calls # <<>>, NEW m, Gives(backend, Head(calls), m), RegisterComposite(m.backend, m.type)
    PROVE  \E o, d : LET c == [die |-> d, types |-> <<>>, composite |-> m.type]
                     IN  /\ Makes(backend, calls[1].die, m, o) /\ IsComposite(o)
                         /\ AddsNamed(backend, o, m.type, backend')
                         /\ o.typename \notin DOMAIN backend.types
                         /\ d \in DOMAIN Dies /\ Dies[d].tag # "variable"
                         /\ d = calls[1].die \/ (Dies[calls[1].die].tag = "typedef" /\ Type(calls[1].die) = <<d>>)
                         /\ c \in CallsOf(backend') /\ calls' \in Seq(CallsOf(backend'))
                         /\ Replaced(calls, c, calls')
<1>1. Head(calls) = calls[1] /\ calls[1] \in CallsOf(backend)
  BY HeadIs
<1> DEFINE e == calls[1].die
           object == m.backend.objects[m.type]
           d == IF object.typedef THEN Dies[e].type ELSE e
           c == [die |-> d, types |-> <<>>, composite |-> m.type]
<1>2. /\ HasName(m.backend, m.type) /\ object.typename \notin DOMAIN m.backend.types
      /\ IsComposite(object)
      /\ backend' = Register(m.backend, m.type)
      /\ calls' = <<c>> \o Tail(calls)
  BY <1>1 DEF RegisterComposite
<1>3. PICK o : /\ Makes(backend, e, m, o)
               /\ AddsNamed(backend, o, m.type, Register(m.backend, m.type))
               /\ o = object /\ o.typename \notin DOMAIN backend.types
               /\ m.type \in DOMAIN m.backend.objects
  BY <1>1, <1>2, NewIsNamed
<1>4. e \in DOMAIN Dies
  BY <1>1 DEF CallsOf
<1>5. d \in DOMAIN Dies /\ Dies[d].tag # "variable"
  <2>1. CASE o.typedef
    <3>1. Has(e, "type")
      BY <1>3, <2>1 DEF Makes
    <3> QED
      BY <1>3, <1>4, <2>1, <3>1, DieIs DEF Has, IsDie
  <2>2. CASE ~o.typedef
    BY <1>2, <1>3, <1>4, <2>2 DEF Makes, IsComposite
  <2> QED
    BY <2>1, <2>2
<1>10. d = e \/ (Dies[e].tag = "typedef" /\ Type(e) = <<d>>)
  BY <1>3 DEF Makes, Type
<1>6. Grows(backend, backend') /\ m.type \in DOMAIN backend'.objects
  BY <1>2, <1>3 DEF AddsNamed
<1> HIDE DEF d, object
<1>7. c \in CallsOf(backend')
  <2> DEFINE T == Types(backend')
  <2>1. m.type \in T
    BY <1>6 DEF Types
  <2> HIDE DEF T
  <2>2. <<>> \in Seq(T)
    OBVIOUS
  <2>3. c \in [die : DOMAIN Dies, types : Seq(T), composite : T]
    BY <1>5, <2>1, <2>2
  <2> QED
    BY <2>3 DEF CallsOf, T
<1> DEFINE S == CallsOf(backend')
<1>8. calls \in Seq(S) /\ c \in S
  BY <1>6, <1>7, CallsGrow DEF WellFormed
<1> HIDE DEF c, S
<1>9. calls' \in Seq(S) /\ Replaced(calls, c, calls')
  BY <1>2, <1>8, ReplacedIs
<1> QED
  BY <1>2, <1>3, <1>5, <1>7, <1>9, <1>10 DEF c, S

MembersOf(b) == [name : STRING, type : DOMAIN b.objects, offset : Nat]

(* The members that CreateMembers gives to the type of the innermost call. *)
CreatesMembers(t, members, b) ==
    /\ t \in DOMAIN backend.objects
    /\ Updates(backend, b)
    /\ \A u \in DOMAIN backend.objects : u # t => b.objects[u] = backend.objects[u]
    /\ b.objects[t] = [backend.objects[t] EXCEPT !.members = members]
    /\ AllKnown(calls[1].types) => members \in Seq(MembersOf(backend))

LEMMA CreateMembersReturns ==
    ASSUME WellFormed, CreateMembers
    PROVE  /\ calls # <<>> /\ calls[1].composite # None
           /\ Returns(backend', calls[1].composite)
           /\ \E members : CreatesMembers(calls[1].composite, members, backend')
<1> DEFINE c == calls[1]
           t == c.composite
           isunion == backend.objects[t].kind = "union"
           ds == Members(c)
           Member(k) == [name |-> Dies[ds[k]].name, type |-> c.types[k],
                         offset |-> IF isunion THEN 0 ELSE Dies[ds[k]].data_member_location]
           members == [k \in DOMAIN ds |-> Member(k)]
           b == [backend EXCEPT !.objects[t].members = members]
<1>1. calls # <<>> /\ Head(calls) = c /\ c \in CallsOf(backend)
  BY HeadIs DEF CreateMembers, Ready
<1>2. /\ t # None /\ Len(c.types) >= Len(Wanted(c))
      /\ \A d \in Range(ds) : Has(d, "name") /\ (isunion \/ Has(d, "data_member_location"))
      /\ Return(b, t)
  <2>1. MembersComplete(backend, c) /\ t # None /\ Len(c.types) >= Len(Wanted(c)) /\ Return(b, t)
    BY <1>1 DEF CreateMembers, Ready
  <2> QED
    BY <2>1 DEF MembersComplete
<1>3. t \in DOMAIN backend.objects /\ c.types \in Seq(Types(backend)) /\ c.die \in DOMAIN Dies
  BY <1>1, <1>2 DEF CallsOf, Types
<1>4. ds \in Seq(DOMAIN Dies)
  <2>1. ds \in Seq({e \in DOMAIN Dies : Dies[e].tag = "member"})
    BY <1>3, ChildrenAre DEF Members
  <2> HIDE DEF ds
  <2> QED
    BY <2>1, SeqMonotonic
<1>5. DOMAIN ds \subseteq DOMAIN c.types
  <2>1. Wanted(c) = [k \in DOMAIN ds |-> Dies[ds[k]].type]
    BY <1>2 DEF Wanted
  <2> HIDE DEF ds
  <2>2. Len(Wanted(c)) = Len(ds)
    BY <1>4, <2>1
  <2>3. DOMAIN ds = 1 .. Len(ds) /\ DOMAIN c.types = 1 .. Len(c.types) /\ Len(ds) \in Nat /\ Len(c.types) \in Nat
    BY <1>3, <1>4
  <2> HIDE DEF c
  <2> QED
    BY <1>2, <2>2, <2>3
<1>6. AllKnown(c.types) => members \in Seq(MembersOf(backend))
  <2> SUFFICES ASSUME AllKnown(c.types) PROVE members \in Seq(MembersOf(backend))
    OBVIOUS
  <2>1. \A k \in DOMAIN ds : Member(k) \in MembersOf(backend)
    <3> TAKE k \in DOMAIN ds
    <3>1. ds[k] \in DOMAIN Dies /\ ds[k] \in Range(ds)
      BY <1>4 DEF Range
    <3>2. Dies[ds[k]].name \in STRING /\ (isunion \/ Dies[ds[k]].data_member_location \in Nat)
      BY <1>2, <3>1, DieIs DEF Has, IsDie
    <3>3. c.types[k] \in DOMAIN backend.objects
      BY <1>3, <1>5 DEF AllKnown, Types
    <3> QED
      BY <3>2, <3>3 DEF MembersOf
  <2>2. DOMAIN ds = 1 .. Len(ds) /\ Len(ds) \in Nat
    BY <1>4
  <2> HIDE DEF ds, Member
  <2> QED
    BY <2>1, <2>2
<1> HIDE DEF members
<1>7. /\ DOMAIN b = DOMAIN backend /\ b.types = backend.types
      /\ b.objects = [backend.objects EXCEPT ![t] = [backend.objects[t] EXCEPT !.members = members]]
  BY DEF WellFormed, IsBackend
<1> DEFINE o == [backend.objects[t] EXCEPT !.members = members]
<1> HIDE DEF b, t
<1>8. /\ DOMAIN o = DOMAIN backend.objects[t]
      /\ IsObject(backend.objects[t], backend.objects)
      /\ \A field \in DOMAIN o : field # "members" => o[field] = backend.objects[t][field]
  BY <1>3 DEF WellFormed, IsBackend
<1> DEFINE before == backend.objects[t]
<1> HIDE DEF o, before
<1>9. IsObject(o, backend.objects)
  BY <1>8 DEF IsObject, before
<1>10. Keeps(before, o)
  <2>1. {"kind", "typename", "size", "typedef"} \subseteq DOMAIN o
    BY <1>9 DEF IsObject
  <2>2. o.kind \in {"variable", "function"} => "address" \in DOMAIN o
    BY <1>9 DEF IsObject
  <2>3. o.kind = "array" => "base" \in DOMAIN o
    BY <1>9 DEF IsObject
  <2> QED
    BY <2>1, <2>2, <2>3, <1>8 DEF Keeps, before
<1>11. Updates(backend, b)
  BY <1>3, <1>7, <1>9, <1>10, ReplacedUpdates DEF WellFormed, o, before
<1>12. Returns(b, t)
  BY <1>1, <1>2, <1>3, <1>11, ReturnReturns DEF Updates, Types, t, b
<1>13. backend' = b
  BY <1>12 DEF Returns
<1>14. CreatesMembers(t, members, b)
  BY <1>3, <1>6, <1>7, <1>11 DEF CreatesMembers
<1> QED
  BY <1>1, <1>2, <1>12, <1>13, <1>14 DEF t, b

LEMMA CreateNullNames ==
    ASSUME WellFormed, CreateNull
    PROVE  \E v, o, n : /\ Declares(backend, v)
                        /\ AddsNamed(v.backend, o, n, backend')
                        /\ o.kind = "variable" /\ o.typename = "NULL"
<1> DEFINE decl == [is |-> "pointer", base |-> "void"]
           v == TypeFromString(backend, decl)
           o == Variable("NULL", v.type, 0, None, v.backend)
           null == New(v.backend, o)
<1>1. backend' = Register(null.backend, null.type)
  BY DEF CreateNull
<1>2. Declares(backend, v)
  <2>1. IsBackend(backend) /\ decl.base \in DOMAIN backend.types /\ decl.is = "pointer"
    BY DEF WellFormed, IsBackend
  <2> HIDE DEF decl
  <2> QED
    BY <2>1, TypeFromStringDeclares
<1> HIDE DEF v
<1>3. IsObject(o, v.backend.objects) /\ o.kind = "variable" /\ o.typename = "NULL"
  BY DEF Variable, IsObject
<1>4. IsBackend(v.backend)
  BY <1>2 DEF Declares
<1> DEFINE n == Len(v.backend.objects) + 1
<1> HIDE DEF o
<1>5. Adds(v.backend, o, null.backend) /\ null.type = n
  BY <1>3, <1>4, NewAdds
<1> HIDE DEF null, n
<1>6. Names(null.backend, n, backend')
  BY <1>1, <1>5, RegisterNames DEF Adds, n
<1>7. AddsNamed(v.backend, o, n, backend')
  BY <1>5, <1>6, AddedIsNamed DEF n
<1> QED
  BY <1>2, <1>3, <1>7

LEMMA RequestDeclares ==
    ASSUME WellFormed, Request
    PROVE  \E m : Declares(backend, m) /\ backend' = m.backend
<1>1. PICK decl \in Requests : /\ decl.base \in DOMAIN backend.types
                               /\ backend' = TypeFromString(backend, decl).backend
  BY DEF Request
<1>2. decl.is \in {"name", "pointer", "array"}
  BY ElfTypesAssumption
<1>3. Declares(backend, TypeFromString(backend, decl))
  BY <1>1, <1>2, TypeFromStringDeclares DEF WellFormed
<1> QED
  BY <1>1, <1>3

-----------------------------------------------------------------------------
LEMMA WellFormedInit == ElfInit => WellFormed
<1> SUFFICES ASSUME ElfInit PROVE WellFormed
  OBVIOUS
<1>1. backend = [objects |-> <<Void>>, types |-> [void |-> 1], enums |-> <<>>]
  BY DEF ElfInit
<1>2. IsSeq(<<Void>>)
  <2>1. <<Void>> \in Seq({Void})
    OBVIOUS
  <2> QED
    BY <2>1 DEF IsSeq
<1>3. DOMAIN backend.objects = {1} /\ backend.objects[1] = Void /\ DOMAIN backend.types = {"void"}
      /\ backend.types["void"] = 1 /\ IsSeq(backend.objects) /\ DOMAIN backend = {"objects", "types", "enums"}
  BY <1>1, <1>2
<1>4. IsObject(Void, backend.objects) /\ Void.typename = "void"
  BY DEF Void, IsObject
<1>5. IsBackend(backend) /\ Named(backend)
  BY <1>3, <1>4 DEF IsBackend, Named
<1>6. calls = <<>> /\ entries = <<>> /\ units = Units
  BY DEF ElfInit
<1> QED
  BY <1>5, <1>6 DEF WellFormed

LEMMA ReturnedStays ==
    ASSUME WellFormed, NEW b, NEW type, IsBackend(b), Named(b), Grows(backend, b), Returns(b, type)
    PROVE  WellFormed' /\ Grows(backend, backend')
<1>1. backend' = b /\ calls' \in Seq(CallsOf(b)) /\ units' = units /\ entries' = entries
  BY DEF Returns
<1> QED
  BY <1>1 DEF WellFormed

LEMMA FinishStays ==
    ASSUME WellFormed, Finish
    PROVE  WellFormed' /\ Grows(backend, backend')
<1>1. PICK m : /\ Gives(backend, Head(calls), m)
               /\ \/ ReturnNameless(m.backend, m.type)
                  \/ ReturnKnown(m.backend, m.type)
                  \/ ReturnNew(m.backend, m.type)
                  \/ RegisterComposite(m.backend, m.type)
  BY FinishGives
<1>2. calls # <<>> /\ Half(m)
  BY <1>1, FinishGives, GivesHalf
<1>3. CASE ReturnNameless(m.backend, m.type)
  BY <1>2, <1>3, NamelessReturns, ReturnedStays DEF Half
<1>4. CASE ReturnKnown(m.backend, m.type)
  BY <1>2, <1>4, KnownReturns, ReturnedStays
<1>5. CASE ReturnNew(m.backend, m.type)
  <2> DEFINE b == Register(m.backend, m.type)
  <2>1. HasName(m.backend, m.type) /\ m.backend.objects[m.type].typename \notin DOMAIN m.backend.types
        /\ Return(b, m.type)
    BY <1>5 DEF ReturnNew
  <2> HIDE DEF b
  <2>2. PICK o : AddsNamed(backend, o, m.type, b)
    BY <1>1, <1>2, <2>1, NewIsNamed DEF b
  <2>3. IsBackend(b) /\ Named(b) /\ Grows(backend, b) /\ m.type \in Types(b)
    BY <2>2 DEF AddsNamed, WellFormed, Types
  <2>4. Returns(b, m.type)
    BY <1>2, <2>1, <2>3, ReturnReturns
  <2> QED
    BY <2>3, <2>4, ReturnedStays
<1>6. CASE RegisterComposite(m.backend, m.type)
  <2>1. PICK o : AddsNamed(backend, o, m.type, backend') /\ calls' \in Seq(CallsOf(backend'))
    BY <1>1, <1>2, <1>6, CompositeReplaces
  <2>2. UNCHANGED <<units, entries>>
    BY <1>6 DEF RegisterComposite
  <2> QED
    BY <2>1, <2>2 DEF AddsNamed, WellFormed
<1> QED
  BY <1>1, <1>3, <1>4, <1>5, <1>6

LEMMA WellFormedStep == ASSUME WellFormed, [ElfNext]_elfVars PROVE WellFormed' /\ Grows(backend, backend')
<1>1. CASE NextUnit
  <2>1. PICK u \in units : entries' = u /\ units' = units \ {u}
    BY <1>1 DEF NextUnit
  <2>2. u \in Seq(DOMAIN Dies)
    BY <2>1, ElfTypesAssumption DEF WellFormed
  <2>3. UNCHANGED <<backend, calls>>
    BY <1>1 DEF NextUnit
  <2> QED
    BY <2>1, <2>2, <2>3, GrowsReflexive DEF WellFormed
<1>2. CASE Create
  <2>1. UNCHANGED <<backend, units>>
    BY <1>2 DEF Create
  <2> QED
    BY <1>2, <2>1, CreatePushes, GrowsReflexive DEF WellFormed
<1>3. CASE TypeFromDie
  <2>1. UNCHANGED <<backend, units, entries>>
    BY <1>3 DEF TypeFromDie
  <2> QED
    BY <1>3, <2>1, TypeFromDiePushes, GrowsReflexive DEF WellFormed
<1>4. CASE Finish
  BY <1>4, FinishStays
<1>5. CASE CreateMembers
  <2>1. Returns(backend', calls[1].composite) /\ Updates(backend, backend')
    BY <1>5, CreateMembersReturns DEF CreatesMembers
  <2>2. Named(backend')
    BY <2>1 DEF Updates, Grows, Keeps, Named, WellFormed
  <2> QED
    BY <2>1, <2>2, ReturnedStays DEF Updates
<1>6. CASE CreateNull
  <2>1. PICK v, o, n : Declares(backend, v) /\ AddsNamed(v.backend, o, n, backend')
    BY <1>6, CreateNullNames
  <2>2. IsBackend(backend') /\ Named(backend') /\ Grows(backend, backend')
    BY <2>1, GrowsTransitive DEF Declares, AddsNamed, WellFormed
  <2>3. UNCHANGED <<units, entries, calls>>
    BY <1>6 DEF CreateNull
  <2> QED
    BY <2>2, <2>3, CallsGrow DEF WellFormed
<1>7. CASE Request
  <2>1. IsBackend(backend') /\ Named(backend') /\ Grows(backend, backend')
    BY <1>7, RequestDeclares DEF Declares, WellFormed
  <2>2. UNCHANGED <<units, entries, calls>>
    BY <1>7 DEF Request
  <2> QED
    BY <2>1, <2>2, CallsGrow DEF WellFormed
<1>8. CASE UNCHANGED elfVars
  BY <1>8, GrowsReflexive DEF elfVars, WellFormed
<1> QED
  BY <1>1, <1>2, <1>3, <1>4, <1>5, <1>6, <1>7, <1>8 DEF ElfNext

(* Whatever the DIEs, the units and the requests: every object is well     *)
(* formed and every one that has a name is registered under it.            *)
THEOREM BackendStaysWellFormed == ElfSpec => []WellFormed
  BY WellFormedInit, WellFormedStep, PTL DEF ElfSpec

(* What is known stays known: no name is taken away, no address moved, no  *)
(* size forgotten (the update methods).                                    *)
THEOREM NothingIsForgotten == ElfSpec => KnownStaysKnown
<1> DEFINE Stays ==
              \A name \in DOMAIN backend.types :
                  LET before == backend.objects[backend.types[name]]
                      after == backend'.objects[backend'.types[name]]
                  IN  /\ backend'.types[name] = backend.types[name]
                      /\ before.kind \in {"variable", "function"} /\ before.address # None =>
                            after.address = before.address
                      /\ before.size # -1 => after.size = before.size
<1>1. WellFormed /\ [ElfNext]_elfVars => [Stays]_elfVars
  <2> SUFFICES ASSUME WellFormed, [ElfNext]_elfVars PROVE Stays
    OBVIOUS
  <2>1. Grows(backend, backend') /\ IsBackend(backend)
    BY WellFormedStep DEF WellFormed
  <2> QED
    BY <2>1 DEF Grows, Keeps, IsBackend
<1> HIDE DEF Stays
<1>2. ElfSpec => [][Stays]_elfVars
  BY <1>1, BackendStaysWellFormed, PTL DEF ElfSpec
<1> QED
  BY <1>2 DEF KnownStaysKnown, Stays

-----------------------------------------------------------------------------
(* Calls that none of the types they want may be missing from, and calls   *)
(* that return a type.                                                     *)
IsStrict(c) == c.composite # None \/ IsQualified(c.die)

IsGiving(c) == c.composite # None \/ IsType(c.die)

AreStrict(cs) ==
    \A k \in DOMAIN cs :
        IsStrict(cs[k]) => AllKnown(cs[k].types) /\ (k # 1 => IsGiving(cs[k - 1]))

LEMMA WantedAreTypes ==
    ASSUME MemberTypesKnown, NEW b, NEW c \in CallsOf(b), IsStrict(c), NEW k \in DOMAIN Wanted(c)
    PROVE  IsType(Wanted(c)[k])
<1>1. c.die \in DOMAIN Dies
  BY DEF CallsOf
<1>2. CASE c.composite # None
  <2>1. Wanted(c) = [j \in DOMAIN Members(c) |-> Dies[Members(c)[j]].type]
    BY <1>2 DEF Wanted
  <2>2. Members(c) \in Seq({e \in DOMAIN Dies : Dies[e].tag = "member"})
    BY <1>1, ChildrenAre DEF Members
  <2>3. Members(c)[k] \in {e \in DOMAIN Dies : Dies[e].tag = "member"}
    BY <2>1, <2>2
  <2> QED
    BY <2>1, <2>3, DieIs DEF MemberTypesKnown, Has, IsDie
<1>3. CASE c.composite = None /\ IsQualified(c.die)
  <2>1. Wanted(c) = Type(c.die)
    BY <1>3 DEF Wanted, IsQualified
  <2>2. Has(c.die, "type")
    BY <2>1 DEF Type
  <2>3. Wanted(c)[k] = Dies[c.die].type
    BY <2>1, <2>2 DEF Type
  <2> QED
    BY <1>1, <1>3, <2>2, <2>3 DEF MemberTypesKnown, IsQualified
<1> QED
  BY <1>2, <1>3 DEF IsStrict

LEMMA PushedStrict ==
    ASSUME NEW S, NEW T, NEW cs \in Seq(S), NEW ds \in Seq(T), NEW c, Pushed(cs, c, ds),
           AreStrict(cs), AllKnown(c.types), cs # <<>> /\ IsStrict(cs[1]) => IsGiving(c)
    PROVE  AreStrict(ds)
<1> SUFFICES ASSUME NEW k \in DOMAIN ds, IsStrict(ds[k])
             PROVE  AllKnown(ds[k].types) /\ (k # 1 => IsGiving(ds[k - 1]))
  BY DEF AreStrict
<1>1. Len(cs) \in Nat /\ DOMAIN cs = 1 .. Len(cs) /\ DOMAIN ds = 1 .. Len(cs) + 1
  BY DEF Pushed
<1>2. CASE k = 1
  BY <1>2 DEF Pushed
<1>3. CASE k = 2
  <2>1. 1 \in DOMAIN cs /\ cs # <<>> /\ ds[2] = cs[1] /\ ds[1] = c
    BY <1>1, <1>3 DEF Pushed
  <2> QED
    BY <1>3, <2>1 DEF AreStrict
<1>4. CASE k > 2
  <2>1. k - 1 \in DOMAIN cs /\ k - 1 # 1 /\ k - 2 \in DOMAIN cs
    BY <1>1, <1>4
  <2>2. ds[k] = cs[k - 1] /\ ds[k - 1] = cs[k - 1 - 1]
    BY <1>1, <2>1 DEF Pushed
  <2> QED
    BY <2>1, <2>2 DEF AreStrict
<1> QED
  BY <1>1, <1>2, <1>3, <1>4

LEMMA ReplacedStrict ==
    ASSUME NEW S, NEW T, NEW cs \in Seq(S), NEW ds \in Seq(T), NEW c, Replaced(cs, c, ds),
           AreStrict(cs), AllKnown(c.types), IsGiving(c)
    PROVE  AreStrict(ds)
<1> SUFFICES ASSUME NEW k \in DOMAIN ds, IsStrict(ds[k])
             PROVE  AllKnown(ds[k].types) /\ (k # 1 => IsGiving(ds[k - 1]))
  BY DEF AreStrict
<1>1. Len(cs) \in Nat /\ DOMAIN cs = 1 .. Len(cs) /\ DOMAIN ds = 1 .. Len(cs)
  BY DEF Replaced
<1>2. CASE k = 1
  BY <1>2 DEF Replaced
<1>3. CASE k = 2
  <2>1. ds[2] = cs[2] /\ ds[1] = c /\ 2 \in DOMAIN cs
    BY <1>1, <1>3 DEF Replaced
  <2> QED
    BY <1>3, <2>1 DEF AreStrict
<1>4. CASE k > 2
  <2>1. ds[k] = cs[k] /\ ds[k - 1] = cs[k - 1] /\ k \in DOMAIN cs
    BY <1>1, <1>4 DEF Replaced
  <2> QED
    BY <1>4, <2>1 DEF AreStrict
<1> QED
  BY <1>1, <1>2, <1>3, <1>4

LEMMA ReturnedStrict ==
    ASSUME NEW b, NEW c, NEW cs \in Seq(CallsOf(b)), NEW ds \in Seq(CallsOf(c)), cs # <<>>, NEW type,
           Returned(cs, type, ds),
           AreStrict(cs), Len(cs) > 1 /\ IsStrict(cs[2]) => type # None
    PROVE  AreStrict(ds)
<1> SUFFICES ASSUME NEW k \in DOMAIN ds, IsStrict(ds[k])
             PROVE  AllKnown(ds[k].types) /\ (k # 1 => IsGiving(ds[k - 1]))
  BY DEF AreStrict
<1>1. Len(cs) \in Nat /\ DOMAIN cs = 1 .. Len(cs) /\ DOMAIN ds = 1 .. Len(cs) - 1
  BY DEF Returned
<1>2. /\ 2 \in DOMAIN cs
      /\ ds[1].die = cs[2].die /\ ds[1].composite = cs[2].composite
      /\ ds[1].types = Append(cs[2].types, type) /\ cs[2].types \in Seq(Types(b))
  <2>1. 2 \in DOMAIN cs /\ ds[1] = [cs[2] EXCEPT !.types = Append(@, type)]
    BY <1>1 DEF Returned
  <2>2. cs[2] \in CallsOf(b)
    BY <2>1
  <2> QED
    BY <2>1, <2>2 DEF CallsOf
<1>3. CASE k = 1
  <2>4. IsStrict(cs[2])
    BY <1>2, <1>3 DEF IsStrict
  <2>1. AllKnown(cs[2].types) /\ type # None
    BY <1>1, <1>2, <2>4 DEF AreStrict
  <2> DEFINE types == cs[2].types
  <2>2. types \in Seq(Types(b)) /\ \A j \in DOMAIN types : types[j] # None
    BY <1>2, <2>1 DEF AllKnown
  <2> HIDE DEF types
  <2>3. AllKnown(Append(types, type))
    BY <2>1, <2>2 DEF AllKnown
  <2> QED
    BY <1>2, <1>3, <2>3 DEF types
<1>4. CASE k = 2
  <2>1. ds[2] = cs[3] /\ 3 \in DOMAIN cs
    BY <1>1, <1>4 DEF Returned
  <2>2. AllKnown(cs[3].types) /\ IsGiving(cs[2])
    BY <1>4, <2>1 DEF AreStrict
  <2>3. IsGiving(ds[1])
    BY <1>2, <2>2 DEF IsGiving
  <2> QED
    BY <1>4, <2>1, <2>2, <2>3
<1>5. CASE k > 2
  <2>1. ds[k] = cs[k + 1] /\ ds[k - 1] = cs[k + 1 - 1] /\ k + 1 \in DOMAIN cs
    BY <1>1, <1>5 DEF Returned
  <2> QED
    BY <1>5, <2>1 DEF AreStrict
<1> QED
  BY <1>1, <1>3, <1>4, <1>5

-----------------------------------------------------------------------------
(* Registered structs and unions have their members, unless they are being *)
(* made.                                                                   *)
IsMaking(cs, t) == \E k \in DOMAIN cs : cs[k].composite = t

MembersMade(b, cs) ==
    \A name \in DOMAIN b.types :
        LET t == b.types[name]
        IN  IsComposite(b.objects[t]) => IsMaking(cs, t) \/ b.objects[t].members \in Seq(MembersOf(b))

MakingStays(b, cs, ds) == \A t \in DOMAIN b.objects : IsMaking(cs, t) => IsMaking(ds, t)

NewAreMaking(b, c, ds) ==
    \A name \in DOMAIN c.types \ DOMAIN b.types :
        IsComposite(c.objects[c.types[name]]) => IsMaking(ds, c.types[name])

LEMMA MembersGrow ==
    ASSUME NEW b, NEW c, Grows(b, c)
    PROVE  Seq(MembersOf(b)) \subseteq Seq(MembersOf(c))
<1>1. MembersOf(b) \subseteq MembersOf(c)
  BY DEF MembersOf, Grows
<1> QED
  BY <1>1, SeqMonotonic

LEMMA MembersStay ==
    ASSUME NEW b, NEW c, NEW cs, NEW ds, IsBackend(b), Grows(b, c), MembersKept(b, c),
           MembersMade(b, cs), MakingStays(b, cs, ds), NewAreMaking(b, c, ds)
    PROVE  MembersMade(c, ds)
<1> SUFFICES ASSUME NEW name \in DOMAIN c.types, IsComposite(c.objects[c.types[name]])
             PROVE  IsMaking(ds, c.types[name]) \/ c.objects[c.types[name]].members \in Seq(MembersOf(c))
  BY DEF MembersMade
<1>1. CASE name \in DOMAIN b.types
  <2> DEFINE t == b.types[name]
  <2>1. t \in DOMAIN b.objects /\ c.types[name] = t /\ c.objects[t].kind = b.objects[t].kind
    BY <1>1 DEF IsBackend, Grows, Keeps
  <2>2. IsComposite(b.objects[t])
    BY <2>1 DEF IsComposite
  <2>3. IsMaking(cs, t) \/ b.objects[t].members \in Seq(MembersOf(b))
    BY <1>1, <2>2 DEF MembersMade
  <2>4. c.objects[t].members = b.objects[t].members
    BY <2>1, <2>2 DEF MembersKept, IsComposite
  <2> QED
    BY <2>1, <2>3, <2>4, MembersGrow DEF MakingStays
<1>2. CASE name \notin DOMAIN b.types
  BY <1>2 DEF NewAreMaking
<1> QED
  BY <1>1, <1>2

LEMMA MakingPopped ==
    ASSUME NEW b, NEW c, NEW cs \in Seq(CallsOf(b)), NEW ds \in Seq(CallsOf(c)), cs # <<>>, NEW type,
           Returned(cs, type, ds), NEW t, cs[1].composite # t, IsMaking(cs, t)
    PROVE  IsMaking(ds, t)
<1>1. PICK k \in DOMAIN cs : cs[k].composite = t
  BY DEF IsMaking
<1>2. Len(cs) \in Nat /\ DOMAIN cs = 1 .. Len(cs) /\ DOMAIN ds = 1 .. Len(cs) - 1
  BY DEF Returned
<1>3. k # 1
  BY <1>1
<1>4. CASE k = 2
  <2>1. ds[1] = [cs[2] EXCEPT !.types = Append(@, type)] /\ cs[2] \in CallsOf(b) /\ 1 \in DOMAIN ds
    BY <1>2, <1>4 DEF Returned
  <2>2. ds[1].composite = cs[2].composite
    BY <2>1 DEF CallsOf
  <2> QED
    BY <1>1, <1>4, <2>1, <2>2 DEF IsMaking
<1>5. CASE k > 2
  <2>1. k - 1 \in DOMAIN ds /\ ds[k - 1] = cs[k - 1 + 1]
    BY <1>2, <1>5 DEF Returned
  <2>2. ds[k - 1].composite = t
    BY <1>1, <1>2, <2>1
  <2> QED
    BY <2>1, <2>2 DEF IsMaking
<1> QED
  BY <1>2, <1>3, <1>4, <1>5

-----------------------------------------------------------------------------
(* The inductive invariant of ElfTypeOK, with WellFormed.                  *)
Composites == AreStrict(calls) /\ MembersMade(backend, calls)

LEMMA CompositesReturn ==
    ASSUME WellFormed, Composites, calls # <<>>, calls[1].composite = None,
           NEW b, NEW type, Returns(b, type), Grows(backend, b), MembersKept(backend, b),
           NewAreMaking(backend, b, calls'),
           Len(calls) > 1 /\ IsStrict(calls[2]) => type # None
    PROVE  Composites'
<1>1. /\ calls \in Seq(CallsOf(backend)) /\ calls' \in Seq(CallsOf(b))
      /\ Returned(calls, type, calls') /\ backend' = b
  BY DEF WellFormed, Returns
<1>2. AreStrict(calls')
  BY <1>1, ReturnedStrict DEF Composites
<1>3. MakingStays(backend, calls, calls')
  <2> SUFFICES ASSUME NEW t \in DOMAIN backend.objects, IsMaking(calls, t) PROVE IsMaking(calls', t)
    BY DEF MakingStays
  <2>1. calls[1].composite # t
    BY LenNotNone DEF WellFormed
  <2> QED
    BY <1>1, <2>1, MakingPopped
<1>4. MembersMade(b, calls')
  BY <1>3, MembersStay DEF WellFormed, Composites
<1> QED
  BY <1>1, <1>2, <1>4 DEF Composites

LEMMA SameTypes ==
    ASSUME NEW b, NEW c, NEW ds, c.types = b.types
    PROVE  NewAreMaking(b, c, ds)
  BY DEF NewAreMaking

LEMMA CompositesFinish ==
    ASSUME WellFormed, Composites, Finish
    PROVE  Composites'
<1>1. PICK m : /\ Gives(backend, Head(calls), m)
               /\ \/ ReturnNameless(m.backend, m.type)
                  \/ ReturnKnown(m.backend, m.type)
                  \/ ReturnNew(m.backend, m.type)
                  \/ RegisterComposite(m.backend, m.type)
  BY FinishGives
<1>2. /\ calls # <<>> /\ Head(calls) = calls[1] /\ calls[1] \in CallsOf(backend) /\ calls[1].composite = None
      /\ Len(calls) \in Nat \ {0} /\ DOMAIN calls = 1 .. Len(calls)
  BY FinishGives, HeadIs DEF WellFormed
<1>3. Half(m)
  BY <1>1, GivesHalf
<1>4. Len(calls) > 1 /\ IsStrict(calls[2]) => m.type # None
  <2> SUFFICES ASSUME Len(calls) > 1, IsStrict(calls[2]) PROVE m.type # None
    OBVIOUS
  <2>1. 1 \in DOMAIN calls /\ 2 \in DOMAIN calls
    BY <1>2
  <2>2. IsGiving(calls[2 - 1])
    BY <2>1 DEF Composites, AreStrict
  <2>3. IsType(calls[1].die)
    BY <1>2, <2>2 DEF IsGiving
  <2>4. IsQualified(calls[1].die) => AllKnown(calls[1].types)
    BY <2>1 DEF Composites, AreStrict, IsStrict
  <2> QED
    BY <1>1, <1>2, <2>3, <2>4 DEF Gives
<1>5. CASE ReturnNameless(m.backend, m.type)
  <2>1. Returns(m.backend, m.type)
    BY <1>2, <1>3, <1>5, NamelessReturns
  <2>2. NewAreMaking(backend, m.backend, calls')
    BY <1>3, SameTypes DEF Half
  <2> QED
    BY <1>2, <1>3, <1>4, <2>1, <2>2, CompositesReturn DEF Half
<1>6. CASE ReturnKnown(m.backend, m.type)
  <2> DEFINE b == KnownBackend(m)
             t == KnownType(m)
  <2>1. /\ Returns(b, t) /\ t \in DOMAIN b.objects
        /\ IsBackend(b) /\ Grows(backend, b) /\ MembersKept(backend, b) /\ b.types = backend.types
    BY <1>2, <1>3, <1>6, KnownReturns
  <2> HIDE DEF b, t
  <2>2. t # None
    BY <2>1, LenNotNone
  <2>3. NewAreMaking(backend, b, calls')
    BY <2>1, SameTypes
  <2> QED
    BY <1>2, <2>1, <2>2, <2>3, CompositesReturn
<1>7. CASE ReturnNew(m.backend, m.type)
  <2> DEFINE b == Register(m.backend, m.type)
  <2>1. /\ HasName(m.backend, m.type) /\ m.backend.objects[m.type].typename \notin DOMAIN m.backend.types
        /\ ~IsComposite(m.backend.objects[m.type])
        /\ Return(b, m.type)
    BY <1>7 DEF ReturnNew
  <2> HIDE DEF b
  <2>2. PICK o : AddsNamed(backend, o, m.type, b) /\ o = m.backend.objects[m.type]
                 /\ o.typename \notin DOMAIN backend.types
    BY <1>1, <1>2, <2>1, NewIsNamed DEF b
  <2>3. Grows(backend, b) /\ MembersKept(backend, b) /\ m.type \in Types(b)
    BY <2>2 DEF AddsNamed, Types
  <2>4. Returns(b, m.type)
    BY <1>2, <2>1, <2>3, ReturnReturns
  <2>5. NewAreMaking(backend, b, calls')
    BY <2>1, <2>2 DEF AddsNamed, NewAreMaking
  <2> QED
    BY <1>2, <1>4, <2>3, <2>4, <2>5, CompositesReturn
<1>8. CASE RegisterComposite(m.backend, m.type)
  <2>1. PICK o, d : LET c == [die |-> d, types |-> <<>>, composite |-> m.type]
                    IN  /\ AddsNamed(backend, o, m.type, backend')
                        /\ o.typename \notin DOMAIN backend.types
                        /\ c \in CallsOf(backend') /\ calls' \in Seq(CallsOf(backend'))
                        /\ Replaced(calls, c, calls')
    BY <1>1, <1>2, <1>8, CompositeReplaces
  <2> DEFINE c == [die |-> d, types |-> <<>>, composite |-> m.type]
  <2>2. Replaced(calls, c, calls') /\ calls' \in Seq(CallsOf(backend')) /\ calls \in Seq(CallsOf(backend))
    BY <2>1 DEF WellFormed
  <2>3. c.composite = m.type /\ AllKnown(c.types) /\ c.composite # None
    <3>1. m.type # None
      BY <1>8 DEF RegisterComposite, HasName
    <3> QED
      BY <3>1 DEF AllKnown
  <2> HIDE DEF c
  <2>4. IsGiving(c)
    BY <2>3 DEF IsGiving
  <2>5. AreStrict(calls')
    BY <2>2, <2>3, <2>4, ReplacedStrict DEF Composites
  <2>6. /\ DOMAIN calls' = 1 .. Len(calls) /\ calls'[1] = c
        /\ \A k \in 2 .. Len(calls) : calls'[k] = calls[k]
    BY <2>2 DEF Replaced
  <2>7. MakingStays(backend, calls, calls')
    <3> SUFFICES ASSUME NEW t \in DOMAIN backend.objects, IsMaking(calls, t) PROVE IsMaking(calls', t)
      BY DEF MakingStays
    <3>1. t # None
      BY LenNotNone DEF WellFormed
    <3>2. PICK k \in DOMAIN calls : calls[k].composite = t
      BY DEF IsMaking
    <3>3. k \in 2 .. Len(calls)
      BY <1>2, <3>1, <3>2
    <3> QED
      BY <2>6, <3>2, <3>3 DEF IsMaking
  <2>8. NewAreMaking(backend, backend', calls')
    <3>1. IsMaking(calls', m.type)
      BY <1>2, <2>3, <2>6 DEF IsMaking
    <3> QED
      BY <2>1, <3>1 DEF AddsNamed, NewAreMaking
  <2>9. MembersMade(backend', calls')
    BY <2>1, <2>7, <2>8, MembersStay DEF AddsNamed, WellFormed, Composites
  <2> QED
    BY <2>5, <2>9 DEF Composites
<1> QED
  BY <1>1, <1>5, <1>6, <1>7, <1>8

LEMMA CompositesCreateMembers ==
    ASSUME WellFormed, Composites, CreateMembers
    PROVE  Composites'
<1> DEFINE t == calls[1].composite
<1>1. PICK members : calls # <<>> /\ t # None /\ Returns(backend', t) /\ CreatesMembers(t, members, backend')
  BY CreateMembersReturns
<1>2. /\ calls \in Seq(CallsOf(backend)) /\ calls' \in Seq(CallsOf(backend'))
      /\ Returned(calls, t, calls') /\ IsBackend(backend)
  BY <1>1 DEF WellFormed, Returns
<1>3. AreStrict(calls')
  BY <1>1, <1>2, ReturnedStrict DEF Composites
<1>4. AllKnown(calls[1].types)
  <2>1. 1 \in DOMAIN calls
    BY <1>1, <1>2
  <2> QED
    BY <1>1, <2>1 DEF Composites, AreStrict, IsStrict
<1>5. /\ members \in Seq(MembersOf(backend)) /\ t \in DOMAIN backend.objects
      /\ \A u \in DOMAIN backend.objects : u # t => backend'.objects[u] = backend.objects[u]
      /\ backend'.objects[t] = [backend.objects[t] EXCEPT !.members = members]
      /\ Grows(backend, backend') /\ backend'.types = backend.types
  BY <1>1, <1>4 DEF CreatesMembers, Updates
<1>6. MembersMade(backend', calls')
  <2> SUFFICES ASSUME NEW name \in DOMAIN backend.types, NEW u, u = backend.types[name],
                      IsComposite(backend'.objects[u])
               PROVE  IsMaking(calls', u) \/ backend'.objects[u].members \in Seq(MembersOf(backend'))
    BY <1>5 DEF MembersMade
  <2>1. u \in DOMAIN backend.objects /\ backend'.objects[u].kind = backend.objects[u].kind
    BY <1>2, <1>5 DEF IsBackend, Grows, Keeps
  <2>2. CASE u = t
    <3>1. "members" \in DOMAIN backend.objects[t]
      BY <1>2, <2>1, <2>2 DEF IsBackend, IsObject, IsComposite
    <3>2. backend'.objects[t].members = members
      BY <1>5, <3>1
    <3> QED
      BY <1>5, <2>2, <3>2, MembersGrow
  <2>3. CASE u # t
    <3>1. IsComposite(backend.objects[u]) /\ backend'.objects[u] = backend.objects[u]
      BY <1>5, <2>1, <2>3 DEF IsComposite
    <3>2. IsMaking(calls, u) \/ backend.objects[u].members \in Seq(MembersOf(backend))
      BY <3>1 DEF Composites, MembersMade
    <3>3. IsMaking(calls, u) => IsMaking(calls', u)
      BY <1>1, <1>2, <2>3, MakingPopped
    <3> QED
      BY <1>5, <3>1, <3>2, <3>3, MembersGrow
  <2> QED
    BY <2>2, <2>3
<1> QED
  BY <1>3, <1>6 DEF Composites

LEMMA CompositesStep ==
    ASSUME MemberTypesKnown, WellFormed, Composites, [ElfNext]_elfVars
    PROVE  Composites'
<1>1. CASE UNCHANGED <<backend, calls>>
  BY <1>1 DEF Composites
<1>2. CASE NextUnit \/ UNCHANGED elfVars
  <2>1. UNCHANGED <<backend, calls>>
    BY <1>2 DEF NextUnit, elfVars
  <2> QED
    BY <1>1, <2>1
<1>3. CASE Create
  <2>1. calls = <<>> /\ calls' = <<Call(Head(entries))>> /\ backend' = backend
    BY <1>3, CreatePushes DEF Create
  <2>2. AreStrict(calls')
    BY <2>1 DEF AreStrict, Call, AllKnown
  <2>3. MembersMade(backend, calls')
    BY <2>1 DEF Composites, MembersMade, IsMaking
  <2> QED
    BY <2>1, <2>2, <2>3 DEF Composites
<1>4. CASE TypeFromDie
  <2> DEFINE c == calls[1]
             k == Len(c.types) + 1
             d == Wanted(c)[k]
  <2>1. /\ calls # <<>> /\ k \in DOMAIN Wanted(c) /\ d \in DOMAIN Dies
        /\ Pushed(calls, Call(d), calls') /\ calls' \in Seq(CallsOf(backend))
    BY <1>4, TypeFromDiePushes
  <2>2. backend' = backend /\ calls \in Seq(CallsOf(backend)) /\ c \in CallsOf(backend)
    BY <1>4, <2>1, HeadIs DEF TypeFromDie, WellFormed
  <2> HIDE DEF k
  <2>3. IsStrict(c) => IsType(d)
    BY <2>1, <2>2, WantedAreTypes
  <2>4. AllKnown(Call(d).types) /\ (IsStrict(c) => IsGiving(Call(d)))
    BY <2>3 DEF Call, AllKnown, IsGiving
  <2> DEFINE e == Call(d)
  <2> HIDE DEF e, c
  <2>5. AreStrict(calls')
    BY <2>1, <2>2, <2>4, PushedStrict DEF Composites, e, c
  <2>6. MembersMade(backend, calls')
    <3>1. \A j \in DOMAIN calls : j + 1 \in DOMAIN calls' /\ calls'[j + 1] = calls[j]
      BY <2>1, <2>2 DEF Pushed
    <3>2. \A t : IsMaking(calls, t) => IsMaking(calls', t)
      BY <3>1 DEF IsMaking
    <3> QED
      BY <3>2 DEF Composites, MembersMade
  <2> QED
    BY <2>2, <2>5, <2>6 DEF Composites
<1>5. CASE Finish
  BY <1>5, CompositesFinish
<1>6. CASE CreateMembers
  BY <1>6, CompositesCreateMembers
<1>7. CASE CreateNull
  <2>1. PICK v, o, n : /\ Declares(backend, v) /\ AddsNamed(v.backend, o, n, backend')
                       /\ o.kind = "variable"
    BY <1>7, CreateNullNames
  <2>2. calls' = calls
    BY <1>7 DEF CreateNull
  <2>3. NewAreMaking(backend, v.backend, calls)
    BY <2>1 DEF Declares, NewAreMaking, IsComposite
  <2>4. MakingStays(backend, calls, calls) /\ MakingStays(v.backend, calls, calls)
    BY DEF MakingStays
  <2>5. MembersMade(v.backend, calls)
    BY <2>1, <2>3, <2>4, MembersStay DEF WellFormed, Composites, Declares
  <2>6. NewAreMaking(v.backend, backend', calls)
    BY <2>1 DEF AddsNamed, NewAreMaking, IsComposite
  <2>7. MembersMade(backend', calls)
    BY <2>1, <2>4, <2>5, <2>6, MembersStay DEF Declares, AddsNamed
  <2> QED
    BY <2>2, <2>7 DEF Composites
<1>8. CASE Request
  <2>1. PICK m : Declares(backend, m) /\ backend' = m.backend
    BY <1>8, RequestDeclares
  <2>2. calls' = calls
    BY <1>8 DEF Request
  <2>3. NewAreMaking(backend, backend', calls) /\ MakingStays(backend, calls, calls)
    BY <2>1 DEF Declares, NewAreMaking, MakingStays, IsComposite
  <2>4. MembersMade(backend', calls)
    BY <2>1, <2>3, MembersStay DEF Declares, WellFormed, Composites
  <2> QED
    BY <2>2, <2>4 DEF Composites
<1> QED
  BY <1>2, <1>3, <1>4, <1>5, <1>6, <1>7, <1>8 DEF ElfNext

LEMMA CompositesInit == ElfInit => Composites
<1> SUFFICES ASSUME ElfInit PROVE Composites
  OBVIOUS
<1>1. calls = <<>> /\ backend.types = [void |-> 1] /\ backend.objects = <<Void>>
  BY DEF ElfInit
<1>2. AreStrict(calls)
  BY <1>1 DEF AreStrict
<1>3. MembersMade(backend, calls)
  <2>1. DOMAIN backend.types = {"void"} /\ backend.objects[backend.types["void"]] = Void
    BY <1>1
  <2> QED
    BY <2>1 DEF MembersMade, IsComposite, Void
<1> QED
  BY <1>2, <1>3 DEF Composites

(* Every name is registered with the object that has it, what a pointer or *)
(* an array refers to has been made, and so have all the members of a      *)
(* registered struct or union, however types refer to each other           *)
(* (type_from_die, _create_members).                                       *)
THEOREM ElfTypesAreComplete == ASSUME MemberTypesKnown PROVE ElfSpec => []ElfTypeOK
<1>1. ElfInit => WellFormed /\ Composites
  BY WellFormedInit, CompositesInit
<1>2. WellFormed /\ Composites /\ [ElfNext]_elfVars => (WellFormed /\ Composites)'
  BY WellFormedStep, CompositesStep
<1>3. WellFormed /\ Composites => ElfTypeOK
  <2> SUFFICES ASSUME WellFormed, Composites PROVE ElfTypeOK
    OBVIOUS
  <2> SUFFICES ASSUME NEW name \in DOMAIN backend.types
               PROVE  LET t == backend.types[name]
                          object == backend.objects[t]
                      IN  /\ t \in DOMAIN backend.objects
                          /\ object.typename = name
                          /\ object.kind \in {"pointer", "array"} => object.base \in DOMAIN backend.objects
                          /\ object.kind \in {"struct", "union"} =>
                                \/ \E c \in Range(calls) : c.composite = t
                                \/ object.members \in Seq([name : STRING, type : DOMAIN backend.objects, offset : Nat])
    BY DEF ElfTypeOK, WellFormed
  <2> DEFINE t == backend.types[name]
             object == backend.objects[t]
  <2>1. t \in DOMAIN backend.objects /\ object.typename = name /\ IsObject(object, backend.objects)
    BY DEF WellFormed, IsBackend
  <2>2. object.kind \in {"pointer", "array"} => object.base \in DOMAIN backend.objects
    BY <2>1 DEF IsObject
  <2>3. IsComposite(object) => IsMaking(calls, t) \/ object.members \in Seq(MembersOf(backend))
    BY DEF Composites, MembersMade
  <2>4. IsMaking(calls, t) => \E c \in Range(calls) : c.composite = t
    BY DEF IsMaking, Range
  <2> QED
    BY <2>1, <2>2, <2>3, <2>4 DEF IsComposite, MembersOf
<1> QED
  BY <1>1, <1>2, <1>3, PTL DEF ElfSpec

-----------------------------------------------------------------------------
(* An open call is for an entry that the ones outside it refer to, unless  *)
(* it is for a member ...                                                  *)
AreNested(cs, depth) ==
    \A j, k \in DOMAIN cs : j < k =>
        \/ \E m \in j + 1 .. k : cs[m].composite # None
        \/ depth[cs[j].die] < depth[cs[k].die]

(* ... and a struct or union the members of which are being made has a     *)
(* name of its own, which is registered.                                   *)
MadeName(b, c) == b.objects[c.composite].typename

AreDistinct(b, cs) ==
    /\ \A k \in DOMAIN cs : cs[k].composite # None => MadeName(b, cs[k]) \in DOMAIN b.types
    /\ \A j, k \in DOMAIN cs :
          j < k /\ cs[j].composite # None /\ cs[k].composite # None => MadeName(b, cs[j]) # MadeName(b, cs[k])

(* What an entry refers to is less deep.                                   *)
LEMMA WantedIsReferred ==
    ASSUME NEW b, NEW c \in CallsOf(b), c.composite = None, NEW k \in DOMAIN Wanted(c)
    PROVE  Wanted(c)[k] \in RefersTo(c.die)
<1> DEFINE Stripped(types) == [Call(c.die) EXCEPT !.types = types]
<1>1. c.types \in Seq(Types(b))
  BY DEF CallsOf
<1>2. PICK types \in {<<>>, <<None>>} :
         (types # <<>> /\ types[1] = None) <=> (c.types # <<>> /\ c.types[1] = None)
  OBVIOUS
<1>3. Stripped(types).die = c.die /\ Stripped(types).types = types /\ Stripped(types).composite = None
  BY DEF Call
<1>4. PointedTo(c) = PointedTo(Stripped(types))
  <2> HIDE DEF Stripped
  <2> QED
    BY <1>2, <1>3 DEF PointedTo
<1>5. Wanted(c) = Wanted(Stripped(types))
  <2> HIDE DEF Stripped
  <2> QED
    BY <1>3, <1>4 DEF Wanted
<1>6. Wanted(c)[k] \in Range(Wanted(Stripped(types)))
  <2> HIDE DEF Stripped
  <2> QED
    BY <1>5 DEF Range
<1> QED
  BY <1>6 DEF RefersTo

LEMMA RenamedIsReferred ==
    ASSUME NEW d \in DOMAIN Dies, NEW e, Dies[d].tag = "typedef", Type(d) = <<e>>
    PROVE  e \in RefersTo(d)
<1> DEFINE c == Call(d)
<1>1. c \in CallsOf(backend) /\ c.composite = None /\ c.die = d
  BY CallIs DEF Call
<1>2. Wanted(c) = <<e>>
  BY <1>1 DEF Wanted
<1> HIDE DEF c
<1>3. 1 \in DOMAIN Wanted(c) /\ Wanted(c)[1] = e
  BY <1>2
<1> QED
  BY <1>1, <1>3, WantedIsReferred

LEMMA DieOfCall ==
    ASSUME NEW b, NEW cs \in Seq(CallsOf(b)), NEW k \in DOMAIN cs
    PROVE  cs[k] \in CallsOf(b) /\ cs[k].die \in DOMAIN Dies
<1>1. cs[k] \in CallsOf(b)
  OBVIOUS
<1> QED
  BY <1>1 DEF CallsOf

LEMMA PushedNested ==
    ASSUME NEW depth \in [DOMAIN Dies -> Nat], NEW b,
           NEW cs \in Seq(CallsOf(b)), NEW ds \in Seq(CallsOf(b)), NEW c, Pushed(cs, c, ds),
           AreNested(cs, depth), cs # <<>>, cs[1].composite # None \/ depth[c.die] < depth[cs[1].die]
    PROVE  AreNested(ds, depth)
<1> DEFINE Within(s, j, k) == \E m \in j + 1 .. k : s[m].composite # None
           Above(s, j, k) == depth[s[j].die] < depth[s[k].die]
<1>1. Len(cs) \in Nat \ {0} /\ DOMAIN cs = 1 .. Len(cs) /\ DOMAIN ds = 1 .. Len(cs) + 1
  BY DEF Pushed
<1>2. ds[1] = c /\ \A k \in 2 .. Len(cs) + 1 : ds[k] = cs[k - 1] /\ k - 1 \in DOMAIN cs
  <2>1. \A k \in 2 .. Len(cs) + 1 : k - 1 \in 1 .. Len(cs) /\ k - 1 + 1 = k
    BY <1>1
  <2>2. \A k \in 1 .. Len(cs) : ds[k + 1] = cs[k]
    BY DEF Pushed
  <2>3. \A k \in 2 .. Len(cs) + 1 : ds[k - 1 + 1] = cs[k - 1]
    BY <2>1, <2>2
  <2>4. ds[1] = c
    BY DEF Pushed
  <2> QED
    BY <1>1, <2>1, <2>3, <2>4
<1>3. \A k \in DOMAIN ds : depth[ds[k].die] \in Nat
  BY DieOfCall
<1>4. \A j, k \in DOMAIN cs : j < k => Within(cs, j, k) \/ Above(cs, j, k)
  BY DEF AreNested
<1>5. ASSUME NEW j \in DOMAIN cs, NEW k \in DOMAIN cs, Within(cs, j, k)
      PROVE  Within(ds, j + 1, k + 1)
  <2>1. PICK m \in j + 1 .. k : cs[m].composite # None
    BY <1>5
  <2>2. m + 1 \in j + 1 + 1 .. k + 1 /\ m + 1 \in 2 .. Len(cs) + 1 /\ m + 1 - 1 = m
    BY <1>1
  <2>3. ds[m + 1] = cs[m]
    BY <1>2, <2>2
  <2> QED
    BY <2>1, <2>2, <2>3
<1> SUFFICES ASSUME NEW j \in DOMAIN ds, NEW k \in DOMAIN ds, j < k
             PROVE  Within(ds, j, k) \/ Above(ds, j, k)
  BY DEF AreNested
<1>6. CASE j > 1
  <2>1. j - 1 \in DOMAIN cs /\ k - 1 \in DOMAIN cs /\ j - 1 < k - 1 /\ j - 1 + 1 = j /\ k - 1 + 1 = k
        /\ ds[j] = cs[j - 1] /\ ds[k] = cs[k - 1]
    BY <1>1, <1>2, <1>6
  <2> QED
    BY <2>1, <1>4, <1>5
<1>7. CASE j = 1 /\ k = 2
  BY <1>1, <1>2, <1>7
<1>8. CASE j = 1 /\ k > 2
  <2>1. 1 \in DOMAIN cs /\ k - 1 \in DOMAIN cs /\ 1 < k - 1 /\ k - 1 + 1 = k /\ ds[k] = cs[k - 1] /\ ds[2] = cs[1]
        /\ 2 \in DOMAIN ds /\ 2 \in 2 .. k
    BY <1>1, <1>2, <1>8
  <2>2. Within(ds, 2, k) => Within(ds, 1, k)
    BY <1>8
  <2>3. cs[1].composite # None => Within(ds, 1, k)
    BY <1>8, <2>1
  <2>4. Within(cs, 1, k - 1) => Within(ds, 2, k)
    <3> HIDE DEF Within
    <3>1. Within(cs, 1, k - 1) => Within(ds, 1 + 1, k - 1 + 1)
      BY <2>1, <1>5
    <3>2. 1 + 1 = 2 /\ k - 1 + 1 = k
      BY <2>1
    <3> QED
      BY <3>1, <3>2
  <2>5. Above(cs, 1, k - 1) /\ depth[c.die] < depth[cs[1].die] => Above(ds, 1, k)
    BY <1>2, <1>3, <1>8, <2>1
  <2>6. Within(cs, 1, k - 1) \/ Above(cs, 1, k - 1)
    BY <2>1, <1>4
  <2> HIDE DEF Within, Above
  <2> QED
    BY <1>8, <2>2, <2>3, <2>4, <2>5, <2>6
<1> QED
  BY <1>1, <1>6, <1>7, <1>8

LEMMA ReplacedNested ==
    ASSUME NEW depth \in [DOMAIN Dies -> Nat], NEW b, NEW bb,
           NEW cs \in Seq(CallsOf(b)), NEW ds \in Seq(CallsOf(bb)), NEW c, Replaced(cs, c, ds),
           AreNested(cs, depth), cs # <<>>, depth[c.die] <= depth[cs[1].die]
    PROVE  AreNested(ds, depth)
<1>1. Len(cs) \in Nat \ {0} /\ DOMAIN cs = 1 .. Len(cs) /\ DOMAIN ds = 1 .. Len(cs)
  BY DEF Replaced
<1>2. ds[1] = c /\ \A k \in 2 .. Len(cs) : ds[k] = cs[k]
  BY DEF Replaced
<1>3. \A k \in DOMAIN cs : depth[ds[k].die] \in Nat /\ depth[cs[k].die] \in Nat
  BY <1>1, DieOfCall
<1> SUFFICES ASSUME NEW j \in DOMAIN ds, NEW k \in DOMAIN ds, j < k
             PROVE  (\E m \in j + 1 .. k : ds[m].composite # None) \/ depth[ds[j].die] < depth[ds[k].die]
  BY DEF AreNested
<1>4. (\E m \in j + 1 .. k : cs[m].composite # None) \/ depth[cs[j].die] < depth[cs[k].die]
  BY <1>1 DEF AreNested
<1>5. \A m \in j + 1 .. k : ds[m] = cs[m]
  BY <1>1, <1>2
<1>6. ds[k] = cs[k] /\ depth[ds[j].die] <= depth[cs[j].die]
  <2>1. CASE j = 1
    BY <1>1, <1>2, <2>1
  <2>2. CASE j # 1
    BY <1>1, <1>2, <1>3, <2>2
  <2> QED
    BY <2>1, <2>2
<1> QED
  BY <1>1, <1>3, <1>4, <1>5, <1>6

(* The calls that are left are for the entries they were for.              *)
LEMMA ReturnedShifts ==
    ASSUME NEW b, NEW bb, NEW cs \in Seq(CallsOf(b)), NEW ds \in Seq(CallsOf(bb)), cs # <<>>, NEW type,
           Returned(cs, type, ds), NEW k \in DOMAIN ds
    PROVE  k + 1 \in DOMAIN cs /\ ds[k].die = cs[k + 1].die /\ ds[k].composite = cs[k + 1].composite
<1>1. Len(cs) \in Nat /\ DOMAIN cs = 1 .. Len(cs) /\ DOMAIN ds = 1 .. Len(cs) - 1
  BY DEF Returned
<1>2. CASE k = 1
  <2>1. 2 \in DOMAIN cs /\ ds[1] = [cs[2] EXCEPT !.types = Append(@, type)]
    BY <1>1, <1>2 DEF Returned
  <2>2. cs[2] \in CallsOf(b)
    BY <2>1
  <2> QED
    BY <1>2, <2>1, <2>2 DEF CallsOf
<1>3. CASE k # 1
  BY <1>1, <1>3 DEF Returned
<1> QED
  BY <1>2, <1>3

LEMMA ShiftedNested ==
    ASSUME NEW depth \in [DOMAIN Dies -> Nat], NEW b, NEW bb,
           NEW cs \in Seq(CallsOf(b)), NEW ds \in Seq(CallsOf(bb)), AreNested(cs, depth),
           \A k \in DOMAIN ds : k + 1 \in DOMAIN cs /\ ds[k].die = cs[k + 1].die /\ ds[k].composite = cs[k + 1].composite
    PROVE  AreNested(ds, depth)
<1> SUFFICES ASSUME NEW j \in DOMAIN ds, NEW k \in DOMAIN ds, j < k
             PROVE  (\E m \in j + 1 .. k : ds[m].composite # None) \/ depth[ds[j].die] < depth[ds[k].die]
  BY DEF AreNested
<1>1. DOMAIN ds = 1 .. Len(ds) /\ Len(ds) \in Nat
  OBVIOUS
<1>2. j + 1 \in DOMAIN cs /\ k + 1 \in DOMAIN cs /\ j + 1 < k + 1
  BY <1>1
<1>3. CASE depth[cs[j + 1].die] < depth[cs[k + 1].die]
  BY <1>3
<1>4. ASSUME NEW m \in j + 1 + 1 .. k + 1, cs[m].composite # None
      PROVE  \E n \in j + 1 .. k : ds[n].composite # None
  <2>1. m - 1 \in j + 1 .. k /\ m - 1 \in DOMAIN ds /\ m - 1 + 1 = m
    BY <1>1, <1>4
  <2>2. ds[m - 1].composite # None
    BY <1>4, <2>1
  <2> QED
    BY <2>1, <2>2
<1> QED
  BY <1>2, <1>3, <1>4 DEF AreNested

(* Names stay.                                                             *)
LEMMA NameStays ==
    ASSUME NEW b, NEW bb, Grows(b, bb), NEW c \in CallsOf(b), c.composite # None
    PROVE  MadeName(bb, c) = MadeName(b, c) /\ (MadeName(b, c) \in DOMAIN b.types => MadeName(b, c) \in DOMAIN bb.types)
<1>1. c.composite \in DOMAIN b.objects
  BY DEF CallsOf, Types
<1> QED
  BY <1>1 DEF Grows, Keeps, MadeName

LEMMA DistinctStays ==
    ASSUME NEW b, NEW bb, Grows(b, bb), NEW cs \in Seq(CallsOf(b)), AreDistinct(b, cs)
    PROVE  AreDistinct(bb, cs)
<1>1. \A k \in DOMAIN cs : cs[k] \in CallsOf(b)
  OBVIOUS
<1>2. \A k \in DOMAIN cs : cs[k].composite # None =>
          MadeName(bb, cs[k]) = MadeName(b, cs[k]) /\ MadeName(b, cs[k]) \in DOMAIN bb.types
  BY <1>1, NameStays DEF AreDistinct
<1> QED
  BY <1>2 DEF AreDistinct

LEMMA ShiftedDistinct ==
    ASSUME NEW b, NEW S, NEW T, NEW cs \in Seq(S), NEW ds \in Seq(T), AreDistinct(b, cs),
           \A k \in DOMAIN ds : k + 1 \in DOMAIN cs /\ ds[k].composite = cs[k + 1].composite
    PROVE  AreDistinct(b, ds)
<1>1. \A k \in DOMAIN ds : MadeName(b, ds[k]) = MadeName(b, cs[k + 1])
  BY DEF MadeName
<1>2. \A j, k \in DOMAIN ds : j < k => j + 1 < k + 1
  OBVIOUS
<1> QED
  BY <1>1, <1>2 DEF AreDistinct

LEMMA PushedDistinct ==
    ASSUME NEW b, NEW S, NEW cs \in Seq(S), NEW ds \in Seq(S), NEW c, Pushed(cs, c, ds), c.composite = None,
           AreDistinct(b, cs)
    PROVE  AreDistinct(b, ds)
<1>1. Len(cs) \in Nat /\ DOMAIN cs = 1 .. Len(cs) /\ DOMAIN ds = 1 .. Len(cs) + 1
  BY DEF Pushed
<1>2. ASSUME NEW k \in DOMAIN ds, ds[k].composite # None
      PROVE  k - 1 \in DOMAIN cs /\ ds[k] = cs[k - 1]
  <2>1. k # 1
    BY <1>2 DEF Pushed
  <2>2. k - 1 \in 1 .. Len(cs) /\ k - 1 + 1 = k
    BY <1>1, <2>1
  <2> QED
    BY <1>1, <2>2 DEF Pushed
<1>3. \A j, k \in DOMAIN ds : j < k => j - 1 < k - 1
  BY <1>1
<1> QED
  BY <1>2, <1>3 DEF AreDistinct

LEMMA ReplacedDistinct ==
    ASSUME NEW b, NEW bb, Grows(b, bb), NEW cs \in Seq(CallsOf(b)), NEW ds \in Seq(CallsOf(bb)), NEW c,
           Replaced(cs, c, ds), AreDistinct(b, cs),
           MadeName(bb, c) \in DOMAIN bb.types, MadeName(bb, c) \notin DOMAIN b.types
    PROVE  AreDistinct(bb, ds)
<1>1. Len(cs) \in Nat /\ DOMAIN cs = 1 .. Len(cs) /\ DOMAIN ds = 1 .. Len(cs)
  BY DEF Replaced
<1>2. ds[1] = c /\ \A k \in 2 .. Len(cs) : ds[k] = cs[k]
  BY DEF Replaced
<1>3. \A k \in DOMAIN cs : cs[k].composite # None =>
         MadeName(bb, cs[k]) = MadeName(b, cs[k]) /\ MadeName(b, cs[k]) \in DOMAIN b.types
  <2>1. \A k \in DOMAIN cs : cs[k] \in CallsOf(b)
    OBVIOUS
  <2> QED
    BY <2>1, NameStays DEF AreDistinct
<1>4. AreDistinct(bb, cs)
  BY DistinctStays
<1>5. \A k \in DOMAIN ds : k = 1 \/ (k \in 2 .. Len(cs) /\ k \in DOMAIN cs)
  BY <1>1
<1>6. \A k \in DOMAIN ds : ds[k].composite # None => MadeName(bb, ds[k]) \in DOMAIN bb.types
  BY <1>2, <1>4, <1>5 DEF AreDistinct
<1>7. ASSUME NEW j \in DOMAIN ds, NEW k \in DOMAIN ds, j < k, ds[j].composite # None, ds[k].composite # None
      PROVE  MadeName(bb, ds[j]) # MadeName(bb, ds[k])
  <2>1. k \in 2 .. Len(cs) /\ k \in DOMAIN cs /\ ds[k] = cs[k]
    BY <1>1, <1>2, <1>7
  <2>2. CASE j = 1
    BY <1>2, <1>3, <1>7, <2>1, <2>2
  <2>3. CASE j # 1
    <3>1. j \in DOMAIN cs /\ ds[j] = cs[j]
      BY <1>2, <1>5, <2>3
    <3> QED
      BY <1>4, <1>7, <2>1, <3>1 DEF AreDistinct
  <2> QED
    BY <2>2, <2>3
<1> QED
  BY <1>6, <1>7 DEF AreDistinct

-----------------------------------------------------------------------------
(* The inductive invariant of RecursionEnds, with WellFormed.              *)
Recursion(depth) == AreNested(calls, depth) /\ AreDistinct(backend, calls)

LEMMA RecursionReturn ==
    ASSUME NEW depth \in [DOMAIN Dies -> Nat], WellFormed, Recursion(depth), calls # <<>>,
           NEW b, NEW type, Returns(b, type), Grows(backend, b)
    PROVE  Recursion(depth)'
<1>1. /\ calls \in Seq(CallsOf(backend)) /\ calls' \in Seq(CallsOf(b))
      /\ Returned(calls, type, calls') /\ backend' = b
  BY DEF WellFormed, Returns
<1>2. \A k \in DOMAIN calls' : /\ k + 1 \in DOMAIN calls
                               /\ calls'[k].die = calls[k + 1].die
                               /\ calls'[k].composite = calls[k + 1].composite
  BY <1>1, ReturnedShifts
<1>3. AreNested(calls', depth)
  BY <1>1, <1>2, ShiftedNested DEF Recursion
<1>4. AreDistinct(b, calls)
  BY <1>1, DistinctStays DEF Recursion
<1>5. AreDistinct(b, calls')
  BY <1>1, <1>2, <1>4, ShiftedDistinct
<1> QED
  BY <1>1, <1>3, <1>5 DEF Recursion

LEMMA RecursionFinish ==
    ASSUME NEW depth \in [DOMAIN Dies -> Nat], IsNesting(depth), WellFormed, Recursion(depth), Finish
    PROVE  Recursion(depth)'
<1>1. PICK m : /\ Gives(backend, Head(calls), m)
               /\ \/ ReturnNameless(m.backend, m.type)
                  \/ ReturnKnown(m.backend, m.type)
                  \/ ReturnNew(m.backend, m.type)
                  \/ RegisterComposite(m.backend, m.type)
  BY FinishGives
<1>2. calls # <<>> /\ Head(calls) = calls[1] /\ calls[1] \in CallsOf(backend) /\ Half(m)
  BY <1>1, FinishGives, HeadIs, GivesHalf
<1>3. CASE ReturnNameless(m.backend, m.type)
  BY <1>2, <1>3, NamelessReturns, RecursionReturn DEF Half
<1>4. CASE ReturnKnown(m.backend, m.type)
  BY <1>2, <1>4, KnownReturns, RecursionReturn
<1>5. CASE ReturnNew(m.backend, m.type)
  <2> DEFINE b == Register(m.backend, m.type)
  <2>1. HasName(m.backend, m.type) /\ m.backend.objects[m.type].typename \notin DOMAIN m.backend.types
        /\ Return(b, m.type)
    BY <1>5 DEF ReturnNew
  <2> HIDE DEF b
  <2>2. PICK o : AddsNamed(backend, o, m.type, b)
    BY <1>1, <1>2, <2>1, NewIsNamed DEF b
  <2>3. Grows(backend, b) /\ m.type \in Types(b)
    BY <2>2 DEF AddsNamed, Types
  <2>4. Returns(b, m.type)
    BY <1>2, <2>1, <2>3, ReturnReturns
  <2> QED
    BY <1>2, <2>3, <2>4, RecursionReturn
<1>6. CASE RegisterComposite(m.backend, m.type)
  <2>1. PICK o, d : LET c == [die |-> d, types |-> <<>>, composite |-> m.type]
                    IN  /\ AddsNamed(backend, o, m.type, backend')
                        /\ o.typename \notin DOMAIN backend.types
                        /\ d = calls[1].die \/ (Dies[calls[1].die].tag = "typedef" /\ Type(calls[1].die) = <<d>>)
                        /\ calls' \in Seq(CallsOf(backend'))
                        /\ Replaced(calls, c, calls')
    BY <1>1, <1>2, <1>6, CompositeReplaces
  <2> DEFINE c == [die |-> d, types |-> <<>>, composite |-> m.type]
  <2>2. /\ Replaced(calls, c, calls') /\ calls' \in Seq(CallsOf(backend')) /\ calls \in Seq(CallsOf(backend))
        /\ c.die = d /\ c.composite = m.type
    BY <2>1 DEF WellFormed
  <2> HIDE DEF c
  <2>3. calls[1].die \in DOMAIN Dies
    BY <1>2 DEF CallsOf
  <2>4. depth[d] <= depth[calls[1].die]
    <3>1. CASE d = calls[1].die
      BY <2>3, <3>1
    <3>2. CASE Dies[calls[1].die].tag = "typedef" /\ Type(calls[1].die) = <<d>>
      <4>3. <<d>> \in Seq(DOMAIN Dies)
        BY <2>3, <3>2, TypeIs
      <4>1. d \in DOMAIN Dies
        BY <4>3
      <4>2. depth[d] < depth[calls[1].die]
        BY <2>3, <3>2, RenamedIsReferred DEF IsNesting
      <4> QED
        BY <2>3, <4>1, <4>2
    <3> QED
      BY <2>1, <3>1, <3>2
  <2>5. AreNested(calls', depth)
    BY <1>2, <2>2, <2>4, ReplacedNested DEF Recursion
  <2>6. /\ Grows(backend, backend')
        /\ MadeName(backend', c) \in DOMAIN backend'.types /\ MadeName(backend', c) \notin DOMAIN backend.types
    BY <2>1, <2>2 DEF AddsNamed, MadeName
  <2>7. AreDistinct(backend', calls')
    BY <2>2, <2>6, ReplacedDistinct DEF Recursion
  <2> QED
    BY <2>5, <2>7 DEF Recursion
<1> QED
  BY <1>1, <1>3, <1>4, <1>5, <1>6

LEMMA RecursionStep ==
    ASSUME NEW depth \in [DOMAIN Dies -> Nat], IsNesting(depth), WellFormed, Recursion(depth), [ElfNext]_elfVars
    PROVE  Recursion(depth)'
<1>1. calls \in Seq(CallsOf(backend)) /\ Grows(backend, backend')
  BY WellFormedStep DEF WellFormed
<1>2. CASE UNCHANGED calls
  BY <1>1, <1>2, DistinctStays DEF Recursion
<1>3. CASE NextUnit \/ CreateNull \/ Request \/ UNCHANGED elfVars
  <2>1. UNCHANGED calls
    BY <1>3 DEF NextUnit, CreateNull, Request, elfVars
  <2> QED
    BY <1>2, <2>1
<1>4. CASE Create
  <2> DEFINE c == Call(Head(entries))
  <2>1. calls' = <<c>> /\ c.composite = None
    BY <1>4, CreatePushes DEF Call
  <2> HIDE DEF c
  <2>2. \A k \in DOMAIN calls' : k = 1 /\ calls'[k].composite = None
    BY <2>1
  <2> QED
    BY <2>2 DEF Recursion, AreNested, AreDistinct
<1>5. CASE TypeFromDie
  <2> DEFINE c == calls[1]
             k == Len(c.types) + 1
             d == Wanted(c)[k]
  <2>1. /\ calls # <<>> /\ k \in DOMAIN Wanted(c) /\ d \in DOMAIN Dies
        /\ Pushed(calls, Call(d), calls') /\ calls' \in Seq(CallsOf(backend))
    BY <1>5, TypeFromDiePushes
  <2>2. backend' = backend /\ c \in CallsOf(backend)
    BY <1>5, <2>1, HeadIs DEF TypeFromDie
  <2> HIDE DEF k
  <2>3. c.composite # None \/ d \in RefersTo(c.die)
    BY <2>1, <2>2, WantedIsReferred
  <2>4. c.die \in DOMAIN Dies
    BY <2>2 DEF CallsOf
  <2> DEFINE e == Call(d)
  <2>5. e.die = d /\ e.composite = None
    BY DEF Call
  <2>6. c.composite # None \/ depth[d] < depth[c.die]
    BY <2>3, <2>4 DEF IsNesting
  <2> HIDE DEF e, d
  <2>7. AreNested(calls', depth)
    BY <1>1, <2>1, <2>5, <2>6, PushedNested DEF Recursion, e, d
  <2>8. AreDistinct(backend, calls')
    BY <1>1, <2>1, <2>5, PushedDistinct DEF Recursion, e, d
  <2> QED
    BY <2>2, <2>7, <2>8 DEF Recursion
<1>6. CASE Finish
  BY <1>6, RecursionFinish
<1>7. CASE CreateMembers
  <2>1. calls # <<>> /\ Returns(backend', calls[1].composite)
    BY <1>7, CreateMembersReturns
  <2> QED
    BY <1>1, <2>1, RecursionReturn
<1> QED
  BY <1>3, <1>4, <1>5, <1>6, <1>7 DEF ElfNext

(* However the types of the library refer to each other through their      *)
(* members, type_from_die does not call itself for ever: it comes back to  *)
(* an entry only through the members of a struct or union, and those of    *)
(* each name are being made once at a time (_create_members).  The depth   *)
(* is that of entries the only circles of which go through members.        *)
THEOREM RecursionIsBounded ==
    ASSUME NEW depth \in [DOMAIN Dies -> Nat], IsNesting(depth)
    PROVE  ElfSpec => []RecursionEnds
<1>1. ElfInit => WellFormed /\ Recursion(depth)
  BY WellFormedInit DEF ElfInit, Recursion, AreNested, AreDistinct
<1>2. WellFormed /\ Recursion(depth) /\ [ElfNext]_elfVars => (WellFormed /\ Recursion(depth))'
  BY WellFormedStep, RecursionStep
<1>3. WellFormed /\ Recursion(depth) => RecursionEnds
  <2> SUFFICES ASSUME WellFormed, Recursion(depth), NEW j \in DOMAIN calls, NEW k \in DOMAIN calls, j < k
               PROVE  /\ calls[j].die = calls[k].die => \E m \in j + 1 .. k : calls[m].composite # None
                      /\ calls[j].composite # None /\ calls[k].composite # None =>
                            MadeName(backend, calls[j]) # MadeName(backend, calls[k])
    BY DEF RecursionEnds, MadeName
  <2>1. depth[calls[j].die] \in Nat
    BY DieOfCall DEF WellFormed
  <2>2. depth[calls[j].die] < depth[calls[k].die] => calls[j].die # calls[k].die
    BY <2>1
  <2> QED
    BY <2>2 DEF Recursion, AreNested, AreDistinct
<1> QED
  BY <1>1, <1>2, <1>3, PTL DEF ElfSpec

-----------------------------------------------------------------------------
(* Where a variable of a name is defined.                                  *)
IsLocation(name, address) ==
    \E d \in DOMAIN Dies :
        /\ Dies[d].tag = "variable" /\ Has(d, "location")
        /\ Typename(Declaration(d)) = name /\ Dies[d].location = address

LEMMA LocationIs ==
    ASSUME NEW name, NEW address, IsLocation(name, address)
    PROVE  address \in Locations[name] /\ address # None
<1>1. PICK d \in DOMAIN Dies : /\ Dies[d].tag = "variable" /\ Has(d, "location")
                               /\ Typename(Declaration(d)) = name /\ Dies[d].location = address
  BY DEF IsLocation
<1> DEFINE defined == {e \in DOMAIN Dies : Dies[e].tag = "variable" /\ Has(e, "location")}
           names == {Typename(Declaration(e)) : e \in defined}
           At(n) == {Dies[e].location : e \in {x \in defined : Typename(Declaration(x)) = n}}
<1>2. d \in defined /\ name \in names /\ address \in At(name)
  BY <1>1
<1>3. Locations = [n \in names |-> At(n)]
  BY DEF Locations
<1> HIDE DEF names, At
<1>4. address \in Locations[name]
  BY <1>2, <1>3
<1>5. address \in Nat
  BY <1>1, DieIs DEF Has, IsDie
<1> QED
  BY <1>4, <1>5, ElfTypesAssumption

(* Addresses are those of definitions.                                     *)
IsPlaced(object) ==
    object.kind = "variable" /\ object.address # None => IsLocation(object.typename, object.address)

Placed(b) == \A t \in DOMAIN b.objects : IsPlaced(b.objects[t])

(* What VariablesAreLocated says of one DIE, if it is of a variable.       *)
IsLocated(b, d) ==
    LET name == Typename(Declaration(d))
        object == b.objects[b.types[name]]
    IN  Dies[d].tag = "variable" /\ name # "?" =>
            /\ name \in DOMAIN b.types
            /\ object.kind = "variable" /\ Has(d, "location") => IsLocation(name, object.address)

LEMMA LocatedStays ==
    ASSUME NEW b, NEW c, NEW d, IsBackend(b), Grows(b, c), IsLocated(b, d)
    PROVE  IsLocated(c, d)
<1> DEFINE name == Typename(Declaration(d))
           t == b.types[name]
<1> SUFFICES ASSUME Dies[d].tag = "variable" /\ name # "?"
             PROVE  /\ name \in DOMAIN c.types
                    /\ c.objects[c.types[name]].kind = "variable" /\ Has(d, "location") =>
                          IsLocation(name, c.objects[c.types[name]].address)
  BY DEF IsLocated
<1>1. name \in DOMAIN b.types
  BY DEF IsLocated
<1>2. /\ name \in DOMAIN c.types /\ c.types[name] = t
      /\ t \in DOMAIN b.objects /\ Keeps(b.objects[t], c.objects[t])
  BY <1>1 DEF IsBackend, Grows
<1>3. ASSUME c.objects[t].kind = "variable", Has(d, "location")
      PROVE  IsLocation(name, c.objects[t].address)
  <2>1. b.objects[t].kind = "variable"
    BY <1>2, <1>3 DEF Keeps
  <2>2. IsLocation(name, b.objects[t].address)
    BY <1>3, <2>1 DEF IsLocated
  <2>3. c.objects[t].address = b.objects[t].address
    BY <1>2, <2>1, <2>2, LocationIs DEF Keeps
  <2> QED
    BY <2>2, <2>3
<1> QED
  BY <1>2, <1>3

(* Old objects are as they were, new ones are where their DIE says.        *)
LEMMA GivesPlaced ==
    ASSUME NEW b, NEW c \in CallsOf(b), NEW m, Placed(b), Gives(b, c, m)
    PROVE  Placed(m.backend)
<1>1. ASSUME NEW o, Makes(b, c.die, m, o) PROVE Placed(m.backend)
  <2>1. IsPlaced(o)
    <3> SUFFICES ASSUME o.kind = "variable", o.address # None PROVE IsLocation(o.typename, o.address)
      BY DEF IsPlaced
    <3>1. /\ Dies[c.die].tag = "variable" /\ o.typename = Typename(Declaration(c.die))
          /\ o.address = loc2addr(c.die) /\ c.die \in DOMAIN Dies
      BY <1>1 DEF Makes, CallsOf
    <3> QED
      BY <3>1 DEF IsLocation, loc2addr
  <2>2. \A t \in DOMAIN m.backend.objects :
            \/ t \in DOMAIN b.objects /\ m.backend.objects[t] = b.objects[t]
            \/ m.backend.objects[t] = o
    BY <1>1 DEF Makes, Adds
  <2> QED
    BY <2>1, <2>2 DEF Placed
<1>2. ASSUME Passes(b, c, m) PROVE Placed(m.backend)
  BY <1>2 DEF Passes
<1> QED
  BY <1>1, <1>2 DEF Gives

LEMMA UpdatedPlaced ==
    ASSUME NEW b, NEW t, NEW u, IsBackend(b), Placed(b), t \in DOMAIN b.objects, u \in DOMAIN b.objects,
           Updatable(b.objects, t, u), b.objects[t].typename = b.objects[u].typename
    PROVE  LET c == Completed(b, t, u)
           IN  /\ Placed(c)
               /\ b.objects[t].kind = "variable" /\ b.objects[u].kind = "variable" /\ b.objects[u].address # None
                     => c.objects[t].address # None
<1> DEFINE c == Completed(b, t, u)
           self == b.objects[t]
           other == b.objects[u]
<1>1. /\ Updates(b, c) /\ c.objects = Updated(b.objects, t, u)
      /\ DOMAIN c.objects = DOMAIN b.objects /\ Grows(b, c)
      /\ IsObject(self, b.objects) /\ IsObject(other, b.objects)
  BY UpdatedUpdates DEF Completes, Updates, IsBackend
<1> HIDE DEF c
<1>2. CASE self.kind = "variable"
  <2>1. c.objects = [b.objects EXCEPT ![t] = VariableUpdate(self, other)]
    BY <1>1, <1>2 DEF Updated
  <2> DEFINE o == VariableUpdate(self, other)
  <2>2. Keeps(self, o) /\ o.address = IF self.address = None THEN other.address ELSE self.address
    BY <1>1, <1>2, VariableUpdateKeeps
  <2> HIDE DEF o
  <2>3. c.objects[t] = o /\ \A w \in DOMAIN b.objects : w # t => c.objects[w] = b.objects[w]
    BY <2>1 DEF o
  <2>4. IsPlaced(o)
    <3> SUFFICES ASSUME o.kind = "variable", o.address # None PROVE IsLocation(o.typename, o.address)
      BY DEF IsPlaced
    <3>1. o.typename = self.typename
      BY <2>2 DEF Keeps
    <3>2. CASE self.address = None
      <4>1. other.kind = "variable" /\ o.address = other.address
        BY <1>2, <2>2, <3>2 DEF Updatable
      <4> QED
        BY <3>1, <4>1 DEF Placed, IsPlaced
    <3>3. CASE self.address # None
      BY <1>2, <2>2, <3>1, <3>3 DEF Placed, IsPlaced
    <3> QED
      BY <3>2, <3>3
  <2>5. Placed(c)
    BY <1>1, <2>3, <2>4 DEF Placed
  <2> QED
    BY <2>2, <2>3, <2>5 DEF c
<1>3. CASE self.kind # "variable"
  <2> SUFFICES ASSUME NEW w \in DOMAIN b.objects, c.objects[w].kind = "variable"
               PROVE  c.objects[w] = b.objects[w]
    BY <1>1, <1>3 DEF Placed, IsPlaced, c
  <2>1. b.objects[w].kind = "variable" /\ w # t
    BY <1>1, <1>3 DEF Grows, Keeps
  <2>2. CASE self.kind = "array" /\ self.typedef /\ self.size = -1
    <3>1. w # self.base
      BY <1>1, <2>1, <2>2 DEF IsObject
    <3>2. c.objects = [b.objects EXCEPT ![t].size = other.size,
                                        ![self.base] = ArrayUpdate(@, b.objects[other.base])]
      BY <1>1, <2>2 DEF Updated
    <3> QED
      BY <2>1, <3>1, <3>2
  <2>3. CASE self.kind = "array" /\ ~self.typedef
    <3>1. c.objects = [b.objects EXCEPT ![t] = ArrayUpdate(self, other)]
      BY <1>1, <2>3 DEF Updated
    <3> QED
      BY <2>1, <3>1
  <2>4. CASE ~(self.kind = "array" /\ self.typedef /\ self.size = -1) /\ ~(self.kind = "array" /\ ~self.typedef)
    <3>1. c.objects = b.objects
      BY <1>1, <1>3, <2>4 DEF Updated
    <3> QED
      BY <3>1
  <2> QED
    BY <2>2, <2>3, <2>4
<1> QED
  BY <1>2, <1>3

-----------------------------------------------------------------------------
(* The inductive invariant of VariablesAreLocated, with WellFormed.  NULL, *)
(* the last object, is at an address that no DIE has.                      *)
Pending == units # {} \/ entries # <<>> \/ calls # <<>>

AreTypes(cs) == \A k \in DOMAIN cs : cs[k].composite # None => Dies[cs[k].die].tag # "variable"

Locates ==
    /\ AreTypes(calls)
    /\ Pending => Placed(backend)
    /\ \A d \in Read : IsLocated(backend, d)

LEMMA ReadPops ==
    ASSUME NEW S, NEW T, calls \in Seq(S), calls' \in Seq(T), calls # <<>>,
           units' = units, entries' = entries,
           \A k \in 2 .. Len(calls) : \E j \in DOMAIN calls' : calls'[j].die = calls[k].die
    PROVE  Read' \subseteq Read \cup {calls[1].die}
<1> SUFFICES ASSUME NEW d \in Read', d # calls[1].die PROVE d \in Read
  OBVIOUS
<1>1. /\ d \in UNION {Range(u) : u \in Units \ units} /\ d \notin Range(entries)
      /\ \A j \in DOMAIN calls' : calls'[j].die # d
  BY DEF Read, Range
<1>2. DOMAIN calls = 1 .. Len(calls) /\ Len(calls) \in Nat
  OBVIOUS
<1>3. \A k \in DOMAIN calls : calls[k].die # d
  BY <1>1, <1>2
<1> QED
  BY <1>1, <1>3 DEF Read, Range

LEMMA ReturnedDies ==
    ASSUME NEW b, NEW c, NEW cs \in Seq(CallsOf(b)), NEW ds \in Seq(CallsOf(c)), cs # <<>>, NEW type,
           Returned(cs, type, ds)
    PROVE  /\ \A k \in 2 .. Len(cs) :
                 \E j \in DOMAIN ds : ds[j].die = cs[k].die /\ ds[j].composite = cs[k].composite
           /\ \A j \in DOMAIN ds :
                 \E k \in 2 .. Len(cs) : ds[j].die = cs[k].die /\ ds[j].composite = cs[k].composite
<1>1. Len(cs) \in Nat /\ DOMAIN cs = 1 .. Len(cs) /\ DOMAIN ds = 1 .. Len(cs) - 1
  BY DEF Returned
<1>2. ASSUME NEW k \in 2 .. Len(cs)
      PROVE  k - 1 \in DOMAIN ds /\ ds[k - 1].die = cs[k].die /\ ds[k - 1].composite = cs[k].composite
  <2>1. k - 1 \in DOMAIN ds /\ cs[k] \in CallsOf(b)
    BY <1>1, <1>2
  <2>2. CASE k = 2
    <3>1. ds[1] = [cs[2] EXCEPT !.types = Append(@, type)]
      BY <1>1, <2>2 DEF Returned
    <3>2. ds[1].die = cs[2].die /\ ds[1].composite = cs[2].composite
      BY <2>1, <2>2, <3>1 DEF CallsOf
    <3> QED
      BY <2>1, <2>2, <3>2
  <2>3. CASE k > 2
    <3>1. ds[k - 1] = cs[k - 1 + 1]
      BY <1>1, <1>2, <2>3 DEF Returned
    <3>2. k - 1 + 1 = k
      BY <1>2
    <3> QED
      BY <2>1, <3>1, <3>2
  <2> QED
    BY <1>2, <2>2, <2>3
<1>3. ASSUME NEW j \in DOMAIN ds
      PROVE  \E k \in 2 .. Len(cs) : ds[j].die = cs[k].die /\ ds[j].composite = cs[k].composite
  <2>1. j + 1 \in 2 .. Len(cs) /\ j + 1 - 1 = j
    BY <1>1
  <2> QED
    BY <1>2, <2>1
<1> QED
  BY <1>2, <1>3

LEMMA LocatesReturn ==
    ASSUME WellFormed, Locates, calls # <<>>, NEW b, NEW type, Returns(b, type), Grows(backend, b),
           Placed(b), IsLocated(b, calls[1].die)
    PROVE  Locates'
<1>1. /\ calls \in Seq(CallsOf(backend)) /\ calls' \in Seq(CallsOf(b)) /\ Returned(calls, type, calls')
      /\ backend' = b /\ units' = units /\ entries' = entries
      /\ IsBackend(backend)
  BY DEF WellFormed, Returns
<1>2. Read' \subseteq Read \cup {calls[1].die}
  BY <1>1, ReturnedDies, ReadPops
<1>3. \A d \in Read' : IsLocated(b, d)
  BY <1>1, <1>2, LocatedStays DEF Locates
<1>4. AreTypes(calls')
  <2>1. 2 .. Len(calls) \subseteq DOMAIN calls
    BY <1>1
  <2> QED
    BY <1>1, <2>1, ReturnedDies DEF Locates, AreTypes
<1> QED
  BY <1>1, <1>3, <1>4 DEF Locates

LEMMA NotVariableIsLocated == ASSUME NEW b, NEW d, Dies[d].tag # "variable" PROVE IsLocated(b, d)
  BY DEF IsLocated

LEMMA LocatesFinish ==
    ASSUME WellFormed, Locates, Finish
    PROVE  Locates'
<1> DEFINE d == calls[1].die
           name == Typename(Declaration(d))
<1>1. PICK m : /\ Gives(backend, Head(calls), m)
               /\ \/ ReturnNameless(m.backend, m.type)
                  \/ ReturnKnown(m.backend, m.type)
                  \/ ReturnNew(m.backend, m.type)
                  \/ RegisterComposite(m.backend, m.type)
  BY FinishGives
<1>2. /\ calls # <<>> /\ Head(calls) = calls[1] /\ calls[1] \in CallsOf(backend)
      /\ IsBackend(backend) /\ calls \in Seq(CallsOf(backend))
      /\ Placed(backend) /\ d \in DOMAIN Dies
  BY FinishGives, HeadIs DEF WellFormed, Locates, Pending, CallsOf
<1>3. Half(m) /\ Placed(m.backend)
  BY <1>1, <1>2, GivesHalf, GivesPlaced
<1> DEFINE object == m.backend.objects[m.type]
<1>4. Dies[d].tag = "variable" =>
          /\ m.type \in DOMAIN m.backend.objects
          /\ object.kind = "variable" /\ object.typename = name /\ object.address = loc2addr(d)
  BY <1>1, <1>2 DEF Gives, Makes, Passes, Adds
<1>5. Dies[d].tag = "variable" /\ Has(d, "location") => object.address # None
  BY <1>2, <1>4, DieIs, ElfTypesAssumption DEF loc2addr, Has, IsDie
<1> HIDE DEF name
<1>6. CASE ReturnNameless(m.backend, m.type)
  <2>1. Returns(m.backend, m.type)
    BY <1>2, <1>3, <1>6, NamelessReturns
  <2>2. IsLocated(m.backend, d)
    <3>1. m.type = None \/ object.typename = "?"
      BY <1>6 DEF ReturnNameless, HasName
    <3>2. None \notin DOMAIN m.backend.objects
      BY <1>3, LenNotNone DEF Half
    <3> QED
      BY <1>4, <3>1, <3>2 DEF IsLocated, name
  <2> QED
    BY <1>2, <1>3, <2>1, <2>2, LocatesReturn DEF Half
<1>7. CASE ReturnKnown(m.backend, m.type)
  <2> DEFINE b == KnownBackend(m)
             t == KnownType(m)
  <2>1. /\ Returns(b, t) /\ Grows(backend, b) /\ b.types = backend.types /\ IsBackend(b)
        /\ m.type \in DOMAIN m.backend.objects /\ object.typename \in DOMAIN backend.types
        /\ Updatable(m.backend.objects, t, m.type)
    BY <1>2, <1>3, <1>7, KnownReturns
  <2>2. /\ IsBackend(m.backend) /\ m.backend.types = backend.types
        /\ t = m.backend.types[object.typename]
        /\ t \in DOMAIN m.backend.objects /\ m.backend.objects[t].typename = object.typename
    BY <1>3, <2>1 DEF Half, IsBackend, KnownType
  <2> HIDE DEF t
  <2>3. b = Completed(m.backend, t, m.type)
    BY DEF KnownBackend, t
  <2>4. /\ Placed(b)
        /\ m.backend.objects[t].kind = "variable" /\ object.kind = "variable" /\ object.address # None
              => b.objects[t].address # None
    BY <1>3, <2>1, <2>2, <2>3, UpdatedPlaced
  <2>5. Completes(m.backend, t, m.type)
    BY <2>1, <2>2, UpdatedUpdates
  <2>6. b.objects[t].kind = m.backend.objects[t].kind /\ t \in DOMAIN b.objects
    BY <2>2, <2>3, <2>5 DEF Completes, Updates, Grows, Keeps
  <2>7. IsLocated(b, d)
    <3> SUFFICES ASSUME Dies[d].tag = "variable", name # "?"
                 PROVE  /\ name \in DOMAIN b.types
                        /\ b.objects[b.types[name]].kind = "variable" /\ Has(d, "location") =>
                              IsLocation(name, b.objects[b.types[name]].address)
      BY DEF IsLocated, name
    <3>1. name \in DOMAIN b.types /\ b.types[name] = t /\ b.objects[t].typename = name
      <4>1. name = object.typename
        BY <1>4
      <4>2. name \in DOMAIN b.types /\ b.types[name] = t
        BY <2>1, <2>2, <4>1
      <4> QED
        BY <2>1, <4>2 DEF IsBackend
    <3>2. ASSUME b.objects[t].kind = "variable", Has(d, "location")
          PROVE  IsLocation(name, b.objects[t].address)
      <4>1. b.objects[t].address # None
        BY <1>4, <1>5, <2>4, <2>6, <3>2
      <4> QED
        BY <2>4, <2>6, <3>1, <3>2, <4>1 DEF Placed, IsPlaced
    <3> QED
      BY <3>1, <3>2
  <2> HIDE DEF b
  <2> QED
    BY <1>2, <2>1, <2>4, <2>7, LocatesReturn
<1>8. ASSUME NEW o, NEW b, Makes(backend, d, m, o), AddsNamed(backend, o, m.type, b), o = object,
             o.typename \notin DOMAIN backend.types
      PROVE  Placed(b) /\ IsLocated(b, d)
  <2>1. Placed(b)
    <3>1. \A t \in DOMAIN b.objects : b.objects[t] = m.backend.objects[t] /\ t \in DOMAIN m.backend.objects
      BY <1>8 DEF AddsNamed, Makes, Adds, Grows
    <3> QED
      BY <1>3, <3>1 DEF Placed
  <2>2. IsLocated(b, d)
    <3> SUFFICES ASSUME Dies[d].tag = "variable", name # "?"
                 PROVE  /\ name \in DOMAIN b.types
                        /\ Has(d, "location") => IsLocation(name, b.objects[b.types[name]].address)
      BY DEF IsLocated, name
    <3>1. name = o.typename /\ o.kind = "variable"
      BY <1>4, <1>8
    <3>2. name \in DOMAIN b.types /\ b.types[name] = m.type /\ b.objects[m.type] = o /\ m.type \in DOMAIN b.objects
      BY <1>8, <3>1 DEF AddsNamed
    <3>3. Has(d, "location") => IsLocation(name, o.address)
      BY <1>5, <1>8, <2>1, <3>1, <3>2 DEF Placed, IsPlaced
    <3> QED
      BY <3>2, <3>3
  <2> QED
    BY <2>1, <2>2
<1>9. CASE ReturnNew(m.backend, m.type)
  <2> DEFINE b == Register(m.backend, m.type)
  <2>1. /\ HasName(m.backend, m.type) /\ object.typename \notin DOMAIN m.backend.types
        /\ Return(b, m.type)
    BY <1>9 DEF ReturnNew
  <2> HIDE DEF b
  <2>2. PICK o : /\ Makes(backend, d, m, o) /\ AddsNamed(backend, o, m.type, b) /\ o = object
                 /\ o.typename \notin DOMAIN backend.types
    BY <1>1, <1>2, <2>1, NewIsNamed DEF b
  <2>3. Grows(backend, b) /\ m.type \in Types(b)
    BY <2>2 DEF AddsNamed, Types
  <2>4. Returns(b, m.type)
    BY <1>2, <2>1, <2>3, ReturnReturns
  <2> QED
    BY <1>2, <1>8, <2>2, <2>3, <2>4, LocatesReturn
<1>10. CASE RegisterComposite(m.backend, m.type)
  <2>1. PICK o, e : LET c == [die |-> e, types |-> <<>>, composite |-> m.type]
                    IN  /\ Makes(backend, calls[1].die, m, o) /\ IsComposite(o)
                        /\ AddsNamed(backend, o, m.type, backend')
                        /\ Dies[e].tag # "variable"
                        /\ calls' \in Seq(CallsOf(backend'))
                        /\ Replaced(calls, c, calls')
    BY <1>1, <1>2, <1>10, CompositeReplaces
  <2> DEFINE c == [die |-> e, types |-> <<>>, composite |-> m.type]
  <2>2. Replaced(calls, c, calls') /\ c.die = e
    BY <2>1
  <2> HIDE DEF c
  <2>3. /\ DOMAIN calls' = DOMAIN calls /\ DOMAIN calls = 1 .. Len(calls) /\ Len(calls) \in Nat
        /\ calls'[1].die = e
        /\ \A k \in 2 .. Len(calls) : k \in DOMAIN calls' /\ calls'[k] = calls[k]
    BY <1>2, <2>1, <2>2 DEF Replaced
  <2>4. AreTypes(calls')
    <3> SUFFICES ASSUME NEW k \in DOMAIN calls', calls'[k].composite # None
                 PROVE  Dies[calls'[k].die].tag # "variable"
      BY DEF AreTypes
    <3>1. k = 1 \/ k \in 2 .. Len(calls)
      BY <2>3
    <3> QED
      BY <2>1, <2>3, <3>1 DEF Locates, AreTypes
  <2>5. UNCHANGED <<units, entries>>
    BY <1>10 DEF RegisterComposite
  <2>6. Read' \subseteq Read \cup {d}
    BY <1>2, <2>1, <2>3, <2>5, ReadPops
  <2>7. Placed(backend') /\ Grows(backend, backend')
    <3>1. \A t \in DOMAIN backend'.objects :
              backend'.objects[t] = m.backend.objects[t] /\ t \in DOMAIN m.backend.objects
      BY <2>1 DEF AddsNamed, Makes, Adds, Grows
    <3> QED
      BY <1>3, <2>1, <3>1 DEF Placed, AddsNamed
  <2>8. IsLocated(backend', d)
    <3>1. Dies[d].tag # "variable"
      BY <2>1 DEF Makes, IsComposite
    <3> QED
      BY <3>1, NotVariableIsLocated
  <2>9. \A x \in Read' : IsLocated(backend', x)
    BY <1>2, <2>6, <2>7, <2>8, LocatedStays DEF Locates
  <2> QED
    BY <2>4, <2>7, <2>9 DEF Locates
<1> QED
  BY <1>1, <1>6, <1>7, <1>9, <1>10

LEMMA LocatesCreateMembers ==
    ASSUME WellFormed, Locates, CreateMembers
    PROVE  Locates'
<1> DEFINE t == calls[1].composite
<1>1. PICK members : calls # <<>> /\ t # None /\ Returns(backend', t) /\ CreatesMembers(t, members, backend')
  BY CreateMembersReturns
<1>2. 1 \in DOMAIN calls /\ Placed(backend) /\ IsBackend(backend)
  BY <1>1 DEF WellFormed, Locates, Pending
<1>3. IsLocated(backend', calls[1].die)
  BY <1>1, <1>2, NotVariableIsLocated DEF Locates, AreTypes
<1>4. Placed(backend')
  <2> SUFFICES ASSUME NEW u \in DOMAIN backend.objects
               PROVE  IsPlaced(backend'.objects[u])
    BY <1>1 DEF Placed, CreatesMembers, Updates
  <2>1. CASE u # t
    BY <1>1, <1>2, <2>1 DEF CreatesMembers, Placed
  <2>2. CASE u = t
    <3> DEFINE before == backend.objects[t]
               after == backend'.objects[t]
    <3>1. IsObject(before, backend.objects) /\ after = [before EXCEPT !.members = members]
      BY <1>1, <1>2, <2>2 DEF CreatesMembers, IsBackend
    <3> HIDE DEF after
    <3>2. after.kind = before.kind /\ after.typename = before.typename
          /\ (before.kind = "variable" => after.address = before.address)
      BY <3>1 DEF IsObject
    <3> QED
      BY <1>2, <2>2, <3>2 DEF Placed, IsPlaced, after
  <2> QED
    BY <2>1, <2>2
<1> QED
  BY <1>1, <1>3, <1>4, LocatesReturn DEF CreatesMembers, Updates

LEMMA LocatesStep ==
    ASSUME WellFormed, Locates, [ElfNext]_elfVars
    PROVE  Locates'
<1>1. CASE NextUnit
  <2>1. PICK u \in units : entries' = u /\ units' = units \ {u}
    BY <1>1 DEF NextUnit
  <2>2. entries = <<>> /\ calls = <<>> /\ backend' = backend /\ calls' = calls
    BY <1>1 DEF NextUnit
  <2>3. Read' \subseteq Read
    <3> SUFFICES ASSUME NEW d \in Read' PROVE d \in Read
      OBVIOUS
    <3>1. /\ d \in UNION {Range(v) : v \in Units \ units'} /\ d \notin Range(u)
      BY <2>1 DEF Read
    <3>2. PICK v \in Units \ units' : d \in Range(v)
      BY <3>1
    <3>3. v \in Units \ units
      BY <2>1, <3>1, <3>2
    <3>4. Range(entries) = {} /\ {c.die : c \in Range(calls)} = {}
      BY <2>2 DEF Range
    <3> QED
      BY <3>2, <3>3, <3>4 DEF Read
  <2> QED
    BY <2>1, <2>2, <2>3 DEF Locates, Pending
<1>2. CASE Create
  <2>1. /\ calls = <<>> /\ entries # <<>> /\ calls' = <<Call(Head(entries))>>
        /\ entries' = Tail(entries) /\ units' = units /\ backend' = backend
    BY <1>2 DEF Create
  <2>2. Read' \subseteq Read
    <3> SUFFICES ASSUME NEW d \in Read' PROVE d \in Read
      OBVIOUS
    <3>1. /\ d \in UNION {Range(v) : v \in Units \ units} /\ d \notin Range(Tail(entries))
          /\ d \notin {c.die : c \in Range(calls')}
      BY <2>1 DEF Read
    <3>2. d # Head(entries)
      <4>1. calls'[1] = Call(Head(entries)) /\ 1 \in DOMAIN calls'
        BY <2>1
      <4>2. calls'[1] \in Range(calls')
        BY <4>1 DEF Range
      <4> QED
        BY <3>1, <4>1, <4>2 DEF Call
    <3>3. \A k \in DOMAIN entries : entries[k] # d
      <4> SUFFICES ASSUME NEW k \in DOMAIN entries PROVE entries[k] # d
        OBVIOUS
      <4>1. entries \in Seq(DOMAIN Dies)
        BY DEF WellFormed
      <4>2. CASE k = 1
        BY <2>1, <3>2, <4>1, <4>2
      <4>3. CASE k # 1
        <5>1. k - 1 \in DOMAIN Tail(entries) /\ Tail(entries)[k - 1] = entries[k]
          BY ONLY <4>1, <4>3, <2>1, k \in DOMAIN entries
        <5> QED
          BY <3>1, <5>1 DEF Range
      <4> QED
        BY <4>2, <4>3
    <3>4. {c.die : c \in Range(calls)} = {}
      BY <2>1 DEF Range
    <3>5. d \notin Range(entries)
      BY <3>3 DEF Range
    <3> QED
      BY <3>1, <3>4, <3>5 DEF Read
  <2>3. AreTypes(calls')
    BY <2>1 DEF AreTypes, Call
  <2> QED
    BY <2>1, <2>2, <2>3 DEF Locates, Pending
<1>3. CASE TypeFromDie
  <2> DEFINE e == Wanted(calls[1])[Len(calls[1].types) + 1]
             c == Call(e)
  <2>1. calls # <<>> /\ Pushed(calls, c, calls') /\ calls' \in Seq(CallsOf(backend))
    BY <1>3, TypeFromDiePushes
  <2>2. backend' = backend /\ units' = units /\ entries' = entries /\ calls \in Seq(CallsOf(backend))
    BY <1>3 DEF TypeFromDie, WellFormed
  <2>3. c.composite = None
    BY DEF Call
  <2> HIDE DEF c
  <2>4. /\ Len(calls) \in Nat /\ DOMAIN calls = 1 .. Len(calls) /\ DOMAIN calls' = 1 .. Len(calls) + 1
        /\ calls'[1] = c
        /\ \A k \in DOMAIN calls : k + 1 \in DOMAIN calls' /\ calls'[k + 1] = calls[k]
    BY <2>1, <2>2 DEF Pushed
  <2>5. Read' \subseteq Read
    <3>1. Range(calls) \subseteq Range(calls')
      BY <2>4 DEF Range
    <3> QED
      BY <2>2, <3>1 DEF Read
  <2>6. AreTypes(calls')
    <3> SUFFICES ASSUME NEW k \in DOMAIN calls', calls'[k].composite # None
                 PROVE  Dies[calls'[k].die].tag # "variable"
      BY DEF AreTypes
    <3>1. k # 1
      BY <2>3, <2>4
    <3>2. k - 1 \in DOMAIN calls /\ k - 1 + 1 = k
      BY <2>4, <3>1
    <3>3. calls'[k] = calls[k - 1]
      BY <2>4, <3>2
    <3> QED
      BY <3>2, <3>3 DEF Locates, AreTypes
  <2> QED
    BY <2>1, <2>2, <2>5, <2>6 DEF Locates, Pending
<1>4. CASE Finish
  BY <1>4, LocatesFinish
<1>5. CASE CreateMembers
  BY <1>5, LocatesCreateMembers
<1>6. ASSUME UNCHANGED <<units, entries, calls>>, Grows(backend, backend'), Pending => Placed(backend')
      PROVE  Locates'
  <2>1. Read' = Read /\ (Pending' <=> Pending)
    BY <1>6 DEF Read, Pending
  <2>2. \A d \in Read : IsLocated(backend', d)
    BY <1>6, LocatedStays DEF WellFormed, Locates
  <2> QED
    BY <1>6, <2>1, <2>2 DEF Locates
<1>7. CASE CreateNull
  <2>1. UNCHANGED <<units, entries, calls>> /\ ~Pending
    BY <1>7 DEF CreateNull, Pending
  <2> QED
    BY <1>6, <1>7, <2>1, WellFormedStep DEF ElfNext
<1>8. CASE Request
  <2>1. PICK m : Declares(backend, m) /\ backend' = m.backend
    BY <1>8, RequestDeclares
  <2>2. Placed(backend) => Placed(backend')
    BY <2>1 DEF Declares, Placed, IsPlaced
  <2>3. UNCHANGED <<units, entries, calls>>
    BY <1>8 DEF Request
  <2> QED
    BY <1>6, <2>1, <2>2, <2>3 DEF Declares, Locates
<1>9. CASE UNCHANGED elfVars
  BY <1>9 DEF elfVars, Locates, Pending, Read
<1> QED
  BY <1>1, <1>2, <1>3, <1>4, <1>5, <1>7, <1>8, <1>9 DEF ElfNext

LEMMA LocatesInit == ElfInit => Locates
<1> SUFFICES ASSUME ElfInit PROVE Locates
  OBVIOUS
<1>1. calls = <<>> /\ units = Units /\ backend.objects = <<Void>>
  BY DEF ElfInit
<1>2. Read = {}
  BY <1>1 DEF Read
<1>3. Placed(backend)
  <2>1. \A t \in DOMAIN backend.objects : backend.objects[t] = Void
    BY <1>1
  <2> QED
    BY <2>1 DEF Placed, IsPlaced, Void
<1> QED
  BY <1>1, <1>2, <1>3 DEF Locates, AreTypes

(* In whatever order the units and their entries come: once an entry of a  *)
(* variable has been read, its name is registered, and if it is a          *)
(* definition and the name a variable, the name has the address of a       *)
(* definition (VariableFromDie, CTypeVariable.update).                     *)
THEOREM DefinitionsAreFound == ElfSpec => []VariablesAreLocated
<1>1. ElfInit => WellFormed /\ Locates
  BY WellFormedInit, LocatesInit
<1>2. WellFormed /\ Locates /\ [ElfNext]_elfVars => (WellFormed /\ Locates)'
  BY WellFormedStep, LocatesStep
<1>3. Locates => VariablesAreLocated
  BY LocationIs DEF Locates, VariablesAreLocated, IsLocated
<1> QED
  BY <1>1, <1>2, <1>3, PTL DEF ElfSpec

-----------------------------------------------------------------------------
(* The shape of a type, if there is one.                                   *)
ShapesAt(b, t) == IF t = None THEN {} ELSE {Shape(b.objects[t])}

(* Objects have the shape of an entry, and no array is a typedef of one    *)
(* that is a typedef.                                                      *)
IsShaped(shape, o, objects) ==
    /\ Shape(o) \in Shapes(shape)
    /\ o.kind = "array" /\ o.typedef => ~objects[o.base].typedef

AreShaped(shape, b) == \A t \in DOMAIN b.objects : IsShaped(shape, b.objects[t], b.objects)

(* The types that a call has are those of the entries it wants ...         *)
HasFitting(shape, b, c, k) == k \in DOMAIN Wanted(c) /\ ShapesAt(b, c.types[k]) = shape[Wanted(c)[k]]

Fits(shape, b, c) ==
    /\ \A k \in DOMAIN c.types : HasFitting(shape, b, c, k)
    /\ c.composite # None /\ Dies[c.die].tag = "union_type" => b.objects[c.composite].kind = "union"

(* ... and what an open call will return is what the one outside it waits  *)
(* for.                                                                    *)
Answer(shape, b, c) == IF c.composite = None THEN shape[c.die] ELSE {Shape(b.objects[c.composite])}

Awaits(shape, b, outer, c) ==
    /\ Len(outer.types) + 1 \in DOMAIN Wanted(outer)
    /\ Answer(shape, b, c) = shape[Wanted(outer)[Len(outer.types) + 1]]

AreFitting(shape, b, cs) ==
    /\ \A k \in DOMAIN cs : Fits(shape, b, cs[k])
    /\ \A k \in DOMAIN cs : k + 1 \in DOMAIN cs => Awaits(shape, b, cs[k + 1], cs[k])

(* All of this stays true of objects that keep what they are.              *)
LEMMA ShapesStay ==
    ASSUME NEW b, NEW c, Grows(b, c), NEW t \in Types(b)
    PROVE  ShapesAt(c, t) = ShapesAt(b, t)
<1>1. CASE t = None
  BY <1>1 DEF ShapesAt
<1>2. CASE t \in DOMAIN b.objects
  <2>1. Keeps(b.objects[t], c.objects[t])
    BY <1>2 DEF Grows
  <2>2. Shape(c.objects[t]) = Shape(b.objects[t])
    BY <2>1 DEF Keeps, Shape
  <2> QED
    BY <2>2 DEF ShapesAt
<1> QED
  BY <1>1, <1>2 DEF Types

LEMMA FitsStays ==
    ASSUME NEW shape, NEW b, NEW c, Grows(b, c), NEW call \in CallsOf(b)
    PROVE  /\ Fits(shape, b, call) => Fits(shape, c, call)
           /\ Answer(shape, c, call) = Answer(shape, b, call)
<1>1. call.types \in Seq(Types(b)) /\ call.composite \in Types(b)
  BY DEF CallsOf
<1>2. \A k \in DOMAIN call.types : ShapesAt(c, call.types[k]) = ShapesAt(b, call.types[k])
  <2> TAKE k \in DOMAIN call.types
  <2>1. call.types[k] \in Types(b)
    BY <1>1
  <2> QED
    BY <2>1, ShapesStay
<1>3. call.composite # None =>
         /\ c.objects[call.composite].kind = b.objects[call.composite].kind
         /\ Shape(c.objects[call.composite]) = Shape(b.objects[call.composite])
  BY <1>1 DEF Grows, Keeps, Types, Shape
<1> QED
  BY <1>2, <1>3 DEF Fits, HasFitting, Answer

LEMMA FittingStays ==
    ASSUME NEW shape, NEW b, NEW c, Grows(b, c), NEW cs \in Seq(CallsOf(b)), AreFitting(shape, b, cs)
    PROVE  AreFitting(shape, c, cs)
<1>1. \A k \in DOMAIN cs : cs[k] \in CallsOf(b)
  BY DieOfCall
<1>2. \A k \in DOMAIN cs : /\ Fits(shape, b, cs[k]) => Fits(shape, c, cs[k])
                          /\ Answer(shape, c, cs[k]) = Answer(shape, b, cs[k])
  BY <1>1, FitsStays
<1> QED
  BY <1>2 DEF AreFitting, Awaits

LEMMA ShapedStay ==
    ASSUME NEW shape, NEW b, NEW c, IsBackend(b), Updates(b, c), AreShaped(shape, b)
    PROVE  AreShaped(shape, c)
<1> SUFFICES ASSUME NEW t \in DOMAIN c.objects PROVE IsShaped(shape, c.objects[t], c.objects)
  BY DEF AreShaped
<1> DEFINE before == b.objects[t]
           after == c.objects[t]
<1>1. t \in DOMAIN b.objects /\ Keeps(before, after) /\ IsObject(before, b.objects) /\ IsShaped(shape, before, b.objects)
  BY DEF Updates, Grows, IsBackend, AreShaped
<1>2. Shape(after) = Shape(before)
  BY <1>1 DEF Keeps, Shape
<1>3. after.kind = "array" /\ after.typedef => ~c.objects[after.base].typedef
  <2> SUFFICES ASSUME after.kind = "array", after.typedef PROVE ~c.objects[after.base].typedef
    OBVIOUS
  <2>1. before.kind = "array" /\ before.typedef /\ after.base = before.base
    BY <1>1 DEF Keeps
  <2>2. before.base \in DOMAIN b.objects /\ ~b.objects[before.base].typedef
    BY <1>1, <2>1 DEF IsObject, IsShaped
  <2>3. Keeps(b.objects[before.base], c.objects[before.base])
    BY <2>2 DEF Updates, Grows
  <2> QED
    BY <2>1, <2>2, <2>3 DEF Keeps
<1> QED
  BY <1>1, <1>2, <1>3 DEF IsShaped

(* A call that gets an answer wants what it wanted, up to there.           *)
LEMMA WantedStays ==
    ASSUME NEW b, NEW c \in CallsOf(b), NEW type,
           NEW k \in 1 .. Len(c.types) + 1, k \in DOMAIN Wanted(c)
    PROVE  LET a == [c EXCEPT !.types = Append(@, type)]
           IN  k \in DOMAIN Wanted(a) /\ Wanted(a)[k] = Wanted(c)[k]
<1> DEFINE a == [c EXCEPT !.types = Append(@, type)]
           d == c.die
<1>1. a.die = d /\ a.composite = c.composite /\ a.types = Append(c.types, type)
  BY DEF CallsOf
<1>2. c.types \in Seq(Types(b)) /\ d \in DOMAIN Dies
  BY DEF CallsOf
<1>3. Members(a) = Members(c)
  BY <1>1 DEF Members
<1>4. CASE Dies[d].tag = "pointer_type" /\ c.composite = None
  <2>1. Wanted(c) = PointedTo(c) /\ Wanted(a) = PointedTo(a)
    BY <1>1, <1>4 DEF Wanted
  <2> HIDE DEF a
  <2>2. CASE c.types # <<>>
    <3>1. a.types # <<>> /\ a.types[1] = c.types[1]
      BY <1>1, <1>2, <2>2
    <3>2. PointedTo(a) = PointedTo(c)
      BY <1>1, <2>2, <3>1 DEF PointedTo
    <3> QED
      BY <2>1, <3>2 DEF a
  <2>3. CASE c.types = <<>>
    <3>1. k = 1
      BY <2>3
    <3>2. Wanted(c) = Type(d) /\ Type(d) \in Seq(DOMAIN Dies)
      BY <1>2, <2>1, <2>3, TypeIs DEF PointedTo
    <3>3. Has(d, "type")
      BY <3>2 DEF Type
    <3>4. Type(d) = <<Dies[d].type>>
      BY <3>3 DEF Type
    <3>5. Type(Dies[d].type) \in Seq(DOMAIN Dies)
      BY <1>2, <3>3, DieIs, TypeIs DEF IsDie, Has
    <3>6. Wanted(a) = Type(d) \/ Wanted(a) = Type(d) \o Type(Dies[d].type)
      BY <1>1, <2>1 DEF PointedTo
    <3>7. 1 \in DOMAIN Wanted(a) /\ Wanted(a)[1] = Type(d)[1]
      BY <3>2, <3>4, <3>5, <3>6
    <3> QED
      BY <3>1, <3>2, <3>7 DEF a
  <2> QED
    BY <2>2, <2>3
<1>5. CASE ~(Dies[d].tag = "pointer_type" /\ c.composite = None)
  <2> HIDE DEF a
  <2>1. Wanted(a) = Wanted(c)
    BY <1>1, <1>3, <1>5 DEF Wanted
  <2> QED
    BY <2>1 DEF a
<1> QED
  BY <1>4, <1>5

LEMMA AnsweredFits ==
    ASSUME NEW shape, NEW b, NEW c \in CallsOf(b), NEW type, Fits(shape, b, c),
           Len(c.types) + 1 \in DOMAIN Wanted(c),
           ShapesAt(b, type) = shape[Wanted(c)[Len(c.types) + 1]]
    PROVE  LET a == [c EXCEPT !.types = Append(@, type)]
           IN  Fits(shape, b, a) /\ Answer(shape, b, a) = Answer(shape, b, c)
<1> DEFINE a == [c EXCEPT !.types = Append(@, type)]
           n == Len(c.types)
<1>1. a.die = c.die /\ a.composite = c.composite /\ a.types = Append(c.types, type)
  BY DEF CallsOf
<1>2. IsSeq(c.types)
  BY DEF CallsOf, IsSeq
<1>3. Appended(c.types, type, a.types)
  BY <1>1, <1>2, AppendedIs
<1>4. \A k \in 1 .. n + 1 : k \in DOMAIN Wanted(c) => k \in DOMAIN Wanted(a) /\ Wanted(a)[k] = Wanted(c)[k]
  BY WantedStays
<1> HIDE DEF a
<1>5. ASSUME NEW k \in DOMAIN a.types PROVE HasFitting(shape, b, a, k)
  <2>1. k \in 1 .. n + 1 /\ n \in Nat /\ DOMAIN c.types = 1 .. n
    BY <1>3 DEF Appended
  <2>2. CASE k = n + 1
    BY <1>3, <1>4, <2>1, <2>2 DEF Appended, HasFitting
  <2>3. CASE k # n + 1
    <3>1. k \in DOMAIN c.types
      BY <2>1, <2>3
    <3>2. HasFitting(shape, b, c, k) /\ a.types[k] = c.types[k]
      BY <1>3, <3>1 DEF Appended, Fits
    <3> QED
      BY <1>4, <2>1, <3>2 DEF HasFitting
  <2> QED
    BY <2>2, <2>3
<1>6. Fits(shape, b, a) /\ Answer(shape, b, a) = Answer(shape, b, c)
  BY <1>1, <1>5 DEF Fits, Answer
<1> QED
  BY <1>6 DEF a

LEMMA ReturnedFitting ==
    ASSUME NEW shape, NEW b, NEW cs \in Seq(CallsOf(b)), NEW ds \in Seq(CallsOf(b)), cs # <<>>, NEW type,
           Returned(cs, type, ds), AreFitting(shape, b, cs), ShapesAt(b, type) = Answer(shape, b, cs[1])
    PROVE  AreFitting(shape, b, ds)
<1>1. Len(cs) \in Nat \ {0} /\ DOMAIN cs = 1 .. Len(cs) /\ DOMAIN ds = 1 .. Len(cs) - 1
  BY DEF Returned
<1>2. \A k \in 2 .. Len(cs) - 1 : ds[k] = cs[k + 1] /\ k + 1 \in DOMAIN cs
  BY <1>1 DEF Returned
<1>3. 1 \in DOMAIN ds => Fits(shape, b, ds[1]) /\ Answer(shape, b, ds[1]) = Answer(shape, b, cs[2])
  <2> SUFFICES ASSUME 1 \in DOMAIN ds
               PROVE  Fits(shape, b, ds[1]) /\ Answer(shape, b, ds[1]) = Answer(shape, b, cs[2])
    OBVIOUS
  <2>1. 1 \in DOMAIN cs /\ 1 + 1 = 2 /\ 2 \in DOMAIN cs /\ ds[1] = [cs[2] EXCEPT !.types = Append(@, type)]
    BY <1>1 DEF Returned
  <2>2. cs[2] \in CallsOf(b)
    BY <2>1, DieOfCall
  <2>3. Fits(shape, b, cs[2]) /\ Awaits(shape, b, cs[2], cs[1])
    BY <2>1 DEF AreFitting
  <2>4. Len(cs[2].types) + 1 \in DOMAIN Wanted(cs[2])
        /\ ShapesAt(b, type) = shape[Wanted(cs[2])[Len(cs[2].types) + 1]]
    BY <2>3 DEF Awaits
  <2> DEFINE a == [cs[2] EXCEPT !.types = Append(@, type)]
  <2>5. Fits(shape, b, a) /\ Answer(shape, b, a) = Answer(shape, b, cs[2])
    BY <2>2, <2>3, <2>4, AnsweredFits
  <2> HIDE DEF a
  <2>6. ds[1] = a
    BY <2>1 DEF a
  <2> QED
    BY <2>5, <2>6
<1>4. ASSUME NEW k \in DOMAIN ds
      PROVE  k + 1 \in DOMAIN cs /\ Fits(shape, b, ds[k]) /\ Answer(shape, b, ds[k]) = Answer(shape, b, cs[k + 1])
  <2>1. CASE k = 1
    <3>1. k + 1 = 2 /\ 2 \in DOMAIN cs
      BY <1>1, <1>4, <2>1
    <3> QED
      BY <1>3, <1>4, <2>1, <3>1
  <2>2. CASE k # 1
    <3>1. k \in 2 .. Len(cs) - 1
      BY <1>1, <1>4, <2>2
    <3> QED
      BY <1>2, <3>1 DEF AreFitting
  <2> QED
    BY <2>1, <2>2
<1>5. ASSUME NEW k \in DOMAIN ds, k + 1 \in DOMAIN ds
      PROVE  Awaits(shape, b, ds[k + 1], ds[k])
  <2> DEFINE j == k + 1
  <2>1. j \in 2 .. Len(cs) - 1 /\ j \in DOMAIN cs
    BY <1>1, <1>5
  <2> HIDE DEF j
  <2>2. ds[j] = cs[j + 1] /\ j + 1 \in DOMAIN cs
    BY <1>2, <2>1
  <2>3. Awaits(shape, b, cs[j + 1], cs[j])
    BY <2>1, <2>2 DEF AreFitting
  <2>4. Answer(shape, b, ds[k]) = Answer(shape, b, cs[j])
    BY <1>4, <1>5 DEF j
  <2>5. Awaits(shape, b, ds[j], ds[k])
    BY <2>2, <2>3, <2>4 DEF Awaits
  <2> QED
    BY <2>5 DEF j
<1> QED
  BY <1>4, <1>5 DEF AreFitting

LEMMA PushedFitting ==
    ASSUME NEW shape, NEW b, NEW S, NEW cs \in Seq(S), NEW ds \in Seq(S), NEW c, Pushed(cs, c, ds),
           AreFitting(shape, b, cs), Fits(shape, b, c), cs # <<>> => Awaits(shape, b, cs[1], c)
    PROVE  AreFitting(shape, b, ds)
<1>1. Len(cs) \in Nat /\ DOMAIN cs = 1 .. Len(cs) /\ DOMAIN ds = 1 .. Len(cs) + 1 /\ ds[1] = c
  BY DEF Pushed
<1>2. \A k \in DOMAIN cs : ds[k + 1] = cs[k]
  BY <1>1 DEF Pushed
<1>3. \A k \in DOMAIN ds : k = 1 \/ \E j \in DOMAIN cs : k = j + 1
  <2> SUFFICES ASSUME NEW k \in DOMAIN ds, k # 1 PROVE \E j \in DOMAIN cs : k = j + 1
    OBVIOUS
  <2>1. k - 1 \in DOMAIN cs /\ k = k - 1 + 1
    BY <1>1
  <2> QED
    BY <2>1
<1>4. ASSUME NEW k \in DOMAIN ds PROVE Fits(shape, b, ds[k])
  BY <1>1, <1>2, <1>3 DEF AreFitting
<1>5. ASSUME NEW k \in DOMAIN ds, k + 1 \in DOMAIN ds PROVE Awaits(shape, b, ds[k + 1], ds[k])
  <2>1. k \in DOMAIN cs
    BY <1>1, <1>5
  <2>2. ds[k + 1] = cs[k]
    BY <1>2, <2>1
  <2>3. CASE k = 1
    <3>1. cs # <<>>
      BY <2>1
    <3> QED
      BY <1>1, <2>2, <2>3, <3>1
  <2>4. CASE k # 1
    <3>1. PICK j \in DOMAIN cs : k = j + 1
      BY <1>3, <1>5, <2>4
    <3>2. ds[k] = cs[j] /\ Awaits(shape, b, cs[k], cs[j])
      BY <1>2, <2>1, <3>1 DEF AreFitting
    <3> QED
      BY <2>2, <3>2
  <2> QED
    BY <2>3, <2>4
<1> QED
  BY <1>4, <1>5 DEF AreFitting

LEMMA ReplacedFitting ==
    ASSUME NEW shape, NEW b, NEW S, NEW cs \in Seq(S), NEW T, NEW ds \in Seq(T), NEW c, Replaced(cs, c, ds),
           AreFitting(shape, b, cs), Fits(shape, b, c), Answer(shape, b, c) = Answer(shape, b, cs[1])
    PROVE  AreFitting(shape, b, ds)
<1>1. Len(cs) \in Nat /\ DOMAIN cs = 1 .. Len(cs) /\ DOMAIN ds = DOMAIN cs /\ ds[1] = c
  BY DEF Replaced
<1>2. \A k \in DOMAIN cs : k # 1 => ds[k] = cs[k]
  BY <1>1 DEF Replaced
<1>3. \A k \in DOMAIN cs : k + 1 # 1
  BY <1>1
<1>4. \A k \in DOMAIN cs : Fits(shape, b, ds[k]) /\ Answer(shape, b, ds[k]) = Answer(shape, b, cs[k])
  BY <1>1, <1>2 DEF AreFitting
<1>5. ASSUME NEW k \in DOMAIN ds, k + 1 \in DOMAIN ds PROVE Awaits(shape, b, ds[k + 1], ds[k])
  <2>1. Awaits(shape, b, cs[k + 1], cs[k]) /\ ds[k + 1] = cs[k + 1]
    BY <1>1, <1>2, <1>3, <1>5 DEF AreFitting
  <2> QED
    BY <1>1, <1>4, <1>5, <2>1 DEF Awaits
<1> QED
  BY <1>1, <1>4, <1>5 DEF AreFitting

-----------------------------------------------------------------------------
(* What fromdie makes of fitting types.  When it is called the types are   *)
(* there:                                                                  *)
HasTypes(shape, b, c) ==
    /\ IsBackend(b) /\ AreShaped(shape, b) /\ c \in CallsOf(b) /\ c.composite = None
    /\ Fits(shape, b, c) /\ Len(c.types) >= Len(Wanted(c))

LEMMA TypesAreThere ==
    ASSUME NEW shape, NEW b, NEW c, HasTypes(shape, b, c)
    PROVE  /\ DOMAIN c.types = DOMAIN Wanted(c) /\ Len(c.types) = Len(Wanted(c))
           /\ c.types \in Seq(Types(b)) /\ Wanted(c) \in Seq(DOMAIN Dies) /\ c.die \in DOMAIN Dies
           /\ \A k \in DOMAIN c.types : c.types[k] \in Types(b) /\ ShapesAt(b, c.types[k]) = shape[Wanted(c)[k]]
<1>1. c.types \in Seq(Types(b)) /\ Wanted(c) \in Seq(DOMAIN Dies) /\ c.die \in DOMAIN Dies
  BY WantedAre DEF HasTypes, CallsOf
<1>2. Len(c.types) >= Len(Wanted(c)) /\ \A k \in DOMAIN c.types : k \in DOMAIN Wanted(c)
  BY DEF HasTypes, Fits, HasFitting
<1> DEFINE T == Types(b)
           w == Wanted(c)
           s == c.types
<1>3. s \in Seq(T) /\ w \in Seq(DOMAIN Dies) /\ Len(s) >= Len(w) /\ DOMAIN s \subseteq DOMAIN w
  BY <1>1, <1>2
<1> HIDE DEF T, w, s
<1>4. DOMAIN s = DOMAIN w /\ Len(s) = Len(w)
  <2>1. Len(s) \in Nat /\ Len(w) \in Nat /\ DOMAIN s = 1 .. Len(s) /\ DOMAIN w = 1 .. Len(w)
    BY <1>3
  <2>2. Len(s) # 0 => Len(s) \in 1 .. Len(w)
    BY <1>3, <2>1
  <2>3. Len(s) >= Len(w) /\ Len(s) \in Nat /\ Len(w) \in Nat
    BY <1>3, <2>1
  <2>4. Len(s) = Len(w)
    BY ONLY <2>2, <2>3
  <2> QED
    BY <2>1, <2>4
<1>5. \A k \in DOMAIN s : s[k] \in T
  BY <1>3
<1> QED
  BY <1>1, <1>4, <1>5 DEF s, w, T, HasTypes, Fits, HasFitting

LEMMA TypeIsThere ==
    ASSUME NEW shape, NEW b, NEW c, HasTypes(shape, b, c), NEW d \in DOMAIN Dies, Wanted(c) = Type(d)
    PROVE  /\ Has(d, "type") => /\ c.types # <<>> /\ c.types[1] \in Types(b) /\ Len(c.types) = 1
                                /\ ShapesAt(b, c.types[1]) = TypeShape(shape, d)
           /\ ~Has(d, "type") => c.types = <<>>
<1>1. CASE Has(d, "type")
  <2>1. Wanted(c) = <<Dies[d].type>> /\ TypeShape(shape, d) = shape[Dies[d].type]
    BY <1>1 DEF Type, TypeShape
  <2>2. Len(c.types) = 1 /\ 1 \in DOMAIN c.types /\ Wanted(c)[1] = Dies[d].type
    BY <2>1, TypesAreThere
  <2>3. c.types[1] \in Types(b) /\ ShapesAt(b, c.types[1]) = shape[Wanted(c)[1]]
    BY <2>2, TypesAreThere
  <2> QED
    BY <1>1, <2>1, <2>2, <2>3
<1>2. CASE ~Has(d, "type")
  <2>1. Wanted(c) = <<>>
    BY <1>2 DEF Type
  <2>2. Len(c.types) = 0 /\ c.types \in Seq(Types(b))
    BY <2>1, TypesAreThere
  <2> QED
    BY <1>2, <2>2
<1> QED
  BY <1>1, <1>2

LEMMA ShapesAtIs ==
    ASSUME NEW b, NEW t \in Types(b), ShapesAt(b, t) # {}
    PROVE  t \in DOMAIN b.objects /\ t # None /\ ShapesAt(b, t) = {Shape(b.objects[t])}
  BY DEF ShapesAt, Types

LEMMA VoidIsShaped ==
    ASSUME NEW shape, NamesTell(shape), NEW b, IsBackend(b), AreShaped(shape, b)
    PROVE  ShapesAt(b, b.types["void"]) = {Shape(Void)} /\ b.types["void"] \in DOMAIN b.objects
<1> DEFINE t == b.types["void"]
<1>1. t \in DOMAIN b.objects /\ b.objects[t].typename = "void" /\ t # None
  BY LenNotNone DEF IsBackend
<1>2. Shape(b.objects[t]) \in Shapes(shape) /\ Shape(Void) \in Shapes(shape)
  BY <1>1 DEF AreShaped, IsShaped, Shapes
<1>3. Shape(b.objects[t]).typename = "void" /\ Shape(Void).typename = "void"
  BY <1>1 DEF Shape, Void
<1>4. Shape(b.objects[t]) = Shape(Void)
  BY <1>2, <1>3 DEF NamesTell
<1> QED
  BY <1>1, <1>4 DEF ShapesAt

LEMMA VariableTypeIs ==
    ASSUME NEW d \in DOMAIN Dies, Dies[d].tag = "variable"
    PROVE  \E e \in DOMAIN Dies : VariableType(d) = Type(e)
<1>1. Declaration(d) \in DOMAIN Dies
  BY DieIs DEF Declaration, Has, IsDie
<1>2. "type" \in DOMAIN Dies[Declaration(d)]
  BY DieIs DEF Declaration, Has, IsDie
<1>3. Dies[Declaration(d)].type \in DOMAIN Dies
  BY <1>1, <1>2, DieIs DEF IsDie
<1> QED
  BY <1>1, <1>3 DEF VariableType

LEMMA CompleteFits ==
    ASSUME NEW shape, IsReadable(shape), NEW b, NEW c, HasTypes(shape, b, c)
    PROVE  Complete(b, c)
<1> DEFINE d == c.die
           tag == Dies[d].tag
<1>1. d \in DOMAIN Dies /\ c.composite = None
  BY TypesAreThere DEF HasTypes
<1>2. /\ tag = "base_type" => Dies[d].encoding \in {"signed", "unsigned", "float"}
      /\ tag = "volatile_type" => Has(d, "type")
      /\ tag = "array_type" => TypeShape(shape, d) # {}
      /\ tag = "variable" => VariableType(d) # <<>> /\ shape[VariableType(d)[1]] # {}
      /\ tag = "typedef" /\ Has(d, "type") =>
            /\ TypeShape(shape, d) # {}
            /\ \A s \in TypeShape(shape, d) : s.kind \in {"int", "struct", "pointer", "array", "union"}
  BY <1>1 DEF IsReadable
<1>3. tag \in {"array_type", "volatile_type", "typedef"} => Wanted(c) = Type(d)
  BY <1>1 DEF Wanted
<1>4. CASE tag = "array_type"
  <2>1. Has(d, "type")
    BY <1>2, <1>4 DEF TypeShape
  <2>2. c.types # <<>> /\ c.types[1] \in Types(b) /\ ShapesAt(b, c.types[1]) # {}
    BY <1>1, <1>2, <1>3, <1>4, <2>1, TypeIsThere
  <2> QED
    BY <1>4, <2>2, ShapesAtIs DEF Complete
<1>5. CASE tag = "variable"
  <2>1. Wanted(c) = VariableType(d)
    BY <1>1, <1>5 DEF Wanted
  <2>2. PICK e \in DOMAIN Dies : VariableType(d) = Type(e)
    BY <1>1, <1>5, VariableTypeIs
  <2>3. Has(e, "type")
    BY <1>2, <1>5, <2>2 DEF Type
  <2>4. shape[VariableType(d)[1]] = TypeShape(shape, e)
    BY <2>2, <2>3 DEF Type, TypeShape
  <2>5. c.types # <<>> /\ c.types[1] \in Types(b) /\ ShapesAt(b, c.types[1]) # {}
    BY <1>2, <1>5, <2>1, <2>2, <2>3, <2>4, TypeIsThere
  <2> QED
    BY <1>5, <2>5, ShapesAtIs DEF Complete
<1>6. CASE tag = "typedef" /\ Has(d, "type")
  <2>1. c.types # <<>> /\ c.types[1] \in Types(b) /\ ShapesAt(b, c.types[1]) = TypeShape(shape, d)
    BY <1>1, <1>3, <1>6, TypeIsThere
  <2>2. c.types[1] # None /\ TypeShape(shape, d) = {Shape(b.objects[c.types[1]])}
    BY <1>2, <1>6, <2>1, ShapesAtIs
  <2>3. Shape(b.objects[c.types[1]]).kind = b.objects[c.types[1]].kind
    BY DEF Shape
  <2> QED
    BY <1>2, <1>6, <2>1, <2>2, <2>3 DEF Complete
<1>7. CASE tag = "volatile_type"
  BY <1>1, <1>2, <1>3, <1>7, TypeIsThere DEF Complete
<1>8. CASE tag = "base_type"
  BY <1>2, <1>8 DEF Complete
<1>9. CASE tag \notin {"array_type", "variable", "volatile_type", "base_type"} /\ ~(tag = "typedef" /\ Has(d, "type"))
  BY <1>9 DEF Complete
<1> QED
  BY <1>4, <1>5, <1>6, <1>7, <1>8, <1>9

(* What a pointer points to.                                               *)
PointerBase(b, c) == IF c.types = <<>> \/ Last(c.types) = None THEN b.types["void"] ELSE Last(c.types)

LEMMA PointerBaseFits ==
    ASSUME NEW shape, NamesTell(shape), NEW b, NEW c, HasTypes(shape, b, c), Dies[c.die].tag = "pointer_type"
    PROVE  /\ PointerBase(b, c) \in DOMAIN b.objects
           /\ PointedShape(shape, c.die) = {Shape(b.objects[PointerBase(b, c)])}
<1> DEFINE d == c.die
           base == PointerBase(b, c)
<1>1. d \in DOMAIN Dies /\ c.composite = None /\ Wanted(c) = PointedTo(c)
  BY TypesAreThere DEF HasTypes, Wanted
<1>2. ShapesAt(b, b.types["void"]) = {Shape(Void)} /\ b.types["void"] \in DOMAIN b.objects
  BY VoidIsShaped DEF HasTypes
<1>3. Shape(b.objects[b.types["void"]]) = Shape(Void)
  BY <1>2, LenNotNone DEF HasTypes, ShapesAt
<1>4. CASE ~Has(d, "type")
  <2>1. Wanted(c) = Type(d)
    BY <1>1, <1>4 DEF PointedTo
  <2>2. c.types = <<>>
    BY <1>1, <1>4, <2>1, TypeIsThere
  <2>3. PointedShape(shape, d) = {Shape(Void)}
    BY <1>4 DEF PointedShape, TypeShape
  <2> QED
    BY <1>2, <1>3, <2>2, <2>3 DEF PointerBase
<1>5. CASE Has(d, "type")
  <2> DEFINE e == Dies[d].type
  <2>1. e \in DOMAIN Dies /\ Type(d) = <<e>> /\ TypeShape(shape, d) = shape[e]
    BY <1>1, <1>5, DieIs DEF Has, IsDie, Type, TypeShape
  <2>2. CASE c.types = <<>> \/ c.types[1] # None
    <3>1. Wanted(c) = Type(d)
      BY <1>1, <2>2 DEF PointedTo
    <3>2. c.types # <<>> /\ c.types[1] \in Types(b) /\ Len(c.types) = 1 /\ ShapesAt(b, c.types[1]) = shape[e]
      BY <1>1, <1>5, <2>1, <3>1, TypeIsThere
    <3>3. base = c.types[1]
      BY <2>2, <3>2 DEF PointerBase, Last
    <3>4. shape[e] = {Shape(b.objects[c.types[1]])} /\ c.types[1] \in DOMAIN b.objects
      BY <2>2, <3>2 DEF ShapesAt, Types
    <3>5. PointedShape(shape, d) = shape[e]
      BY <2>1, <3>4 DEF PointedShape
    <3> QED
      BY <3>3, <3>4, <3>5
  <2>3. CASE c.types # <<>> /\ c.types[1] = None
    <3>1. Wanted(c) = Type(d) \o Type(e)
      BY <1>1, <1>5, <2>3 DEF PointedTo
    <3>2. Type(e) \in Seq(DOMAIN Dies)
      BY <2>1, TypeIs
    <3>3. 1 \in DOMAIN c.types /\ Wanted(c)[1] = e
      <4>1. c.types \in Seq(Types(b))
        BY TypesAreThere
      <4>2. 1 \in DOMAIN c.types
        BY ONLY <2>3, <4>1
      <4>3. Wanted(c) = <<e>> \o Type(e)
        BY <2>1, <3>1
      <4>4. Wanted(c)[1] = e
        <5> DEFINE D == DOMAIN Dies
                   s == Type(e)
        <5>1. s \in Seq(D) /\ e \in D
          BY <2>1, <3>2
        <5> HIDE DEF D, s, e
        <5>2. (<<e>> \o s)[1] = e
          BY <5>1
        <5> QED
          BY <4>3, <5>2 DEF s
      <4> QED
        BY <4>2, <4>4
    <3>4. shape[e] = {}
      BY <2>3, <3>3, TypesAreThere DEF ShapesAt
    <3>5. PointedShape(shape, d) = IF TypeShape(shape, e) # {} THEN TypeShape(shape, e) ELSE {Shape(Void)}
      BY <1>5, <2>1, <3>4 DEF PointedShape
    <3>6. CASE Has(e, "type")
      <4>1. Type(e) = <<Dies[e].type>> /\ TypeShape(shape, e) = shape[Dies[e].type]
        BY <3>6 DEF Type, TypeShape
      <4>2. Len(c.types) = 2 /\ 2 \in DOMAIN c.types /\ Wanted(c)[2] = Dies[e].type
        <5>1. Pushed(Type(e), e, Wanted(c))
          BY <2>1, <3>1, <3>2, PushedIs
        <5>2. Len(Wanted(c)) = 2 /\ Wanted(c)[2] = Dies[e].type
          BY <4>1, <5>1 DEF Pushed
        <5>3. Len(c.types) = 2 /\ c.types \in Seq(Types(b))
          BY <5>2, TypesAreThere
        <5> QED
          BY <5>2, <5>3
      <4>3. Last(c.types) = c.types[2] /\ c.types[2] \in Types(b) /\ ShapesAt(b, c.types[2]) = TypeShape(shape, e)
        BY <4>1, <4>2, TypesAreThere DEF Last
      <4>4. CASE c.types[2] = None
        <5>1. TypeShape(shape, e) = {} /\ base = b.types["void"]
          BY <4>3, <4>4 DEF ShapesAt, PointerBase
        <5> QED
          BY <1>2, <1>3, <3>5, <5>1
      <4>5. CASE c.types[2] # None
        <5>1. base = c.types[2] /\ c.types[2] \in DOMAIN b.objects
          BY <2>3, <4>3, <4>5 DEF PointerBase, Types
        <5>2. TypeShape(shape, e) = {Shape(b.objects[c.types[2]])}
          BY <4>3, <4>5 DEF ShapesAt
        <5> QED
          BY <3>5, <5>1, <5>2
      <4> QED
        BY <4>4, <4>5
    <3>7. CASE ~Has(e, "type")
      <4>1. Wanted(c) = <<e>> /\ TypeShape(shape, e) = {}
        BY <2>1, <3>1, <3>7 DEF Type, TypeShape
      <4>2. Len(c.types) = 1
        BY <4>1, TypesAreThere
      <4>3. base = b.types["void"]
        BY <2>3, <4>2 DEF PointerBase, Last
      <4> QED
        BY <1>2, <1>3, <3>5, <4>1, <4>3
    <3> QED
      BY <3>6, <3>7
  <2> QED
    BY <2>2, <2>3
<1> QED
  BY <1>4, <1>5

(* The object of a new type.                                               *)
LEMMA NewObject ==
    ASSUME NEW b, IsBackend(b), NEW o
    PROVE  LET m == New(b, o)
           IN  m.backend.objects[m.type] = o /\ ShapesAt(m.backend, m.type) = {Shape(o)}
<1> DEFINE c == [b EXCEPT !.objects = Append(@, o)]
           n == Len(b.objects) + 1
<1>1. New(b, o).backend = c /\ New(b, o).type = n
  BY DEF New, Made
<1>2. c.objects = Append(b.objects, o) /\ IsSeq(b.objects)
  BY DEF IsBackend
<1>3. c.objects[n] = o
  BY <1>2, AppendedIs DEF Appended
<1>4. n # None
  BY LenNotNone
<1> QED
  BY <1>1, <1>3, <1>4 DEF ShapesAt

(* The shape of what fromdie makes.                                        *)
LEMMA FromDieShapes ==
    ASSUME NEW shape, IsShaping(shape), NamesTell(shape), IsReadable(shape), NEW b, NEW c, HasTypes(shape, b, c)
    PROVE  LET m == FromDie(b, c)
           IN  /\ ShapesAt(m.backend, m.type) = shape[c.die]
               /\ Dies[c.die].tag = "typedef" /\ Has(c.die, "type") =>
                     /\ m.backend.objects[m.type].base \in DOMAIN b.objects
                     /\ m.backend.objects[m.type].kind = "array" =>
                           ~b.objects[m.backend.objects[m.type].base].typedef
<1> DEFINE d == c.die
           tag == Dies[d].tag
           m == FromDie(b, c)
<1>1. d \in DOMAIN Dies /\ c.composite = None /\ IsBackend(b) /\ shape[d] = ShapeOf(shape, d)
  BY TypesAreThere DEF HasTypes, IsShaping
<1>2. tag \in {"array_type", "volatile_type", "typedef", "const_type"} => Wanted(c) = Type(d)
  BY <1>1 DEF Wanted
<1>3. CASE tag = "base_type"
  <2> DEFINE o == BaseType(Typename(d), ByteSize(d), Dies[d].encoding)
  <2>1. m = New(b, o)
    BY <1>3 DEF FromDie, BaseTypeFromDie
  <2>2. ShapeOf(shape, d) = {Shape(o)}
    BY <1>3 DEF ShapeOf, Plain, Shape, BaseType
  <2> HIDE DEF o
  <2> QED
    BY <1>1, <1>3, <2>1, <2>2, NewObject
<1>4. CASE tag = "enumeration_type"
  <2> DEFINE o == Enumeration(Typename(d), ByteSize(d))
  <2>1. ShapeOf(shape, d) = {Shape(o)}
    BY <1>4 DEF ShapeOf, Plain, Shape, Enumeration
  <2> HIDE DEF o
  <2>2. PICK enums : m = New([b EXCEPT !.enums = enums], o)
    BY <1>4 DEF FromDie, EnumerationFromDie, o
  <2> DEFINE e == [b EXCEPT !.enums = enums]
  <2>3. IsBackend(e)
    <3>1. DOMAIN e = DOMAIN b /\ e.types = b.types /\ e.objects = b.objects
      BY <1>1 DEF IsBackend
    <3> HIDE DEF e
    <3> QED
      BY <1>1, <3>1 DEF IsBackend
  <2> HIDE DEF e
  <2> QED
    BY <1>1, <1>4, <2>1, <2>2, <2>3, NewObject DEF e
<1>5. CASE tag \in {"structure_type", "union_type"}
  <2> DEFINE kind == IF tag = "structure_type" THEN "struct" ELSE "union"
             o == Composite(kind, Typename(d), ByteSize(d))
  <2>1. m = New(b, o)
    BY <1>5 DEF FromDie
  <2>2. ShapeOf(shape, d) = Tagged(kind, d)
    BY <1>5 DEF ShapeOf
  <2>3. kind # "array"
    OBVIOUS
  <2> HIDE DEF kind
  <2>4. Tagged(kind, d) = {Shape(o)}
    BY <2>3 DEF Tagged, Plain, Shape, Composite
  <2> HIDE DEF o
  <2> QED
    BY <1>1, <1>5, <2>1, <2>2, <2>4, NewObject
<1>6. CASE tag = "pointer_type"
  <2> DEFINE base == PointerBase(b, c)
             o == IF Has(d, "type")
                  THEN Pointer(Typename(d), ByteSize(d), base, b)
                  ELSE Pointer("void *", 0, base, b)
  <2>1. m = New(b, o)
    BY <1>6 DEF FromDie, PointerFromDie, PointerBase
  <2>2. PointedShape(shape, d) = {Shape(b.objects[base])}
    BY <1>6, PointerBaseFits
  <2> HIDE DEF base
  <2>3. ~Has(d, "type") => b.objects[base].typename # "?"
    <3>1. ~Has(d, "type") => PointedShape(shape, d) = {Shape(Void)}
      BY DEF PointedShape, TypeShape
    <3>2. Shape(Void).typename = "void" /\ Shape(b.objects[base]).typename = b.objects[base].typename
      BY DEF Shape, Void
    <3> QED
      BY <2>2, <3>1, <3>2
  <2>4. Shape(o) = [kind |-> "pointer", typedef |-> FALSE,
                    typename |-> IF b.objects[base].typename # "?" THEN b.objects[base].typename \o " *" ELSE Typename(d)]
    BY <2>3 DEF Pointer, Shape
  <2>5. ShapeOf(shape, d) = {[kind |-> "pointer",
                              typename |-> IF s.typename # "?" THEN s.typename \o " *" ELSE Typename(d),
                              typedef |-> FALSE] : s \in PointedShape(shape, d)}
    BY <1>6 DEF ShapeOf
  <2>6. Shape(b.objects[base]).typename = b.objects[base].typename
    BY DEF Shape
  <2> HIDE DEF o
  <2> DEFINE x == Shape(b.objects[base])
             F(s) == [kind |-> "pointer", typedef |-> FALSE,
                      typename |-> IF s.typename # "?" THEN s.typename \o " *" ELSE Typename(d)]
  <2>7. ShapeOf(shape, d) = {F(s) : s \in {x}}
    BY <2>2, <2>5
  <2>8. Shape(o) = F(x)
    BY <2>4, <2>6
  <2> HIDE DEF F, x
  <2>9. ShapeOf(shape, d) = {Shape(o)}
    BY <2>7, <2>8
  <2> QED
    BY <1>1, <1>6, <2>1, <2>9, NewObject
<1>7. CASE tag = "array_type"
  <2> DEFINE t == c.types[1]
             o == Array(t, Length(d), b)
  <2>1. m = New(b, o)
    BY <1>7 DEF FromDie
  <2>2. TypeShape(shape, d) # {}
    BY <1>1, <1>7 DEF IsReadable
  <2>3. ShapesAt(b, t) = TypeShape(shape, d) /\ t \in Types(b)
    BY <1>1, <1>2, <1>7, <2>2, TypeIsThere DEF TypeShape
  <2>4. TypeShape(shape, d) = {Shape(b.objects[t])}
    BY <2>2, <2>3, ShapesAtIs
  <2> HIDE DEF t
  <2>5. Shape(o) = [kind |-> "array", typename |-> b.objects[t].typename \o " [" \o ToString(Length(d)) \o "]",
                    typedef |-> FALSE]
    BY DEF Array, Shape
  <2>6. ShapeOf(shape, d) = {[kind |-> "array", typename |-> s.typename \o " [" \o ToString(Length(d)) \o "]",
                              typedef |-> FALSE] : s \in TypeShape(shape, d)}
    BY <1>7 DEF ShapeOf
  <2>7. Shape(b.objects[t]).typename = b.objects[t].typename
    BY DEF Shape
  <2> HIDE DEF o
  <2>8. ShapeOf(shape, d) = {Shape(o)}
    BY <2>4, <2>5, <2>6, <2>7
  <2> QED
    BY <1>1, <1>7, <2>1, <2>8, NewObject
<1>8. CASE tag = "typedef" /\ Has(d, "type")
  <2> DEFINE t == c.types[1]
             of == b.objects[t]
             o == Typedef(Typename(d), t, b)
  <2>1. m = New(b, o)
    BY <1>8 DEF FromDie, TypedefFromDie
  <2>2. TypeShape(shape, d) # {} /\ \A s \in TypeShape(shape, d) : ~s.typedef
    BY <1>1, <1>8 DEF IsReadable
  <2>3. ShapesAt(b, t) = TypeShape(shape, d) /\ t \in Types(b)
    BY <1>1, <1>2, <1>8, TypeIsThere
  <2>4. TypeShape(shape, d) = {Shape(of)} /\ t \in DOMAIN b.objects
    BY <2>2, <2>3, ShapesAtIs
  <2>5. o.base = t /\ o.kind = of.kind /\ (of.kind = "array" => ~of.typedef)
    <3>1. o.base = t /\ o.kind = of.kind
      BY DEF Typedef
    <3>2. ~Shape(of).typedef
      BY <2>2, <2>4
    <3> QED
      BY <3>1, <3>2 DEF Shape
  <2>6. ShapeOf(shape, d) = {[kind |-> s.kind, typename |-> Typename(d), typedef |-> s.kind = "array"] :
                                s \in TypeShape(shape, d)}
    BY <1>8 DEF ShapeOf
  <2> HIDE DEF of
  <2>7. Shape(of).kind = of.kind
    BY DEF Shape
  <2>8. Shape(o) = [kind |-> of.kind, typename |-> Typename(d), typedef |-> of.kind = "array"]
    BY DEF Typedef, Shape, of
  <2> HIDE DEF o
  <2>9. ShapeOf(shape, d) = {Shape(o)}
    BY <2>4, <2>6, <2>7, <2>8
  <2> QED
    BY <1>1, <1>8, <2>1, <2>4, <2>5, <2>9, NewObject DEF of
<1>9. CASE tag = "variable"
  <2>1. PICK data : m = New(b, Variable(Typename(Declaration(d)), c.types[1], loc2addr(d), data, b))
    BY <1>9 DEF FromDie, VariableFromDie
  <2> DEFINE o == Variable(Typename(Declaration(d)), c.types[1], loc2addr(d), data, b)
  <2>2. ShapeOf(shape, d) = {Shape(o)}
    BY <1>9 DEF ShapeOf, Plain, Shape, Variable
  <2> HIDE DEF o
  <2> QED
    BY <1>1, <1>9, <2>1, <2>2, NewObject DEF o
<1>10. CASE tag = "subprogram" /\ Has(d, "low_pc")
  <2>1. PICK returns, arguments :
            m = New(b, Function(Typename(d), ByteSize(d), Dies[d].low_pc, returns, arguments))
    BY <1>10 DEF FromDie, FunctionFromDie
  <2> DEFINE o == Function(Typename(d), ByteSize(d), Dies[d].low_pc, returns, arguments)
  <2>2. ShapeOf(shape, d) = {Shape(o)}
    BY <1>10 DEF ShapeOf, Plain, Shape, Function
  <2> HIDE DEF o
  <2> QED
    BY <1>1, <1>10, <2>1, <2>2, NewObject DEF o
<1>11. CASE tag \in {"const_type", "volatile_type"} /\ Has(d, "type")
  <2>1. c.types # <<>> /\ ShapesAt(b, c.types[1]) = TypeShape(shape, d)
    BY <1>1, <1>2, <1>11, TypeIsThere
  <2>2. m = Made(b, c.types[1])
    BY <1>11, <2>1 DEF FromDie
  <2>3. ShapeOf(shape, d) = TypeShape(shape, d)
    BY <1>11 DEF ShapeOf
  <2> QED
    BY <1>1, <1>11, <2>1, <2>2, <2>3 DEF Made
<1>12. CASE tag = "const_type" /\ ~Has(d, "type")
  <2>1. c.types = <<>>
    BY <1>1, <1>2, <1>12, TypeIsThere
  <2>2. m = Made(b, b.types["void"])
    BY <1>12, <2>1 DEF FromDie
  <2>3. ShapeOf(shape, d) = {Shape(Void)}
    BY <1>12 DEF ShapeOf
  <2>4. ShapesAt(b, b.types["void"]) = {Shape(Void)}
    BY VoidIsShaped DEF HasTypes
  <2> QED
    BY <1>1, <1>12, <2>2, <2>3, <2>4 DEF Made
<1>13. CASE \/ tag = "typedef" /\ ~Has(d, "type")
            \/ tag = "subprogram" /\ ~Has(d, "low_pc")
            \/ tag \notin TypeTags \cup {"variable", "subprogram"}
  <2>1. m = Made(b, None)
    BY <1>13 DEF FromDie, TypedefFromDie, FunctionFromDie, TypeTags
  <2>2. ShapeOf(shape, d) = {}
    <3>1. CASE tag = "typedef" /\ ~Has(d, "type")
      BY <3>1 DEF ShapeOf, TypeShape
    <3>2. CASE tag = "subprogram" /\ ~Has(d, "low_pc")
      BY <3>2 DEF ShapeOf
    <3>3. CASE tag \notin TypeTags \cup {"variable", "subprogram"}
      BY <3>3 DEF ShapeOf, TypeTags
    <3> QED
      BY <1>13, <3>1, <3>2, <3>3
  <2>3. ~(tag = "typedef" /\ Has(d, "type"))
    BY <1>13 DEF TypeTags
  <2>4. ShapesAt(m.backend, m.type) = {}
    BY <2>1 DEF Made, ShapesAt
  <2> QED
    BY <1>1, <2>2, <2>3, <2>4
<1>14. tag # "volatile_type" \/ Has(d, "type")
  BY <1>1 DEF IsReadable
<1> QED
  BY <1>3, <1>4, <1>5, <1>6, <1>7, <1>8, <1>9, <1>10, <1>11, <1>12, <1>13, <1>14 DEF TypeTags

(* What fromdie makes is what its entry says, and nothing else changes.    *)
LEMMA FromDieFits ==
    ASSUME NEW shape, IsShaping(shape), NamesTell(shape), IsReadable(shape), NEW b, NEW c, HasTypes(shape, b, c)
    PROVE  LET m == FromDie(b, c)
           IN  Gives(b, c, m) /\ AreShaped(shape, m.backend) /\ ShapesAt(m.backend, m.type) = shape[c.die]
<1> DEFINE d == c.die
           m == FromDie(b, c)
<1>1. IsBackend(b) /\ AreShaped(shape, b) /\ c \in CallsOf(b) /\ d \in DOMAIN Dies
  BY TypesAreThere DEF HasTypes
<1>2. Gives(b, c, m)
  BY <1>1, CompleteFits, FromDieGives
<1>3. /\ ShapesAt(m.backend, m.type) = shape[d]
      /\ Dies[d].tag = "typedef" /\ Has(d, "type") =>
            /\ m.backend.objects[m.type].base \in DOMAIN b.objects
            /\ m.backend.objects[m.type].kind = "array" => ~b.objects[m.backend.objects[m.type].base].typedef
  BY FromDieShapes
<1> HIDE DEF m
<1>4. ASSUME NEW o, Makes(b, d, m, o) PROVE AreShaped(shape, m.backend)
  <2> DEFINE objects == m.backend.objects
  <2>1. /\ m.type = Len(b.objects) + 1 /\ m.type \in DOMAIN objects /\ objects[m.type] = o
        /\ \A t \in DOMAIN objects : t \in DOMAIN b.objects \/ t = m.type
        /\ \A t \in DOMAIN b.objects : objects[t] = b.objects[t]
        /\ o.typedef => Dies[d].tag = "typedef" /\ Has(d, "type")
    BY <1>4 DEF Makes, Adds
  <2>2. m.type # None
    BY <1>1, <2>1, LenNotNone
  <2>3. IsShaped(shape, o, objects)
    <3>1. Shape(o) \in shape[d]
      BY <1>3, <2>1, <2>2 DEF ShapesAt
    <3>2. Shape(o) \in Shapes(shape)
      BY <1>1, <3>1 DEF Shapes
    <3>3. o.kind = "array" /\ o.typedef => ~objects[o.base].typedef
      BY <1>3, <2>1
    <3> QED
      BY <3>2, <3>3 DEF IsShaped
  <2>4. ASSUME NEW t \in DOMAIN b.objects PROVE IsShaped(shape, objects[t], objects)
    <3>1. IsShaped(shape, b.objects[t], b.objects) /\ IsObject(b.objects[t], b.objects) /\ objects[t] = b.objects[t]
      BY <1>1, <2>1 DEF AreShaped, IsBackend
    <3> HIDE DEF objects
    <3>2. b.objects[t].kind = "array" => objects[b.objects[t].base] = b.objects[b.objects[t].base]
      BY <2>1, <3>1 DEF IsObject
    <3> QED
      BY <3>1, <3>2 DEF IsShaped
  <2> QED
    BY <2>1, <2>3, <2>4 DEF AreShaped
<1>5. ASSUME Passes(b, c, m) PROVE AreShaped(shape, m.backend)
  BY <1>1, <1>5 DEF Passes
<1>6. AreShaped(shape, m.backend)
  BY <1>2, <1>4, <1>5 DEF Gives
<1> QED
  BY <1>2, <1>3, <1>6 DEF m

(* What has the same name is alike, so that update can handle it.          *)
LEMMA NameTells ==
    ASSUME NEW shape, NamesTell(shape), NEW b, IsBackend(b), AreShaped(shape, b),
           NEW t \in DOMAIN b.objects, NEW u \in DOMAIN b.objects,
           b.objects[t].typename = b.objects[u].typename, b.objects[u].typename # "?"
    PROVE  Shape(b.objects[t]) = Shape(b.objects[u]) /\ Updatable(b.objects, t, u)
<1> DEFINE self == b.objects[t]
           new == b.objects[u]
<1>1. /\ IsShaped(shape, self, b.objects) /\ IsShaped(shape, new, b.objects)
      /\ self.typedef \in BOOLEAN /\ new.typedef \in BOOLEAN
  BY DEF AreShaped, IsBackend, IsObject
<1>2. Shape(self).typename = self.typename /\ Shape(new).typename = new.typename
  BY DEF Shape
<1>3. Shape(self) \in Shapes(shape) /\ Shape(new) \in Shapes(shape)
  BY <1>1 DEF IsShaped
<1>4. Shape(self) = Shape(new)
  BY <1>2, <1>3 DEF NamesTell
<1>5. /\ self.kind = new.kind
      /\ (self.kind = "array" /\ self.typedef) = (new.kind = "array" /\ new.typedef)
  BY <1>4 DEF Shape
<1>6. self.kind = "array" => (self.typedef <=> new.typedef)
  BY <1>1, <1>5
<1>7. self.kind = "array" /\ self.typedef => ~b.objects[self.base].typedef /\ ~b.objects[new.base].typedef
  BY <1>1, <1>5, <1>6 DEF IsShaped
<1>8. Updatable(b.objects, t, u)
  BY <1>5, <1>6, <1>7 DEF Updatable
<1> QED
  BY <1>4, <1>8

(* Members are made of a union where the type of an entry is one.          *)
LEMMA UnionIs ==
    ASSUME NEW shape, IsShaping(shape), NEW e \in DOMAIN Dies, NEW d \in DOMAIN Dies,
           d = e \/ (Dies[e].tag = "typedef" /\ Type(e) = <<d>>), Dies[d].tag = "union_type", NEW s \in shape[e]
    PROVE  s.kind = "union"
<1>1. shape[e] = ShapeOf(shape, e) /\ shape[d] = ShapeOf(shape, d)
  BY DEF IsShaping
<1>2. ASSUME NEW r \in shape[d] PROVE r.kind = "union"
  <2>1. r \in Tagged("union", d)
    BY <1>1, <1>2 DEF ShapeOf
  <2> DEFINE n == IF Typename(d) # "?" THEN "union" \o " " \o Typename(d) ELSE "?"
  <2>2. r = [kind |-> "union", typename |-> n, typedef |-> FALSE]
    BY <2>1 DEF Tagged, Plain
  <2> HIDE DEF n
  <2> QED
    BY <2>2
<1>3. CASE d = e
  BY <1>2, <1>3
<1>4. CASE Dies[e].tag = "typedef" /\ Type(e) = <<d>>
  <2>1. TypeShape(shape, e) = shape[d]
    BY <1>4 DEF Type, TypeShape
  <2>2. ShapeOf(shape, e) = {[kind |-> r.kind, typename |-> Typename(e), typedef |-> r.kind = "array"] :
                                r \in TypeShape(shape, e)}
    BY <1>4 DEF ShapeOf
  <2>3. s \in {[kind |-> r.kind, typename |-> Typename(e), typedef |-> r.kind = "array"] : r \in shape[d]}
    BY <1>1, <2>1, <2>2
  <2>4. PICK r \in shape[d] : s = [kind |-> r.kind, typename |-> Typename(e), typedef |-> r.kind = "array"]
    BY <2>3
  <2> QED
    BY <1>2, <2>4
<1> QED
  BY <1>3, <1>4

-----------------------------------------------------------------------------
(* While entries are read, objects and calls fit them.                     *)
Shaped(shape) == Pending => AreShaped(shape, backend) /\ AreFitting(shape, backend, calls)

LEMMA HeadFits ==
    ASSUME NEW shape, WellFormed, Shaped(shape), Ready
    PROVE  /\ calls # <<>> /\ Head(calls) = calls[1] /\ calls[1] \in CallsOf(backend)
           /\ AreShaped(shape, backend) /\ AreFitting(shape, backend, calls) /\ Fits(shape, backend, calls[1])
           /\ calls[1].composite = None => HasTypes(shape, backend, calls[1])
<1>1. calls # <<>> /\ Len(Head(calls).types) >= Len(Wanted(Head(calls)))
  BY DEF Ready
<1>2. Head(calls) = calls[1] /\ calls[1] \in CallsOf(backend) /\ Len(calls) \in Nat \ {0}
  BY <1>1, HeadIs
<1>3. AreShaped(shape, backend) /\ AreFitting(shape, backend, calls)
  BY <1>1 DEF Shaped, Pending
<1>4. 1 \in DOMAIN calls
  BY <1>2 DEF WellFormed
<1>5. Fits(shape, backend, calls[1])
  BY <1>3, <1>4 DEF AreFitting
<1> QED
  BY <1>1, <1>2, <1>3, <1>5 DEF HasTypes, WellFormed

(* The innermost call answers what the one outside it waits for.           *)
LEMMA ShapedReturn ==
    ASSUME NEW shape, WellFormed, calls # <<>>, AreFitting(shape, backend, calls),
           NEW b, Grows(backend, b), NEW type, Returns(b, type),
           ShapesAt(b, type) = Answer(shape, backend, calls[1])
    PROVE  AreFitting(shape, backend', calls')
<1>1. calls \in Seq(CallsOf(backend)) /\ calls[1] \in CallsOf(backend)
  BY HeadIs DEF WellFormed
<1>2. calls \in Seq(CallsOf(b)) /\ AreFitting(shape, b, calls)
  BY <1>1, CallsGrow, FittingStays
<1>3. Answer(shape, b, calls[1]) = Answer(shape, backend, calls[1])
  BY <1>1, FitsStays
<1>4. backend' = b /\ calls' \in Seq(CallsOf(b)) /\ Returned(calls, type, calls')
  BY DEF Returns
<1> QED
  BY <1>2, <1>3, <1>4, ReturnedFitting

LEMMA SameObjects ==
    ASSUME NEW shape, NEW b, NEW c, c.objects = b.objects
    PROVE  /\ AreShaped(shape, b) => AreShaped(shape, c)
           /\ \A t : ShapesAt(c, t) = ShapesAt(b, t)
  BY DEF AreShaped, ShapesAt

LEMMA ShapedFinish ==
    ASSUME NEW shape, IsShaping(shape), NamesTell(shape), IsReadable(shape), WellFormed, Shaped(shape), Finish
    PROVE  AreShaped(shape, backend') /\ AreFitting(shape, backend', calls')
<1> DEFINE m == FromDie(backend, Head(calls))
           b == m.backend
           type == m.type
           e == calls[1].die
<1>1. Ready /\ Head(calls).composite = None
  BY DEF Finish
<1>2. /\ calls # <<>> /\ Head(calls) = calls[1] /\ calls[1] \in CallsOf(backend)
      /\ AreFitting(shape, backend, calls) /\ HasTypes(shape, backend, calls[1])
  BY <1>1, HeadFits
<1>3. Gives(backend, calls[1], m) /\ AreShaped(shape, b) /\ ShapesAt(b, type) = shape[e]
  BY <1>2, FromDieFits
<1>4. \/ ReturnNameless(b, type)
      \/ ReturnKnown(b, type)
      \/ ReturnNew(b, type)
      \/ RegisterComposite(b, type)
  BY DEF Finish
<1> HIDE DEF m
<1>5. Half(m)
  BY <1>3, GivesHalf
<1>6. IsBackend(b) /\ Grows(backend, b)
  BY <1>5 DEF Half
<1>7. Answer(shape, backend, calls[1]) = shape[e]
  BY <1>1, <1>2 DEF Answer
<1>8. CASE ReturnNameless(b, type)
  <2>1. Returns(b, type)
    BY <1>2, <1>5, <1>8, NamelessReturns
  <2>2. backend' = b
    BY <2>1 DEF Returns
  <2>3. AreFitting(shape, backend', calls')
    BY <1>2, <1>3, <1>6, <1>7, <2>1, ShapedReturn
  <2> QED
    BY <1>3, <2>2, <2>3
<1>9. CASE ReturnKnown(b, type)
  <2> DEFINE c == KnownBackend(m)
             t == KnownType(m)
  <2>1. /\ Returns(c, t) /\ Grows(backend, c) /\ type \in DOMAIN b.objects /\ Updatable(b.objects, t, type)
        /\ b.objects[type].typename \in DOMAIN backend.types
    BY ONLY WellFormed, <1>2, <1>5, <1>9, KnownReturns
  <2>2. t \in DOMAIN b.objects /\ b.objects[t].typename = b.objects[type].typename
    <3>1. b.types = backend.types
      BY <1>5 DEF Half
    <3> QED
      BY <1>6, <2>1, <3>1 DEF IsBackend, KnownType
  <2>3. Updates(b, c)
    BY <1>6, <2>1, <2>2, UpdatedUpdates DEF Completes, KnownBackend
  <2>4. b.objects[type].typename # "?" /\ type # None /\ t # None
    BY <1>6, <1>9, <2>2, LenNotNone DEF ReturnKnown, HasName
  <2>5. Shape(b.objects[t]) = Shape(b.objects[type])
    BY <1>3, <1>6, <2>1, <2>2, <2>4, NameTells
  <2>6. ShapesAt(b, t) = ShapesAt(b, type)
    BY <2>4, <2>5 DEF ShapesAt
  <2>7. Grows(b, c)
    BY <2>3 DEF Updates
  <2>8. ShapesAt(c, t) = ShapesAt(b, t)
    BY <2>2, <2>7, ShapesStay DEF Types
  <2>9. AreShaped(shape, c)
    BY <1>3, <1>6, <2>3, ShapedStay
  <2> HIDE DEF c, t
  <2>10. AreFitting(shape, backend', calls')
    BY <1>2, <1>3, <1>7, <2>1, <2>6, <2>8, ShapedReturn
  <2>11. backend' = c
    BY <2>1 DEF Returns
  <2> QED
    BY <2>9, <2>10, <2>11
<1>10. ASSUME HasName(b, type), b.objects[type].typename \notin DOMAIN b.types
       PROVE  /\ type \in DOMAIN b.objects /\ type # None /\ shape[e] = {Shape(b.objects[type])}
              /\ Register(b, type).objects = b.objects /\ Grows(backend, Register(b, type))
              /\ AreShaped(shape, Register(b, type)) /\ ShapesAt(Register(b, type), type) = shape[e]
  <2>1. PICK o : AddsNamed(backend, o, type, Register(b, type)) /\ type \in DOMAIN b.objects
    BY <1>2, <1>3, <1>10, NewIsNamed
  <2>2. Grows(backend, Register(b, type))
    BY <2>1 DEF AddsNamed
  <2>3. Register(b, type).objects = b.objects
    BY <1>6, <2>1, RegisterNames DEF Names
  <2>4. type # None /\ shape[e] = {Shape(b.objects[type])}
    BY <1>3, <1>6, <2>1, LenNotNone DEF ShapesAt
  <2> QED
    BY <1>3, <2>1, <2>2, <2>3, <2>4, SameObjects
<1>11. CASE ReturnNew(b, type)
  <2> DEFINE c == Register(b, type)
  <2>1. HasName(b, type) /\ b.objects[type].typename \notin DOMAIN b.types /\ Return(c, type)
    BY <1>11 DEF ReturnNew
  <2>2. /\ type \in DOMAIN b.objects /\ c.objects = b.objects /\ Grows(backend, c) /\ AreShaped(shape, c)
        /\ ShapesAt(c, type) = shape[e]
    BY <1>10, <2>1
  <2> HIDE DEF c
  <2>3. Returns(c, type)
    BY <1>2, <2>1, <2>2, ReturnReturns DEF Types
  <2>4. AreFitting(shape, backend', calls')
    BY <1>2, <1>7, <2>2, <2>3, ShapedReturn
  <2>5. backend' = c
    BY <2>3 DEF Returns
  <2> QED
    BY <2>2, <2>4, <2>5
<1>12. CASE RegisterComposite(b, type)
  <2>1. backend' = Register(b, type) /\ HasName(b, type) /\ b.objects[type].typename \notin DOMAIN b.types
    BY <1>12 DEF RegisterComposite
  <2>2. /\ type \in DOMAIN b.objects /\ type # None /\ shape[e] = {Shape(b.objects[type])}
        /\ backend'.objects = b.objects /\ Grows(backend, backend') /\ AreShaped(shape, backend')
    BY <1>10, <2>1
  <2>3. PICK d : LET c == [die |-> d, types |-> <<>>, composite |-> type]
                 IN  /\ d \in DOMAIN Dies
                     /\ d = e \/ (Dies[e].tag = "typedef" /\ Type(e) = <<d>>)
                     /\ calls' \in Seq(CallsOf(backend')) /\ Replaced(calls, c, calls')
    BY <1>2, <1>3, <1>12, CompositeReplaces
  <2> DEFINE c == [die |-> d, types |-> <<>>, composite |-> type]
  <2>4. c.die = d /\ c.types = <<>> /\ c.composite = type
    OBVIOUS
  <2>5. Replaced(calls, c, calls') /\ calls' \in Seq(CallsOf(backend')) /\ d \in DOMAIN Dies
    BY <2>3
  <2>6. e \in DOMAIN Dies
    BY <1>2 DEF CallsOf
  <2>7. Dies[d].tag = "union_type" => backend'.objects[type].kind = "union"
    <3> SUFFICES ASSUME Dies[d].tag = "union_type" PROVE backend'.objects[type].kind = "union"
      OBVIOUS
    <3>1. Shape(b.objects[type]).kind = "union"
      BY <2>2, <2>3, <2>6, UnionIs
    <3> QED
      BY <2>2, <3>1 DEF Shape
  <2> HIDE DEF c
  <2>8. Fits(shape, backend', c)
    BY <2>4, <2>7 DEF Fits
  <2>9. Answer(shape, backend', c) = shape[e]
    BY <2>2, <2>4 DEF Answer
  <2>10. Answer(shape, backend', calls[1]) = shape[e]
    BY <1>2, <1>7, <2>2, FitsStays
  <2>11. calls \in Seq(CallsOf(backend)) /\ AreFitting(shape, backend', calls)
    BY <1>2, <2>2, FittingStays DEF WellFormed
  <2>12. AreFitting(shape, backend', calls')
    BY <2>5, <2>8, <2>9, <2>10, <2>11, ReplacedFitting
  <2> QED
    BY <2>2, <2>12
<1> QED
  BY <1>4, <1>8, <1>9, <1>11, <1>12

(* Once NULL is registered there is nothing left to read.                  *)
LEMMA LoadedIsRead ==
    ASSUME NEW shape, NamesTell(shape), WellFormed, Shaped(shape), Loaded
    PROVE  ~Pending
<1> SUFFICES ASSUME Pending PROVE FALSE
  OBVIOUS
<1> DEFINE o == backend.objects[backend.types["NULL"]]
<1>1. backend.types["NULL"] \in DOMAIN backend.objects /\ o.typename = "NULL"
  BY DEF Loaded, WellFormed, IsBackend
<1>2. Shape(o) \in Shapes(shape)
  BY <1>1 DEF Shaped, AreShaped, IsShaped
<1>3. Shape(o).typename = "NULL"
  BY <1>1 DEF Shape
<1> QED
  BY <1>2, <1>3 DEF NamesTell

LEMMA ShapedStep ==
    ASSUME NEW shape, IsShaping(shape), NamesTell(shape), IsReadable(shape), WellFormed, Shaped(shape),
           [ElfNext]_elfVars
    PROVE  Shaped(shape)'
<1>1. CASE CreateNull \/ Request
  <2>1. UNCHANGED <<units, entries, calls>> /\ ~Pending
    <3>1. CASE CreateNull
      BY <3>1 DEF CreateNull, Pending
    <3>2. CASE Request
      BY <3>2, LoadedIsRead DEF Request
    <3> QED
      BY <1>1, <3>1, <3>2
  <2>2. ~Pending'
    BY <2>1 DEF Pending
  <2> QED
    BY <2>2 DEF Shaped
<1>2. CASE UNCHANGED elfVars
  BY <1>2 DEF elfVars, Shaped, Pending
<1>3. CASE NextUnit
  <2>1. Pending /\ backend' = backend /\ calls' = calls
    BY <1>3 DEF NextUnit, Pending
  <2> QED
    BY <2>1 DEF Shaped
<1>4. CASE Create
  <2> DEFINE c == Call(Head(entries))
  <2>1. Pending /\ backend' = backend /\ calls' = <<c>> /\ c.types = <<>> /\ c.composite = None
    BY <1>4 DEF Create, Pending, Call
  <2> HIDE DEF c
  <2>2. Fits(shape, backend, c)
    BY <2>1 DEF Fits
  <2>3. AreFitting(shape, backend, calls')
    BY <2>1, <2>2 DEF AreFitting
  <2> QED
    BY <2>1, <2>3 DEF Shaped
<1>5. CASE TypeFromDie
  <2> DEFINE c == calls[1]
             d == Wanted(c)[Len(c.types) + 1]
  <2>1. /\ calls # <<>> /\ Len(c.types) + 1 \in DOMAIN Wanted(c)
        /\ Pushed(calls, Call(d), calls') /\ calls' \in Seq(CallsOf(backend))
    BY <1>5, TypeFromDiePushes
  <2>2. backend' = backend /\ calls \in Seq(CallsOf(backend)) /\ Pending
    BY <1>5, <2>1 DEF TypeFromDie, WellFormed, Pending
  <2>3. AreShaped(shape, backend) /\ AreFitting(shape, backend, calls)
    BY <2>2 DEF Shaped
  <2> DEFINE e == Call(d)
  <2>4. e.die = d /\ e.types = <<>> /\ e.composite = None
    BY DEF Call
  <2> HIDE DEF e
  <2>5. Fits(shape, backend, e)
    BY <2>4 DEF Fits
  <2>6. Awaits(shape, backend, c, e)
    BY <2>1, <2>4 DEF Awaits, Answer
  <2>7. AreFitting(shape, backend, calls')
    <3>1. Pushed(calls, e, calls')
      BY <2>1 DEF e
    <3> HIDE DEF d
    <3> QED
      BY <2>1, <2>2, <2>3, <2>5, <2>6, <3>1, PushedFitting
  <2> QED
    BY <2>2, <2>3, <2>7 DEF Shaped
<1>6. CASE Finish
  BY <1>6, ShapedFinish DEF Shaped
<1>7. CASE CreateMembers
  <2> DEFINE t == calls[1].composite
  <2>1. /\ calls # <<>> /\ t # None /\ Returns(backend', t)
        /\ Updates(backend, backend') /\ t \in DOMAIN backend.objects
    BY <1>7, CreateMembersReturns DEF CreatesMembers
  <2>2. AreShaped(shape, backend) /\ AreFitting(shape, backend, calls)
    BY <2>1 DEF Shaped, Pending
  <2>3. AreShaped(shape, backend')
    BY <2>1, <2>2, ShapedStay DEF WellFormed
  <2>4. Grows(backend, backend')
    BY <2>1 DEF Updates
  <2>5. ShapesAt(backend', t) = Answer(shape, backend, calls[1])
    <3>1. ShapesAt(backend', t) = ShapesAt(backend, t)
      BY <2>1, <2>4, ShapesStay DEF Types
    <3> QED
      BY <2>1, <3>1 DEF ShapesAt, Answer
  <2>6. AreFitting(shape, backend', calls')
    BY <2>1, <2>2, <2>4, <2>5, ShapedReturn
  <2> QED
    BY <2>3, <2>6 DEF Shaped
<1> QED
  BY <1>1, <1>2, <1>3, <1>4, <1>5, <1>6, <1>7 DEF ElfNext

LEMMA ShapedInit == ASSUME NEW shape, ElfInit PROVE Shaped(shape)
<1>1. backend.objects = <<Void>> /\ calls = <<>>
  BY DEF ElfInit
<1>2. \A t \in DOMAIN backend.objects : backend.objects[t] = Void
  BY <1>1
<1>3. IsShaped(shape, Void, backend.objects)
  BY DEF IsShaped, Shapes, Void
<1>4. AreShaped(shape, backend)
  BY <1>2, <1>3 DEF AreShaped
<1>5. AreFitting(shape, backend, calls)
  BY <1>1 DEF AreFitting
<1> QED
  BY <1>4, <1>5 DEF Shaped

(* What fits does not raise.                                               *)
LEMMA ShapedNeverRaises ==
    ASSUME NEW shape, IsShaping(shape), NamesTell(shape), IsReadable(shape), WellFormed, Shaped(shape)
    PROVE  NeverRaises
<1> DEFINE c == calls[1]
           m == FromDie(backend, c)
           objects == m.backend.objects
           name == objects[m.type].typename
<1> SUFFICES ASSUME Ready
             PROVE  IF c.composite # None
                    THEN MembersComplete(backend, c)
                    ELSE /\ Complete(backend, c)
                         /\ HasName(m.backend, m.type) /\ name \in DOMAIN backend.types =>
                               Updatable(objects, backend.types[name], m.type)
  BY HeadFits DEF NeverRaises
<1>1. c \in CallsOf(backend) /\ Fits(shape, backend, c) /\ (c.composite = None => HasTypes(shape, backend, c))
  BY HeadFits
<1>2. CASE c.composite # None
  <2>1. c.die \in DOMAIN Dies
    BY <1>1 DEF CallsOf
  <2>2. SUFFICES ASSUME NEW d \in Range(Members(c))
                 PROVE  Has(d, "name") /\ (backend.objects[c.composite].kind = "union" \/ Has(d, "data_member_location"))
    BY <1>2 DEF MembersComplete
  <2>3. Members(c) = Children(c.die, "member")
    BY DEF Members
  <2>4. d \in Range(Children(c.die, "member")) /\ Children(c.die, "member") # <<>>
    BY <2>2, <2>3 DEF Range
  <2>5. /\ Dies[c.die].tag \in {"structure_type", "union_type"}
        /\ Has(d, "name") /\ (Dies[c.die].tag = "structure_type" => Has(d, "data_member_location"))
    BY <2>1, <2>4 DEF IsReadable
  <2>6. Dies[c.die].tag = "union_type" => backend.objects[c.composite].kind = "union"
    BY <1>1, <1>2 DEF Fits
  <2> QED
    BY <2>5, <2>6
<1>3. CASE c.composite = None
  <2>1. Complete(backend, c)
    BY <1>1, <1>3, CompleteFits
  <2>2. Gives(backend, c, m) /\ AreShaped(shape, m.backend)
    BY <1>1, <1>3, FromDieFits
  <2> HIDE DEF m
  <2>3. Half(m)
    BY <2>2, GivesHalf
  <2>4. ASSUME HasName(m.backend, m.type), name \in DOMAIN backend.types
        PROVE  Updatable(objects, backend.types[name], m.type)
    <3> DEFINE t == backend.types[name]
    <3>1. IsBackend(m.backend) /\ m.backend.types = backend.types /\ m.type \in DOMAIN objects /\ name # "?"
      BY <2>3, <2>4 DEF Half, HasName, Types
    <3>2. t \in DOMAIN objects /\ objects[t].typename = name
      BY <2>4, <3>1 DEF IsBackend
    <3> HIDE DEF t
    <3>3. Updatable(objects, t, m.type)
      BY <2>2, <3>1, <3>2, NameTells
    <3> QED
      BY <3>3 DEF t
  <2> QED
    BY <1>3, <2>1, <2>4
<1> QED
  BY <1>2, <1>3

(* Reading a library never raises, in whatever order its units are linked  *)
(* and whatever a name was met as first: fromdie gets the types it needs,  *)
(* update an object it can complete, and _create_members names and places. *)
(* This takes names that tell (a name is not given to an array here and to *)
(* a variable there, say) and entries of the kinds that the classes know.  *)
THEOREM LoadingNeverRaises ==
    ASSUME NEW shape, IsShaping(shape), NamesTell(shape), IsReadable(shape)
    PROVE  ElfSpec => []NeverRaises
<1>1. ElfInit => WellFormed /\ Shaped(shape)
  BY WellFormedInit, ShapedInit
<1>2. WellFormed /\ Shaped(shape) /\ [ElfNext]_elfVars => (WellFormed /\ Shaped(shape))'
  BY WellFormedStep, ShapedStep
<1>3. WellFormed /\ Shaped(shape) => NeverRaises
  BY ShapedNeverRaises
<1> QED
  BY <1>1, <1>2, <1>3, PTL DEF ElfSpec

=============================================================================
