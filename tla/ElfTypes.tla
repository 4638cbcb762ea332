------------------------------ MODULE ElfTypes ------------------------------
(***************************************************************************)
(* ElfBackend and the CType classes (pyroxene/elfbackend.py): what a test  *)
(* knows of the library, gathered from the debugging information entries   *)
(* (DIEs) of its compilation units, one by one, and in whatever order the  *)
(* units have been linked.  A name that is met again keeps its object,     *)
(* which a few classes complete with what the new entry says.              *)
(*                                                                         *)
(* type_from_die calls itself for the types an entry refers to.  The calls *)
(* that have not returned are in "calls", the innermost first.  Where the  *)
(* code raises no step is possible: there is no backend then.              *)
(*                                                                         *)
(* pyelftools, which decodes the file, is external.  Not modelled are      *)
(* locations that are no address, and that an array gets its bound through *)
(* a typedef of a typedef.                                                 *)
(***************************************************************************)
EXTENDS Integers, FiniteSets, SequencesExt, TLC

CONSTANTS
    Dies,           \* the DIEs, records of attributes and of children by tag: a function from offsets
    Units,          \* the compilation units the filter lets pass: sequences of DIEs
    Segments,       \* the PT_LOAD segments: a sequence of [vaddr, data]
    SizeofVoidp,
    Requests,       \* declarations a test gives to lib.new
    None

(* A DIE and what it refers to, as DWARF has it; NULL is no name in C.     *)
IsDie(die) ==
    /\ "name" \in DOMAIN die => die.name \in STRING \ {"NULL"}
    /\ "data_member_location" \in DOMAIN die => die.data_member_location \in Nat
    /\ \A attribute \in {"type", "specification", "abstract_origin"} \cap DOMAIN die :
          die[attribute] \in DOMAIN Dies
    /\ \A tag \in {"member", "formal_parameter", "enumerator", "subrange_type"} \cap DOMAIN die :
          die[tag] \in Seq({d \in DOMAIN Dies : Dies[d].tag = tag})
    /\ "type" \in DOMAIN die => Dies[die.type].tag # "variable"
    /\ "location" \in DOMAIN die => die.location \in Nat
    /\ die.tag = "member" => "type" \in DOMAIN die
    /\ die.tag = "formal_parameter" => "type" \in DOMAIN die \/ "abstract_origin" \in DOMAIN die
    /\ die.tag = "variable" =>
          "type" \in DOMAIN IF "specification" \in DOMAIN die THEN Dies[die.specification] ELSE die

ASSUME ElfTypesAssumption ==
    /\ \A die \in Range(Dies) : IsDie(die)
    /\ Units \subseteq Seq(DOMAIN Dies)
    /\ SizeofVoidp \in Nat \ {0}
    /\ \A decl \in Requests : decl.is \in {"name", "pointer", "array"}
    /\ None \notin Nat

VARIABLES
    backend,    \* the CType objects in the order they are made, types and enums
    units,      \* units not read yet
    entries,    \* DIEs of the current unit not read yet
    calls       \* of type_from_die, the innermost first: [die, types, composite]

elfVars == <<backend, units, entries, calls>>

-----------------------------------------------------------------------------
(* The attributes of a DIE.                                                *)
Has(d, attribute) == attribute \in DOMAIN Dies[d]

Children(d, tag) == IF Has(d, tag) THEN Dies[d][tag] ELSE <<>>

(* CType.fromdie_cls                                                       *)
Typename(d) == IF Has(d, "name") THEN Dies[d].name ELSE "?"
ByteSize(d) == IF Has(d, "byte_size") THEN Dies[d].byte_size ELSE -1

loc2addr(d) == IF Has(d, "location") THEN Dies[d].location ELSE None

(* ElfBackend.read_memory: a constant in no segment (.bss) has no data.    *)
read_memory(location, size) ==
    LET Within(s) == s.vaddr <= location /\ location + size <= s.vaddr + Len(s.data)
        found == SelectSeq(Segments, Within)
    IN  IF found = <<>>
        THEN None
        ELSE SubSeq(found[1].data, location - found[1].vaddr + 1, location - found[1].vaddr + size)

-----------------------------------------------------------------------------
(* The constructors of the CType classes.  A field is an attribute of the  *)
(* object; "typedef" tells the CTypeTypedef classes, whose base is the     *)
(* type they rename.                                                       *)
Void == [kind |-> "none", typename |-> "void", size |-> 0, typedef |-> FALSE]

BaseType(typename, size, encoding) ==
    [kind |-> IF encoding = "float" THEN "float" ELSE "int", typename |-> typename, size |-> size,
     signed |-> encoding = "signed", typedef |-> FALSE]

Enumeration(typename, size) ==
    [kind |-> "int", typename |-> typename, size |-> size, typedef |-> FALSE]

Pointer(typename, size, base, b) ==
    [kind |-> "pointer", size |-> size, base |-> base, typedef |-> FALSE,
     typename |-> IF b.objects[base].typename # "?" THEN b.objects[base].typename \o " *" ELSE typename]

Array(base, length, b) ==
    LET element == b.objects[base]
    IN  [kind |-> "array", base |-> base, length |-> length, typedef |-> FALSE,
         typename |-> element.typename \o " [" \o ToString(length) \o "]",
         size |-> IF length = -1 \/ element.size = -1 THEN -1 ELSE length * element.size]

(* Defect: tags are names like any other.                                  *)
CompositeUnprefixed(kind, typename, size) ==
    [kind |-> kind, size |-> size, members |-> None, typedef |-> FALSE, typename |-> typename]

(* Structs and unions; members is set later.                               *)
Composite(kind, typename, size) ==
    [kind |-> kind, size |-> size, members |-> None, typedef |-> FALSE,
     typename |-> IF typename # "?" THEN kind \o " " \o typename ELSE typename]

Typedef(typename, base, b) ==
    LET of == b.objects[base]
    IN  [kind |-> of.kind, typename |-> typename, size |-> of.size, base |-> base, members |-> None,
         signed |-> "signed" \in DOMAIN of /\ of.signed, typedef |-> TRUE]

Variable(typename, type, address, data, b) ==
    [kind |-> "variable", typename |-> typename, size |-> b.objects[type].size, type |-> type,
     address |-> address, data |-> data, typedef |-> FALSE]

Function(typename, size, address, return_type, arguments) ==
    [kind |-> "function", typename |-> typename, size |-> size, address |-> address,
     return_type |-> return_type, arguments |-> arguments, typedef |-> FALSE]

(* What making a type gives: the backend afterwards, and the type.         *)
Made(b, type) == [backend |-> b, type |-> type]
New(b, object) == Made([b EXCEPT !.objects = Append(@, object)], Len(b.objects) + 1)

-----------------------------------------------------------------------------
(* CTypeArray.update, CTypeTypedefArray.update and CTypeVariable.update.   *)
ArrayUpdate(self, other) ==
    IF self.length = -1 /\ other.length # -1
    THEN [self EXCEPT !.length = other.length, !.size = other.size]
    ELSE self

(* Defect: a declaration takes the address away again.                     *)
VariableUpdateAlways(self, other) ==
    [self EXCEPT !.address = other.address, !.type = other.type, !.data = other.data, !.size = other.size]

(* Defect: an unknown size stays unknown.                                  *)
VariableUpdateAddress(self, other) ==
    IF self.address = None
    THEN [self EXCEPT !.address = other.address, !.type = other.type, !.data = other.data]
    ELSE self

(* Defect: a declaration that has a size is complete.                      *)
VariableUpdateSize(self, other) ==
    IF self.size = -1
    THEN [self EXCEPT !.address = other.address, !.type = other.type, !.data = other.data, !.size = other.size]
    ELSE self

VariableUpdate(self, other) ==
    LET located == IF self.address = None
                   THEN [self EXCEPT !.address = other.address, !.type = other.type, !.data = other.data]
                   ELSE self
    IN  IF located.size = -1
        THEN [located EXCEPT !.size = other.size, !.type = other.type, !.data = other.data]
        ELSE located

(* The objects after types[name].update(other), if its class has one.      *)
Updated(objects, t, other) ==
    LET self == objects[t]
    IN  CASE self.kind = "variable" ->
               [objects EXCEPT ![t] = VariableUpdate(self, objects[other])]
          [] self.kind = "array" /\ ~self.typedef ->
               [objects EXCEPT ![t] = ArrayUpdate(self, objects[other])]
          [] self.kind = "array" /\ self.typedef /\ self.size = -1 ->
               [objects EXCEPT ![t].size = objects[other].size,
                               ![self.base] = ArrayUpdate(@, objects[objects[other].base])]
          [] OTHER -> objects

(* update raises unless the other object has what it needs.                *)
Updatable(objects, t, other) ==
    LET self == objects[t]
        new == objects[other]
    IN  /\ self.kind = "variable" /\ (self.address = None \/ self.size = -1) => new.kind = "variable"
        /\ self.kind = "array" /\ ~self.typedef =>
              new.kind = "array" /\ (self.length = -1 => ~new.typedef)
        /\ self.kind = "array" /\ self.typedef =>
              /\ new.kind = "array" /\ new.typedef
              /\ self.size = -1 => ~objects[self.base].typedef /\ ~objects[new.base].typedef

-----------------------------------------------------------------------------
(* A call of type_from_die: the DIE it is given, what the calls it has     *)
(* made returned, and the struct or union of which it makes the members.   *)
Call(d) == [die |-> d, types |-> <<>>, composite |-> None]

Type(d) == IF Has(d, "type") THEN <<Dies[d].type>> ELSE <<>>

(* A variable may be defined apart from the declaration it specifies.      *)
Declaration(d) == IF Has(d, "specification") THEN Dies[d].specification ELSE d

IsConst(d) == Dies[Dies[Declaration(d)].type].tag = "const_type"

VariableType(d) ==
    IF IsConst(d) THEN Type(Dies[Declaration(d)].type) ELSE Type(Declaration(d))

(* The type of a function behind a pointer is none; its result stands for  *)
(* it.                                                                     *)
PointedTo(c) ==
    IF Has(c.die, "type") /\ c.types # <<>> /\ c.types[1] = None
    THEN Type(c.die) \o Type(Dies[c.die].type)
    ELSE Type(c.die)

(* The types of a function may be those of the inlined one.                *)
BaseDie(d) == IF Has(d, "abstract_origin") THEN Dies[d].abstract_origin ELSE d

(* A parameter without a type has its origin.                              *)
Arguments(d) ==
    LET parameters == Children(BaseDie(d), "formal_parameter")
    IN  [k \in DOMAIN parameters |->
            IF Has(parameters[k], "type")
            THEN Dies[parameters[k]].type
            ELSE Dies[parameters[k]].abstract_origin]

Members(c) == Children(c.die, "member")

(* The DIEs of which a call makes the types, one by one.                   *)
Wanted(c) ==
    LET tag == Dies[c.die].tag
    IN  IF c.composite # None
        THEN [k \in DOMAIN Members(c) |-> Dies[Members(c)[k]].type]
        ELSE CASE tag \in {"typedef", "array_type", "const_type", "volatile_type"} -> Type(c.die)
               [] tag = "pointer_type" -> PointedTo(c)
               [] tag = "variable" -> VariableType(c.die)
               [] tag = "subprogram" /\ Has(c.die, "low_pc") -> Type(BaseDie(c.die)) \o Arguments(c.die)
               [] OTHER -> <<>>

-----------------------------------------------------------------------------
(* The fromdie of a class, when the types it takes have been made.         *)
BaseTypeFromDie(b, d) == New(b, BaseType(Typename(d), ByteSize(d), Dies[d].encoding))

TypedefFromDie(b, c) ==
    IF Has(c.die, "type")
    THEN New(b, Typedef(Typename(c.die), c.types[1], b))
    ELSE Made(b, None)

PointerFromDie(b, c) ==
    LET base == IF c.types = <<>> \/ Last(c.types) = None THEN b.types["void"] ELSE Last(c.types)
    IN  New(b, IF Has(c.die, "type")
               THEN Pointer(Typename(c.die), ByteSize(c.die), base, b)
               ELSE Pointer("void *", 0, base, b))

(* The first dimension that has a bound.                                   *)
Length(d) ==
    LET bounded == SelectSeq(Children(d, "subrange_type"), LAMBDA c : Has(c, "upper_bound"))
    IN  IF bounded = <<>> THEN -1 ELSE Dies[bounded[1]].upper_bound + 1

(* Enumerators are constants of the backend, whatever the type's name.     *)
EnumerationFromDie(b, d) ==
    LET named == Children(d, "enumerator")
        values == [n \in {Dies[c].name : c \in Range(named)} |->
                      Dies[CHOOSE c \in Range(named) : Dies[c].name = n].const_value]
    IN  New([b EXCEPT !.enums = values @@ @], Enumeration(Typename(d), ByteSize(d)))

(* The location is that of the definition; everything else, constness      *)
(* included, is taken from the declaration it specifies, if there is one.  *)
VariableFromDie(b, c) ==
    LET location == loc2addr(c.die)
        data == IF location # None /\ IsConst(c.die)
                THEN read_memory(location, b.objects[c.types[1]].size)
                ELSE None
    IN  New(b, Variable(Typename(Declaration(c.die)), c.types[1], location, data, b))

(* The name is that of the entry with the code.                            *)
FunctionFromDie(b, c) ==
    LET returns == Has(BaseDie(c.die), "type")
    IN  IF Has(c.die, "low_pc")
        THEN New(b, Function(Typename(c.die), ByteSize(c.die), Dies[c.die].low_pc,
                             IF returns THEN c.types[1] ELSE None,
                             IF returns THEN Tail(c.types) ELSE c.types))
        ELSE Made(b, None)

FromDie(b, c) ==
    LET d == c.die
        tag == Dies[d].tag
    IN  CASE tag = "base_type" -> BaseTypeFromDie(b, d)
          [] tag = "typedef" -> TypedefFromDie(b, c)
          [] tag = "structure_type" -> New(b, Composite("struct", Typename(d), ByteSize(d)))
          [] tag = "union_type" -> New(b, Composite("union", Typename(d), ByteSize(d)))
          [] tag = "pointer_type" -> PointerFromDie(b, c)
          [] tag = "array_type" -> New(b, Array(c.types[1], Length(d), b))
          [] tag = "variable" -> VariableFromDie(b, c)
          [] tag = "subprogram" -> FunctionFromDie(b, c)
          [] tag = "enumeration_type" -> EnumerationFromDie(b, d)
          [] tag = "const_type" -> Made(b, IF c.types = <<>> THEN b.types["void"] ELSE c.types[1])
          [] tag = "volatile_type" -> Made(b, c.types[1])
          [] OTHER -> Made(b, None)

(* fromdie raises otherwise: there is no array, variable or typedef of     *)
(* nothing, and no typedef of a float.                                     *)
Complete(b, c) ==
    LET tag == Dies[c.die].tag
    IN  /\ tag = "base_type" => Dies[c.die].encoding \in {"signed", "unsigned", "float"}
        /\ tag \in {"array_type", "variable"} => c.types # <<>> /\ c.types[1] # None
        /\ tag = "volatile_type" => c.types # <<>>
        /\ tag = "typedef" /\ Has(c.die, "type") =>
              /\ c.types # <<>> /\ c.types[1] # None
              /\ b.objects[c.types[1]].kind \in {"int", "struct", "pointer", "array", "union"}

(* Defect: a struct or union has no name before it has its members.        *)
RegisterLate(b, t) ==
    IF b.objects[t].kind \in {"struct", "union"} THEN b ELSE [b EXCEPT !.types = @ @@ b.objects[t].typename :> t]

(* The end of type_from_die and type_from_string: a new name.              *)
Register(b, t) ==
    [b EXCEPT !.types = [name \in DOMAIN @ \cup {b.objects[t].typename} |->
                            IF name \in DOMAIN @ THEN @[name] ELSE t]]

(* type_from_string of "T", "T *" and "T [n]", where T is known.           *)
TypeFromString(b, decl) ==
    LET base == b.types[decl.base]
        made == CASE decl.is = "name" -> Made(b, base)
                  [] decl.is = "pointer" -> New(b, Pointer("?", SizeofVoidp, base, b))
                  [] decl.is = "array" -> New(b, Array(base, decl.length, b))
        name == made.backend.objects[made.type].typename
    IN  IF name \in DOMAIN b.types
        THEN Made(b, b.types[name])
        ELSE Made(Register(made.backend, made.type), made.type)

-----------------------------------------------------------------------------
(* ElfBackend.__init__                                                     *)
ElfInit ==
    /\ backend = [objects |-> <<Void>>, types |-> [void |-> 1], enums |-> <<>>]
    /\ units = Units
    /\ entries = <<>>
    /\ calls = <<>>

Loaded == "NULL" \in DOMAIN backend.types

(* _create: the next unit, and the DIEs of depth 1 in it.                  *)
NextUnit ==
    /\ entries = <<>> /\ calls = <<>>
    /\ \E u \in units : entries' = u /\ units' = units \ {u}
    /\ UNCHANGED <<backend, calls>>

Create ==
    /\ entries # <<>> /\ calls = <<>>
    /\ calls' = <<Call(Head(entries))>>
    /\ entries' = Tail(entries)
    /\ UNCHANGED <<backend, units>>

(* type_from_die is called for the next type that the innermost call wants.*)
TypeFromDie ==
    /\ calls # <<>>
    /\ LET c == Head(calls)
       IN  /\ Len(c.types) < Len(Wanted(c))
           /\ calls' = <<Call(Wanted(c)[Len(c.types) + 1])>> \o calls
    /\ UNCHANGED <<backend, units, entries>>

(* The innermost call returns a type to the one before.                    *)
Return(b, type) ==
    /\ backend' = b
    /\ calls' = IF Len(calls) = 1
                THEN <<>>
                ELSE <<[calls[2] EXCEPT !.types = Append(@, type)]>> \o Tail(Tail(calls))
    /\ UNCHANGED <<units, entries>>

(* The innermost call has all the types it wants.                          *)
Ready == calls # <<>> /\ Len(Head(calls).types) >= Len(Wanted(Head(calls)))

HasName(b, type) == type # None /\ b.objects[type].typename # "?"

(* What has no name is not registered.                                     *)
ReturnNameless(b, type) ==
    /\ ~HasName(b, type)
    /\ Return(b, type)

(* A name that is known keeps its object.                                  *)
ReturnKnown(b, type) ==
    /\ HasName(b, type)
    /\ LET name == b.objects[type].typename
       IN  /\ name \in DOMAIN b.types
           /\ Updatable(b.objects, b.types[name], type)
           /\ Return([b EXCEPT !.objects = Updated(@, b.types[name], type)], b.types[name])

(* Defect: unions get no members.                                          *)
IsCompositeStruct(object) == object.kind = "struct"

IsComposite(object) == object.kind \in {"struct", "union"}

ReturnNew(b, type) ==
    /\ HasName(b, type)
    /\ b.objects[type].typename \notin DOMAIN b.types
    /\ ~IsComposite(b.objects[type])
    /\ Return(Register(b, type), type)

(* A composite is registered before its members are made, which may refer  *)
(* to it; those of a typedef are those of the DIE it renames.              *)
RegisterComposite(b, type) ==
    /\ HasName(b, type)
    /\ b.objects[type].typename \notin DOMAIN b.types
    /\ IsComposite(b.objects[type])
    /\ backend' = Register(b, type)
    /\ LET d == Head(calls).die
       IN  calls' = <<[die |-> IF b.objects[type].typedef THEN Dies[d].type ELSE d,
                       types |-> <<>>,
                       composite |-> type]>> \o Tail(calls)
    /\ UNCHANGED <<units, entries>>

(* The end of type_from_die, with what fromdie makes of the types.         *)
Finish ==
    /\ Ready /\ Head(calls).composite = None /\ Complete(backend, Head(calls))
    /\ \E made \in {FromDie(backend, Head(calls))} :
          \/ ReturnNameless(made.backend, made.type)
          \/ ReturnKnown(made.backend, made.type)
          \/ ReturnNew(made.backend, made.type)
          \/ RegisterComposite(made.backend, made.type)

(* _create_members raises otherwise: members have a name and, those of     *)
(* structs, a place in bytes.                                              *)
MembersComplete(b, c) ==
    \A d \in Range(Members(c)) :
        Has(d, "name") /\ (b.objects[c.composite].kind = "union" \/ Has(d, "data_member_location"))

(* The end of _create_members.                                             *)
CreateMembers ==
    /\ Ready /\ Head(calls).composite # None /\ MembersComplete(backend, Head(calls))
    /\ LET c == Head(calls)
           t == c.composite
           isunion == backend.objects[t].kind = "union"
           Member(k) ==
               LET d == Members(c)[k]
               IN  [name |-> Dies[d].name, type |-> c.types[k],
                    offset |-> IF isunion THEN 0 ELSE Dies[d].data_member_location]
       IN  Return([backend EXCEPT !.objects[t].members = [k \in DOMAIN Members(c) |-> Member(k)]], t)

(* The end of __init__: types["NULL"].                                     *)
CreateNull ==
    /\ units = {} /\ entries = <<>> /\ calls = <<>> /\ ~Loaded
    /\ LET voidp == TypeFromString(backend, [is |-> "pointer", base |-> "void"])
           null == New(voidp.backend, Variable("NULL", voidp.type, 0, None, voidp.backend))
       IN  backend' = Register(null.backend, null.type)
    /\ UNCHANGED <<units, entries, calls>>

(* A test names a type: lib.new(decl).                                     *)
Request ==
    /\ Loaded /\ calls = <<>>
    /\ \E decl \in Requests :
          /\ decl.base \in DOMAIN backend.types
          /\ backend' = TypeFromString(backend, decl).backend
    /\ UNCHANGED <<units, entries, calls>>

ElfNext ==
    \/ NextUnit \/ Create \/ TypeFromDie \/ Finish \/ CreateMembers
    \/ CreateNull \/ Request

ElfSpec == ElfInit /\ [][ElfNext]_elfVars

-----------------------------------------------------------------------------
(* The DIEs of types; a typedef of nothing stands for void.                *)
TypeTags ==
    {"base_type", "structure_type", "union_type", "pointer_type", "array_type", "enumeration_type",
     "typedef", "const_type", "volatile_type"}

IsType(d) == Dies[d].tag \in TypeTags /\ (Dies[d].tag = "typedef" => Has(d, "type"))

(* Types of members, and those that are const or volatile, are kinds of    *)
(* types that type_from_die knows: there is none that is restrict.         *)
MemberTypesKnown ==
    \A d \in DOMAIN Dies :
        Dies[d].tag \in {"member", "const_type", "volatile_type"} /\ Has(d, "type") => IsType(Dies[d].type)

(* A name is registered once, with the object that has it, what a type     *)
(* refers to has been made, and so have the members of a registered struct *)
(* or union, unless they are being made (type_from_die).                   *)
ElfTypeOK ==
    /\ \A name \in DOMAIN backend.types :
          LET t == backend.types[name]
              object == backend.objects[t]
          IN  /\ t \in DOMAIN backend.objects
              /\ object.typename = name
              /\ object.kind \in {"pointer", "array"} => object.base \in DOMAIN backend.objects
              /\ object.kind \in {"struct", "union"} =>
                    \/ \E c \in Range(calls) : c.composite = t
                    \/ object.members \in Seq([name : STRING, type : DOMAIN backend.objects, offset : Nat])
    /\ units \subseteq Units
    /\ entries \in Seq(DOMAIN Dies)

(* The entries that type_from_die is called for from one that is no member *)
(* list: what PointedTo takes depends on what the first type has become.   *)
RefersTo(d) == UNION {Range(Wanted([Call(d) EXCEPT !.types = types])) : types \in {<<>>, <<None>>}}

(* Entries refer to each other in circles through members only, as in C: a *)
(* pointer, array, qualified type, typedef, variable or function is deeper *)
(* than what it is made of.                                                *)
IsNesting(depth) == \A d \in DOMAIN Dies : \A e \in RefersTo(d) : depth[e] < depth[d]

(* The recursion of type_from_die ends, although structs and unions refer  *)
(* to themselves: it comes back to an entry only through the members of a  *)
(* struct or union, and never makes the members of one while it makes      *)
(* those of another of its name, so that there are no more open calls for  *)
(* members than names (the name is registered before _create_members).     *)
RecursionEnds ==
    \A j, k \in DOMAIN calls : j < k =>
        /\ calls[j].die = calls[k].die => \E m \in j + 1 .. k : calls[m].composite # None
        /\ calls[j].composite # None /\ calls[k].composite # None =>
              backend.objects[calls[j].composite].typename # backend.objects[calls[k].composite].typename

(* What C names tell of a type: its class, as far as the classes ask for   *)
(* it, and its name.  Only arrays care whether they are a typedef.         *)
Shape(object) ==
    [kind |-> object.kind, typename |-> object.typename,
     typedef |-> object.kind = "array" /\ object.typedef]

Plain(kind, typename) == {[kind |-> kind, typename |-> typename, typedef |-> FALSE]}

Tagged(kind, d) == Plain(kind, IF Typename(d) # "?" THEN kind \o " " \o Typename(d) ELSE "?")

(* The shapes, one at most, of the type of an entry, of what a pointer     *)
(* points to, and of an entry itself, given those of the entries.          *)
TypeShape(shape, d) == IF Has(d, "type") THEN shape[Dies[d].type] ELSE {}

PointedShape(shape, d) ==
    LET pointed == TypeShape(shape, d)
        result == IF Has(d, "type") THEN TypeShape(shape, Dies[d].type) ELSE {}
    IN  IF pointed # {} THEN pointed ELSE IF result # {} THEN result ELSE {Shape(Void)}

ShapeOf(shape, d) ==
    LET die == Dies[d]
        tag == die.tag
    IN  CASE tag = "base_type" -> Plain(IF die.encoding = "float" THEN "float" ELSE "int", Typename(d))
          [] tag = "enumeration_type" -> Plain("int", Typename(d))
          [] tag = "structure_type" -> Tagged("struct", d)
          [] tag = "union_type" -> Tagged("union", d)
          [] tag = "pointer_type" ->
               {[kind |-> "pointer", typename |-> IF s.typename # "?" THEN s.typename \o " *" ELSE Typename(d),
                 typedef |-> FALSE] :
                    s \in PointedShape(shape, d)}
          [] tag = "array_type" ->
               {[kind |-> "array", typename |-> s.typename \o " [" \o ToString(Length(d)) \o "]",
                 typedef |-> FALSE] :
                    s \in TypeShape(shape, d)}
          [] tag = "typedef" ->
               {[kind |-> s.kind, typename |-> Typename(d), typedef |-> s.kind = "array"] :
                    s \in TypeShape(shape, d)}
          [] tag = "variable" -> Plain("variable", Typename(Declaration(d)))
          [] tag = "subprogram" /\ Has(d, "low_pc") -> Plain("function", Typename(d))
          [] tag = "const_type" /\ ~Has(d, "type") -> {Shape(Void)}
          [] tag \in {"const_type", "volatile_type"} /\ Has(d, "type") -> TypeShape(shape, d)
          [] OTHER -> {}

IsShaping(shape) == \A d \in DOMAIN Dies : shape[d] = ShapeOf(shape, d)

Shapes(shape) == {Shape(Void)} \cup UNION {shape[d] : d \in DOMAIN Dies}

(* A name is one thing throughout the library, and NULL is none.           *)
NamesTell(shape) ==
    /\ \A s, t \in Shapes(shape) : s.typename = t.typename /\ s.typename # "?" => s = t
    /\ \A s \in Shapes(shape) : s.typename # "NULL"

(* Debugging information that the classes can read.  It has no complex     *)
(* numbers, no volatile void, no variables that are restrict, no typedef   *)
(* of a float, a function or another typedef of an array, no anonymous     *)
(* members and no bit fields.                                              *)
IsReadable(shape) ==
    \A d \in DOMAIN Dies :
        LET tag == Dies[d].tag
            members == Children(d, "member")
        IN  /\ tag = "base_type" => Dies[d].encoding \in {"signed", "unsigned", "float"}
            /\ tag = "volatile_type" => Has(d, "type")
            /\ tag = "array_type" => TypeShape(shape, d) # {}
            /\ tag = "variable" => VariableType(d) # <<>> /\ shape[VariableType(d)[1]] # {}
            /\ tag = "typedef" /\ Has(d, "type") =>
                  /\ TypeShape(shape, d) # {}
                  /\ \A s \in TypeShape(shape, d) :
                        s.kind \in {"int", "struct", "pointer", "array", "union"} /\ ~s.typedef
            /\ members # <<>> => tag \in {"structure_type", "union_type"}
            /\ \A e \in Range(members) :
                  Has(e, "name") /\ (tag = "structure_type" => Has(e, "data_member_location"))

(* type_from_die never raises: whatever has been read before, the classes  *)
(* get what they need from the calls they made, and a name that is met     *)
(* again is one that update can handle (fromdie, update, _create_members). *)
NeverRaises ==
    Ready =>
        LET c == Head(calls)
        IN  IF c.composite # None
            THEN MembersComplete(backend, c)
            ELSE /\ Complete(backend, c)
                 /\ \A made \in {FromDie(backend, c)} :
                       LET name == made.backend.objects[made.type].typename
                       IN  HasName(made.backend, made.type) /\ name \in DOMAIN backend.types =>
                               Updatable(made.backend.objects, backend.types[name], made.type)

(* The entries that have been read to their end.                           *)
Read ==
    (UNION {Range(u) : u \in Units \ units})
        \ (Range(entries) \cup {c.die : c \in Range(calls)})

(* Where variables of a name are defined.                                  *)
Locations ==
    LET defined == {d \in DOMAIN Dies : Dies[d].tag = "variable" /\ Has(d, "location")}
    IN  [name \in {Typename(Declaration(d)) : d \in defined} |->
            {Dies[d].location : d \in {e \in defined : Typename(Declaration(e)) = name}}]

(* In whatever order declarations and definitions are met, a variable that *)
(* has been read is registered, and has an address once a definition of it *)
(* has been read, the address of one that has its name (VariableFromDie,   *)
(* CTypeVariable.update).                                                  *)
VariablesAreLocated ==
    \A d \in {e \in Read : Dies[e].tag = "variable" /\ Typename(Declaration(e)) # "?"} :
        LET name == Typename(Declaration(d))
            object == backend.objects[backend.types[name]]
        IN  /\ name \in DOMAIN backend.types
            /\ object.kind = "variable" /\ Has(d, "location") => object.address \in Locations[name]

(* What is known stays known: later declarations and requests take no name *)
(* away, move nothing and forget no size (the update methods).             *)
KnownStaysKnown ==
    [][\A name \in DOMAIN backend.types :
          LET before == backend.objects[backend.types[name]]
              after == backend'.objects[backend'.types[name]]
          IN  /\ backend'.types[name] = backend.types[name]
              /\ before.kind \in {"variable", "function"} /\ before.address # None =>
                    after.address = before.address
              /\ before.size # -1 => after.size = before.size]_elfVars

=============================================================================
