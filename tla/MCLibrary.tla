----------------------------- MODULE MCLibrary -----------------------------
(***************************************************************************)
(* An instance of Library for TLC.  lib.h, which first.c and lib.c         *)
(* include:                                                                *)
(*     struct node { int value; struct node *next; union word *word; };    *)
(*     union word { int i; unsigned char c[4]; struct node *owner; };      *)
(*     typedef struct node node_t;                                         *)
(*     typedef struct { long long a; int b; } big_t;                       *)
(*     enum mode { OFF, ON = 5 };                                          *)
(*     extern node_t head; extern int table[], counter;                    *)
(*     int addition(int a, int b);                                         *)
(*     inline int twice(int x) ...   inline big_t make(int x) ...          *)
(*     inline void reset(void) ...   void helper(int) ...                  *)
(* and the macros below.  data.c, which does not, defines table, counter   *)
(* and port, and declares word, a variable that lib.c defines.  The DIEs   *)
(* are laid out as gcc does.                                               *)
(***************************************************************************)
EXTENDS Library

Base(name, size, encoding) ==
    [tag |-> "base_type", name |-> name, byte_size |-> size, encoding |-> encoding]
PointerDie(d) == [tag |-> "pointer_type", byte_size |-> 8, type |-> d]
ArrayDie(d, bound) == [tag |-> "array_type", type |-> d, subrange_type |-> <<bound>>]
Bound(n) == [tag |-> "subrange_type", upper_bound |-> n - 1]
MemberDie(name, d, offset) ==
    [tag |-> "member", name |-> name, type |-> d, data_member_location |-> offset]
Declared(name, d) == [tag |-> "variable", name |-> name, type |-> d]
Located(name, d, address) == [tag |-> "variable", name |-> name, type |-> d, location |-> address]
Parameter(name, d) == [tag |-> "formal_parameter", name |-> name, type |-> d]
Code(name, d, address, parameters) ==
    [tag |-> "subprogram", name |-> name, type |-> d, low_pc |-> address, formal_parameter |-> parameters]

(* What lib.h puts into a unit u that uses the list.                       *)
Header(u) ==
    u \o "node" :> [tag |-> "structure_type", name |-> "node", byte_size |-> 24,
                    member |-> <<u \o "value", u \o "next", u \o "word m">>]
    @@ u \o "value" :> MemberDie("value", u \o "int", 0)
    @@ u \o "next" :> MemberDie("next", u \o "node*", 8)
    @@ u \o "word m" :> MemberDie("word", u \o "word*", 16)
    @@ u \o "int" :> Base("int", 4, "signed")
    @@ u \o "node*" :> PointerDie(u \o "node") @@ u \o "word*" :> PointerDie(u \o "word")
    @@ u \o "word" :> [tag |-> "union_type", name |-> "word", byte_size |-> 8,
                       member |-> <<u \o "i", u \o "c", u \o "owner">>]
    @@ u \o "i" :> [tag |-> "member", name |-> "i", type |-> u \o "int"]
    @@ u \o "c" :> [tag |-> "member", name |-> "c", type |-> u \o "uchar[4]"]
    @@ u \o "owner" :> [tag |-> "member", name |-> "owner", type |-> u \o "node*"]
    @@ u \o "uchar[4]" :> ArrayDie(u \o "uchar", u \o "bound4") @@ u \o "bound4" :> Bound(4)
    @@ u \o "uchar" :> Base("unsigned char", 1, "unsigned")
    @@ u \o "node_t" :> [tag |-> "typedef", name |-> "node_t", type |-> u \o "node"]
    @@ u \o "head" :> Declared("head", u \o "node_t")

First ==
    Header("A ")
    @@ "A int[]" :> ArrayDie("A int", "A bound") @@ "A bound" :> [tag |-> "subrange_type"]
    @@ "A table" :> Declared("table", "A int[]")
    @@ "A counter" :> Declared("counter", "A int")
    @@ "A node_t*" :> PointerDie("A node_t")
    @@ "first" :> Code("first", "A int", 10, <<"n">>) @@ "n" :> Parameter("n", "A node_t*")

FirstUnit == <<"A node", "A int", "A node*", "A word", "A word*", "A uchar[4]", "A uchar",
               "A node_t", "A head", "A int[]", "A table",
               "A counter", "first", "A node_t*">>

Lib ==
    Header("B ")
    @@ "mode" :> [tag |-> "enumeration_type", name |-> "mode", byte_size |-> 4,
                  enumerator |-> <<"OFF", "ON">>]
    @@ "OFF" :> [tag |-> "enumerator", name |-> "OFF", const_value |-> 0]
    @@ "ON" :> [tag |-> "enumerator", name |-> "ON", const_value |-> 5]
    @@ "B const" :> [tag |-> "const_type", type |-> "B uchar"]
    @@ "B head2" :> [tag |-> "variable", specification |-> "B head", location |-> 100]
    @@ "B const[2]" :> ArrayDie("B const", "B bound2") @@ "B bound2" :> Bound(2)
    @@ "B const const[2]" :> [tag |-> "const_type", type |-> "B const[2]"]
    @@ "limits" :> Located("limits", "B const const[2]", 300)
    @@ "B word v" :> Located("word", "B int", 212)
    @@ "current" :> Code("current", "mode", 20, <<"w">>) @@ "w" :> Parameter("w", "B word*")
    @@ "addition" :> Code("addition", "B int", 30, <<"a", "b">>)
    @@ "a" :> Parameter("a", "B int") @@ "b" :> Parameter("b", "B int")

LibUnit == <<"B node", "B int", "B node*", "B word", "B word*", "B uchar[4]", "B uchar", "B node_t",
             "mode", "B const", "B head", "B head2", "B const[2]", "B const const[2]", "limits",
             "B word v", "current", "addition">>

Data ==
    "C int" :> Base("int", 4, "signed") @@ "C int[3]" :> ArrayDie("C int", "C bound") @@ "C bound" :> Bound(3)
    @@ "C uchar" :> Base("unsigned char", 1, "unsigned")
    @@ "C const" :> [tag |-> "const_type", type |-> "C uchar"]
    @@ "C volatile" :> [tag |-> "volatile_type", type |-> "C const"]
    @@ "C volatile*" :> PointerDie("C volatile")
    @@ "table" :> Located("table", "C int[3]", 200)
    @@ "port" :> Located("port", "C volatile*", 220)
    @@ "counter" :> Located("counter", "C int", 228)
    @@ "C word" :> Declared("word", "C int")
    @@ "handler" :> Located("handler", "C signal*", 232)
    @@ "C signal*" :> PointerDie("C signal")
    @@ "C signal" :> [tag |-> "subroutine_type", type |-> "C int"]

DataUnit == <<"C int[3]", "C int", "table", "C volatile*", "C uchar", "C const", "C volatile", "port",
              "counter", "C signal", "C signal*", "handler", "C word">>

(* The types the companion needs.                                          *)
CompanionTypes ==
    "int" :> Base("int", 4, "signed") @@ "long long" :> Base("long long int", 8, "signed")
    @@ "char" :> Base("char", 1, "signed") @@ "unsigned long" :> Base("long unsigned int", 8, "unsigned")
    @@ "big_t" :> [tag |-> "typedef", name |-> "big_t", type |-> "big"]
    @@ "big" :> [tag |-> "structure_type", byte_size |-> 16, member |-> <<"big.a", "big.b">>]
    @@ "big.a" :> MemberDie("a", "long long", 0) @@ "big.b" :> MemberDie("b", "int", 8)
    @@ "int*" :> PointerDie("int") @@ "big_t*" :> PointerDie("big_t")

Item(is, name, inline, function, returns, params) ==
    [is |-> is, name |-> name, inline |-> inline, function |-> function, returns |-> returns, params |-> params]

X == <<[name |-> "x", type |-> "int"]>>
AB == <<[name |-> "a", type |-> "int"], [name |-> "b", type |-> "int"]>>

(* malloc is declared by a system header.                                  *)
MCItems == <<
    Item("Decl", "malloc", FALSE, TRUE, "int*", X),
    Item("Typedef", "node_t", FALSE, FALSE, None, <<>>),
    Item("Decl", "head", FALSE, FALSE, None, <<>>),
    Item("Decl", "addition", FALSE, TRUE, "int", AB),
    Item("FuncDef", "twice", TRUE, TRUE, "int", X),
    Item("FuncDef", "make", TRUE, TRUE, "big_t", X),
    Item("FuncDef", "reset", TRUE, TRUE, None, <<>>),
    Item("FuncDef", "spare", TRUE, TRUE, "int", X),
    Item("FuncDef", "helper", FALSE, TRUE, None, X)>>

Macro(name, source, value, arglist, expansion) ==
    [name |-> name, source |-> source, value |-> value, arglist |-> arglist, expansion |-> expansion]

MCMacros == <<
    Macro("GUARD", "sources", "empty", None, "empty"),
    Macro("EOF", "system", "(-1)", None, "expression"),
    Macro("LIMIT", "sources", "6", None, "expression"),
    Macro("NAME", "sources", "\"ab\"", None, "string"),
    Macro("FOREVER", "sources", "while(1)", None, "statement"),
    Macro("SUM", "sources", "((a) + (b))", <<"a", "b">>, "expression"),
    Macro("NOTHING", "sources", "GUARD", None, "empty")>>

MCUnprocessed == {"addition", "twice", "make", "reset", "spare", "helper", "head", "node_t"}

Location ==
    "_pyroxene_addition" :> 40 @@ "_pyroxene_twice" :> 42 @@ "_pyroxene_ptr_twice" :> 44
    @@ "_pyroxene_make" :> 46 @@ "_pyroxene_ptr_make" :> 48 @@ "_pyroxene_reset" :> 50
    @@ "_pyroxene_SUM" :> 52 @@ "_pyroxene_NAME" :> 302 @@ "_pyroxene_LIMIT" :> 308

MCSegments == <<
    [vaddr |-> 100, data |-> [k \in 1 .. 140 |-> 0]],
    [vaddr |-> 300, data |-> <<1, 3, 97, 98, 0, 0, 0, 0, 6, 0, 0, 0, 0, 0, 0, 0>>]>>

MCDies == First @@ Lib @@ Data @@ CompanionTypes
          @@ CompanionDies(Location, [n \in {"_pyroxene_NAME", "_pyroxene_LIMIT"} |-> 3])

MCUnits == {FirstUnit, LibUnit, DataUnit,
            <<"int", "long long", "char", "unsigned long", "big_t", "big_t*">> \o CompanionUnit}

(* The same, with current inlined somewhere in lib.c as well: the entry of *)
(* its code refers to that of the function, which has its name.            *)
InlinedDies ==
    "current" :> [tag |-> "subprogram", name |-> "current", type |-> "mode", inline |-> 1, formal_parameter |-> <<"w">>]
    @@ "current code" :> [tag |-> "subprogram", abstract_origin |-> "current", low_pc |-> 20, formal_parameter |-> <<"w code">>]
    @@ "w code" :> [tag |-> "formal_parameter", abstract_origin |-> "w"]
    @@ MCDies

InlinedUnits == (MCUnits \ {LibUnit}) \cup {Append(LibUnit, "current code")}

MCRequests == {[is |-> "pointer", base |-> "node_t"], [is |-> "array", base |-> "int", length |-> -1],
               [is |-> "array", base |-> "unsigned char", length |-> 3], [is |-> "name", base |-> "big_t *"]}

ASSUME MCMemberTypesAssumption == MemberTypesKnown

Depth[d \in DOMAIN Dies] == Max({0} \cup {Depth[e] + 1 : e \in RefersTo(d)})

ASSUME MCNestingAssumption == IsNesting(Depth)

CShape[d \in DOMAIN Dies] == ShapeOf(CShape, d)

ASSUME MCShapingAssumption == IsShaping(CShape) /\ NamesTell(CShape) /\ IsReadable(CShape)

-----------------------------------------------------------------------------
(* What the sources say.                                                   *)
CInt(size, signed) == [kind |-> "int", size |-> size, signed |-> signed]
CPointer(to) == [kind |-> "pointer", size |-> 8, to |-> to]
CArray(length, of) == [kind |-> "array", size |-> length * of.size, length |-> length, of |-> of]
CMember(name, offset, type) == [name |-> name, offset |-> offset, type |-> type]

SInt == CInt(4, TRUE)
UChar == CInt(1, FALSE)
Node == [kind |-> "struct", size |-> 24,
         members |-> <<CMember("value", 0, SInt), CMember("next", 8, CPointer("struct node")),
                       CMember("word", 16, CPointer("union word"))>>]
Word == [kind |-> "union", size |-> 8,
         members |-> <<CMember("i", 0, SInt), CMember("c", 0, CArray(4, UChar)),
                       CMember("owner", 0, CPointer("struct node"))>>]
Big == [kind |-> "struct", size |-> 16,
        members |-> <<CMember("a", 0, CInt(8, TRUE)), CMember("b", 8, SInt)>>]

TypeDefinition(type) == [kind |-> "type", type |-> type]
VariableDefinition(type, address, data) ==
    [kind |-> "variable", type |-> type, address |-> address, data |-> data]
FunctionDefinition(returns, address, arguments) ==
    [kind |-> "function", returns |-> returns, address |-> address, arguments |-> arguments]

MCDefinitions ==
    "struct node" :> TypeDefinition(Node) @@ "node_t" :> TypeDefinition(Node)
    @@ "union word" :> TypeDefinition(Word) @@ "big_t" :> TypeDefinition(Big)
    @@ "mode" :> TypeDefinition(CInt(4, FALSE))
    @@ "head" :> VariableDefinition(Node, 100, None)
    @@ "table" :> VariableDefinition(CArray(3, SInt), 200, None)
    @@ "port" :> VariableDefinition(CPointer("unsigned char"), 220, None)
    @@ "counter" :> VariableDefinition(SInt, 228, None)
    @@ "word" :> VariableDefinition(SInt, 212, None)
    @@ "limits" :> VariableDefinition(CArray(2, UChar), 300, <<1, 3>>)
    @@ "first" :> FunctionDefinition(SInt, 10, <<CPointer("node_t")>>)
    @@ "current" :> FunctionDefinition(CInt(4, FALSE), 20, <<CPointer("union word")>>)
    @@ "addition" :> FunctionDefinition(SInt, 30, <<SInt, SInt>>)

MCEnumerators == "OFF" :> 0 @@ "ON" :> 5

ObjectUse(is, type, length, address, data) ==
    [is |-> is, type |-> type, length |-> length, address |-> address, data |-> data]
FunctionUse(function, parameters, returns) ==
    [is |-> "function", function |-> function, parameters |-> parameters, returns |-> returns]

MCUses ==
    "head" :> ObjectUse("proxy", Node, -1, 100, None)
    @@ "table" :> ObjectUse("proxy", SInt, 3, 200, None)
    @@ "limits" :> ObjectUse("proxy", UChar, 2, 300, <<1, 3>>)
    @@ "counter" :> ObjectUse("number", SInt, -1, 228, None)
    @@ "LIMIT" :> ObjectUse("number", CInt(8, TRUE), -1, 308, <<6, 0, 0, 0, 0, 0, 0, 0>>)
    @@ "NAME" :> ObjectUse("proxy", CInt(1, TRUE), 3, 302, <<97, 98, 0>>)
    @@ "addition" :> FunctionUse("addition", 2, SInt) @@ "current" :> FunctionUse("current", 1, CInt(4, FALSE))
    @@ "twice" :> FunctionUse("twice", 1, SInt) @@ "make" :> FunctionUse("make", 1, Big)
    @@ "reset" :> FunctionUse("reset", 0, None) @@ "SUM" :> FunctionUse("SUM", 2, CInt(8, FALSE))
    @@ "memset" :> [is |-> "attribute"] @@ "FOREVER" :> [is |-> "exception"] @@ "EOF" :> [is |-> "exception"]
    @@ "spare" :> [is |-> "exception"] @@ "big_t" :> [is |-> "exception"]

=============================================================================
