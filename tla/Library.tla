------------------------------ MODULE Library ------------------------------
(***************************************************************************)
(* From the C sources to what lib.name is in a test: the companion of the  *)
(* library is generated (Companion), compiled and linked, ElfBackend reads *)
(* the result (ElfTypes), and LibProxy.__getattr__                         *)
(* (pyroxene/device_proxy.py) looks names up in it.  Names are looked up   *)
(* in cffi_compatibility_mode.                                             *)
(***************************************************************************)
EXTENDS ElfTypes

CONSTANTS
    Items, Macros, Unprocessed, Ignore,     \* the sources: see Companion
    Attributes, \* the names LibProxy has attributes for
    Definitions,    \* what the C source defines, a function from names
    Enumerators,    \* the values of its enumerators, a function from names
    Uses        \* what a test uses: names, and what they mean in C

INSTANCE Companion

VARIABLE lookup \* the last name that was looked up, and what came of it

libVars == <<elfVars, lookup>>

-----------------------------------------------------------------------------
(* The compiler.  DIEs of the companion are at offsets made from the names *)
(* they describe; those of the types it refers to are the library's.       *)
Parameters(f) ==
    [k \in DOMAIN f.params |-> f.name \o " " \o f.params[k].name]

FunctionDies(f, address) ==
    LET die == [tag |-> "subprogram", name |-> f.name, low_pc |-> address, formal_parameter |-> Parameters(f)]
        param(k) == [tag |-> "formal_parameter", name |-> f.params[k].name, type |-> f.params[k].type]
    IN  f.name :> (IF f.returns = None THEN die ELSE die @@ [type |-> f.returns])
          @@ [o \in Range(Parameters(f)) |-> param(CHOOSE k \in DOMAIN f.params : Parameters(f)[k] = o)]

ConstantDies(c, address, length) ==
    LET const == c.name \o " const"
        array == c.name \o " array"
        range == c.name \o " range"
    IN  c.name :> [tag |-> "variable", name |-> c.name, type |-> const, location |-> address]
          @@ const :> [tag |-> "const_type", type |-> IF c.is = "string" THEN array ELSE c.is]
          @@ array :> [tag |-> "array_type", type |-> "char", subrange_type |-> <<range>>]
          @@ range :> [tag |-> "subrange_type", upper_bound |-> length - 1]

(* location[n] is where the linker puts n, length[n] the size of a string. *)
CompanionDies(location, length) ==
    LET Compiled(dies, c) ==
            (IF c.is = "function"
             THEN FunctionDies(c, location[c.name])
             ELSE ConstantDies(c, location[c.name], length[c.name])) @@ dies
    IN  FoldLeft(Compiled, <<>>, GenerateCompanion)

CompanionUnit == [k \in DOMAIN GenerateCompanion |-> GenerateCompanion[k].name]

-----------------------------------------------------------------------------
Object(t) == backend.objects[t]

Raised == [is |-> "exception"]

(* VarProxy.__init__: a proxy of an array is one of its elements.          *)
NewProxy(type, address, length, data) ==
    LET Proxy(t, n) == [is |-> "proxy", type |-> t, address |-> address, length |-> n, data |-> data]
    IN  IF Object(type).kind = "array" THEN Proxy(Object(type).base, Object(type).length) ELSE Proxy(type, length)

(* An integer is read; everything else is a proxy.  A typedef of an array  *)
(* has no length (AttributeError).                                         *)
VariableProxy(v) ==
    LET type == Object(v.type)
        p == IF type.kind = "array"
             THEN NewProxy(type.base, v.address, type.length, v.data)
             ELSE NewProxy(v.type, v.address, -1, v.data)
    IN  IF type.kind = "array" /\ type.typedef THEN Raised
        ELSE IF p.length = -1 /\ Object(p.type).kind = "int" THEN [p EXCEPT !.is = "number"]
        ELSE p

ReturnSize(f) == IF f.return_type = None THEN 0 ELSE Object(f.return_type).size

(* A result of more than eight bytes is returned through a pointer, which  *)
(* takes the companion made for that (KeyError if there is none).          *)
FunctionProxy(name, f) ==
    LET through == PYROXENE_COMPANION_PREFIX_PTR \o name
    IN  IF ReturnSize(f) <= 8 THEN [is |-> "function", type |-> f]
        ELSE IF through \in DOMAIN backend.types
        THEN [is |-> "function", type |-> Object(backend.types[through])]
        ELSE Raised

(* LibProxy.__getattr__: the library's own names come before companions.   *)
Getattr(name) ==
    LET names == SelectSeq(<<name, PYROXENE_COMPANION_PREFIX \o name>>, LAMBDA n : n \in DOMAIN backend.types)
        type == Object(backend.types[names[1]])
    IN  CASE name \in Attributes -> [is |-> "attribute"]
          [] name \notin Attributes /\ names = <<>> -> Raised
          [] OTHER -> CASE type.kind = "variable" -> VariableProxy(type)
                        [] type.kind = "function" -> FunctionProxy(name, type)
                        [] OTHER -> Raised

-----------------------------------------------------------------------------
LibInit == ElfInit /\ lookup = None

Lookup ==
    /\ Loaded
    /\ \E name \in DOMAIN Uses : lookup' = [name |-> name, result |-> Getattr(name)]
    /\ UNCHANGED elfVars

LibNext == (ElfNext /\ UNCHANGED lookup) \/ Lookup

LibSpec == LibInit /\ [][LibNext]_libVars

-----------------------------------------------------------------------------
(* What an object means in C, past its typedefs.                           *)
RECURSIVE Renamed(_, _)
Renamed(b, t) == IF b.objects[t].typedef THEN Renamed(b, b.objects[t].base) ELSE b.objects[t]

RECURSIVE Means(_, _, _)
Means(b, t, c) ==
    LET object == Renamed(b, t)
    IN  /\ object.kind = c.kind
        /\ object.size = c.size /\ b.objects[t].size = c.size
        /\ CASE c.kind = "int" -> ("signed" \in DOMAIN object /\ object.signed) = c.signed
             [] c.kind = "pointer" -> c.to \in DOMAIN b.types /\ object.base = b.types[c.to]
             [] c.kind = "array" -> object.length = c.length /\ Means(b, object.base, c.of)
             [] OTHER ->
                  LET members == b.objects[t].members
                  IN  /\ members # None
                      /\ [k \in DOMAIN members |-> members[k].name] = [k \in DOMAIN c.members |-> c.members[k].name]
                      /\ \A k \in DOMAIN c.members :
                            /\ members[k].offset = c.members[k].offset
                            /\ Means(b, members[k].type, c.members[k].type)

Known(b, name) ==
    LET d == Definitions[name]
        t == b.types[name]
        object == b.objects[t]
    IN  /\ name \in DOMAIN b.types
        /\ CASE d.kind = "type" -> Means(b, t, d.type)
             [] d.kind = "variable" ->
                  /\ object.kind = "variable"
                  /\ object.address = d.address /\ object.size = d.type.size /\ object.data = d.data
                  /\ Means(b, object.type, d.type)
             [] d.kind = "function" ->
                  /\ object.kind = "function"
                  /\ object.address = d.address
                  /\ IF d.returns = None THEN object.return_type = None ELSE Means(b, object.return_type, d.returns)
                  /\ Len(object.arguments) = Len(d.arguments)
                  /\ \A k \in DOMAIN d.arguments : Means(b, object.arguments[k], d.arguments[k])

(* Whatever the order of the compilation units, once they have been read   *)
(* the backend knows each type, variable and function that the C source    *)
(* defines: its address, its size, its members, what it points to, and its *)
(* data if it is a constant (type_from_die and the update methods).        *)
LibraryIsKnown ==
    Loaded => /\ \A name \in DOMAIN Definitions : Known(backend, name)
              /\ backend.enums = Enumerators

(* The function of the sources that runs when f is called, with all its    *)
(* parameters, and whether its result is stored where f's first one points *)
(* to.                                                                     *)
Companions(name) == {c \in Range(GenerateCompanion) : c.name = name}

Runs(f, use) ==
    \/ f.typename = use.function /\ Companions(f.typename) = {}
    \/ \E c \in Companions(f.typename) :
          /\ c.calls = use.function
          /\ Len(c.passes) = use.parameters

Through(f) == \E c \in Range(Items) : f.typename = PYROXENE_COMPANION_PREFIX_PTR \o c.name

(* FuncProxy.__call__ makes room for the result of a function that stores  *)
(* it, of the type its first argument points to.                           *)
Returns(f, type) ==
    CASE type = None -> f.return_type = None /\ ~Through(f)
      [] type # None /\ type.size <= 8 -> ~Through(f) /\ f.return_type # None /\ Means(backend, f.return_type, type)
      [] OTHER -> /\ Through(f) /\ Object(f.arguments[1]).kind = "pointer"
                  /\ Means(backend, Object(f.arguments[1]).base, type)

(* What a test gets for a name is what the name means in the C sources: an *)
(* inline function and a macro as well as a function or a variable of the  *)
(* library, an integer as a number, a large result through a pointer.      *)
(* That is about the lookup; what calling the proxy does is FuncProxy's.   *)
NamesResolve ==
    lookup # None =>
        LET use == Uses[lookup.name]
            result == lookup.result
        IN  /\ result.is = use.is
            /\ result.is \in {"number", "proxy"} =>
                  /\ Means(backend, result.type, use.type)
                  /\ result.length = use.length
                  /\ IF use.data = None THEN result.address = use.address ELSE result.data = use.data
            /\ result.is = "function" =>
                  /\ Runs(result.type, use)
                  /\ Returns(result.type, use.returns)

=============================================================================
