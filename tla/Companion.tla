----------------------------- MODULE Companion -----------------------------
(***************************************************************************)
(* The companion generator (pyroxene/companion_generator.py): C code that  *)
(* is compiled beside the library, so that what has no address of its own, *)
(* inline functions and macros, gets one.                                  *)
(*                                                                         *)
(* pcpp and pycparser, which preprocess and parse, are external.  A        *)
(* definition to be compiled is a record; its text is left out.            *)
(***************************************************************************)
EXTENDS Sequences, SequencesExt

CONSTANTS
    Items,          \* what the preprocessed sources declare, in their order
    Macros,         \* the macros the preprocessor knows, in their order
    Unprocessed,    \* the functions whose name occurs in the sources themselves
    Ignore,         \* names to leave out
    None            \* no name, no type (void)

PYROXENE_COMPANION_PREFIX == "_pyroxene_"
PYROXENE_COMPANION_PREFIX_PTR == "_pyroxene_ptr_"

(* A C function that calls another one, and stores its result where its    *)
(* first parameter points to or returns it.                                *)
Calling(name, calls, params, returns, passes) ==
    [is |-> "function", name |-> name, calls |-> calls, params |-> params,
     returns |-> returns, passes |-> passes]

Constant(name, is) == [is |-> is, name |-> PYROXENE_COMPANION_PREFIX \o name, calls |-> name]

PointerTo(type) == type \o "*"

Names(params) == [k \in DOMAIN params |-> params[k].name]

(* A parameter of a prototype may have no name and is not passed on.       *)
Passed(params) == SelectSeq(Names(params), LAMBDA name : name # None)

(* _generate_funcdef_default, _generate_funcdecl_default                   *)
FuncDefDefault(n) ==
    Calling(PYROXENE_COMPANION_PREFIX \o n.name, n.name, n.params, n.returns, Passed(n.params))

(* Defect: the parameter for the result comes last.                        *)
FuncDefPtrLast(n) ==
    IF n.returns = None
    THEN <<>>
    ELSE <<Calling(PYROXENE_COMPANION_PREFIX_PTR \o n.name, n.name,
                   Append(n.params, [name |-> "_", type |-> PointerTo(n.returns)]), None, Passed(n.params))>>

(* _generate_funcdef_ptr                                                   *)
FuncDefPtr(n) ==
    IF n.returns = None
    THEN <<>>
    ELSE <<Calling(PYROXENE_COMPANION_PREFIX_PTR \o n.name, n.name,
                   <<[name |-> "_", type |-> PointerTo(n.returns)]>> \o n.params, None, Passed(n.params))>>

(* CompanionCGenerator.visit: FuncDef, Decl, Typedef                       *)
Visit(n) ==
    IF n.name \in Ignore THEN <<>>
    ELSE CASE n.is = "FuncDef" /\ n.inline -> <<FuncDefDefault(n)>> \o FuncDefPtr(n)
           [] n.is = "Decl" /\ n.function /\ n.name \in Unprocessed -> <<FuncDefDefault(n)>>
           [] OTHER -> <<>>

-----------------------------------------------------------------------------
(* MacroCollector._collect: macros of other files (the compiler has no     *)
(* file) and empty ones are left out.                                      *)
Collected ==
    SelectSeq(Macros, LAMBDA m : /\ m.value # "empty"
                                 /\ m.source # None => m.source = "sources"
                                 /\ m.expansion # "empty"
                                 /\ m.name \notin Ignore)

(* What expands to a statement cannot be called or assigned.               *)
Bucket(m) ==
    CASE m.expansion = "statement" -> "statement"
      [] m.expansion # "statement" /\ m.arglist # None -> "function"
      [] m.expansion = "string" /\ m.arglist = None -> "string"
      [] OTHER -> "numeric"

(* companion_generate_string_macro, companion_generate_numeric_macro       *)
StringMacro(m) == Constant(m.name, "string")
NumericMacro(m) == Constant(m.name, "long long")

(* companion_generate_function_macro                                       *)
FunctionMacro(m) ==
    Calling(PYROXENE_COMPANION_PREFIX \o m.name, m.name,
            [k \in DOMAIN m.arglist |-> [name |-> m.arglist[k], type |-> "unsigned long"]],
            "unsigned long", m.arglist)

(* generate_companion                                                      *)
GenerateCompanion ==
    LET In(bucket) == SelectSeq(Collected, LAMBDA m : Bucket(m) = bucket)
        Each(Generate(_), ms) == [k \in DOMAIN ms |-> Generate(ms[k])]
    IN  FlattenSeq(Each(Visit, Items))
            \o Each(StringMacro, In("string"))
            \o Each(FunctionMacro, In("function"))
            \o Each(NumericMacro, In("numeric"))

=============================================================================
