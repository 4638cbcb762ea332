\* The units of lib.h, first.c, lib.c, data.c and of the companion in any order.
CONSTANTS
    None = None
    Dies <- MCDies
    Units <- MCUnits
    Segments <- MCSegments
    SizeofVoidp = 8
    Requests <- MCRequests
    Definitions <- MCDefinitions
    Enumerators <- MCEnumerators
    Items <- MCItems
    Macros <- MCMacros
    Unprocessed <- MCUnprocessed
    Ignore = {"spare"}
    Attributes = {"new", "memset", "memmove", "sizeof", "addressof"}
    Uses <- MCUses
SPECIFICATION LibSpec
INVARIANTS VariablesAreLocated ElfTypeOK RecursionEnds NeverRaises LibraryIsKnown NamesResolve
PROPERTY KnownStaysKnown
