\* The same with a function that is inlined in its own unit.
CONSTANTS
    None = None
    Dies <- InlinedDies
    Units <- InlinedUnits
    Segments <- MCSegments
    SizeofVoidp = 8
    Requests <- MCRequests
    Definitions <- MCDefinitions
    Enumerators <- MCEnumerators
    Items <- MCItems
    Macros <- MCMacros
    Unprocessed <- MCUnprocessed
    Ignore = {"spare"}
    Attributes = {"new", "memset", "memmove", "sizeof", "addressof"}
    Uses <- MCUses
SPECIFICATION LibSpec
INVARIANT NamesResolve
