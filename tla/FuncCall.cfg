\* Calls with two arguments; three objects, a heap of two and a half slots.
CONSTANTS
    v1 = v1
    v2 = v2
    v3 = v3
    Vars = {v1, v2, v3}
    None = None
    Sizes = {4, 9}
    BaseAddr = 0
    MaxSize = 20
    MaxArgs = 2
SPECIFICATION FairCallSpec
INVARIANTS CallTypeOK ArgumentsArrive BystandersUntouched
PROPERTY MallocReturns
CHECK_DEADLOCK FALSE
