\* Calls with three arguments.
CONSTANTS
    v1 = v1
    v2 = v2
    v3 = v3
    v4 = v4
    Vars = {v1, v2, v3, v4}
    None = None
    Sizes = {8}
    BaseAddr = 0
    MaxSize = 24
    MaxArgs = 3
SPECIFICATION CallSpec
INVARIANTS ArgumentsArrive
SYMMETRY Symmetry
CHECK_DEADLOCK FALSE
