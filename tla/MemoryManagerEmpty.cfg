\* Objects of size 0 beside objects of 8 bytes.
CONSTANTS
    v1 = v1
    v2 = v2
    v3 = v3
    Vars = {v1, v2, v3}
    None = None
    Sizes = {0, 8}
    BaseAddr = 0
    MaxSize = 16
SPECIFICATION Spec
INVARIANTS NoOverlap
SYMMETRY Symmetry
CHECK_DEADLOCK FALSE
