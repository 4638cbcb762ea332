\* Four proxies, a heap of four 8-byte slots that starts off an 8-byte boundary.
CONSTANTS
    v1 = v1
    v2 = v2
    v3 = v3
    v4 = v4
    Vars = {v1, v2, v3, v4}
    None = None
    Sizes = {4, 8, 11}
    BaseAddr = 12
    MaxSize = 32
SPECIFICATION Spec
INVARIANTS TypeOK NoOverlap HeldIsAllocated AutofreeFreesHalf
PROPERTIES FirstFit MallocAdvances ImplementsHeap
SYMMETRY Symmetry
CHECK_DEADLOCK FALSE
