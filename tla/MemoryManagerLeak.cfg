\* Four proxies and three slots of one size: the test can always call malloc again.
CONSTANTS
    v1 = v1
    v2 = v2
    v3 = v3
    v4 = v4
    Vars = {v1, v2, v3, v4}
    None = None
    Sizes = {8}
    BaseAddr = 0
    MaxSize = 24
SPECIFICATION BusySpec
PROPERTIES GarbageIsReclaimed
CHECK_DEADLOCK FALSE
