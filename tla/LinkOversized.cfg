\* Echoes of one cell more than the buffer of 4 cells holds, calls with no argument, or one too many.
CONSTANTS
    ACK = ACK
    NCK = NCK
    LOG = LOG
    None = None
    Addrs = {0}
    Values = {0, 1, 4}
    CmdMaxLength = 6
    Funcs = {8}
    Texts <- MCTexts
    MaxParams = 0
    EchoLengths = {5}
    WriteLengths = {1}
    ReadLengths = {1}
    ArgCounts = {0, 1}
    ReturnSizes = {0, 2}
    Requests <- MCRequests
    LogSupport = TRUE
SPECIFICATION Spec
INVARIANT InStep
PROPERTY CallReturnsResult
CHECK_DEADLOCK FALSE
