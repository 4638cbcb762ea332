\* A buffer of 7 cells: memory_write sends up to 4 cells in a portion, 5 in two; under fairness.
CONSTANTS
    ACK = ACK
    NCK = NCK
    LOG = LOG
    None = None
    Addrs = {0, 1, 2, 3, 4}
    Values = {0, 1}
    CmdMaxLength = 7
    Funcs = {8}
    Texts <- MCTexts
    MaxParams = 2
    EchoLengths = {0, 1}
    WriteLengths = {5}
    ReadLengths = {0, 5}
    ArgCounts = {2}
    ReturnSizes = {0, 2}
    Requests <- MCRequests
    LogSupport = TRUE
SPECIFICATION FairSpec
INVARIANTS TypeOK InStep NeverRefused NeverBothWait
PROPERTIES ImplementsCommunicator Answered ReturnComesNearer CallIsMade
CHECK_DEADLOCK FALSE
