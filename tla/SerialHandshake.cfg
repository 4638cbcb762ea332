\* Three resets or late answers.
CONSTANT MaxFaults = 3
SPECIFICATION FairSpec
INVARIANTS TypeOK ConnectedInStep NeverMisread
PROPERTY Connects
CHECK_DEADLOCK FALSE
