SPECIFICATION FairSpec
CONSTANTS
    BUFFER_SIZE = 2
    MaxTotal = 5
    MaxBusy = 2
INVARIANTS
    TypeOK
    SendBufferStable
    FreedUnderReadOnlyOnAbort
PROPERTIES
    Returns
    TransferSpec
CHECK_DEADLOCK FALSE
