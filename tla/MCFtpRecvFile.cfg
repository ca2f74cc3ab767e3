SPECIFICATION FairSpec
CONSTANTS
    BUFFER_SIZE = 2
    MaxTotal = 5
    MaxBusy = 1
INVARIANTS
    TypeOK
    BufferExclusive
    Accounted
    SuccessIffLastWriteDone
PROPERTIES
    Returns
    TransferSpec
CHECK_DEADLOCK FALSE
