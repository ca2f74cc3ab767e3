SPECIFICATION FairSpec
CONSTANTS
    BUF_SIZE = 2
    SPLIT_LIMIT = 5
    MaxSize = 9
INVARIANTS
    TypeOK
    WriteUndisturbed
    KeptIffLastWriteDone
    UnitsInPlace
PROPERTIES
    EndsUnlessRefused
    TransferSpec
CHECK_DEADLOCK FALSE
