SPECIFICATION FairSpec
CONSTANTS
    BUF_SIZE = 2
    SPLIT_LIMIT = 5
    MaxSize = 9
PROPERTIES
    CopyEnds
CHECK_DEADLOCK FALSE
