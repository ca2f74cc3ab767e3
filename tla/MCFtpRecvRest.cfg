SPECIFICATION FairSpec
CONSTANTS
    BUFFER_SIZE = 2
    MaxTotal = 5
    MaxBusy = 1
INVARIANTS
    RestHonoured
CHECK_DEADLOCK FALSE
