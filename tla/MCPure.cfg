SPECIFICATION PathSpec
CONSTANTS
    MaxCmd = 2
    MaxParam = 3
    MaxLine = 6
    MaxPath = 6
INVARIANTS
    CwdAbsolute
    SplitAtFirstBlank
    CdupUndoesCwd
CHECK_DEADLOCK FALSE
