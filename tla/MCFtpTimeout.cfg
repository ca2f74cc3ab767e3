SPECIFICATION FairSpec
CONSTANTS
    Clients = {c1, c2}
    MaxCmds = 3
PROPERTIES
    TimeoutIsOwn
CHECK_DEADLOCK FALSE
