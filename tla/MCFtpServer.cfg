SPECIFICATION FairSpec
CONSTANTS
    Clients = {c1, c2}
    MaxCmds = 4
INVARIANTS
    TypeOK
    AtMostOneMore
    RestBelongsToConnection
PROPERTIES
    SessionsEnd
CHECK_DEADLOCK FALSE
