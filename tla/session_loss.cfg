CONSTANTS
    Conns = {c1, c2}
    NoConn = NoConn
    MaxDialers = 1
    MaxUserOps = 1
    InitialRequest = {"pending"}
    AckStatuses = {"Accepted"}
    UnlistedPeers = TRUE
SPECIFICATION FairSpec
PROPERTY LostSessionCleared
CHECK_DEADLOCK FALSE
