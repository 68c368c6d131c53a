CONSTANTS
    Conns = {c1}
    NoConn = NoConn
    MaxDialers = 2
    MaxUserOps = 1
    InitialRequest = {"none"}
    AckStatuses = {"Pending", "Accepted"}
    UnlistedPeers = FALSE
SPECIFICATION FairSpec
PROPERTY KeepsReconnecting
CHECK_DEADLOCK FALSE
