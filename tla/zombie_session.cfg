CONSTANTS
    Conns = {c1}
    NoConn = NoConn
    MaxDialers = 1
    MaxUserOps = 1
    InitialRequest = {"none"}
    AckStatuses = {"Pending", "Accepted"}
    UnlistedPeers = TRUE
SPECIFICATION Spec
INVARIANT NoZombieConnection
CHECK_DEADLOCK FALSE
