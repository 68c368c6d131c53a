CONSTANTS
    Conns = {c1}
    NoConn = NoConn
    MaxDialers = 1
    MaxUserOps = 1
    InitialRequest = {"pending"}
    AckStatuses = {"Pending", "Accepted", "Rejected", "Error"}
    UnlistedPeers = FALSE
SPECIFICATION Spec
INVARIANT NoRecursiveLock
CHECK_DEADLOCK FALSE
