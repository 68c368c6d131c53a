CONSTANTS
    Conns = {c1, c2}
    NoConn = NoConn
    MaxDialers = 1
    MaxUserOps = 1
    InitialRequest = {"none"}
    AckStatuses = {"Pending", "Accepted", "Rejected", "Error"}
    UnlistedPeers = FALSE
SPECIFICATION Spec
INVARIANT NoLockWaitCycle
CHECK_DEADLOCK FALSE
