CONSTANTS
    Conns = {c1}
    NoConn = NoConn
    MaxDialers = 1
    MaxUserOps = 1
    InitialRequest = {"none"}
    AckStatuses = {"Pending", "Accepted", "Rejected", "Error"}
    UnlistedPeers = FALSE
SPECIFICATION Spec
INVARIANT NoHandlerCrash
CHECK_DEADLOCK FALSE
