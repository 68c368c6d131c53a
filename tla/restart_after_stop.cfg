CONSTANTS
    Conns = {c1}
    NoConn = NoConn
    MaxDialers = 1
    MaxUserOps = 3
    InitialRequest = {"none"}
    AckStatuses = {"Pending", "Accepted", "Rejected", "Error"}
    UnlistedPeers = FALSE
SPECIFICATION Spec
PROPERTY AgentRefinement
CHECK_DEADLOCK FALSE
