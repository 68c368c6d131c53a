CONSTANTS
    Conns = {c1, c2}
    NoConn = NoConn
    MaxDialers = 2
    MaxUserOps = 2
    InitialRequest = {"none", "pending", "rejected"}
    AckStatuses = {"Pending", "Accepted"}
    UnlistedPeers = TRUE
SPECIFICATION Spec
SYMMETRY ConnSymmetry
INVARIANT StatusMatchesConnection
INVARIANT DisplacedSessionsClosed
PROPERTY AgentRefinement
CHECK_DEADLOCK FALSE
