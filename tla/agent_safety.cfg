CONSTANTS
    Conns = {c1, c2, c3}
    NoConn = NoConn
    MaxDialers = 1
    MaxUserOps = 1
    InitialRequest = {"none", "pending", "rejected"}
    AckStatuses = {"Pending", "Accepted"}
    UnlistedPeers = FALSE
SPECIFICATION Spec
SYMMETRY ConnSymmetry
INVARIANT StatusMatchesConnection
INVARIANT DisplacedSessionsClosed
INVARIANT NoZombieConnection
CHECK_DEADLOCK FALSE
