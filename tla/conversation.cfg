CONSTANTS
    ContextNum <- MCContextNum
    SoftLimit <- MCSoftLimit
    HardLimit <- MCHardLimit
    Ids = {1, 2}
    MaxEvents = 7
SPECIFICATION Spec
INVARIANT TypeOK
INVARIANT UnreadCountAccurate
PROPERTY TrimPolicy
