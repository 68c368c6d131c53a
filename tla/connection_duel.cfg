CONSTANTS
    Peers = {1, 2}
    None = None
SPECIFICATION FairSpec
PROPERTY DuelConverges
CHECK_DEADLOCK FALSE
