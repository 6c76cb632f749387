SPECIFICATION FairSpec
CONSTANTS
    o1 = o1
    i1 = i1
    i2 = i2
    CTRL = CTRL
    SERVER = SERVER
    NULL = NULL
    Outgoing = {}
    Incoming <- TwoIncoming
    PoolSize = 1
    Talkers = {}
    MaxData = 1
PROPERTY JoinReturnsIfAccepting
CHECK_DEADLOCK FALSE
