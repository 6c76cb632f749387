SPECIFICATION FairSpec
CONSTANTS
    o1 = o1
    i1 = i1
    i2 = i2
    CTRL = CTRL
    SERVER = SERVER
    NULL = NULL
    Outgoing <- OneOutgoing
    Incoming <- OneIncoming
    PoolSize = 1
    Talkers <- OneIncoming
    MaxData = 1
PROPERTIES JoinReturns EndNoticed ConnectionAccepted
CHECK_DEADLOCK FALSE
