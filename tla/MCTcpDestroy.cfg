SPECIFICATION Spec
CONSTANTS
    o1 = o1
    i1 = i1
    i2 = i2
    CTRL = CTRL
    SERVER = SERVER
    NULL = NULL
    Outgoing = {}
    Incoming <- TwoIncoming
    PoolSize = 3
    Talkers <- Everyone
    MaxData = 1
INVARIANT ClosedBeforeDestroyed
CHECK_DEADLOCK FALSE
