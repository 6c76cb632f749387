SPECIFICATION Spec
CONSTANTS
    o1 = o1
    i1 = i1
    i2 = i2
    CTRL = CTRL
    SERVER = SERVER
    NULL = NULL
    Outgoing <- OneOutgoing
    Incoming <- OneIncoming
    PoolSize = 2
    Talkers <- Everyone
    MaxData = 1
INVARIANT NoConcurrentInsert
CHECK_DEADLOCK FALSE
