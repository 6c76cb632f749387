SPECIFICATION Spec
CONSTANTS
    p1 = p1
    p2 = p2
    p3 = p3
    t1 = t1
    t2 = t2
    Packet <- MCPacket
    Thread <- MCThread
    NULL = NULL
INVARIANTS FreeListSound OwnershipSound
PROPERTY ImplementsService
