SPECIFICATION FairSpec
CONSTANTS
    t1 = t1
    t2 = t2
    Thread <- MCThread
    MaxPuts = 4
INVARIANTS NoLostWakeup AllRunBeforeStop WorkerSound
PROPERTIES DestructorReturns ImplementsSerialCalls
CHECK_DEADLOCK FALSE
