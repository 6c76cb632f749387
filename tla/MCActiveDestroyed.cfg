SPECIFICATION Spec
CONSTANTS
    t1 = t1
    t2 = t2
    Thread <- MCThread
    MaxPuts = 4
PROPERTY RunsOnWholeObject
CHECK_DEADLOCK FALSE
