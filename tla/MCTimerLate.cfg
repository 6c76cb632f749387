SPECIFICATION Spec
CONSTANTS
    fast = fast
    slow = slow
    u1 = u1
    NULL = NULL
    Timers <- MCTimers
    Interval <- MCInterval
    Thread = {u1}
    MaxLag = 2
    MaxOps = 3
INVARIANT WaitsForEarliest
CHECK_DEADLOCK FALSE
