CONSTANTS
    BufSize = 24
    HeaderCap = 8
    Names <- MCNames
    Args <- MCArgs
    Results <- MCResults
    ArraySizes = {1}
    MaxArgs = 1
    MaxSends = 1
SPECIFICATION Spec
INVARIANT NumbersArrive
CHECK_DEADLOCK FALSE
