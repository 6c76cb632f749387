CONSTANTS
    BufSize = 24
    HeaderCap = 8
    Names <- MCNames
    Args <- MCArgs
    Results <- MCResults
    ArraySizes = {1, 2}
    MaxArgs = 3
    MaxSends = 3
SPECIFICATION Spec
INVARIANTS
    PacketSound
    CallRoundTrip
    ResultRoundTrip
    ReaderAccepts
    LoggingAgrees
CHECK_DEADLOCK FALSE
