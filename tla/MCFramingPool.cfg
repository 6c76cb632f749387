SPECIFICATION Spec
CONSTANTS
    HeaderSize = 2
    BufSize = 4
    Payloads <- MCPayloads
    SockBuf = 6
    MaxPackets = 2
INVARIANT KeepsExcess
CHECK_DEADLOCK FALSE
