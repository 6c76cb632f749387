SPECIFICATION FairSpec
CONSTANTS
    HeaderSize = 2
    BufSize = 4
    Payloads <- MCPayloads
    SockBuf = 6
    MaxPackets = 4
INVARIANTS Delivery BufferSound
PROPERTIES SenderUnblocked FirstDelivered
CHECK_DEADLOCK FALSE
