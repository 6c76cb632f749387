SPECIFICATION FairSpec
CONSTANTS
    HeaderSize = 2
    BufSize = 4
    Payloads <- MCPayloads
    SockBuf = 6
    MaxPackets = 2
PROPERTY EveryPacketDelivered
CHECK_DEADLOCK FALSE
