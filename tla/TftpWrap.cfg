SPECIFICATION Spec
CONSTANTS
    FileSize = 6
    TFTP_BLOCK_SIZE = 1
    TftpBlkSizeOption = 2
    SEQUENCE_SIZE = 3
    TIMEOUT_COUNT = 2
    RRQ_TIMEOUT_COUNT = 1
    NetRetry = 2
    Ports = {p1, p2}
    PortsDiffer = TRUE
    Oack = FALSE
    ErrorCodes = {"again"}
    ServerResends = FALSE
    Reorder = FALSE
    MaxSessions = 3
    MaxInFlight = 3
CHECK_DEADLOCK FALSE
INVARIANTS
    BlocksInPlace
    SuccessIsComplete
