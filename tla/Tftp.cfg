SPECIFICATION FairSpec
CONSTANTS
    FileSize = 5
    TFTP_BLOCK_SIZE = 1
    TftpBlkSizeOption = 2
    SEQUENCE_SIZE = 16
    TIMEOUT_COUNT = 1
    RRQ_TIMEOUT_COUNT = 1
    NetRetry = 2
    Ports = {p1, p2}
    PortsDiffer = TRUE
    Oack = TRUE
    ErrorCodes = {"final", "again"}
    ServerResends = TRUE
    Reorder = TRUE
    MaxSessions = 3
    MaxInFlight = 2
CHECK_DEADLOCK FALSE
INVARIANTS
    BlocksInPlace
    SuccessIsComplete
    ServerNeverAhead
PROPERTY
    Terminates
