SPECIFICATION Spec
CONSTANTS
    FileSize = 5
    SOH_LEN = 1
    STX_LEN = 2
    BLK_MOD = 3
    EOT = 4
    MAX_RETRIES = 8
    MAX_RETRIES_WITH_CRC = 3
    Headers = {"length", "nolength", "none"}
    Noise = {"cksum", "frame"}
    SenderTries = 5
    SenderStops = TRUE
    Prompt = TRUE
    MaxFaults = 3
INVARIANTS
    StoredIsPrefix
    SenderNeverAhead
    EofIsComplete
PROPERTIES
    Terminates
    Completes
