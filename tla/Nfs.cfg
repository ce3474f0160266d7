SPECIFICATION Spec
CONSTANTS
    FileSize = 2
    Links = 1
    Cyclic = FALSE
    NFS_READ_SIZE = 2
    NFS_RETRY_COUNT = 1
    NetRetry = 2
    Refusals = {"none", "PRCLOOKUP_PROG_MOUNT", "MOUNT", "LOOKUP", "READ"}
    MaxInFlight = 2
    MaxFaults = 1
INVARIANTS
    SuccessIsComplete
    HandlesAreCurrent
PROPERTIES
    Terminates
    Completes
