SPECIFICATION FairSpec
CONSTANTS
    Images <- MCImages
    Kernel <- MCKernel
    Ramdisk <- MCRamdisk
    PAGE = 2
    PACKET = 4
    CommandLength = 1
    Length <- MCLength
    MmcPartitions <- MCMmcPartitions
    MoviCount <- MCMoviCount
    Formatted <- MCMmcPartitions
    transfer_buffer_size = 8
    Unplugs = 1
    Failing = {"kernel", "userdata"}
    JUNK = JUNK
    ZERO = ZERO
    BROKEN = BROKEN
    NONE = NONE
CHECK_DEADLOCK FALSE
INVARIANTS
    FlashedAsDownloaded
    AcknowledgedStays
PROPERTIES
    AcknowledgedIsComplete
    CommandsAnswered
