\* Four interfaces: 0 has no ethaddr, 3 does not come up.  The times are in units of
\* ARP_TIMEOUT (5 s): 10 s are two of them.
SPECIFICATION FairSpec
CONSTANTS
    NumDevs = 4
    Addressed = {1, 2, 3}
    Working = {0, 1, 2}
    Rotate = TRUE
    RetryForever = FALSE
    retrycnt = 6
    ARP_TIMEOUT_COUNT = 4
    TftpTimeoutMSecs = 4
    TftpTimeoutCountMax = 1
    AgainMSecs = 2
    PingMSecs = 2
    MaxCommands = 2
INVARIANTS OnlyCurrentActive HandlerIsCurrent AlwaysTimed
PROPERTIES SuccessStands RoundIsComplete Terminates
\* The commands are bounded by MaxCommands.
CHECK_DEADLOCK FALSE
