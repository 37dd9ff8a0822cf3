\* Every stream of ManyStreams in every segmentation; two addresses.
SPECIFICATION FairSpec
CONSTANTS
    Hellos <- ManyHellos
    RecHeader = 2
    HsHeader = 2
    MaxRecord = 5
    MaxRecords = 2
    MaxPeek = 8
    MaxPeekReads = 4
    Chunk = 7
    SendBuffer = 6
    Allow <- Allowlist
    Streams <- ManyStreams
    Limit = 2
    Check = 1
    MaxSend = 1
CHECK_DEADLOCK FALSE
INVARIANTS
    UpstreamNamed
    ProperAccepted
    NothingLost
PROPERTIES
    ClosesOnlyIdle
    Reclaimed
