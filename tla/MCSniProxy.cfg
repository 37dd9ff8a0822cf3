\* Two slots, four clients, hosts that grant enough and hosts that do not.
SPECIFICATION FairSpec
CONSTANTS
    c1 = c1
    c2 = c2
    c3 = c3
    c4 = c4
    Conns <- FourConns
    MaxConns = 2
    FdLimits <- Descriptors
    ThreadLimits <- ThreadCounts
CHECK_DEADLOCK FALSE
INVARIANTS
    CapHeld
    CountExact
    Contained
    OnlyHostFails
PROPERTIES
    Survives
    BacklogServed
    SlotReturned
