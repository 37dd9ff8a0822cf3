\* Every combination of mounts with every network, and the other switches.
SPECIFICATION Spec
CONSTANTS
    Commands <- ManyCommands
    Hosts <- ManyHosts
    ProxyPort = 47999
    MaxSeedDepth = 1
CHECK_DEADLOCK FALSE
INVARIANTS
    HomePrivate
    SeedsEphemeral
    NetAsAsked
    AgentPlaced
