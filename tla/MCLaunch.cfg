\* With the proxy; anything may be killed, twice in all.
SPECIFICATION FairSpec
CONSTANTS
    Sni = TRUE
    PastaPolls = 2
    Faults <- AllFaults
    MaxFaults = 2
INVARIANTS
    AgentConfined
    UplinkFiltered
    AbortedNeverRuns
    OnlyGoFailureLeaks
    ChildSupervised
    TerminalRestored
PROPERTIES
    KeepsPromise
    LaunchDecided
    ParentReturns
    RelayErrorEnds
