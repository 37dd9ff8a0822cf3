\* A file of whole lines, more than the pty holds, for an agent that prints
\* more than the pty holds; stdout may be closed.
SPECIFICATION FairSpec
CONSTANTS
    Input <- TwoLines
    Banner = 4
    Gain = 2
    ReadMax = 2
    InCap = 1
    OutCap = 3
    StdoutFails = TRUE
    StdinPipe = FALSE
CHECK_DEADLOCK FALSE
INVARIANTS
    RelayOutlivesStdin
    Conserved
    LossOnlyBeyondOneRead
PROPERTIES
    RelayEnds
    EofDelivered
    KeepsRelaying
