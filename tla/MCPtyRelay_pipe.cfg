\* Piped input: poll tells the end of a pipe as POLLHUP without POLLIN.
SPECIFICATION FairSpec
CONSTANTS
    Input <- OneLine
    Banner = 0
    Gain = 1
    ReadMax = 1
    InCap = 2
    OutCap = 1
    StdoutFails = FALSE
    StdinPipe = TRUE
CHECK_DEADLOCK FALSE
PROPERTY EndNoticed
