\* The agent prints more than one read takes and ends.
SPECIFICATION Spec
CONSTANTS
    Input <- NoInput
    Banner = 3
    Gain = 0
    ReadMax = 1
    InCap = 1
    OutCap = 3
    StdoutFails = FALSE
    StdinPipe = FALSE
CHECK_DEADLOCK FALSE
INVARIANT OutputDrained
