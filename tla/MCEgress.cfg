\* Every single flag, and pairs that meet.
SPECIFICATION Spec
CONSTANTS
    Width = 4
    Span <- Spans
    Loopback <- LoopbackBlock
    LinkLocal <- LinkLocalBlock
    Private <- PrivateBlocks
    ProxyAddr = 8
    Https = 2
    ProxyPort = 9
    Ports <- PortNumbers
    Names = {"a", "b"}
    Answers <- ManyAnswers
    CommandLines <- ManyCommands
CHECK_DEADLOCK FALSE
INVARIANTS
    OnlyAuthorised
    NothingInward
    HttpsInspected
    NamesReachable
