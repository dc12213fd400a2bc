SPECIFICATION FairSpec
CONSTANTS
    Objects = {p, q}
    First = p
    BufferSize = 2
    MaxLineLength = 2
    LineRoom = 2
    QueueSize = 1
    Rates = {"slow", "fast"}
    Frames = {"8N1", "7E2"}
    Timeouts = {TRUE}
    DriverRates = {"found", "slow"}
    DriverFrames = {"found", "8N1"}
    Requests = {1, 2}
    MaxTraffic = 3
    MaxCalls = 3
INVARIANTS TypeOK ReadsMatchReference WritesAreCounted TerminalIsOurs
PROPERTY TimedCallsEnd
CHECK_DEADLOCK FALSE
