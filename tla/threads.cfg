SPECIFICATION PartSpec
CONSTANTS
    h1 = h1
    h2 = h2
    p1 = p1
    None = None
    Host = {h1, h2}
    Caller = {p1}
    StoreBuffer = FALSE
    MaxUnit = 5
    RingSize = 3
    Round = 3
    PerEncode = 2
    PackMax = 2
    Kinds = {"merged", "single", "faststream"}
    Hold = TRUE
    HoldDepth = 1
    QueueSize = 2
    MaxRestarts = 2
    MaxReset = 2
    MaxRuns = 2
    MaxCommands = 1
    MaxData = 1
    MaxInErrors = 0
    MaxUsbFaults = 1
SYMMETRY Stacks
INVARIANTS TypeOK   NothingLost OneLoop MediaSafe TransportSafe
PROPERTY FifoSpec
CHECK_DEADLOCK FALSE
