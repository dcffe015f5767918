SPECIFICATION FairSpec
CONSTANTS
    d1 = d1
    Device = {d1}
    Target = d1
    Opens = {}
    MaxCid = 1
    MaxSession = 1
    Attempts = 1
    MayDie = TRUE
    Nil = Nil
    h1 = h1
    p1 = p1
    Host = {h1}
    Caller = {p1}
    StoreBuffer = TRUE
    None = None
    Cis = {1}
    CigIds = {1, 2}
    MaxStarts = 2
    MaxFaults = 1
    Con = {1}
    Steps = 1
    MaxOps = 2
    MaxGattLinks = 2
    MaxBusy = 2
INVARIANT GattSafe
PROPERTIES StopEnds ExitEnds ComesToRest AllAnswered
CHECK_DEADLOCK FALSE
