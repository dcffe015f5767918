SPECIFICATION HostSpec
CONSTANTS
    d1 = d1
    d2 = d2
    Nil = Nil
    Device = {d1, d2}
    Target = d1
    Opens = {d1}
    MaxCid = 2
    MaxSession = 1
    Attempts = 2
    MayDie = TRUE
INVARIANT HostSafe
PROPERTY KeyKept
CHECK_DEADLOCK FALSE
