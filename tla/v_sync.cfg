SPECIFICATION SyncSpec
CONSTANTS
    t1 = t1
    t2 = t2
    p1 = p1
    p2 = p2
    Null = Null
    Publisher = {t1, t2}
    Part = {p1, p2}
    Capacity = 1
    PipeSize = 2
    MaxChange = 3
    MaxAsk = 2
    MaxBreak = 1
SYMMETRY Names
INVARIANT Settles
CHECK_DEADLOCK FALSE
