SPECIFICATION Spec
CONSTANTS
    Cis = {1}
    CigIds = {1, 2}
    MaxStarts = 2
    MaxFaults = 2
    rpa1 = rpa1
    rpa2 = rpa2
    peer1 = peer1
    Peer = {peer1}
    Rpas = {rpa1, rpa2}
    MaxLinks = 2
    MaxConnects = 2
    MaxTroubles = 2
    NumCis = 2
    IsoPackets = 3
    QueueMax = 2
    Capacity = 3
    PrefillExtra = 1
    PrefillGrowth = 1
    SpareExtra = 3
    Frame = 3
    MaxSets = 4
    MaxMs = 4
    MaxBroadcasts = 3
INVARIANTS  LinksSafe RoundsSafe BroadcastSafe
PROPERTIES ConnectedIsAsked HeardInOrder
CHECK_DEADLOCK FALSE
