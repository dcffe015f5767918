SPECIFICATION StartSpec
CONSTANTS
    c1 = c1
    c2 = c2
    c3 = c3
    s1 = s1
    s2 = s2
    r1 = r1
    r2 = r2
    None = None
    Client = {c1, c2, c3}
    Session = {s1, s2}
    Request = {r1, r2}
    OpsOf <- OpsControl
    MaxTicket = 2
    MaxPower = 0
    SlowRadio = TRUE
    e1 = e1
    e2 = e2
    NoFile = NoFile
    HalfFile = HalfFile
    Dev = {e1, e2}
    MaxFailed = 1
    MaxKilled = 1
    MaxTrouble = 1
    MaxWrites = 1
SYMMETRY Names
INVARIANTS TypeOK OneSession RunningIsLive StopIsForItsSession PlaysLastRequest LatestWins FolderSafe MigrationSafe
CHECK_DEADLOCK FALSE
