SPECIFICATION FairSpec
CONSTANTS
    c1 = c1
    c2 = c2
    c3 = c3
    s1 = s1
    s2 = s2
    r1 = r1
    r2 = r2
    None = None
    Client = {c1, c2}
    Session = {s1}
    Request = {r1}
    OpsOf <- OpsLive
    MaxTicket = 2
    MaxPower = 0
    SlowRadio = TRUE
PROPERTY CallsReturn
CHECK_DEADLOCK FALSE
