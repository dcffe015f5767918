SPECIFICATION Spec
CONSTANTS
    c1 = c1
    c2 = c2
    c3 = c3
    s1 = s1
    s2 = s2
    r1 = r1
    r2 = r2
    None = None
    Client = {c1, c2, c3}
    Session = {s1, s2}
    Request = {r1}
    OpsOf <- OpsAdapter
    MaxTicket = 1
    MaxPower = 1
    SlowRadio = TRUE
SYMMETRY Threads
INVARIANTS StaleKnown  ToolAlone
CHECK_DEADLOCK FALSE
