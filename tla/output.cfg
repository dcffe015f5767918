SPECIFICATION Spec
CONSTANTS
    d1 = d1
    d2 = d2
    None = None
    Device = {d1, d2}
    MaxStart = 3
    MaxUser = 2
SYMMETRY Devices
INVARIANT OutputSafe
PROPERTY UserMuteStays
CHECK_DEADLOCK FALSE
