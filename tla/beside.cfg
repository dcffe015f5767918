SPECIFICATION FairSpec
CONSTANTS
    o1 = o1
    o2 = o2
    Nil = Nil
    Output = {o1, o2}
    Level = {0, 1, 2}
    OutTakes <- TwoSteps
    HeadTakes <- NeverMute
    Remember = TRUE
    MaxVolume = 2
    MaxAvrcp = 1
    Opening = {1, 2}
    MaxChannels = 2
    MaxPending = 1
    MaxData = 1
    MaxSend = 1
    MayHang = TRUE
INVARIANTS VolumeSafe ChannelsSafe
PROPERTIES VolumeSettles OpenAnswered
CHECK_DEADLOCK FALSE
