CONSTANTS
    Macs = {"a", "b"}
    StaMax = 1
    Channels = {6, 20}
    Callers = {"tx", "rtnl"}
    FrameLen = 2
    InMax = 2
    UartFaults = TRUE
    PoolLen = 3
    MaxPackets = 5
    MaxStops = 1
    N = 5
    Bodies = {0, 2}
    Pieces = FALSE
    Faults = TRUE
    Starts = {3}
    MaxMsgs = 3
SPECIFICATION WifiSpec
INVARIANTS
    ModeAgrees
    
    ReloadIsComplete
    UartSound
    IrqSound
PROPERTY TransmitSound
CHECK_DEADLOCK FALSE
