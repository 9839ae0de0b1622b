CONSTANTS
    Boards = {"green", "red", "yellow"}
    Signatures = {"known", "blank", "foreign"}
    Failures = TRUE
    MaxLoads = 2
    MaxBinds = 2
    Cards <- AllCards
    Absent = {"adc", "uart"}
    MaxInterfaces = 3
    SlotFailures = TRUE
    MaxProbes = 2
    Devs = {d1, d2}
    Trigs = {t1, t2}
    None = None
    Irqs = {0, 1}
    Lengths = {1}
    Channels = {1, 2}
    Faults = {"bus"}
    Race = FALSE
    MaxFires = 1
    Limits = {"low", "lower"}
    FifoLen = 2
    BusFails = TRUE
    MaxConv = 3
    MaxReleases = 1
    Sensors = {"accel", "sign_m"}
    Users = {"u"}
    Rates = {26}
    Durations = {2}
    MaxCalls = 4
    MaxFails = 2
    ClockSteps <- const_Steps
    Interval = 10
    MaxSets = 2
    MaxRounds = 4
    RtcFails = TRUE
SPECIFICATION DevicesSpec
SYMMETRY Symmetry
INVARIANTS
    
    SlotSound
    DataMatchesMask
    
    
    OrdinaryBankWhenFree
    ClocksAgree
PROPERTY AllOrNothing
CHECK_DEADLOCK FALSE
