CONSTANTS
    WriteN = 3
    MsgSizes = {1, 2}
    SpiFails = FALSE
    MaxCalls = 4
    MaxWords = 5
    N = 5
    Bodies = {0, 2}
    Pieces = TRUE
    Faults = FALSE
    Starts = {3}
    MaxMsgs = 2
    Clients = {"loc", "other"}
    Loc = "loc"
    Answers = {"location", "empty"}
    MaxReqs = 2
    Callers = {"tx"}
    FrameLen = 2
    InMax = 2
    UartFaults = TRUE
    PoolLen = 3
    MaxPackets = 5
    MaxStops = 1
    EnvClients = {"hub", "other"}
    HubClient = "hub"
    SaveAfter = 2
    I2cFails = TRUE
SPECIFICATION LiveSpec
INVARIANT StreamSound
PROPERTIES
    WrittenIsTaken
    PublishedIsDelivered
    SubmittedIsAnswered
    WaitingEnds
    
    EveryPacketIsTried
    
CHECK_DEADLOCK FALSE
