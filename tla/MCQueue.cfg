CONSTANTS
    N = 3
    MsgSizes = {1, 2, 3}
    SpiFails = TRUE
    MaxCalls = 4
    MaxWords = 6
    Clients = {"loc", "other"}
    Loc = "loc"
    Answers = {"location", "junk"}
    MaxReqs = 3
    SensorReqs = 2
SPECIFICATION QueueSpec
INVARIANTS
    RingSound
    SlaveReadsCommitted
    WholeMessages
    ResultIsHonest
    AnswersSound
    LiveRequestsIntact
    SensorIsSound
PROPERTY ImplementsFifo
CHECK_DEADLOCK FALSE
