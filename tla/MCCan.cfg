CONSTANTS
    MaxTx = 2
    MaxRx = 2
    MaxErr = 2
    MaxSleep = 1
    FilterLists <- const_FilterLists
    ErrMasks <- const_ErrMasks
    Window = FALSE
    MaxSocks = 2
    Mux = {1}
    Data = {1, 2}
    MaxCount = 2
    MaxCalls = 2
SPECIFICATION CanSpec
INVARIANTS
    FramesOnce
    QueueRestarts
    DeliversAsDocumented
    
CHECK_DEADLOCK FALSE
