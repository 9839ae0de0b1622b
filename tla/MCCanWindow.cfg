CONSTANTS
    MaxTx = 1
    MaxRx = 1
    MaxErr = 1
    MaxSleep = 1
    FilterLists <- const_FilterLists
    ErrMasks <- const_ErrMasks
    Window = TRUE
    MaxSocks = 2
    Mux = {1}
    Data = {1}
    MaxCount = 1
    MaxCalls = 1
SPECIFICATION RawOnlySpec
INVARIANT UnregisterFinds
CHECK_DEADLOCK FALSE
