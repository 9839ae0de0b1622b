CONSTANTS
    Limits = {"low", "lower"}
    FifoLen = 2
    BusFails = FALSE
    MaxConv = 3
    MaxReleases = 1
SPECIFICATION OptSpec
INVARIANT LimitRestored
CHECK_DEADLOCK FALSE
