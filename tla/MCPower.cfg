CONSTANTS
    Requests <- const_Requests
    RawValues = {2, 60}
    BusFails = TRUE
    Readers = {"a", "b"}
    GaugeBusFails = TRUE
    Others = TRUE
    RSense <- const_RSense
    Prescaler = {0, 5, 9}
    Charges = {0, 1000, 123457, 6000000}
    Levels = {0, 32767}
    LtcBusFails = TRUE
    NumAttrs = 2
    Periods = {1, 2}
    MaxPushes = 3
    TextLens = {1, 38, 39}
    Chars = {65}
    Blocks = 3
    I2cMayFail = TRUE
    Dies = TRUE
SPECIFICATION PowerSpec
INVARIANTS
    PresentFaultReported
    ConfigTaken
    
    TagObeysHub
    
 
CHECK_DEADLOCK FALSE
