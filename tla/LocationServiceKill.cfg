CONSTANTS
    Clients = {"loc", "other"}
    Loc = "loc"
    Answers = {"location", "empty"}
    MaxReqs = 2
SPECIFICATION LocFairSpec
PROPERTY KillEndsWaiting
CHECK_DEADLOCK FALSE
