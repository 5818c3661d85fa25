SPECIFICATION LiveSpec
CONSTANTS
    Windows = {w1}
    Channels = {c1}
    Other = Other
    Ops <- AllOps
    MaxAttempts = 2
    MaxFaults = 2
    MaxFrames = 2
CHECK_DEADLOCK FALSE
PROPERTY ClaimedHeard
