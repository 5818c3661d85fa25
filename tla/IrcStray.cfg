SPECIFICATION PatientSpec
CONSTANTS
    Windows = {w1, w2}
    Channels = {c1}
    Other = Other
    Ops <- AllOps
    MaxAttempts = 3
    MaxFaults = 1
    MaxFrames = 2
CHECK_DEADLOCK FALSE
INVARIANT NoStray
