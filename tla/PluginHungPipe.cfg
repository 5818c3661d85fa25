SPECIFICATION FairSpec
CONSTANTS
    PipeCap = 1
    MissLimit = 1
    MaxPings = 1
    MaxEvents = 2
CHECK_DEADLOCK FALSE
PROPERTIES
    HungIsNoticed
