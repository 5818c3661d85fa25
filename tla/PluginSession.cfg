SPECIFICATION FairSpec
CONSTANTS
    PipeCap = 8
    MissLimit = 1
    MaxPings = 1
    MaxEvents = 2
CHECK_DEADLOCK FALSE
INVARIANTS
    EventsInOrder
    FrameOrder
PROPERTIES
    HungIsNoticed
    ActionAnswered
    ImplementsFairRun
