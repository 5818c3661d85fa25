SPECIFICATION FairSpec
CONSTANTS
    Plugins = {p1}
    Sups = {s1, s2}
    Calls = {c1}
    NoPlugin = NoPlugin
    NoSup = NoSup
    RestartBudget = 1
CHECK_DEADLOCK FALSE
INVARIANTS
    HandleOwned
PROPERTIES
    SupervisorsRun
    StopTakesEffect
    DisplacedStops
