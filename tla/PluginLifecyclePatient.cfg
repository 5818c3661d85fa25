SPECIFICATION PatientSpec
CONSTANTS
    Plugins = {p1, p2}
    Sups = {s1, s2}
    Calls = {c1, c2}
    NoPlugin = NoPlugin
    NoSup = NoSup
    RestartBudget = 1
SYMMETRY Symmetry
CHECK_DEADLOCK FALSE
INVARIANTS
    AtMostOneProcess
    DisabledIsStopped
    EnabledIsSupervised
