\* By hand: each of the three fails when the user does not wait; exchange them.
SPECIFICATION Spec
CONSTANTS
    Plugins = {p1}
    Sups = {s1}
    Calls = {c1}
    NoPlugin = NoPlugin
    NoSup = NoSup
    RestartBudget = 1
SYMMETRY Symmetry
CHECK_DEADLOCK FALSE
INVARIANTS
    DisabledIsStopped
    \* EnabledIsSupervised
    \* ExitSeesProcesses
