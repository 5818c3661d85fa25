\* By hand: the registry is not obeyed after a failed save, patient user or not.
SPECIFICATION PatientSpec
CONSTANTS
    Plugins = {p1}
    Sups = {s1}
    Calls = {c1}
    NoPlugin = NoPlugin
    NoSup = NoSup
    RestartBudget = 1
SYMMETRY Symmetry
CHECK_DEADLOCK FALSE
INVARIANTS
    RegistryIsObeyed
