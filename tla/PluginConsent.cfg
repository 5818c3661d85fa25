SPECIFICATION PatientSpec
CONSTANTS
    p1 = p1
    p2 = p2
    c1 = c1
    c2 = c2
    Plugins = {p1}
    Calls = {c1, c2}
    Accounts = {1}
    MaxAsks = 2
    MaxWords = 2
    MaxFails = 0
    MaxEnds = 0
INVARIANT FirstRequestPrompts
CHECK_DEADLOCK FALSE
