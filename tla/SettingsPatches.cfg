SPECIFICATION FairSpec
CONSTANTS
    setup = setup
    seen = seen
    t1 = t1
    t2 = t2
    k1 = k1
    k2 = k2
    Callers = {t1, t2}
    Portable = {k1, k2}
    Local = {setup}
    Setup = setup
    Kinds = {"patch", "tick", "day"}
    MaxSaves = 3
    MaxFails = 1
    MaxEnds = 1
INVARIANTS NothingForgotten CopyKept
PROPERTIES SavedInTheEnd
CHECK_DEADLOCK FALSE
