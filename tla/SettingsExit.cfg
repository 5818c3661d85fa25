SPECIFICATION Spec
CONSTANTS
    setup = setup
    seen = seen
    t1 = t1
    t2 = t2
    k1 = k1
    k2 = k2
    Callers = {t1, t2}
    Portable = {k1}
    Local = {setup}
    Setup = setup
    Kinds = {"patch", "tick", "exit"}
    MaxSaves = 1
    MaxFails = 0
    MaxEnds = 1
INVARIANTS ExitKeepsSaves
SYMMETRY Symmetry
CHECK_DEADLOCK FALSE
