SPECIFICATION Spec
CONSTANTS
    Creds = {c1, c2}
    Named = {c1}
    Callers = {t1, t2}
    MaxStores = 2
    MaxFaults = 1
    MaxEnds = 1
INVARIANTS SignInKept
CHECK_DEADLOCK FALSE
