SPECIFICATION PatientSpec
CONSTANTS
    Creds = {c1, c2}
    Named = {c1}
    Callers = {t1, t2}
    MaxStores = 2
    MaxFaults = 2
    MaxEnds = 2
INVARIANTS SignInKept MigratedIsSealed
CHECK_DEADLOCK FALSE
