SPECIFICATION DropsFairSpec
CONSTANTS
    s1 = s1
    s2 = s2
    k1 = k1
    k2 = k2
    q1 = q1
    q2 = q2
    h1 = h1
    h2 = h2
    Savers = {s1, s2}
    DropsKeys = {k1, k2}
    Plugins = {q1}
    MaxDropsSaves = 2
    Pushes = {h1, h2}
INVARIANTS CopiesAgree NoPluginMissed
PROPERTIES PatchChangesNamed ConfiguredInTheEnd
CHECK_DEADLOCK FALSE
