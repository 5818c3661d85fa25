SPECIFICATION DropsSpec
CONSTANTS
    s1 = s1
    s2 = s2
    k1 = k1
    k2 = k2
    q1 = q1
    q2 = q2
    h1 = h1
    h2 = h2
    Savers = {s1}
    DropsKeys = {k1, k2}
    Plugins = {q1}
    MaxDropsSaves = 2
    Pushes = {h1, h2}
PROPERTY PatchKeepsImports
SYMMETRY Symmetry
CHECK_DEADLOCK FALSE
