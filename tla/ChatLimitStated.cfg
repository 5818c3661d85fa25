\* By hand: each of the three fails; exchange the last lines.
SPECIFICATION Spec
CONSTANTS
    Channels = {me, other}
    Lines = {a, b}
    Jobs = {j1, j2}
    Primary = me
    None = None
    Window = 3
    ViewerPerWindow = 2
    PrivilegedPerWindow = 3
    ViewerSpacing = 1
    PrivilegedSpacing = 1
    MaxWait = 5
    DuplicateSpan = 3
    PendingSpan = 1
    ClaimAhead = 1
    RoomModes <- MCRoomModes
    Horizon = 4
    MaxMade = 3
    MaxNotes = 0
INVARIANT NeverOverBudget
CHECK_DEADLOCK FALSE
\* INVARIANT NoRepeat
\* PROPERTY SpacedAfterTyped
