SPECIFICATION Spec
CONSTANTS
    Channels = {me, other}
    Lines = {a, b}
    Jobs = {j1, j2}
    Primary = me
    None = None
    Window = 3
    ViewerPerWindow = 1
    PrivilegedPerWindow = 2
    ViewerSpacing = 1
    PrivilegedSpacing = 1
    MaxWait = 3
    DuplicateSpan = 3
    PendingSpan = 1
    ClaimAhead = 1
    RoomModes <- MCRoomModes
    Horizon = 3
    MaxMade = 3
    MaxNotes = 1
SYMMETRY Symmetry
INVARIANTS TypeOK SendsCovered NoNeedlessWait WithinBudget
PROPERTY ImplementsBudget
CHECK_DEADLOCK FALSE
