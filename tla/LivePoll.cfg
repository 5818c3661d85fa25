SPECIFICATION LiveSpec
CONSTANTS
    Channels = {c1}
    Pollers = {w1, w2}
    MaxBroadcasts = 2
    MaxUpsets = 1
INVARIANTS TypeOK AnnouncedOnce
PROPERTY ToldInTheEnd
