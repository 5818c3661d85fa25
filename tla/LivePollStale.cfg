\* By hand: a poll decides on an answer from before a broadcast began, and puts
\* the older broadcast back in the record: both alert twice.
SPECIFICATION Spec
CONSTANTS
    Channels = {c1}
    Pollers = {w1}
    MaxBroadcasts = 2
    MaxUpsets = 0
INVARIANT AnnouncedOnce
