SPECIFICATION FairSpec
CONSTANTS
    Peer = {p1}
    Caller = {a, b}
    Shutter = {s1}
    CHANNEL_BUFFER = 1
    MaxIncoming = 1
    Gone = Gone
    Handle = Handle
    NoPeer = NoPeer
INVARIANTS TypeOK WaitersHaveSenders ReconnectingIsQueued ShutdownIsComplete
PROPERTIES CallsAreAnswered ShutdownReturns
CHECK_DEADLOCK FALSE
