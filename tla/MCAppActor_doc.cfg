SPECIFICATION FairSpec
CONSTANTS
    Peer = {p1}
    Caller = {a}
    Shutter = {s1}
    CHANNEL_BUFFER = 1
    MaxIncoming = 0
    Gone = Gone
    Handle = Handle
    NoPeer = NoPeer
PROPERTIES OpenedChatReachesOut
CHECK_DEADLOCK FALSE
