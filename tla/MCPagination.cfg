SPECIFICATION Spec
CONSTANTS
    Peer = {p1, p2}
    MsgId <- MCMsgId
    Time <- MCTime
    UsizeMax = 7
CHECK_DEADLOCK FALSE
INVARIANTS PagesOfOrderedLists AllIsTheHistory
