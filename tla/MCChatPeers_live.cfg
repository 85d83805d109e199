SPECIFICATION FairSpec
CONSTANTS
    Conn = {c1, c2, c3}
    NoConn = NoConn
    MaxDials = 2
    MaxFaults = 1
    Prompt = TRUE
CHECK_DEADLOCK FALSE
INVARIANT GlareKeepsOne
PROPERTY EventuallySettled
