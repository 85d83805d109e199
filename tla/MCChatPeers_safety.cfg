SPECIFICATION Spec
CONSTANTS
    Conn = {c1, c2, c3, c4}
    NoConn = NoConn
    MaxDials = 2
    MaxFaults = 2
    Prompt = FALSE
SYMMETRY Symmetry
CHECK_DEADLOCK FALSE
INVARIANTS TypeOK EndsAreHeld QuietMeansAgreement
