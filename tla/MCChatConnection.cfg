SPECIFICATION FairSpec
CONSTANTS
    Conn = {c1, c2}
    NoConn = NoConn
    Task = {t1, t2}
    LocalId = 1
    RemoteId = 2
CHECK_DEADLOCK FALSE
INVARIANTS TypeOK SupersededIsCancelled ReconnectingHasDialer ReportsAreTrue
PROPERTIES HealthyTransportKept DeadTransportNoticed DisconnectedIsLeft ShutdownReleasesTransports
