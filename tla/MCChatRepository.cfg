SPECIFICATION Spec
CONSTANTS
    Change <- MCChange
    CHAT_LOGS_LIMIT = 1
    MaxRows = 3
INVARIANTS
    TypeOK
    AckedIsDurable
    TablesAreClosed
    SentIsDurable
    AckedIsVisible
PROPERTY
    ImplementsDurableChat
CHECK_DEADLOCK FALSE
