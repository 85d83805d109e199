SPECIFICATION Spec
CONSTANTS
    Change <- MCChange
    CHAT_LOGS_LIMIT = 1
    MaxRows = 3
INVARIANT
    LogIsTruncated
CHECK_DEADLOCK FALSE
