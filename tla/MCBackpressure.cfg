SPECIFICATION FairSpec
CONSTANTS
    CHANNEL_BUFFER = 1
    WINDOW = 1
INVARIANT OnlyFullQueuesBlock
PROPERTIES BlockedIsFreed ShutdownFreesManagers
CHECK_DEADLOCK FALSE
