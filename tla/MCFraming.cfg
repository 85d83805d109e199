SPECIFICATION Spec
CONSTANTS
    Msg <- MCMsg
    Size <- MCSize
    LenBytes = 2
    max_message_size = 3
CHECK_DEADLOCK FALSE
INVARIANTS ReceivedInOrder ReaderAcceptsWriter NoneMeansComplete
