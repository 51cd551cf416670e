CONSTANTS
    Base = 2
    HeaderLen = 2
    BufferSize = 2
    MaxMessages = 3
    Message <- MCTooLong
SPECIFICATION Spec
PROPERTY DeliversMessages
CHECK_DEADLOCK FALSE
