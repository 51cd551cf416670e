CONSTANTS
    Base = 2
    HeaderLen = 2
    BufferSize = 3
    MaxMessages = 3
    Message <- MCMessage
SPECIFICATION FairSpec
INVARIANT TypeOK LengthsSurvive
PROPERTY DeliversMessages CallsEnd
CHECK_DEADLOCK FALSE
