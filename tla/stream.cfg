\* Three messages of one to four bytes behind a header of three.
CONSTANTS
    Messages = 3
    HeaderSize = 3
    MaxSize = 4
SPECIFICATION FairSpec
INVARIANTS TypeOK OverreadBound
PROPERTIES ImplementsChannel MessagesArrive
CHECK_DEADLOCK FALSE
