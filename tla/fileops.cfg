\* A device of three bytes, three calls with buffers of up to two.
CONSTANTS
    Byte = {0, 1}
    DevSize = 3
    Limit = 3
    MaxCalls = 3
SPECIFICATION Spec
INVARIANTS TypeOK SuccessIsTrue  ResultFits
PROPERTY OnlyReadsMove
CHECK_DEADLOCK FALSE
