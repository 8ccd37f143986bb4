\* One operation at a time, nothing fails.
CONSTANTS
    Op = {o1, o2, o3}
    Window = 1
    Failures = FALSE
    None = None
SPECIFICATION FairSpec
INVARIANTS
    TypeOK
    AckFirst
    

    
CHECK_DEADLOCK FALSE
