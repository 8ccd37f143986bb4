\* Two remote tasks that open the device three times, two threads, failures.
CONSTANTS
    Pid = {p1, p2}
    Thread = {w1, w2}
    MaxOpen = 3
    UserLimit = 6
    Faults = TRUE
    None = None
SPECIFICATION FairSpec
INVARIANTS TypeOK NoUseAfterFree OwnFile ClosedFiles UsersCover
PROPERTY DestroysEnd
CHECK_DEADLOCK FALSE
