\* A dummy and a server, a task that opens the dummy, a thread.
CONSTANTS
    Dev = {d1, s1}
    Dummy = {d1}
    Task = {t1}
    Thread = {w1}
    Exit = Exit
    UserLimit = 4
    None = None
SPECIFICATION FairSpec
INVARIANTS TypeOK RefsCover
PROPERTIES FreeDecision ExitEnds
CHECK_DEADLOCK FALSE
