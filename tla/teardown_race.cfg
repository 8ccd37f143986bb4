\* A dummy and a server are unregistered at the same time.
CONSTANTS
    Dev = {d1, s1}
    Dummy = {d1}
    Task = {t1}
    Thread = {w1}
    Exit = Exit
    UserLimit = 4
    None = None
SPECIFICATION Spec
INVARIANT FreedUnhashed
CHECK_DEADLOCK FALSE
