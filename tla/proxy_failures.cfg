\* Two operations at a time; daemons, connections and threads may give up.
CONSTANTS
    Op = {o1, o2, o3}
    Window = 2
    Failures = TRUE
    None = None
SPECIFICATION Spec
INVARIANT
    NeverDuplicated

    
CHECK_DEADLOCK FALSE
