\* Four daemons and a table of three: the table fills up and wedges.
CONSTANTS
    Pid = {p1, p2, p3, p4}
    Opener = {o1}
    MaxDevices = 3
    None = None
    Free = Free
    Wedged = Wedged
SPECIFICATION Spec
INVARIANTS
    TypeOK
    MinorOwner
SYMMETRY PidSymmetry
PROPERTY OpenReaches
CHECK_DEADLOCK FALSE
