\* Two tasks, each with a file of its own, no allocation failures.
CONSTANTS
    t1 = t1
    t2 = t2
    f1 = f1
    f2 = f2
    Task = {t1, t2}
    File = {f1, f2}
    Worker = {w1, w2}
    Req = {r1, r2}
    Opener <- OwnFiles
    Sharers <- OwnSharers
    QueueLen = 2
    SeqMod = 6
    SeqLimit = 4
    Faults = FALSE
    None = None
SPECIFICATION Spec
INVARIANTS
    OwnReply
    
SYMMETRY WorkerReqSymmetry
CHECK_DEADLOCK FALSE
