\* Two tasks share one file; allocations and sends may fail; curseq wraps.
CONSTANTS
    t1 = t1
    t2 = t2
    f1 = f1
    f2 = f2
    Task = {t1, t2}
    File = {f1}
    Worker = {w1, w2}
    Req = {r1, r2}
    Opener <- FirstOpens
    Sharers <- BothShare
    QueueLen = 1
    SeqMod = 3
    SeqLimit = 3
    Faults = TRUE
    None = None
SPECIFICATION Spec
INVARIANTS
    TypeOK
    UsersCover
    NoUseAfterFree
SYMMETRY WorkerReqSymmetry
CHECK_DEADLOCK FALSE
