\* One task with one file at a time; the kernel threads are scheduled fairly.
CONSTANTS
    t1 = t1
    t2 = t2
    f1 = f1
    f2 = f2
    Task = {t1}
    File = {f1}
    Worker = {w1, w2}
    Req = {r1, r2}
    Opener <- FirstOpens
    Sharers <- FirstAlone
    QueueLen = 2
    SeqMod = 7
    SeqLimit = 6
    Faults = FALSE
    None = None
SPECIFICATION FairSpec
PROPERTIES
    CallsReturn
    
CHECK_DEADLOCK FALSE
