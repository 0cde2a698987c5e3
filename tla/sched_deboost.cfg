CONSTANTS
    t1 = t1
    t2 = t2
    t3 = t3
    idle = idle
    Task = {t1, t2}
    Idle = idle
    InitTask = t1
    Policies = {"NORMAL", "FIFO", "TS"}
    RtPriorities = {1}
    NicePrios = {100}
    DonorPrios = {98}
    ResetFlags = {FALSE}
    Workload = {"fork", "exit", "yield", "nice", "policy", "pi"}
    Sleepers = {t1, t2}
    SliceUnit = 1
    UIntMod = 64
SPECIFICATION Spec
INVARIANT DeboostRestoresClass
CHECK_DEADLOCK FALSE
