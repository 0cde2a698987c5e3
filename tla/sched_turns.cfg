CONSTANTS
    t1 = t1
    t2 = t2
    t3 = t3
    idle = idle
    Task = {t1, t2, t3}
    Idle = idle
    InitTask = t1
    Policies = {"TS"}
    RtPriorities = {}
    NicePrios = {}
    DonorPrios = {}
    ResetFlags = {TRUE}
    Workload = {"fork", "policy", "yield"}
    Sleepers = {}
    SliceUnit = 1
    UIntMod = 64
SPECIFICATION FairSpec
PROPERTIES
    CpuBoundTasksTakeTurns
CHECK_DEADLOCK FALSE
