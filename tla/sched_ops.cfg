CONSTANTS
    t1 = t1
    t2 = t2
    t3 = t3
    idle = idle
    Task = {t1, t2}
    Idle = idle
    InitTask = t1
    Policies = {"FIFO", "TS"}
    RtPriorities = {1}
    NicePrios = {139}
    DonorPrios = {98}
    ResetFlags = {FALSE}
    Workload = {"fork", "exit", "nice", "policy", "pi"}
    Sleepers = {t1}
    SliceUnit = 1
    UIntMod = 64
SPECIFICATION Spec
INVARIANTS
    TypeOK
    ClassMatchesPrio
    QueuesCoherent
    SliceNeverSpent
    NoLostTask
    NrRunningBalanced
    NoTsInversion
PROPERTIES
    PrioWorsensOnlyByUse
    WakeupPreempts
CHECK_DEADLOCK FALSE
