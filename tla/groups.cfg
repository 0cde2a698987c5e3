\* Task group admission: every order of bandwidth writes, sysctl writes, attach
\* and setscheduler on the trees of up to four groups.
CONSTANTS
    root = root
    g1 = g1
    g2 = g2
    g3 = g3
    t1 = t1
    w1 = w1
    k1 = k1
    k2 = k2
    Group = {root, g1, g2, g3}
    Root = root
    Task = {t1}
    Writer = {w1}
    Caller = {k1, k2}
    Runtime = {0, 1}
    Period = {1, 2}
    CfsPeriod = {1, 2}
    Quota = {1, 2}
    default_cfs_period = 2
    MaxWrites = 5
    MaxInFlight = 2
    NULL = NULL
SPECIFICATION Spec
INVARIANTS TypeOK   RtTaskHasRuntime PrioMatchesPolicy 
SYMMETRY Symmetry
CHECK_DEADLOCK FALSE
