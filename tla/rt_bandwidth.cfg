\* Real-time throttling on two CPUs: half of the period for each, borrowing,
\* hotplug, a period timer that stops itself, and sysctl writes of -1 and back.
CONSTANTS
    N = 2
    Period = 4
    Runtime = 2
    NewRuntime = {2}
    Delta = {2}
    MaxTime = 4
    MaxTasks = 2
SPECIFICATION Spec
INVARIANTS TypeOK RuntimeConserved ThrottledIsTimed 
CHECK_DEADLOCK FALSE
