\* Push and pull of real-time tasks on three CPUs, with and without RT_PUSH_IPI.
\* Task 5 may run anywhere, and with the second pinning task 2 as well; the
\* others keep their CPU busy with more important work.  Wakeups happen on CPU 0.
CONSTANTS
    N = 3
    Task = {0, 1, 2, 4, 5}
    Pinnings = {{0, 1, 2, 4}, {0, 1, 4}}
    Feature = {TRUE, FALSE}
    Waker = {0}
    NULL = NULL
SPECIFICATION Spec
INVARIANTS TypeOK PushableAgrees NobodyWaitsInVain
