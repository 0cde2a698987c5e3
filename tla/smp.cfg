\* One sleeping task that is bound to CPUs, one SCHED_TS task that computes, a
\* waker, and a CPU that is taken down and brought back.
CONSTANTS
  c0 = c0
  c1 = c1
  t1 = t1
  t2 = t2
  w1 = w1
  NULL = NULL
  CPU = {c0, c1}
  Task = {t1, t2}
  Ts = {t2}
  Sleeper = {t1}
  Bound = {t1}
  Waker = {w1}
  Unplug = {c1}
SPECIFICATION FairSpec
INVARIANTS TypeOK QueueAgrees DeadCpuEmpty
PROPERTIES AffinityHonoured CallsReturn  ImplementsContract
