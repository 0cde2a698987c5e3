------------------------------ MODULE TsClass ------------------------------
(***************************************************************************)
(* The arithmetic of the SCHED_TS scheduling class (kernel/sched/ts.c):    *)
(* which run list a priority selects, how long a time slice it earns, how  *)
(* a wakeup raises it and how an expired slice lowers it, and the list     *)
(* operations the class performs on its 40 run lists.                      *)
(***************************************************************************)
EXTENDS Integers, Sequences

CONSTANT SliceUnit   \* ticks of the shortest slice; ts.c uses 4 (slices 4, 8, 12, 16)

ASSUME SliceUnitAssumption == SliceUnit \in Nat \ {0}

MAX_RT_PRIO == 100                \* first non-real-time priority
TsPrio == 100 .. 139              \* priorities of SCHED_TS tasks (nice -20 .. 19)
QueueIndex == 0 .. 39             \* struct ts_rq { struct list_head queue[40]; }
MaxSlice == 4 * SliceUnit
Slice == 1 .. MaxSlice

\* prioQueue: the lists are stored worst priority first.
prioQueue(prio) == 139 - prio

\* Faulty variant: the best band was forgotten and gets no slice.
prioTimeslice_NoBestBand(prio) == ((prio \div 10) - 10) * SliceUnit

\* prioTimeslice leaves its result uninitialised outside 100..139; 0 stands for
\* that here, so that SliceNeverSpent would catch such a call.
prioTimeslice(prio) ==
    IF prio \in 130 .. 139 THEN 4 * SliceUnit
    ELSE IF prio \in 120 .. 129 THEN 3 * SliceUnit
    ELSE IF prio \in 110 .. 119 THEN 2 * SliceUnit
    ELSE IF prio \in 100 .. 109 THEN SliceUnit
    ELSE 0

\* Faulty variant: a task that is already in the best band is put at its end.
WakeupPrio_BandEnd(prio) == IF prio \in 100 .. 109 THEN 109 ELSE 108

\* The ENQUEUE_WAKEUP branch of enqueue_task_ts.
WakeupPrio(prio) ==
    IF prio \in 130 .. 139 THEN 109
    ELSE IF prio \in 120 .. 129 THEN 108
    ELSE IF prio \in 100 .. 109 THEN 100
    ELSE IF prio \in 116 .. 119 THEN prio - 12
    ELSE IF prio \in 110 .. 115 THEN 101 + (prio - 110) \div 2
    ELSE prio

\* task_tick_ts: the priority after the slice has run out.
ExpiredPrio(prio) == IF prio + 10 >= 139 THEN 139 ELSE prio + 10

-----------------------------------------------------------------------------
\* list_del on the one list s: p's node is unlinked, the others keep their order.
Unlink(s, p) ==
    IF \E i \in 1 .. Len(s) : s[i] = p
    THEN LET at == CHOOSE i \in 1 .. Len(s) : s[i] = p
         IN  [j \in 1 .. Len(s) - 1 |-> IF j < at THEN s[j] ELSE s[j + 1]]
    ELSE s

\* list_del knows no list head: it unlinks p from whichever list holds it.
list_del(q, p) == [x \in QueueIndex |-> Unlink(q[x], p)]

list_add_tail(q, p, x) == [q EXCEPT ![x] = Append(@, p)]

list_move_tail(q, p, x) == list_add_tail(list_del(q, p), p, x)

init_ts_rq == [x \in QueueIndex |-> << >>]

\* pick_next_task_ts: the scan from x = 39 down to the first list that is not
\* empty, and the head of that list (at most one element).
TsBest(q) == LET full == {x \in QueueIndex : q[x] # << >>}
             IN  {q[x][1] : x \in {x \in full : \A y \in full : y <= x}}
=============================================================================
