------------------------------ MODULE SchedSMP ------------------------------
(***************************************************************************)
(* Sleeping, waking and moving tasks between CPUs (kernel/sched/core.c):   *)
(* __schedule and finish_task_switch on every CPU, try_to_wake_up with its *)
(* lockless reads and its remote wake lists, affinity changes with         *)
(* move_queued_task and the migration thread, and CPU hotplug.             *)
(*                                                                         *)
(* Locks are modelled by what they protect.  A run queue lock held within  *)
(* one step is not visible; the one held from __schedule to finish_task is *)
(* Switching(c).  p->pi_lock is held by whoever is between its first and   *)
(* last locked step on p (PiLocked).  A scheduling class decides only      *)
(* which queued task runs next, here any of them.                          *)
(***************************************************************************)
EXTENDS FiniteSets, Integers

CONSTANTS
    CPU, Task,
    Ts,        \* the tasks of class SCHED_TS: rq->nr_running does not count them
    Sleeper,   \* the tasks that wait for a condition; the others only compute
    Bound,     \* the tasks whose affinity is changed
    Waker,     \* threads and interrupts that call wake_up_process
    Unplug,    \* the CPUs that may be taken down
    NULL

Idle == "swapper"      \* rq->idle
Stop == "migration"    \* rq->stop, the migration thread

ASSUME SmpAssumption ==
    /\ Ts \subseteq Task /\ Sleeper \subseteq Task /\ Bound \subseteq Task
    /\ Unplug \subseteq CPU
    /\ CPU \ Unplug # {}
    /\ NULL \notin CPU \cup Task
    /\ Task \cap {Idle, Stop} = {}
    /\ IsFiniteSet(Waker)

TASK_RUNNING == "R"
TASK_UNINTERRUPTIBLE == "D"
TASK_WAKING == "W"
TASK_ON_RQ_QUEUED == "queued"
TASK_ON_RQ_MIGRATING == "migrating"
OffRq == "no"

VARIABLES
    state, on_rq, on_cpu, task_cpu, cpus_allowed,   \* fields of task_struct
    loc,          \* where a task is in the wait loop of include/linux/sched.h
    cond,         \* the condition each task waits for
    rq, curr,     \* per CPU: queued tasks, running task
    prev,         \* per CPU: the task that finish_task has not yet released, or NULL
    wake_list, ipi, \* per CPU: remote wakeups pending, reschedule IPI pending
    ttwu,         \* per waker: the step of try_to_wake_up it is at, and for which task
    setaff,       \* the caller of __set_cpus_allowed_ptr
    work,         \* per CPU: argument of the queued migration_cpu_stop, or NULL
    stopper,      \* per CPU: the step of migration_cpu_stop
    cpu_active, cpu_online

taskVars == <<state, on_rq, on_cpu, task_cpu, cpus_allowed>>
waitVars == <<loc, cond>>
rqVars == <<rq, curr, prev>>
ipiVars == <<wake_list, ipi>>
stopVars == <<work, stopper>>
cpuVars == <<cpu_active, cpu_online>>
vars == <<taskVars, waitVars, rqVars, ipiVars, ttwu, setaff, stopVars, cpuVars>>

\* A thread at step pc of a call for p.
At(pc, p) == [pc |-> pc, task |-> p, dest |-> NULL]
NoCall == At("idle", NULL)

Switching(c) == prev[c] # NULL      \* c holds its rq->lock across the switch

PiLocked(p) ==
    \/ \E w \in Waker : ttwu[w].task = p /\ ttwu[w].pc \notin {"idle", "call"}
    \/ setaff.task = p /\ setaff.pc = "move"
    \/ \E c \in CPU : stopper[c] = "move" /\ work[c].task = p

Running(c) == curr[c] \in Task /\ ~Switching(c)

-----------------------------------------------------------------------------
\* Where a task may be put.

is_cpu_allowed(p, c) == c \in cpus_allowed[p] /\ c \in cpu_active

\* select_fallback_rq: an allowed active CPU, and if there is none any active
\* CPU, the task's mask being widened to all possible CPUs.
FallbackMask(p) ==
    IF \E c \in CPU : is_cpu_allowed(p, c) THEN cpus_allowed[p] ELSE CPU

select_fallback_rq(p) == FallbackMask(p) \cap cpu_active

\* set_task_cpu: __set_task_cpu is all that matters here of it.
set_task_cpu(p, c) == [task_cpu EXCEPT ![p] = c]

\* select_task_rq: a SCHED_TS task stays where it was, another class chooses;
\* a CPU that is not allowed is replaced by the fallback.
select_task_rq(p) ==
    IF Cardinality(cpus_allowed[p]) > 1 /\ p \in Ts /\ is_cpu_allowed(p, task_cpu[p])
    THEN {task_cpu[p]}
    ELSE select_fallback_rq(p)

Init ==
    /\ state = [p \in Task |-> TASK_RUNNING]
    /\ on_rq = [p \in Task |-> TASK_ON_RQ_QUEUED]
    /\ on_cpu = [p \in Task |-> FALSE]
    /\ task_cpu \in [Task -> CPU]
    /\ cpus_allowed = [p \in Task |-> CPU]
    /\ loc = [p \in Task |-> "loop"]
    /\ cond = [p \in Task |-> FALSE]
    /\ rq = [c \in CPU |-> {p \in Task : task_cpu[p] = c}]
    /\ curr = [c \in CPU |-> Idle]
    /\ prev = [c \in CPU |-> NULL]
    /\ wake_list = [c \in CPU |-> {}]
    /\ ipi = [c \in CPU |-> FALSE]
    /\ ttwu = [w \in Waker |-> NoCall]
    /\ setaff = NoCall
    /\ work = [c \in CPU |-> NULL]
    /\ stopper = [c \in CPU |-> "idle"]
    /\ cpu_active = CPU
    /\ cpu_online = CPU

-----------------------------------------------------------------------------
\* The sleeper's wait loop:
\*   for (;;) { set_current_state(TASK_UNINTERRUPTIBLE);
\*              if (!need_sleep) break;  schedule(); }
\*   __set_current_state(TASK_RUNNING);

set_current_state(c) ==
    /\ Running(c) /\ curr[c] \in Sleeper /\ loc[curr[c]] = "loop"
    /\ state' = [state EXCEPT ![curr[c]] = TASK_UNINTERRUPTIBLE]
    /\ loc' = [loc EXCEPT ![curr[c]] = "test"]
    /\ UNCHANGED <<on_rq, on_cpu, task_cpu, cpus_allowed, cond, rqVars, ipiVars,
                   ttwu, setaff, stopVars, cpuVars>>

test_condition(c) ==
    LET p == curr[c] IN
    /\ Running(c) /\ loc[p] = "test"
    /\ IF cond[p]
       THEN /\ state' = [state EXCEPT ![p] = TASK_RUNNING]
            /\ loc' = [loc EXCEPT ![p] = "loop"]
            /\ cond' = [cond EXCEPT ![p] = FALSE]
       ELSE /\ loc' = [loc EXCEPT ![p] = "schedule"]
            /\ UNCHANGED <<state, cond>>
    /\ UNCHANGED <<on_rq, on_cpu, task_cpu, cpus_allowed, rqVars, ipiVars,
                   ttwu, setaff, stopVars, cpuVars>>

-----------------------------------------------------------------------------
\* pick_next_task: the migration thread when it has work, else some queued
\* task, else the idle task.
pick_next_task(c, queue) ==
    IF work[c] # NULL THEN {Stop} ELSE IF queue = {} THEN {Idle} ELSE queue

\* prepare_task: the next task is marked on_cpu before the switch.
prepare_task(c, next, queue) ==
    /\ rq' = [rq EXCEPT ![c] = queue]
    /\ curr' = [curr EXCEPT ![c] = next]
    /\ prev' = [prev EXCEPT ![c] = IF curr[c] \in Task /\ next # curr[c] THEN curr[c] ELSE NULL]
    /\ on_cpu' = IF next \in Task THEN [on_cpu EXCEPT ![next] = TRUE] ELSE on_cpu

\* __schedule(preempt = false), called by the running task: a task whose state
\* is still not TASK_RUNNING leaves the run queue.
schedule(c) ==
    LET p == curr[c]
        sleeps == state[p] # TASK_RUNNING
        queue == IF sleeps THEN rq[c] \ {p} ELSE rq[c]
    IN  /\ Running(c) /\ loc[p] = "schedule"
        /\ \E next \in pick_next_task(c, queue) : prepare_task(c, next, queue)
        /\ on_rq' = IF sleeps THEN [on_rq EXCEPT ![p] = OffRq] ELSE on_rq
        /\ loc' = [loc EXCEPT ![p] = "loop"]
        /\ UNCHANGED <<state, task_cpu, cpus_allowed, cond, ipiVars, ttwu, setaff, stopVars, cpuVars>>

\* __schedule(preempt = true) after a tick, a wakeup or an IPI set
\* TIF_NEED_RESCHED, and the loops of the idle and the migration thread: the
\* task that is switched out stays queued whatever its state.
preempt_schedule(c) ==
    /\ ~Switching(c) /\ c \in cpu_online
    /\ curr[c] = Stop => work[c] = NULL
    /\ \E next \in pick_next_task(c, rq[c]) \ {curr[c]} : prepare_task(c, next, rq[c])
    /\ UNCHANGED <<state, on_rq, task_cpu, cpus_allowed, waitVars, ipiVars, ttwu,
                   setaff, stopVars, cpuVars>>

\* Faulty variant: on_cpu of the previous task is never cleared.
finish_task_NoClear(c) ==
    /\ Switching(c)
    /\ prev' = [prev EXCEPT ![c] = NULL]
    /\ UNCHANGED <<taskVars, waitVars, rq, curr, ipiVars, ttwu, setaff, stopVars, cpuVars>>

\* finish_task_switch on the new stack: on_cpu of the previous task is cleared
\* and the run queue lock released.
finish_task(c) ==
    /\ Switching(c)
    /\ on_cpu' = [on_cpu EXCEPT ![prev[c]] = FALSE]
    /\ prev' = [prev EXCEPT ![c] = NULL]
    /\ UNCHANGED <<state, on_rq, task_cpu, cpus_allowed, waitVars, rq, curr, ipiVars,
                   ttwu, setaff, stopVars, cpuVars>>

-----------------------------------------------------------------------------
\* try_to_wake_up.  The caller makes the condition true and then wakes p.

wake_up_process(w, p) ==
    /\ ttwu[w].pc = "idle" /\ p \in Sleeper
    /\ cond' = [cond EXCEPT ![p] = TRUE]
    /\ ttwu' = [ttwu EXCEPT ![w] = At("call", p)]
    /\ UNCHANGED <<taskVars, loc, rqVars, ipiVars, setaff, stopVars, cpuVars>>

\* Takes p->pi_lock; a task that is not asleep needs no wakeup.
ttwu_lock(w) ==
    LET p == ttwu[w].task IN
    /\ ttwu[w].pc = "call" /\ ~PiLocked(p)
    /\ ttwu' = [ttwu EXCEPT ![w] = IF state[p] = TASK_UNINTERRUPTIBLE
                                   THEN At("on_rq", p) ELSE NoCall]
    /\ UNCHANGED <<taskVars, waitVars, rqVars, ipiVars, setaff, stopVars, cpuVars>>

\* if (p->on_rq && ttwu_remote(p, wake_flags)): the lockless read of on_rq.
ttwu_on_rq(w) ==
    LET p == ttwu[w].task IN
    /\ ttwu[w].pc = "on_rq"
    /\ ttwu' = [ttwu EXCEPT ![w] = At(IF on_rq[p] # OffRq THEN "remote" ELSE "on_cpu", p)]
    /\ UNCHANGED <<taskVars, waitVars, rqVars, ipiVars, setaff, stopVars, cpuVars>>

\* ttwu_remote under __task_rq_lock: a task that is still queued only has its
\* state reset.
ttwu_remote(w) ==
    LET p == ttwu[w].task IN
    /\ ttwu[w].pc = "remote"
    /\ ~Switching(task_cpu[p]) /\ on_rq[p] # TASK_ON_RQ_MIGRATING
    /\ IF on_rq[p] = TASK_ON_RQ_QUEUED
       THEN /\ state' = [state EXCEPT ![p] = TASK_RUNNING]
            /\ ttwu' = [ttwu EXCEPT ![w] = NoCall]
       ELSE /\ ttwu' = [ttwu EXCEPT ![w] = At("on_cpu", p)]
            /\ UNCHANGED state
    /\ UNCHANGED <<on_rq, on_cpu, task_cpu, cpus_allowed, waitVars, rqVars, ipiVars,
                   setaff, stopVars, cpuVars>>

\* Faulty variant: the CPU that p is leaving is not waited for.
ttwu_select_NoWait(w) ==
    LET p == ttwu[w].task IN
    /\ ttwu[w].pc = "on_cpu"
    /\ state' = [state EXCEPT ![p] = TASK_WAKING]
    /\ \E c \in select_task_rq(p) : task_cpu' = set_task_cpu(p, c)
    /\ ttwu' = [ttwu EXCEPT ![w] = At("queue", p)]
    /\ UNCHANGED <<on_rq, on_cpu, cpus_allowed, waitVars, rqVars, ipiVars, setaff,
                   stopVars, cpuVars>>

\* smp_cond_load_acquire(&p->on_cpu, !VAL); then TASK_WAKING, select_task_rq and
\* set_task_cpu.
ttwu_select(w) ==
    LET p == ttwu[w].task IN
    /\ ttwu[w].pc = "on_cpu" /\ ~on_cpu[p]
    /\ state' = [state EXCEPT ![p] = TASK_WAKING]
    /\ \E c \in select_task_rq(p) : task_cpu' = set_task_cpu(p, c)
    /\ cpus_allowed' = [cpus_allowed EXCEPT ![p] = FallbackMask(p)]
    /\ ttwu' = [ttwu EXCEPT ![w] = At("queue", p)]
    /\ UNCHANGED <<on_rq, on_cpu, waitVars, rqVars, ipiVars, setaff, stopVars, cpuVars>>

\* ttwu_do_activate for every task of ps, the run queue of c being locked.
ttwu_do_activate(c, ps) ==
    /\ rq' = [rq EXCEPT ![c] = @ \cup ps]
    /\ on_rq' = [p \in Task |-> IF p \in ps THEN TASK_ON_RQ_QUEUED ELSE on_rq[p]]
    /\ state' = [p \in Task |-> IF p \in ps THEN TASK_RUNNING ELSE state[p]]

\* ttwu_queue when the waker shares a cache with the chosen CPU.
ttwu_queue(w) ==
    LET p == ttwu[w].task IN
    /\ ttwu[w].pc = "queue" /\ ~Switching(task_cpu[p])
    /\ ttwu_do_activate(task_cpu[p], {p})
    /\ ttwu' = [ttwu EXCEPT ![w] = NoCall]
    /\ UNCHANGED <<on_cpu, task_cpu, cpus_allowed, waitVars, curr, prev, ipiVars,
                   setaff, stopVars, cpuVars>>

\* Faulty variant: the reschedule IPI is sent only to a CPU that already has
\* wakeups pending.
ttwu_queue_remote_NoIpi(w) ==
    LET p == ttwu[w].task
        c == task_cpu[p]
    IN  /\ ttwu[w].pc = "queue"
        /\ wake_list' = [wake_list EXCEPT ![c] = @ \cup {p}]
        /\ ipi' = [ipi EXCEPT ![c] = @ \/ wake_list[c] # {}]
        /\ ttwu' = [ttwu EXCEPT ![w] = NoCall]
        /\ UNCHANGED <<taskVars, waitVars, rqVars, setaff, stopVars, cpuVars>>

\* ttwu_queue_remote: no lock; only the waker that finds the list empty sends
\* the IPI.
ttwu_queue_remote(w) ==
    LET p == ttwu[w].task
        c == task_cpu[p]
    IN  /\ ttwu[w].pc = "queue"
        /\ wake_list' = [wake_list EXCEPT ![c] = @ \cup {p}]
        /\ ipi' = [ipi EXCEPT ![c] = @ \/ wake_list[c] = {}]
        /\ ttwu' = [ttwu EXCEPT ![w] = NoCall]
        /\ UNCHANGED <<taskVars, waitVars, rqVars, setaff, stopVars, cpuVars>>

\* sched_ttwu_pending: the whole list is taken and activated.
sched_ttwu_pending(c) ==
    /\ ttwu_do_activate(c, wake_list[c])
    /\ wake_list' = [wake_list EXCEPT ![c] = {}]

scheduler_ipi(c) ==
    /\ ipi[c] /\ ~Switching(c)
    /\ sched_ttwu_pending(c)
    /\ ipi' = [ipi EXCEPT ![c] = FALSE]
    /\ UNCHANGED <<on_cpu, task_cpu, cpus_allowed, waitVars, curr, prev, ttwu, setaff,
                   stopVars, cpuVars>>

-----------------------------------------------------------------------------
\* Affinity changes and migration.

\* Faulty variant: the task is not marked as migrating.
MoveOut_NotMigrating(p, dest) ==
    /\ rq' = [rq EXCEPT ![task_cpu[p]] = @ \ {p}]
    /\ task_cpu' = set_task_cpu(p, dest)
    /\ UNCHANGED on_rq

\* First half of move_queued_task, under the old run queue's lock.
MoveOut(p, dest) ==
    /\ on_rq' = [on_rq EXCEPT ![p] = TASK_ON_RQ_MIGRATING]
    /\ rq' = [rq EXCEPT ![task_cpu[p]] = @ \ {p}]
    /\ task_cpu' = set_task_cpu(p, dest)

\* Second half, under the new run queue's lock.
MoveIn(p) ==
    /\ ~Switching(task_cpu[p])
    /\ on_rq' = [on_rq EXCEPT ![p] = TASK_ON_RQ_QUEUED]
    /\ rq' = [rq EXCEPT ![task_cpu[p]] = @ \cup {p}]

\* __set_cpus_allowed_ptr under task_rq_lock.
set_cpus_allowed(p, mask, dest) ==
    LET c == task_cpu[p] IN
    /\ setaff.pc = "idle" /\ p \in Bound
    /\ ~PiLocked(p) /\ ~Switching(c) /\ on_rq[p] # TASK_ON_RQ_MIGRATING
    /\ mask # cpus_allowed[p] /\ dest \in mask \cap cpu_active
    /\ cpus_allowed' = [cpus_allowed EXCEPT ![p] = mask]
    /\ IF c \notin mask /\ (on_cpu[p] \/ state[p] = TASK_WAKING)
       THEN /\ setaff' = [pc |-> "stop", task |-> p, dest |-> dest]
            /\ work' = [work EXCEPT ![c] = [task |-> p, dest |-> dest]]
            /\ UNCHANGED <<on_rq, rq, task_cpu>>
       ELSE IF c \notin mask /\ on_rq[p] = TASK_ON_RQ_QUEUED
       THEN /\ setaff' = [pc |-> "move", task |-> p, dest |-> dest]
            /\ MoveOut(p, dest)
            /\ UNCHANGED work
       ELSE UNCHANGED <<setaff, work, on_rq, rq, task_cpu>>
    /\ UNCHANGED <<state, on_cpu, waitVars, curr, prev, ipiVars, ttwu, stopper, cpuVars>>

set_cpus_allowed_move(p) ==
    /\ setaff.pc = "move" /\ setaff.task = p
    /\ MoveIn(p)
    /\ setaff' = NoCall
    /\ UNCHANGED <<state, on_cpu, task_cpu, cpus_allowed, waitVars, curr, prev, ipiVars,
                   ttwu, stopVars, cpuVars>>

\* Faulty variant: the pending wakeups of this CPU are not flushed.
stop_pending_NoFlush(c) ==
    /\ curr[c] = Stop /\ ~Switching(c) /\ work[c] # NULL /\ stopper[c] = "idle"
    /\ stopper' = [stopper EXCEPT ![c] = "flushed"]
    /\ UNCHANGED <<taskVars, waitVars, rqVars, ipiVars, ttwu, setaff, work, cpuVars>>

\* migration_cpu_stop first calls sched_ttwu_pending, so that a task in
\* TASK_WAKING on this CPU is on its run queue.
stop_pending(c) ==
    /\ curr[c] = Stop /\ ~Switching(c) /\ work[c] # NULL /\ stopper[c] = "idle"
    /\ sched_ttwu_pending(c)
    /\ stopper' = [stopper EXCEPT ![c] = "flushed"]
    /\ UNCHANGED <<on_cpu, task_cpu, cpus_allowed, waitVars, curr, prev, ipi, ttwu,
                   setaff, work, cpuVars>>

\* cpu_stop_signal_done: the caller of stop_one_cpu returns.
StopDone(c) ==
    /\ work' = [work EXCEPT ![c] = NULL]
    /\ stopper' = [stopper EXCEPT ![c] = "idle"]
    /\ setaff' = NoCall

\* The rest of migration_cpu_stop under pi_lock and rq->lock: a task that is
\* still queued here goes to the destination if that is still allowed
\* (__migrate_task).
migration_cpu_stop(c) ==
    LET p == work[c].task
        dest == work[c].dest
    IN  /\ stopper[c] = "flushed" /\ ~PiLocked(p)
        /\ IF task_cpu[p] = c /\ on_rq[p] = TASK_ON_RQ_QUEUED /\ is_cpu_allowed(p, dest)
           THEN /\ MoveOut(p, dest)
                /\ stopper' = [stopper EXCEPT ![c] = "move"]
                /\ UNCHANGED <<work, setaff>>
           ELSE StopDone(c) /\ UNCHANGED <<on_rq, rq, task_cpu>>
        /\ UNCHANGED <<state, on_cpu, cpus_allowed, waitVars, curr, prev, ipiVars, ttwu, cpuVars>>

migration_cpu_move(c) ==
    /\ stopper[c] = "move"
    /\ MoveIn(work[c].task)
    /\ StopDone(c)
    /\ UNCHANGED <<state, on_cpu, task_cpu, cpus_allowed, waitVars, curr, prev, ipiVars,
                   ttwu, cpuVars>>

-----------------------------------------------------------------------------
\* CPU hotplug.

\* sched_cpu_deactivate: no new task is placed here.
sched_cpu_deactivate(c) ==
    /\ c \in cpu_active /\ c \in Unplug
    /\ cpu_active' = cpu_active \ {c}
    /\ UNCHANGED <<taskVars, waitVars, rqVars, ipiVars, ttwu, setaff, stopVars, cpu_online>>

\* Faulty variant: the loop counts the migration thread twice and stops at once.
Migrated_None(queue) == {}

\* migrate_tasks runs until rq->nr_running is 1, the migration thread itself.
\* SCHED_TS tasks are not in that count and are picked before the fair tasks
\* that are, so they leave only if a fair task is queued behind them.
Migrated(queue) == IF queue \ Ts = {} THEN {} ELSE queue

\* sched_cpu_dying under stop_machine: every CPU spins in its migration thread
\* with interrupts off, so no scheduler code is half way through.
sched_cpu_dying(c) ==
    LET all == rq[c] \cup wake_list[c]
        gone == Migrated(all)
    IN  /\ c \in cpu_online \ cpu_active /\ work[c] = NULL
        /\ \A d \in CPU : ~Switching(d) /\ stopper[d] # "move"
        /\ \A w \in Waker : ttwu[w].pc \in {"idle", "call"}
        /\ setaff.pc # "move"
        /\ \E to \in {f \in [gone -> CPU] : \A p \in gone : f[p] \in select_fallback_rq(p)} :
              /\ task_cpu' = [p \in Task |-> IF p \in gone THEN to[p] ELSE task_cpu[p]]
              /\ rq' = [d \in CPU |-> IF d = c THEN all \ gone
                                      ELSE rq[d] \cup {p \in gone : to[p] = d}]
        /\ cpus_allowed' = [p \in Task |-> IF p \in gone THEN FallbackMask(p) ELSE cpus_allowed[p]]
        /\ on_rq' = [p \in Task |-> IF p \in all THEN TASK_ON_RQ_QUEUED ELSE on_rq[p]]
        /\ state' = [p \in Task |-> IF p \in wake_list[c] THEN TASK_RUNNING ELSE state[p]]
        /\ on_cpu' = [p \in Task |-> on_cpu[p] /\ curr[c] # p]
        /\ wake_list' = [wake_list EXCEPT ![c] = {}]
        /\ ipi' = [ipi EXCEPT ![c] = FALSE]
        /\ curr' = [curr EXCEPT ![c] = Idle]
        /\ cpu_online' = cpu_online \ {c}
        /\ UNCHANGED <<waitVars, prev, ttwu, setaff, stopVars, cpu_active>>

\* Faulty variant: the CPU is made active before it is online.
sched_cpu_activate_Early(c) ==
    /\ c \notin cpu_online
    /\ cpu_active' = cpu_active \cup {c}
    /\ UNCHANGED <<taskVars, waitVars, rqVars, ipiVars, ttwu, setaff, stopVars, cpu_online>>

\* sched_cpu_starting and sched_cpu_activate; or a CPU that sched_cpu_deactivate
\* could not take down (-EBUSY) is made active again.
sched_cpu_activate(c) ==
    /\ c \notin cpu_active
    /\ cpu_online' = cpu_online \cup {c}
    /\ cpu_active' = cpu_active \cup {c}
    /\ UNCHANGED <<taskVars, waitVars, rqVars, ipiVars, ttwu, setaff, stopVars>>

-----------------------------------------------------------------------------
WakerStep(w) ==
    \/ ttwu_lock(w) \/ ttwu_on_rq(w) \/ ttwu_remote(w) \/ ttwu_select(w)
    \/ ttwu_queue(w) \/ ttwu_queue_remote(w)

StopperStep(c) == stop_pending(c) \/ migration_cpu_stop(c) \/ migration_cpu_move(c)

Next ==
    \/ \E c \in CPU : \/ set_current_state(c) \/ test_condition(c)
                      \/ schedule(c) \/ preempt_schedule(c) \/ finish_task(c)
                      \/ scheduler_ipi(c) \/ StopperStep(c)
                      \/ sched_cpu_deactivate(c) \/ sched_cpu_dying(c) \/ sched_cpu_activate(c)
    \/ \E w \in Waker : WakerStep(w) \/ \E p \in Task : wake_up_process(w, p)
    \/ \E p \in Task : \/ set_cpus_allowed_move(p)
                       \/ \E mask \in SUBSET CPU, dest \in CPU : set_cpus_allowed(p, mask, dest)

Spec == Init /\ [][Next]_vars

\* What CPU c does with interrupts off or at the highest priority: the end of a
\* context switch, an interrupt, the switch to the migration thread and its work.
CpuStep(c) ==
    \/ finish_task(c) \/ scheduler_ipi(c) \/ StopperStep(c)
    \/ preempt_schedule(c) /\ work[c] # NULL

\* Such code goes on by itself, an interrupt that was sent is delivered, and
\* queued spinlocks are granted in order, so that whoever spins gets the lock.
\* Nothing is assumed about when a task runs, sleeps or is woken.
FairSpec ==
    /\ Spec
    /\ \A w \in Waker : SF_vars(WakerStep(w))
    /\ \A c \in CPU : SF_vars(CpuStep(c))
    /\ SF_vars(\E p \in Task : set_cpus_allowed_move(p))

-----------------------------------------------------------------------------
Call == [pc : {"idle", "call", "on_rq", "remote", "on_cpu", "queue", "stop", "move"},
         task : Task \cup {NULL}, dest : CPU \cup {NULL}]

\* Every variable holds a value of the type its declaration in core.c allows.
TypeOK ==
    /\ state \in [Task -> {TASK_RUNNING, TASK_UNINTERRUPTIBLE, TASK_WAKING}]
    /\ on_rq \in [Task -> {OffRq, TASK_ON_RQ_QUEUED, TASK_ON_RQ_MIGRATING}]
    /\ on_cpu \in [Task -> BOOLEAN]
    /\ task_cpu \in [Task -> CPU]
    /\ cpus_allowed \in [Task -> SUBSET CPU]
    /\ loc \in [Task -> {"loop", "test", "schedule"}]
    /\ cond \in [Task -> BOOLEAN]
    /\ rq \in [CPU -> SUBSET Task]
    /\ curr \in [CPU -> Task \cup {Idle, Stop}]
    /\ prev \in [CPU -> Task \cup {NULL}]
    /\ wake_list \in [CPU -> SUBSET Task]
    /\ ipi \in [CPU -> BOOLEAN]
    /\ ttwu \in [Waker -> Call]
    /\ setaff \in Call
    /\ work \in [CPU -> [task : Task, dest : CPU] \cup {NULL}]
    /\ stopper \in [CPU -> {"idle", "flushed", "move"}]
    /\ cpu_active \subseteq cpu_online /\ cpu_online \subseteq CPU

\* task_struct and run queues agree: p is linked on the queue of exactly the
\* CPU task_cpu(p) names, exactly while on_rq says so, and a CPU runs only
\* tasks of its own queue.
QueueAgrees ==
    /\ \A p \in Task, c \in CPU :
          p \in rq[c] <=> on_rq[p] = TASK_ON_RQ_QUEUED /\ task_cpu[p] = c
    /\ \A c \in CPU : curr[c] \in Task => curr[c] \in rq[c] /\ on_cpu[curr[c]]

Misplaced ==
    {p \in Task : /\ on_rq[p] # OffRq \/ state[p] = TASK_WAKING
                  /\ task_cpu[p] \notin cpus_allowed[p]}

\* A step that honours the masks: see AffinityHonoured.
Honours ==
    setaff'.pc = "idle" =>
        \A p \in Misplaced' : \/ p \in Misplaced /\ p # setaff.task
                              \/ p = setaff.task /\ setaff.dest \notin cpu_active

\* When __set_cpus_allowed_ptr returns, its task is not runnable on a CPU
\* outside the new mask, and nothing else ever puts a task there.  The one
\* exception is a destination that was deactivated in the meantime:
\* __migrate_task then gives up, even if the mask has other active CPUs.
AffinityHonoured == [][Honours]_vars

\* After sched_cpu_dying nothing but SCHED_TS tasks is left on the dead CPU.
DeadCpuEmpty ==
    \A c \in CPU \ cpu_online : rq[c] \subseteq Ts /\ curr[c] = Idle /\ wake_list[c] = {}

\* Every call of try_to_wake_up and of __set_cpus_allowed_ptr returns: nobody
\* spins for ever on p->on_cpu, on pi_lock, on TASK_ON_RQ_MIGRATING or on the
\* migration thread.
CallsReturn ==
    /\ \A w \in Waker : ttwu[w].pc # "idle" ~> ttwu[w].pc = "idle"
    /\ setaff.pc # "idle" ~> setaff.pc = "idle"

\* A task that was chosen for wakeup reaches a run queue: ttwu_queue_remote takes
\* no lock and sends an interrupt only for the first entry of the list.
WakingIsQueued == \A p \in Task : state[p] = TASK_WAKING ~> on_rq[p] = TASK_ON_RQ_QUEUED

\* The sleeper's view, TaskContract: a CPU uses the stacks of the task it runs
\* and of the one it is switching away from.
StacksInUse == [c \in CPU |-> {curr[c], prev[c]} \cap Task]
Asleep == {p \in Task : state[p] = TASK_UNINTERRUPTIBLE /\ on_rq[p] = OffRq}
WakersOf(p) == {w \in Waker : ttwu[w].task = p}
CallsInFlight == [p \in Task |-> Cardinality(WakersOf(p))]

Contract == INSTANCE TaskContract
            WITH stack <- StacksInUse, asleep <- Asleep, calls <- CallsInFlight

\* The wakeup, switching and migration protocol implements TaskContract.
ImplementsContract == Contract!Spec

=============================================================================
