------------------------------- MODULE Sched -------------------------------
(***************************************************************************)
(* One run queue of kernel/sched/core.c with the SCHED_TS class of ts.c    *)
(* linked between the real-time and the fair class.  Every action is one   *)
(* entry point of the scheduler; the code holds rq->lock with interrupts   *)
(* disabled from its first to its last access to this state, so an entry   *)
(* point is one step and the interleaving is that of the entry points.     *)
(***************************************************************************)
EXTENDS TsClass, FiniteSets

CONSTANTS
    Task,          \* slots for tasks
    Idle,          \* the idle thread of this CPU
    InitTask,      \* the task the boot code forked; it never exits
    Policies,      \* policies that sched_setscheduler calls ask for
    RtPriorities,  \* sched_priority values asked for with SCHED_FIFO
    NicePrios,     \* NICE_TO_PRIO of the nice values asked for
    DonorPrios,    \* priorities of tasks blocked on an rt_mutex
    ResetFlags,    \* values asked for SCHED_FLAG_RESET_ON_FORK
    Workload,      \* which scheduler services the tasks use
    Sleepers,      \* the tasks that ever block
    UIntMod        \* modulus of unsigned int (2^32 in the build)

ASSUME TaskAssumption == /\ IsFiniteSet(Task)
                         /\ InitTask \in Task
                         /\ Idle \notin Task
                         /\ Sleepers \subseteq Task
ASSUME InputAssumption == /\ Policies \subseteq {"NORMAL", "FIFO", "TS"}
                          /\ RtPriorities \subseteq 1 .. 99
                          /\ NicePrios \subseteq TsPrio
                          /\ DonorPrios \subseteq 0 .. 139
                          /\ ResetFlags \subseteq BOOLEAN
ASSUME UIntAssumption == UIntMod \in Nat /\ UIntMod > MaxSlice

VARIABLES
    task,          \* task_struct fields of every thread
    queue,         \* rq->ts.queue
    nr_running,    \* rq->nr_running
    curr,          \* rq->curr
    need_resched,  \* TIF_NEED_RESCHED of rq->curr
    switched       \* history: queued tasks switched_to_ts was called for since __schedule last ran

vars == <<task, queue, nr_running, curr, need_resched, switched>>

Thread == Task \cup {Idle}
NoDonor == 140   \* pi_top_task == NULL: never lowers a priority

\* "call": TASK_RUNNING, on its way to schedule(); "none": the slot is free.
TASK_RUNNING == {"run", "call"}

Policy == {"NORMAL", "FIFO", "TS"}
Class == {"rt", "ts", "fair", "idle"}
State == TASK_RUNNING \cup {"none", "new", "sleep", "dead"}
Prio == 0 .. 139
UInt == 0 .. UIntMod - 1

TaskStruct == [policy : Policy, static_prio : TsPrio, normal_prio : Prio,
               rt_priority : 0 .. 99, prio : Prio, cls : Class, state : State,
               on_rq : BOOLEAN, slice : UInt, donor : Prio \cup {NoDonor},
               reset : BOOLEAN]

\* A thread as the boot code leaves it: SCHED_NORMAL, nice 0.
BootThread ==
    [policy |-> "NORMAL", static_prio |-> 120, normal_prio |-> 120,
     rt_priority |-> 0, prio |-> 120, cls |-> "fair", state |-> "none",
     on_rq |-> FALSE, slice |-> prioTimeslice(120), donor |-> NoDonor,
     reset |-> FALSE]

TypeOK == /\ task \in [Thread -> TaskStruct]
          /\ queue \in [QueueIndex -> Seq(Task)]
          /\ nr_running \in Int
          /\ curr \in Thread
          /\ need_resched \in BOOLEAN
          /\ switched \in SUBSET Task
-----------------------------------------------------------------------------
(* Classes: for_each_class walks stop, dl, rt, ts, fair, idle. *)

Rank == [rt |-> 1, ts |-> 2, fair |-> 3, idle |-> 4]

Queued(tk, c) == {p \in Task : tk[p].on_rq /\ tk[p].cls = c}

\* The class a task of this priority and policy belongs to.
PrioClass(t) == IF t.prio < MAX_RT_PRIO THEN "rt"
                ELSE IF t.policy = "TS" THEN "ts" ELSE "fair"

normal_prio(t) == IF t.policy = "FIFO" THEN MAX_RT_PRIO - 1 - t.rt_priority
                  ELSE t.static_prio

effective_prio(t) == IF t.prio < MAX_RT_PRIO THEN t.prio ELSE normal_prio(t)

\* Faulty variant: the donor's priority even where it is the worse one.
rt_effective_prio_NoMin(t, prio) == t.donor

rt_effective_prio(t, prio) == IF t.donor < prio THEN t.donor ELSE prio

\* enqueue_task and dequeue_task: only the rt and the fair class count a task
\* in rq->nr_running; enqueue_task_ts and dequeue_task_ts do not.
Counted(t) == IF t.cls = "ts" THEN 0 ELSE 1

enqueue_task(q, p, t) ==
    IF t.cls = "ts" THEN list_add_tail(q, p, prioQueue(t.prio)) ELSE q

dequeue_task(q, p, t) == IF t.cls = "ts" THEN list_del(q, p) ELSE q

\* Faulty variant: the comparison of priorities reversed.
check_preempt_curr_Reversed(t, c, r) ==
    /\ t.cls # c.cls => r = (Rank[t.cls] < Rank[c.cls])
    /\ t.cls = c.cls /\ t.cls # "fair" => r = (t.prio > c.prio)

\* check_preempt_curr: does the call for a task t mark the current task c?  The
\* fair class (external) decides on virtual runtimes: either answer.
check_preempt_curr(t, c, r) ==
    /\ t.cls # c.cls => r = (Rank[t.cls] < Rank[c.cls])
    /\ t.cls = c.cls /\ t.cls # "fair" => r = (t.prio < c.prio)

\* switched_to_rt, switched_to_ts and (external) switched_to_fair.
switched_to(p, new, r) ==
    /\ new.cls = "ts" => ~r
    /\ new.cls = "rt" => r = (new.on_rq /\ curr # p /\ new.prio < task[curr].prio)
    /\ new.cls = "fair" /\ ~new.on_rq => ~r
    /\ new.cls = "fair" /\ new.on_rq /\ curr = p => r
    /\ new.cls = "fair" /\ new.on_rq /\ curr # p =>
            check_preempt_curr(new, task[curr], r)

\* prio_changed_rt, prio_changed_ts and (external) prio_changed_fair.
prio_changed(p, old, new, r) ==
    /\ new.cls = "ts" \/ ~new.on_rq => ~r
    /\ new.cls = "rt" /\ new.on_rq /\ curr = p =>
            r = (\E q \in Queued(task, "rt") \ {p} : task[q].prio < new.prio)
    /\ new.cls = "rt" /\ new.on_rq /\ curr # p => r = (new.prio < task[curr].prio)
    /\ new.cls = "fair" /\ new.on_rq /\ curr = p => r = (new.prio > old.prio)
    /\ new.cls = "fair" /\ new.on_rq /\ curr # p =>
            check_preempt_curr(new, task[curr], r)

check_class_changed(p, old, new, r) ==
    IF old.cls # new.cls THEN switched_to(p, new, r)
    ELSE IF old.prio # new.prio THEN prio_changed(p, old, new, r)
    ELSE ~r

resched(r) == need_resched' = (need_resched \/ r)

\* Faulty variant: the counter is not adjusted to the new class.
Requeue_NoCount(p, new) ==
    /\ task' = [task EXCEPT ![p] = new]
    /\ queue' = IF task[p].on_rq
                THEN enqueue_task(dequeue_task(queue, p, task[p]), p, new) ELSE queue
    /\ UNCHANGED <<nr_running, switched>>

\* The sequence dequeue_task - change p - enqueue_task of a queued task.
Requeue(p, new) ==
    LET old == task[p] IN
    /\ task' = [task EXCEPT ![p] = new]
    /\ queue' = IF old.on_rq THEN enqueue_task(dequeue_task(queue, p, old), p, new)
                ELSE queue
    /\ nr_running' = IF old.on_rq THEN nr_running - Counted(old) + Counted(new)
                     ELSE nr_running
    /\ switched' = IF old.on_rq /\ old.cls # "ts" /\ new.cls = "ts"
                   THEN switched \cup {p} ELSE switched
-----------------------------------------------------------------------------
(* Fork and wakeup *)

\* __sched_fork: a parent priority below 100 matches no case, the copy stays.
ForkSlice(t) == IF t.prio \in TsPrio THEN prioTimeslice(t.prio) ELSE t.slice

ResetOnFork(t) ==
    LET rt == t.policy = "FIFO"
        static == IF rt \/ t.static_prio < 120 THEN 120 ELSE t.static_prio
    IN  [t EXCEPT !.policy = IF rt THEN "NORMAL" ELSE @,
                  !.static_prio = static,
                  !.rt_priority = IF rt THEN 0 ELSE @,
                  !.normal_prio = static,
                  !.prio = static,
                  !.reset = FALSE]

\* Faulty variant: the child keeps the class of the parent.
Child_KeepsClass(t) ==
    [t EXCEPT !.on_rq = FALSE, !.slice = ForkSlice(t), !.state = "new",
              !.prio = t.normal_prio, !.donor = NoDonor]

\* The child of parent t, copied from it and set up by sched_fork.
Child(t) ==
    LET copy == [t EXCEPT !.on_rq = FALSE, !.slice = ForkSlice(t), !.state = "new",
                          !.prio = t.normal_prio, !.donor = NoDonor]
        new  == IF t.reset THEN ResetOnFork(copy) ELSE copy
    IN  [new EXCEPT !.cls = PrioClass(new)]

sched_fork(c) ==
    /\ "fork" \in Workload
    /\ curr # Idle /\ task[curr].state = "run"
    /\ task[c].state = "none"
    /\ task' = [task EXCEPT ![c] = Child(task[curr])]
    /\ UNCHANGED <<queue, nr_running, curr, need_resched, switched>>

\* ENQUEUE_NOCLOCK without ENQUEUE_WAKEUP: a new task is not raised.
wake_up_new_task(p) ==
    LET new == [task[p] EXCEPT !.state = "run", !.on_rq = TRUE] IN
    /\ task[p].state = "new"
    /\ task' = [task EXCEPT ![p] = new]
    /\ queue' = enqueue_task(queue, p, new)
    /\ nr_running' = nr_running + Counted(new)
    /\ \E r \in BOOLEAN : check_preempt_curr(new, task[curr], r) /\ resched(r)
    /\ UNCHANGED <<curr, switched>>

\* ttwu_remote: p has not left the run queue yet; only its state changes.
ttwu_remote(p) ==
    /\ task[p].on_rq
    /\ \E s \in TASK_RUNNING : task' = [task EXCEPT ![p].state = s]
    /\ \E r \in BOOLEAN : check_preempt_curr(task[p], task[curr], r) /\ resched(r)
    /\ UNCHANGED <<queue, nr_running, curr, switched>>

\* Faulty variant: the task is linked before its priority is raised.
ttwu_do_activate_LinkFirst(p) ==
    LET old == task[p] IN
    /\ ~old.on_rq
    /\ task' = [task EXCEPT ![p] = [old EXCEPT !.state = "run", !.on_rq = TRUE,
                           !.prio = IF old.cls = "ts" THEN WakeupPrio(@) ELSE @]]
    /\ queue' = enqueue_task(queue, p, old)
    /\ nr_running' = nr_running + Counted(old)
    /\ \E r \in BOOLEAN : check_preempt_curr(old, task[curr], r) /\ resched(r)
    /\ UNCHANGED <<curr, switched>>

\* ttwu_do_activate: enqueue with ENQUEUE_WAKEUP, which raises a TS task.
ttwu_do_activate(p) ==
    LET old == task[p]
        new == [old EXCEPT !.state = "run", !.on_rq = TRUE,
                           !.prio = IF old.cls = "ts" THEN WakeupPrio(@) ELSE @]
    IN
    /\ ~old.on_rq
    /\ task' = [task EXCEPT ![p] = new]
    /\ queue' = enqueue_task(queue, p, new)
    /\ nr_running' = nr_running + Counted(new)
    /\ \E r \in BOOLEAN : check_preempt_curr(new, task[curr], r) /\ resched(r)
    /\ UNCHANGED <<curr, switched>>

try_to_wake_up(p) ==
    /\ task[p].state = "sleep"
    /\ ttwu_remote(p) \/ ttwu_do_activate(p)
-----------------------------------------------------------------------------
(* __schedule *)

RtBest(tk) == {p \in Queued(tk, "rt") :
                  \A o \in Queued(tk, "rt") : tk[p].prio <= tk[o].prio}

\* pick_next_task_fair (external: any queued task), then the idle class.
FairOrIdle(tk) == IF Queued(tk, "fair") = {} THEN {Idle} ELSE Queued(tk, "fair")

\* pick_next_task with its fast path: cfs.h_nr_running counts the fair tasks.
pick_next_task(tk, q, nr, prevcls) ==
    IF prevcls \in {"idle", "fair"} /\ nr = Cardinality(Queued(tk, "fair"))
    THEN FairOrIdle(tk)
    ELSE IF Queued(tk, "rt") # {} THEN RtBest(tk)
    ELSE IF \E x \in QueueIndex : q[x] # << >> THEN TsBest(q)
    ELSE FairOrIdle(tk)

\* Faulty variant: decides on a state read before a wakeup changed it.
Leaves_StaleState(t, preempt, sig) == ~preempt /\ t.state # "run"

\* Does __schedule deactivate prev?  sig: signal_pending_state(prev->state, prev).
Leaves(t, preempt, sig) ==
    ~preempt /\ (t.state = "dead" \/ (t.state = "sleep" /\ ~sig))

\* __schedule(preempt)
schedule(preempt, sig) ==
    LET prev == task[curr]
        off == Leaves(prev, preempt, sig)
        left == IF prev.state = "dead" THEN BootThread   \* put_task_struct
                ELSE [prev EXCEPT !.on_rq = FALSE]
        kept == IF preempt THEN prev ELSE [prev EXCEPT !.state = "run"]
        tk == [task EXCEPT ![curr] = IF off THEN left ELSE kept]
        q == IF off THEN dequeue_task(queue, curr, prev) ELSE queue
        nr == IF off THEN nr_running - Counted(prev) ELSE nr_running
    IN
    /\ need_resched \/ (~preempt /\ prev.state # "run")
    /\ preempt => curr # Idle /\ prev.state # "dead"   \* preempt_count forbids both
    /\ task' = tk
    /\ queue' = q
    /\ nr_running' = nr
    /\ curr' \in pick_next_task(tk, q, nr, prev.cls)
    /\ need_resched' = FALSE
    /\ switched' = {}

\* The running task announces that it will sleep, yield or exit.
set_current_state ==
    /\ curr \in Sleepers /\ task[curr].state = "run"
    /\ task' = [task EXCEPT ![curr].state = "sleep"]
    /\ UNCHANGED <<queue, nr_running, curr, need_resched, switched>>

\* The condition came true before schedule(): back to TASK_RUNNING.
finish_wait ==
    /\ task[curr].state = "sleep"
    /\ task' = [task EXCEPT ![curr].state = "run"]
    /\ UNCHANGED <<queue, nr_running, curr, need_resched, switched>>

do_task_dead ==
    /\ "exit" \in Workload
    /\ curr \notin {Idle, InitTask} /\ task[curr].state = "run"
    /\ task[curr].donor = NoDonor   \* de-boosted before it may exit
    /\ task' = [task EXCEPT ![curr].state = "dead"]
    /\ UNCHANGED <<queue, nr_running, curr, need_resched, switched>>

do_sched_yield ==
    LET t == task[curr] IN
    /\ "yield" \in Workload
    /\ curr # Idle /\ t.state = "run"
    /\ queue' = IF t.cls = "ts" THEN list_move_tail(queue, curr, prioQueue(t.prio))
                ELSE queue
    /\ task' = [task EXCEPT ![curr].state = "call"]   \* schedule() follows
    /\ UNCHANGED <<nr_running, curr, need_resched, switched>>
-----------------------------------------------------------------------------
(* The timer tick *)

\* Faulty variant: an expired slice does not ask for a reschedule.
task_tick_ts_NoResched ==
    LET t == task[curr]
        prio == ExpiredPrio(t.prio)
    IN
    /\ t.cls = "ts"
    /\ IF t.slice # 1
       THEN task' = [task EXCEPT ![curr].slice = @ - 1] /\ UNCHANGED queue
       ELSE /\ task' = [task EXCEPT ![curr].prio = prio,
                                    ![curr].slice = prioTimeslice(prio)]
            /\ queue' = list_move_tail(queue, curr, prioQueue(prio))
    /\ UNCHANGED <<nr_running, curr, need_resched, switched>>

\* Faulty variant: the task is moved only if its priority changes, so that at
\* priority 139 it stays at the head of its list.
task_tick_ts_NoRotate ==
    LET t == task[curr]
        prio == ExpiredPrio(t.prio)
    IN
    /\ t.cls = "ts"
    /\ IF t.slice # 1
       THEN task' = [task EXCEPT ![curr].slice = @ - 1] /\ UNCHANGED <<queue, need_resched>>
       ELSE /\ task' = [task EXCEPT ![curr].prio = prio,
                                    ![curr].slice = prioTimeslice(prio)]
            /\ queue' = IF prio = t.prio THEN queue
                        ELSE list_move_tail(queue, curr, prioQueue(prio))
            /\ need_resched' = TRUE
    /\ UNCHANGED <<nr_running, curr, switched>>

\* task_tick_ts; UIntMod - 1 is what the unsigned --time_slice makes of 0.
task_tick_ts ==
    LET t == task[curr]
        left == IF t.slice = 0 THEN UIntMod - 1 ELSE t.slice - 1
        prio == ExpiredPrio(t.prio)
    IN
    /\ t.cls = "ts" /\ t.policy = "TS"
    /\ \/ /\ left # 0
          /\ task' = [task EXCEPT ![curr].slice = left]
          /\ UNCHANGED <<queue, need_resched>>
       \/ /\ left = 0
          /\ task' = [task EXCEPT ![curr].prio = prio,
                                  ![curr].slice = prioTimeslice(prio)]
          /\ queue' = list_move_tail(queue, curr, prioQueue(prio))
          /\ need_resched' = TRUE
    /\ UNCHANGED <<nr_running, curr, switched>>

\* External: the tick of the fair class may ask for a reschedule.
task_tick_fair ==
    /\ task[curr].cls = "fair"
    /\ need_resched' = TRUE
    /\ UNCHANGED <<task, queue, nr_running, curr, switched>>

\* The ticks of a SCHED_FIFO task and of the idle thread change nothing here.
scheduler_tick == task_tick_ts \/ task_tick_fair
-----------------------------------------------------------------------------
(* Changes of priority and policy; p may be running, queued, asleep or new. *)

set_user_nice(p, static) ==
    LET old == task[p]
        mid == [old EXCEPT !.static_prio = static]
        new == [mid EXCEPT !.normal_prio = normal_prio(mid),
                           !.prio = effective_prio(mid)]
        delta == new.prio - old.prio
    IN
    /\ "nice" \in Workload
    /\ old.state # "none" /\ old.static_prio # static
    /\ IF old.policy = "FIFO"
       THEN /\ task' = [task EXCEPT ![p] = mid]
            /\ UNCHANGED <<queue, nr_running, need_resched, switched>>
       ELSE /\ Requeue(p, new)
            /\ resched(old.on_rq /\ (delta < 0 \/ (delta > 0 /\ curr = p)))
    /\ UNCHANGED curr

\* __setscheduler: the parameters, then the class they and the boost select.
SetScheduler(t, policy, rtprio, static) ==
    LET params == [t EXCEPT !.policy = policy, !.rt_priority = rtprio,
                            !.static_prio = IF policy = "NORMAL" THEN static ELSE @]
        base == [params EXCEPT !.normal_prio = normal_prio(params)]
        new  == [base EXCEPT !.prio = rt_effective_prio(base, normal_prio(base))]
    IN  [new EXCEPT !.cls = PrioClass(new)]

\* The sched_priority and (as static priority) the sched_nice a call may carry:
\* rt_policy(policy) != (attr->sched_priority != 0) is refused, and sched_nice
\* counts for fair policies only.
SchedPriority(policy) == IF policy = "FIFO" THEN RtPriorities ELSE {0}
SchedNice(policy, t) ==
    {t.static_prio} \cup (IF policy = "NORMAL" THEN NicePrios ELSE {})

\* A permitted sched_setscheduler or sched_setattr call.  A call that changes
\* nothing but the reset flag returns before it touches the run queue.
sched_setscheduler(p, policy, rtprio, static, reset) ==
    LET old == [task[p] EXCEPT !.reset = reset]
        new == SetScheduler(old, policy, rtprio, static)
        same == /\ policy = old.policy
                /\ policy = "NORMAL" => static = old.static_prio
                /\ policy = "FIFO" => rtprio = old.rt_priority
    IN
    /\ "policy" \in Workload
    /\ old.state # "none"
    /\ IF same
       THEN /\ task' = [task EXCEPT ![p] = old]
            /\ UNCHANGED <<queue, nr_running, need_resched, switched>>
       ELSE /\ Requeue(p, new)
            /\ \E r \in BOOLEAN : check_class_changed(p, old, new, r) /\ resched(r)
    /\ UNCHANGED curr

\* The priority-inheritance code gives p a donor of priority d, or takes it away.
rt_mutex_setprio(p, d) ==
    LET old == [task[p] EXCEPT !.donor = d]
        prio == rt_effective_prio(old, old.normal_prio)
        new == [old EXCEPT !.prio = prio,
                           !.cls = IF prio < MAX_RT_PRIO THEN "rt" ELSE "fair"]
    IN
    /\ "pi" \in Workload
    /\ old.state \in {"run", "call", "sleep"}
    /\ d = NoDonor => task[p].donor # NoDonor
    /\ ~(task[p].donor = d /\ prio = old.prio)
    /\ IF prio = old.prio
       THEN /\ task' = [task EXCEPT ![p] = old]
            /\ UNCHANGED <<queue, nr_running, need_resched, switched>>
       ELSE /\ Requeue(p, new)
            /\ \E r \in BOOLEAN : check_class_changed(p, old, new, r) /\ resched(r)
    /\ UNCHANGED curr
-----------------------------------------------------------------------------
\* After sched_init, init_idle and the first kernel_thread of the boot code.
Init ==
    /\ task = [p \in Thread |->
                 [BootThread EXCEPT !.cls = IF p = Idle THEN "idle" ELSE "fair",
                                    !.state = IF p \in {Idle, InitTask} THEN "run" ELSE "none",
                                    !.on_rq = p \in {Idle, InitTask}]]
    /\ queue = init_ts_rq
    /\ nr_running = 1
    /\ curr = Idle
    /\ need_resched = TRUE
    /\ switched = {}

Schedule == \E preempt, sig \in BOOLEAN : schedule(preempt, sig)

Next ==
    \/ \E p \in Task : \/ sched_fork(p)
                       \/ wake_up_new_task(p)
                       \/ try_to_wake_up(p)
                       \/ \E s \in NicePrios : set_user_nice(p, s)
                       \/ \E d \in DonorPrios \cup {NoDonor} : rt_mutex_setprio(p, d)
                       \/ \E policy \in Policies, reset \in ResetFlags :
                             \E rtprio \in SchedPriority(policy),
                                static \in SchedNice(policy, task[p]) :
                                sched_setscheduler(p, policy, rtprio, static, reset)
    \/ Schedule
    \/ set_current_state
    \/ finish_wait
    \/ do_task_dead
    \/ do_sched_yield
    \/ scheduler_tick

\* The timer interrupt keeps coming, and a task that has to call schedule()
\* or returns from an interrupt with TIF_NEED_RESCHED set does call it.
Fairness == WF_vars(Schedule) /\ WF_vars(scheduler_tick)

Spec == Init /\ [][Next]_vars
FairSpec == Spec /\ Fairness
-----------------------------------------------------------------------------
(* What the scheduler keeps true *)

Alive(p) == task[p].state # "none"
Linked(p, s) == \E i \in 1 .. Len(s) : s[i] = p
TsQueued(p) == task[p].on_rq /\ task[p].cls = "ts"

\* The class operations index queue[prioQueue(p->prio)] and read prioTimeslice
\* without a range check: whatever fork, renice, policy changes, boosting and
\* ticks do, the class agrees with the priority band, a TS-class task has the
\* TS policy, and normal_prio is never stale.
ClassMatchesPrio ==
    \A p \in Task : LET t == task[p] IN
        /\ t.cls \in {"rt", "ts", "fair"}
        /\ (t.cls = "rt") <=> (t.prio < MAX_RT_PRIO)
        /\ t.cls = "ts" => t.policy = "TS"
        /\ t.normal_prio = normal_prio(t)
        /\ (t.policy = "FIFO") <=> (t.rt_priority # 0)

\* list_del and list_move_tail trust the node: every queued TS-class task is
\* linked exactly once, on the list its priority names, and nothing else is
\* linked anywhere - after a wakeup raised the priority, a tick lowered it, or
\* a renice, a policy change or a boost moved the task while it was queued.
QueuesCoherent ==
    /\ \A x \in QueueIndex : \A i, j \in 1 .. Len(queue[x]) :
          queue[x][i] = queue[x][j] => i = j
    /\ \A x \in QueueIndex, p \in Task :
          Linked(p, queue[x]) <=> TsQueued(p) /\ prioQueue(task[p].prio) = x

\* task_tick_ts tests --time_slice of an unsigned counter: between entry points
\* the counter is never 0 (it would wrap and the slice would last 2^32 ticks),
\* though only fork and expiry ever refill it.
SliceNeverSpent == \A p \in Task : task[p].slice \in Slice

\* A task is off the run queue only if it sleeps, is new or is gone: whatever the
\* order of set_current_state, a wakeup, a preemption and schedule(), no task
\* that is TASK_RUNNING is left behind, and the running task is never unlinked.
NoLostTask ==
    /\ \A p \in Task : task[p].state \in TASK_RUNNING => task[p].on_rq
    /\ \A p \in Task : task[p].state \in {"none", "new"} => ~task[p].on_rq
    /\ task[curr].on_rq
    /\ \A p \in Task : task[p].state = "dead" => p = curr

\* rq->nr_running, adjusted by each class on its own, never drifts when a queued
\* task changes class: it counts the queued real-time and fair tasks.
NrRunningBalanced ==
    nr_running = Cardinality(Queued(task, "rt")) + Cardinality(Queued(task, "fair"))

\* While a TS task runs and no reschedule is pending, no queued TS task has a
\* better priority, unless one of the two was moved into the class since the
\* last __schedule: switched_to_ts is the only path that forgets to ask.
NoTsInversion ==
    task[curr].cls = "ts" /\ ~need_resched =>
        \A p \in Task : TsQueued(p) /\ task[p].prio < task[curr].prio =>
            p \in switched \/ curr \in switched

\* A task that stays in the TS class gets a worse priority only by using up the
\* slice it runs on, or by a renice of that very task.
WorsensByUse ==
    \A p \in Task :
        /\ task[p].cls = "ts" /\ task'[p].cls = "ts"
        /\ Alive(p) /\ Alive(p)'
        /\ task'[p].prio > task[p].prio
        => \/ p = curr /\ task[p].slice = 1
           \/ task'[p].static_prio # task[p].static_prio

PrioWorsensOnlyByUse == [][WorsensByUse]_vars

Outranks(t, c) == \/ Rank[t.cls] < Rank[c.cls]
                  \/ t.cls = c.cls /\ t.cls # "fair" /\ t.prio < c.prio

\* "if the new task added to the run-queue preempts the current task, then the
\* wakeup sets TIF_NEED_RESCHED" (__schedule): judged by the raised priority.
Preempts ==
    \A p \in Task :
        ~task[p].on_rq /\ task'[p].on_rq /\ Outranks(task'[p], task[curr]) => need_resched'

WakeupPreempts == [][Preempts]_vars

\* When every task is a SCHED_TS task that only computes and the CPU has begun
\* to run them, each of them runs again and again: expired slices sink all of
\* them to priority 139, where list_move_tail makes them take turns.
CpuBoundTasksTakeTurns ==
    <>[](curr # Idle /\ \A p \in Task : Alive(p) => TsQueued(p))
        => \A p \in Task : []<>(Alive(p) => curr = p)

\* pick_next_task: "Pick up the highest-prio task" (core.c:3365).
PicksHighestClass ==
    [][need_resched /\ ~need_resched' =>
          \A p \in Task : task'[p].on_rq =>
              Rank[task'[curr'].cls] <= Rank[task'[p].cls]]_vars

\* __sched_setscheduler on the class of a boosted task: "This will be done when
\* the task deboost itself" (core.c:4385): an unboosted SCHED_TS task is in the
\* TS class.
DeboostRestoresClass ==
    \A p \in Task : Alive(p) /\ task[p].policy = "TS" /\ task[p].donor = NoDonor
                    => task[p].cls = "ts"
=============================================================================
