----------------------------- MODULE RtBalance -----------------------------
(***************************************************************************)
(* Push and pull balancing of real-time tasks (kernel/sched/rt.c).  A CPU  *)
(* with more than one real-time task pushes the best one that is not       *)
(* running to a CPU that runs something less important; a CPU that is      *)
(* about to run something less important asks for one, by taking it itself *)
(* or (RT_PUSH_IPI) by starting an interrupt that visits the overloaded    *)
(* CPUs one after the other.                                               *)
(*                                                                         *)
(* op[a] is what CPU a is doing; lock[c] is the CPU that holds rq->lock of *)
(* run queue c.  push_rt_task and pull_rt_task need a second run queue     *)
(* lock and drop the first one to get it: everything they have read may    *)
(* have changed when they have both.                                       *)
(***************************************************************************)
EXTENDS Integers, FiniteSets, FiniteSetsExt

CONSTANTS
    N,           \* CPUs 0 .. N-1
    Task,        \* real-time tasks, named by their prio: a small number is important
    Pinnings,    \* choices of the tasks that have one allowed CPU, (prio % N)
    Feature,     \* values of sched_feat(RT_PUSH_IPI) to explore
    Waker,       \* CPUs on which wakeups happen
    NULL

CPU == 0 .. N - 1

IDLE == 100                   \* MAX_RT_PRIO: any task that is not real-time
RT_MAX_TRIES == 3

\* Where a CPU can be, and the local variables that matter there.
Op ==
    [pc : {"wake"}, task : Task, rq : CPU]
    \cup [pc : {"callback"}, rq : CPU, after : {"done", "rto"}]
    \cup [pc : {"push"}, rq : CPU, retry : BOOLEAN, after : {"done", "rto"}]
    \cup [pc : {"push2"}, rq : CPU, task : Task, target : CPU, tries : 1 .. RT_MAX_TRIES,
          after : {"done", "rto"}]
    \cup [pc : {"pull", "pick", "tell", "scan", "rto"}]
    \cup [pc : {"pullnext"}, at : -1 .. N - 1]
    \cup [pc : {"pulltake"}, src : CPU]
    \cup [pc : {"unlock"}, cpu : -1 .. N - 1]

ASSUME BalanceAssumption ==
    /\ N \in Nat \ {0}
    /\ Task \subseteq 0 .. 99 /\ Pinnings \subseteq SUBSET Task /\ Pinnings # {} /\ Waker \subseteq CPU
    /\ Feature \subseteq BOOLEAN /\ Feature # {}
    /\ NULL \notin CPU \cup Op

VARIABLES
    cpu,          \* per task: task_cpu
    queued,       \* the tasks on a run queue
    curr,         \* per CPU: rq->curr
    pushable,     \* per CPU: rt.pushable_tasks
    need_resched, \* CPUs whose current task must be rescheduled
    lock,         \* per CPU: who holds rq->lock
    op,           \* per CPU: the operation it is in
    rto,          \* root domain: rto_cpu, rto_loop_start, rto_loop # rto_loop_next
    irq_work,     \* where rto_push_work is pending
    RT_PUSH_IPI,  \* the feature bit
    pinned,       \* the tasks with one allowed CPU
    lost          \* history: a request for work was dropped (tell_cpu_to_push), or a push
                  \* gave up or took what its CPU was to run (push_rt_task_locked, pull_take)

rqVars == <<cpu, queued, curr, pushable, need_resched>>
rtoVars == <<rto, irq_work, lost>>
setup == <<RT_PUSH_IPI, pinned>>
vars == <<rqVars, lock, op, rtoVars, setup>>

At(a, pc) == op[a] # NULL /\ op[a].pc = pc
Allowed(p) == IF p \in pinned THEN {p % N} ELSE CPU
Migratory(p) == Cardinality(Allowed(p)) > 1
OnRq(c) == {p \in queued : cpu[p] = c}

\* rt.highest_prio.curr, which cpupri mirrors.
highest_prio(c) == Min(OnRq(c) \cup {IDLE})

\* update_rt_migration, and with it rd->rto_mask.
overloaded(c) == Cardinality(OnRq(c)) > 1 /\ \E p \in OnRq(c) : Migratory(p)
rto_mask == {c \in CPU : overloaded(c)}

Init ==
    /\ queued = {}
    /\ curr = [c \in CPU |-> IDLE]
    /\ pushable = [c \in CPU |-> {}]
    /\ need_resched = {}
    /\ lock = [c \in CPU |-> NULL]
    /\ op = [a \in CPU |-> NULL]
    /\ rto = [cpu |-> -1, start |-> FALSE, again |-> FALSE]
    /\ irq_work = NULL
    /\ RT_PUSH_IPI \in Feature /\ pinned \in Pinnings
    /\ cpu \in [Task -> CPU] /\ \A p \in Task : cpu[p] \in Allowed(p)
    /\ lost = FALSE

-----------------------------------------------------------------------------
\* dequeue_pushable_task from wherever p is, and enqueue_pushable_task on c.
enqueue_pushable_task(p, c) ==
    [d \in CPU |-> IF d = c /\ Migratory(p) /\ curr[c] # p
                   THEN pushable[d] \cup {p} ELSE pushable[d] \ {p}]

\* double_lock_balance gets both run queue locks.
double_lock_balance(r, t) == lock[r] = NULL /\ lock[t] = NULL

\* The primed run queue state after p has been moved to (or enqueued on) c:
\* dequeue_task_rt and enqueue_task_rt.
MoveTo(p, c) ==
    /\ cpu' = [cpu EXCEPT ![p] = c]
    /\ queued' = queued \cup {p}
    /\ pushable' = enqueue_pushable_task(p, c)

\* The pull that c is in has yet to look at d.
WillAsk(c, d) ==
    /\ op[c] # NULL
    /\ \/ op[c].pc \in {"pull", "tell"}
       \/ op[c].pc = "pullnext" /\ op[c].at < d
       \/ op[c].pc = "pulltake" /\ op[c].src <= d

\* The IPI has yet to visit d.
WillBeTold(d) ==
    \/ (rto.again \/ rto.cpu < d) /\ (rto.cpu >= 0 \/ \E b \in CPU : At(b, "scan"))
    \/ rto.cpu = d /\ (irq_work # NULL \/ \E b \in CPU : At(b, "unlock") /\ op[b].cpu = d)

\* For the history: moving p, the best task of r, to t makes room on r for a
\* task that waits on a third CPU d, and neither r nor d is going to look.
Uncovers(p, r, t) ==
    LET left == Min((OnRq(r) \ {p}) \cup {IDLE})
    IN  /\ p = highest_prio(r)
        /\ \E d \in CPU \ ({r, t} \cup need_resched) :
              pushable[d] # {} /\ Min(pushable[d]) < left /\ ~WillAsk(r, d) /\ ~WillBeTold(d)

\* find_lowest_rq: the CPUs p may run on with the least important work; the
\* task's own CPU is preferred.
find_lowest_rq(p) ==
    LET prios == {highest_prio(c) : c \in Allowed(p)}
        lowest == {c \in Allowed(p) : highest_prio(c) = Max(prios)}
    IN  IF ~Migratory(p) \/ Max(prios) <= p THEN {}
        ELSE IF cpu[p] \in lowest THEN {cpu[p]} ELSE lowest

Done(a) == op' = [op EXCEPT ![a] = NULL]

\* What follows push_rt_tasks: nothing, or the next CPU of the IPI.
AfterPush(a) ==
    op' = [op EXCEPT ![a] = IF op[a].after = "rto" THEN [pc |-> "rto"] ELSE NULL]

-----------------------------------------------------------------------------
\* Wakeups.

\* select_task_rq_rt, without a lock.
select_task_rq_rt(p) ==
    LET c == cpu[p]
        better == {t \in find_lowest_rq(p) : p < highest_prio(t)}
    IN  IF curr[c] # IDLE /\ (~Migratory(curr[c]) \/ curr[c] <= p) /\ better # {} THEN better ELSE {c}

try_to_wake_up(a, p) ==
    /\ a \in Waker /\ op[a] = NULL
    /\ p \notin queued /\ curr[cpu[p]] # p
    /\ ~\E b \in CPU : At(b, "wake") /\ op[b].task = p
    /\ \E c \in select_task_rq_rt(p) : op' = [op EXCEPT ![a] = [pc |-> "wake", task |-> p, rq |-> c]]
    /\ UNCHANGED <<rqVars, lock, rtoVars, setup>>

check_preempt_curr_rt(p, c) == p < curr[c]

\* task_woken_rt, after a check_preempt_curr_rt that saw nothing to preempt.
task_woken_rt(p, c) ==
    /\ c \notin need_resched /\ Migratory(p)
    /\ curr[c] # IDLE /\ (~Migratory(curr[c]) \/ curr[c] <= p)

\* enqueue_task_rt, check_preempt_curr_rt and task_woken_rt under rq->lock.
ttwu_do_activate(a) ==
    LET p == op[a].task
        c == op[a].rq
        resched == check_preempt_curr_rt(p, c)
        push == ~resched /\ task_woken_rt(p, c)
    IN  /\ At(a, "wake") /\ lock[c] = NULL
        /\ MoveTo(p, c)
        /\ need_resched' = IF resched THEN need_resched \cup {c} ELSE need_resched
        /\ IF push
           THEN /\ lock' = [lock EXCEPT ![c] = a]
                /\ op' = [op EXCEPT ![a] = [pc |-> "push", rq |-> c, retry |-> FALSE, after |-> "done"]]
           ELSE Done(a) /\ UNCHANGED lock
        /\ UNCHANGED <<curr, rtoVars, setup>>

-----------------------------------------------------------------------------
\* push_rt_tasks: repeat push_rt_task while it moves something.

push_rt_tasks(a) ==
    /\ At(a, "callback") /\ lock[op[a].rq] = NULL
    /\ lock' = [lock EXCEPT ![op[a].rq] = a]
    /\ op' = [op EXCEPT ![a] = [pc |-> "push", rq |-> @.rq, retry |-> FALSE, after |-> @.after]]
    /\ UNCHANGED <<rqVars, rtoVars, setup>>

\* push_rt_task up to double_lock_balance: p and the target are chosen and the
\* lock is dropped.
push_rt_task(a) ==
    LET r == op[a].rq
        p == Min(pushable[r])
        targets == find_lowest_rq(p)
    IN  /\ At(a, "push")
        /\ lock' = [lock EXCEPT ![r] = NULL]
        /\ IF ~(overloaded(r) \/ op[a].retry) \/ pushable[r] = {} \/ p = curr[r]
           THEN AfterPush(a) /\ UNCHANGED need_resched
           ELSE IF p < curr[r]
           THEN AfterPush(a) /\ need_resched' = need_resched \cup {r}
           ELSE /\ IF targets \subseteq {r} THEN AfterPush(a)
                   ELSE \E t \in targets :
                      op' = [op EXCEPT ![a] = [pc |-> "push2", rq |-> r, task |-> p, target |-> t,
                                               tries |-> 1, after |-> op[a].after]]
                /\ UNCHANGED need_resched
        /\ UNCHANGED <<cpu, queued, curr, pushable, rtoVars, setup>>

\* Faulty variant: nothing is checked again once both locks are held.
StillPushable_Trusting(p, r, t) == TRUE

\* The recheck of find_lock_lowest_rq.
StillPushable(p, r, t) == cpu[p] = r /\ t \in Allowed(p) /\ curr[r] # p /\ p \in queued

\* The next turn of the loop of find_lock_lowest_rq.
Retry(o, t) == [[o EXCEPT !.target = t] EXCEPT !.tries = o.tries + 1]

\* For the history: find_lock_lowest_rq has lost its last target to others
\* while a CPU that is not about to pull still has room for the task.
GivesUp(o) ==
    /\ o.tries = RT_MAX_TRIES /\ ~WillBeTold(o.rq) /\ o.task \in pushable[o.rq]
    /\ \E c \in CPU : highest_prio(c) > o.task /\ ~WillAsk(c, o.rq)

\* ... with both locks: move the task, look for another target, or start over
\* with the task that is first now.
push_rt_task_locked(a) ==
    LET o == op[a]
        ok == StillPushable(o.task, o.rq, o.target)
        move == ok /\ highest_prio(o.target) > o.task
        again == IF ok /\ o.tries < RT_MAX_TRIES THEN find_lowest_rq(o.task) \ {o.rq} ELSE {}
        restart == move \/ (pushable[o.rq] # {} /\ Min(pushable[o.rq]) # o.task)
    IN  /\ At(a, "push2") /\ double_lock_balance(o.rq, o.target)
        /\ IF move
           THEN MoveTo(o.task, o.target) /\ need_resched' = need_resched \cup {o.target} /\ UNCHANGED curr
           ELSE UNCHANGED rqVars
        /\ IF ~move /\ again # {}
           THEN /\ \E t \in again : op' = [op EXCEPT ![a] = Retry(o, t)]
                /\ UNCHANGED lock
           ELSE IF restart
           THEN /\ lock' = [lock EXCEPT ![o.rq] = a]
                /\ op' = [op EXCEPT ![a] = [pc |-> "push", rq |-> o.rq, retry |-> ~move, after |-> o.after]]
           ELSE AfterPush(a) /\ UNCHANGED lock
        /\ lost' = (lost \/ (move /\ Uncovers(o.task, o.rq, o.target)) \/ (~move /\ again = {} /\ GivesUp(o)))
        /\ UNCHANGED <<rto, irq_work, setup>>

-----------------------------------------------------------------------------
\* schedule.

\* The current task goes to sleep, or is preempted.  pick_next_task_rt pulls
\* first if the queue is left with less important work than prev.
schedule(a, sleeps) ==
    LET prev == curr[a]
        left == IF sleeps THEN Min((OnRq(a) \ {prev}) \cup {IDLE}) ELSE highest_prio(a)
    IN  /\ op[a] = NULL /\ lock[a] = NULL
        /\ IF sleeps THEN prev # IDLE ELSE a \in need_resched
        /\ lock' = [lock EXCEPT ![a] = a]
        /\ queued' = IF sleeps THEN queued \ {prev} ELSE queued
        /\ op' = [op EXCEPT ![a] = IF left > prev THEN [pc |-> "pull"] ELSE [pc |-> "pick"]]
        /\ UNCHANGED <<cpu, curr, pushable, need_resched, rtoVars, setup>>

\* pull_rt_task: nobody else is overloaded, or ask, or take.
pull_rt_task(a) ==
    /\ At(a, "pull")
    /\ op' = [op EXCEPT ![a] = IF rto_mask \subseteq {a} THEN [pc |-> "pick"]
                               ELSE IF RT_PUSH_IPI THEN [pc |-> "tell"]
                               ELSE [pc |-> "pullnext", at |-> -1]]
    /\ UNCHANGED <<rqVars, lock, rtoVars, setup>>

\* The loop over rto_mask without RT_PUSH_IPI, up to double_lock_balance.
pull_next(a) ==
    LET todo == {c \in rto_mask \ {a} : c > op[a].at}
        src == Min(todo)
        next == Min(pushable[src] \cup {IDLE})
    IN  /\ At(a, "pullnext")
        /\ IF todo = {} THEN op' = [op EXCEPT ![a] = [pc |-> "pick"]] /\ UNCHANGED lock
           ELSE IF next >= highest_prio(a)
           THEN op' = [op EXCEPT ![a] = [pc |-> "pullnext", at |-> src]] /\ UNCHANGED lock
           ELSE /\ op' = [op EXCEPT ![a] = [pc |-> "pulltake", src |-> src]]
                /\ lock' = [lock EXCEPT ![a] = NULL]
        /\ UNCHANGED <<rqVars, rtoVars, setup>>

\* ... and with both locks: pick_highest_pushable_task.  The resched_curr after
\* the loop is undone by the pick that follows.
pull_take(a) ==
    LET o == op[a]
        able == {p \in pushable[o.src] : a \in Allowed(p)}
        p == Min(able)
    IN  /\ At(a, "pulltake") /\ double_lock_balance(a, o.src)
        /\ lock' = [lock EXCEPT ![a] = a]
        /\ op' = [op EXCEPT ![a] = [pc |-> "pullnext", at |-> o.src]]
        /\ IF able # {} /\ p < highest_prio(a) /\ p >= curr[o.src]
           THEN MoveTo(p, a) /\ lost' = (lost \/ Uncovers(p, o.src, a)) /\ UNCHANGED <<curr, need_resched>>
           ELSE UNCHANGED <<rqVars, lost>>
        /\ UNCHANGED <<rto, irq_work, setup>>

\* Faulty variant: the switch to idle forgets to release rq->lock.
finish_lock_switch_Idle(a, next) == IF next = IDLE THEN lock ELSE [lock EXCEPT ![a] = NULL]

finish_lock_switch(a, next) == [lock EXCEPT ![a] = NULL]

\* The rest of schedule: put_prev_task_rt makes prev pushable, the new current
\* task is not, and the push callback is queued if others wait.
pick_next_task_rt(a) ==
    LET prev == curr[a]
        next == highest_prio(a)
        waiting == (pushable[a] \cup {p \in OnRq(a) : p = prev /\ Migratory(p)}) \ {next}
    IN  /\ At(a, "pick")
        /\ curr' = [curr EXCEPT ![a] = next]
        /\ pushable' = [pushable EXCEPT ![a] = waiting]
        /\ need_resched' = need_resched \ {a}
        /\ lock' = finish_lock_switch(a, next)
        /\ op' = [op EXCEPT ![a] = IF waiting # {} /\ next # IDLE
                                   THEN [pc |-> "callback", rq |-> a, after |-> "done"] ELSE NULL]
        /\ UNCHANGED <<cpu, queued, rtoVars, setup>>

-----------------------------------------------------------------------------
\* The push IPI.

\* Faulty variant: a scan that reaches the end of the mask never starts over.
rto_next_cpu_OneScan ==
    LET rest == {c \in rto_mask : c > rto.cpu}
    IN  IF rest # {} THEN [cpu |-> Min(rest), again |-> rto.again]
        ELSE [cpu |-> -1, again |-> rto.again]

\* rto_next_cpu: the next CPU of rto_mask; at its end once more from the start
\* if rto_loop_next has moved.
rto_next_cpu ==
    LET rest == {c \in rto_mask : c > rto.cpu}
    IN  IF rest # {} THEN [cpu |-> Min(rest), again |-> rto.again]
        ELSE IF rto.again /\ rto_mask # {} THEN [cpu |-> Min(rto_mask), again |-> FALSE]
        ELSE [cpu |-> -1, again |-> FALSE]

\* tell_cpu_to_push: rto_loop_next is incremented, and one caller at a time
\* may start a loop.  A caller that is turned away by one that has already
\* found nothing to do starts no loop and extends none.
tell_cpu_to_push(a) ==
    /\ At(a, "tell")
    /\ rto' = [cpu |-> rto.cpu, start |-> TRUE, again |-> TRUE]
    /\ op' = [op EXCEPT ![a] = [pc |-> IF rto.start THEN "pick" ELSE "scan"]]
    /\ lost' = (lost \/ \E b \in CPU : At(b, "unlock") /\ op[b].cpu = -1 /\ rto.cpu = -1)
    /\ UNCHANGED <<rqVars, lock, irq_work, setup>>

\* ... under rto_lock ...
tell_scan(a) ==
    LET n == IF rto.cpu < 0 THEN rto_next_cpu ELSE [cpu |-> -1, again |-> rto.again]
    IN  /\ At(a, "scan")
        /\ rto' = [cpu |-> IF rto.cpu < 0 THEN n.cpu ELSE rto.cpu, start |-> rto.start, again |-> n.again]
        /\ op' = [op EXCEPT ![a] = [pc |-> "unlock", cpu |-> n.cpu]]
        /\ UNCHANGED <<rqVars, lock, irq_work, lost, setup>>

\* ... and the loop is started.
tell_unlock(a) ==
    /\ At(a, "unlock")
    /\ rto' = [rto EXCEPT !.start = FALSE]
    /\ irq_work' = IF op[a].cpu >= 0 THEN op[a].cpu ELSE irq_work
    /\ op' = [op EXCEPT ![a] = [pc |-> "pick"]]
    /\ UNCHANGED <<rqVars, lock, lost, setup>>

\* rto_push_irq_work_func, in the interrupt: push if there is something ...
rto_push_irq_work_func(a) ==
    /\ op[a] = NULL /\ irq_work = a
    /\ irq_work' = NULL
    /\ op' = [op EXCEPT ![a] = IF pushable[a] # {} THEN [pc |-> "callback", rq |-> a, after |-> "rto"]
                               ELSE [pc |-> "rto"]]
    /\ UNCHANGED <<rqVars, lock, rto, lost, setup>>

\* ... and pass the IPI on, under rto_lock.
rto_pass_on(a) ==
    LET n == rto_next_cpu IN
    /\ At(a, "rto")
    /\ rto' = [cpu |-> n.cpu, start |-> rto.start, again |-> n.again]
    /\ irq_work' = IF n.cpu >= 0 THEN n.cpu ELSE irq_work
    /\ Done(a)
    /\ UNCHANGED <<rqVars, lock, lost, setup>>

-----------------------------------------------------------------------------
Next ==
    \E a \in CPU :
        \/ \E p \in Task : try_to_wake_up(a, p)
        \/ ttwu_do_activate(a)
        \/ push_rt_tasks(a) \/ push_rt_task(a) \/ push_rt_task_locked(a)
        \/ \E sleeps \in BOOLEAN : schedule(a, sleeps)
        \/ pull_rt_task(a) \/ pull_next(a) \/ pull_take(a)
        \/ pick_next_task_rt(a)
        \/ tell_cpu_to_push(a) \/ tell_scan(a) \/ tell_unlock(a)
        \/ rto_push_irq_work_func(a) \/ rto_pass_on(a)

Spec == Init /\ [][Next]_vars

-----------------------------------------------------------------------------
\* Type correctness; a lock is held by a CPU that is in an operation.
TypeOK ==
    /\ cpu \in [Task -> CPU] /\ queued \subseteq Task
    /\ curr \in [CPU -> Task \cup {IDLE}]
    /\ pushable \in [CPU -> SUBSET Task]
    /\ need_resched \subseteq CPU
    /\ lock \in [CPU -> CPU \cup {NULL}]
    /\ op \in [CPU -> Op \cup {NULL}]
    /\ \A c \in CPU : lock[c] # NULL => op[lock[c]] # NULL
    /\ rto \in [cpu : -1 .. N - 1, start : BOOLEAN, again : BOOLEAN]
    /\ irq_work \in CPU \cup {NULL}
    /\ RT_PUSH_IPI \in BOOLEAN /\ pinned \subseteq Task /\ lost \in BOOLEAN

\* The BUG_ONs of pick_next_pushable_task, and what they protect: whatever
\* happened while a pusher or a puller had dropped its lock, a task on a
\* pushable list is queued on that run queue, is not running there and may run
\* elsewhere; no task is moved to a CPU it may not use; and a task that runs is
\* still on its CPU's queue, unless that CPU is just switching away from it.
PushableAgrees ==
    /\ \A c \in CPU : \A p \in pushable[c] :
          p \in queued /\ cpu[p] = c /\ curr[c] # p /\ Migratory(p)
    /\ \A p \in queued : cpu[p] \in Allowed(p)
    /\ \A c \in CPU : curr[c] # IDLE => \/ curr[c] \in OnRq(c)
                                        \/ curr[c] \notin queued /\ op[c] # NULL

Quiescent ==
    need_resched = {} /\ irq_work = NULL /\ \A a \in CPU : op[a] = NULL

\* "All CPUs with overloaded RT tasks need to be notified": once every
\* reschedule, push, pull and IPI has run its course, no CPU runs something
\* less important than the first task waiting on another CPU.  The exceptions
\* (lost): a request that met rto_loop_start held by a caller that had found
\* rto_mask empty is dropped; a push whose targets were taken RT_MAX_TRIES
\* times gives up; and a push or pull moves the best task of a CPU that had
\* counted on running it, because the recheck after the lock was dropped only
\* asks whether that CPU runs the task now.
NobodyWaitsInVain ==
    Quiescent /\ ~lost =>
        \A d \in CPU : pushable[d] # {} =>
            \A c \in Allowed(Min(pushable[d])) : highest_prio(c) <= Min(pushable[d])
=============================================================================
