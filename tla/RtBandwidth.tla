---------------------------- MODULE RtBandwidth ----------------------------
(***************************************************************************)
(* Real-time throttling (kernel/sched/rt.c without CONFIG_RT_GROUP_SCHED): *)
(* every CPU accounts the time its real-time tasks run (update_curr_rt),   *)
(* borrows unused runtime from its neighbours (do_balance_runtime), stops  *)
(* them when it is spent, and one period timer gives it back and stops     *)
(* itself when there is nothing left to do.  CPUs leave and join the       *)
(* scheduler (__disable_runtime, __enable_runtime), and the limit itself   *)
(* changes under them (sched_rt_handler).                                  *)
(*                                                                         *)
(* A step is what happens under one of the locks: rq->lock, held by a CPU  *)
(* through update_curr_rt (pc), or rt_b->rt_runtime_lock.                  *)
(***************************************************************************)
EXTENDS Integers, FiniteSets, FiniteSetsExt, Functions

CONSTANTS
    N,           \* CPUs 0 .. N-1
    Period,      \* sched_rt_period
    Runtime,     \* sched_rt_runtime at boot
    NewRuntime,  \* values written to it later, besides -1
    Delta,       \* time a task runs between two calls of update_curr_rt
    MaxTime,     \* bound on rt_time
    MaxTasks     \* bound on the real-time tasks of a CPU

ASSUME BandwidthAssumption ==
    /\ N \in Nat \ {0} /\ Period \in Nat \ {0}
    /\ Runtime \in 1 .. Period
    /\ NewRuntime \subseteq 0 .. Period
    /\ Delta \subseteq Nat \ {0}
    /\ MaxTime \in Nat /\ MaxTasks \in Nat

RUNTIME_INF == -1         \* ~0 in the code: no number is larger
CPU == 0 .. N - 1

VARIABLES
    rt_time, rt_runtime,        \* per CPU, in units of Delta
    rt_throttled, rt_queued,    \* per CPU
    rt_nr_running,              \* per CPU: real-time tasks on the run queue
    nr_running,                 \* per CPU: how many of them rq->nr_running counts
    curr,                       \* per CPU: the current task is a real-time task
    pc,                         \* per CPU: where update_curr_rt is, with rq->lock held
    online,                     \* CPUs whose run queue is online
    rt_b,                       \* def_rt_bandwidth: rt_runtime, rt_period_active
    timer,                      \* sched_rt_period_timer: CPUs to visit, idle, throttled
    sysctl,                     \* sysctl_sched_rt_runtime and the handler's progress
    missed,                     \* history: CPUs the timer does not know have tasks
    leaked,                     \* history: the limit changed while CPUs came or went (none does after)
    wanting                     \* __disable_runtime reached BUG_ON(want)

rqVars == <<rt_time, rt_runtime, rt_throttled, rt_queued, rt_nr_running, nr_running, curr, pc>>
leakVars == <<leaked, wanting>>
vars == <<rqVars, online, rt_b, timer, sysctl, missed, leakVars>>

rt_bandwidth_enabled == sysctl.runtime # RUNTIME_INF

Init ==
    /\ rt_time = [c \in CPU |-> 0]
    /\ rt_runtime = [c \in CPU |-> Runtime]
    /\ rt_throttled = [c \in CPU |-> FALSE]
    /\ rt_queued = [c \in CPU |-> FALSE]
    /\ rt_nr_running = [c \in CPU |-> 0]
    /\ nr_running = [c \in CPU |-> 0]
    /\ curr = [c \in CPU |-> FALSE]
    /\ pc = [c \in CPU |-> "unlocked"]
    /\ online = CPU
    /\ rt_b = [runtime |-> Runtime, active |-> FALSE]
    /\ timer = [on |-> FALSE, todo |-> {}, idle |-> TRUE, throttled |-> FALSE]
    /\ sysctl = [pc |-> "done", runtime |-> Runtime]
    /\ missed = {}
    /\ leaked = FALSE
    /\ wanting = FALSE

-----------------------------------------------------------------------------
\* rq->nr_running counts the real-time tasks as long as rt_queued is set.

\* dequeue_top_rt_rq and enqueue_top_rt_rq: rq->nr_running of c without its nr
\* tasks, and what nr tasks add to it.
dequeue_top_rt_rq(c) == nr_running[c] - (IF rt_queued[c] THEN rt_nr_running[c] ELSE 0)
enqueue_top_rt_rq(c, nr) == IF rt_throttled[c] THEN 0 ELSE nr

\* sched_rt_rq_enqueue of a queue that is not throttled.
sched_rt_rq_enqueue(c) ==
    /\ rt_queued' = [rt_queued EXCEPT ![c] = @ \/ rt_nr_running[c] > 0]
    /\ nr_running' = [nr_running EXCEPT ![c] = IF ~rt_queued[c] THEN @ + rt_nr_running[c] ELSE @]

\* The timer's walk has already been at c.
Behind(c) == timer.on /\ c \notin timer.todo

\* start_rt_bandwidth, called for every task that is enqueued.
start_rt_bandwidth(c) ==
    IF ~rt_bandwidth_enabled \/ rt_b.runtime = RUNTIME_INF
    THEN missed' = missed \cup {c} /\ UNCHANGED rt_b
    ELSE IF rt_b.active
    THEN /\ missed' = IF Behind(c) THEN missed \cup {c} ELSE missed
         /\ UNCHANGED rt_b
    ELSE missed' = {} /\ rt_b' = [rt_b EXCEPT !.active = TRUE]

\* Faulty variant: the tasks already counted are not taken out before the new
\* one is added.
enqueue_task_rt_NoDequeueTop(c) ==
    LET nr == rt_nr_running[c] + 1 IN
    /\ pc[c] = "unlocked" /\ rt_nr_running[c] < MaxTasks
    /\ rt_nr_running' = [rt_nr_running EXCEPT ![c] = nr]
    /\ rt_queued' = [rt_queued EXCEPT ![c] = @ \/ ~rt_throttled[c]]
    /\ nr_running' = [nr_running EXCEPT ![c] = IF ~rt_queued[c] /\ ~rt_throttled[c] THEN nr ELSE @]
    /\ start_rt_bandwidth(c)
    /\ UNCHANGED <<rt_time, rt_runtime, rt_throttled, curr, pc, online, timer, sysctl, leakVars>>

\* enqueue_task_rt: dequeue_rt_stack takes the queue out of nr_running,
\* __enqueue_rt_entity adds the task and starts the period timer, and
\* enqueue_top_rt_rq counts the queue again unless it is throttled.
enqueue_task_rt(c) ==
    LET nr == rt_nr_running[c] + 1 IN
    /\ pc[c] = "unlocked" /\ rt_nr_running[c] < MaxTasks
    /\ rt_nr_running' = [rt_nr_running EXCEPT ![c] = nr]
    /\ rt_queued' = [rt_queued EXCEPT ![c] = ~rt_throttled[c]]
    /\ nr_running' = [nr_running EXCEPT ![c] = dequeue_top_rt_rq(c) + enqueue_top_rt_rq(c, nr)]
    /\ start_rt_bandwidth(c)
    /\ UNCHANGED <<rt_time, rt_runtime, rt_throttled, curr, pc, online, timer, sysctl, leakVars>>

\* schedule: a real-time task is picked exactly when the queue is counted.
pick_next_task_rt(c) ==
    /\ pc[c] = "unlocked" /\ curr[c] # rt_queued[c]
    /\ curr' = [curr EXCEPT ![c] = rt_queued[c]]
    /\ UNCHANGED <<rt_time, rt_runtime, rt_throttled, rt_queued, rt_nr_running, nr_running, pc,
                   online, rt_b, timer, sysctl, missed, leakVars>>

\* Faulty variant: the task is taken out of nr_running even if its queue is not
\* counted there.
dequeue_task_rt_Throttled(c) ==
    LET nr == rt_nr_running[c] - 1
        counts == nr > 0 /\ ~rt_throttled[c]
    IN  /\ pc[c] = "unlocked" /\ rt_nr_running[c] > 0
        /\ rt_nr_running' = [rt_nr_running EXCEPT ![c] = nr]
        /\ rt_queued' = [rt_queued EXCEPT ![c] = counts]
        /\ nr_running' = [nr_running EXCEPT ![c] = @ - 1]
        /\ curr' = [curr EXCEPT ![c] = counts]
        /\ UNCHANGED <<rt_time, rt_runtime, rt_throttled, pc, online, rt_b, timer, sysctl, missed, leakVars>>

\* dequeue_task_rt from schedule or from a migration, and the next pick.
dequeue_task_rt(c) ==
    LET nr == rt_nr_running[c] - 1
        counts == nr > 0 /\ ~rt_throttled[c]
    IN  /\ pc[c] = "unlocked" /\ rt_nr_running[c] > 0
        /\ rt_nr_running' = [rt_nr_running EXCEPT ![c] = nr]
        /\ rt_queued' = [rt_queued EXCEPT ![c] = counts]
        /\ nr_running' = [nr_running EXCEPT ![c] = dequeue_top_rt_rq(c) + enqueue_top_rt_rq(c, nr)]
        /\ curr' = [curr EXCEPT ![c] = counts]
        /\ UNCHANGED <<rt_time, rt_runtime, rt_throttled, pc, online, rt_b, timer, sysctl, missed, leakVars>>

-----------------------------------------------------------------------------
\* Accounting, borrowing and throttling.

\* Faulty variant: what is borrowed is not taken from the lender.
Borrow_Mint(run, c, i) ==
    IF i = c \/ run[i] = RUNTIME_INF \/ run[c] = Period \/ run[i] <= rt_time[i] THEN run
    ELSE LET part == (run[i] - rt_time[i]) \div N
             diff == IF run[c] + part > Period THEN Period - run[c] ELSE part
         IN  [run EXCEPT ![c] = @ + diff]

\* One neighbour i lends 1/N of its spare time, and the borrower does not get
\* more than the period.
Borrow(run, c, i) ==
    IF i = c \/ run[i] = RUNTIME_INF \/ run[c] = Period \/ run[i] <= rt_time[i] THEN run
    ELSE LET part == (run[i] - rt_time[i]) \div N
             diff == IF run[c] + part > Period THEN Period - run[c] ELSE part
         IN  [run EXCEPT ![i] = @ - diff, ![c] = @ + diff]

\* do_balance_runtime: the neighbours in order.
do_balance_runtime(run, c) ==
    LET after[i \in -1 .. N - 1] == IF i = -1 THEN run ELSE Borrow(after[i - 1], c, i)
    IN  after[N - 1]

\* update_curr_rt up to the point where sched_rt_runtime_exceeded drops
\* rt_runtime_lock to borrow.
update_curr_rt(c, delta) ==
    LET time == rt_time[c] + delta IN
    /\ pc[c] = "unlocked" /\ curr[c]
    /\ rt_bandwidth_enabled /\ rt_runtime[c] # RUNTIME_INF
    /\ time <= MaxTime
    /\ rt_time' = [rt_time EXCEPT ![c] = time]
    /\ pc' = [pc EXCEPT ![c] = IF rt_throttled[c] \/ rt_runtime[c] >= Period \/ time <= rt_runtime[c]
                               THEN "unlocked" ELSE "balance"]
    /\ UNCHANGED <<rt_runtime, rt_throttled, rt_queued, rt_nr_running, nr_running, curr, online,
                   rt_b, timer, sysctl, missed, leakVars>>

balance_runtime(c) ==
    /\ pc[c] = "balance"
    /\ rt_runtime' = do_balance_runtime(rt_runtime, c)
    /\ pc' = [pc EXCEPT ![c] = "exceeded"]
    /\ UNCHANGED <<rt_time, rt_throttled, rt_queued, rt_nr_running, nr_running, curr, online,
                   rt_b, timer, sysctl, missed, leakVars>>

\* The rest of sched_rt_runtime_exceeded: throttle, or go on with the new
\* runtime.  Without any runtime nothing could ever be given back.
sched_rt_runtime_exceeded(c) ==
    LET exceeded == rt_runtime[c] # RUNTIME_INF /\ rt_time[c] > rt_runtime[c]
        throttle == exceeded /\ rt_b.runtime # 0
    IN  /\ pc[c] = "exceeded"
        /\ rt_throttled' = [rt_throttled EXCEPT ![c] = throttle]
        /\ rt_time' = [rt_time EXCEPT ![c] = IF exceeded /\ ~throttle THEN 0 ELSE @]
        /\ rt_queued' = [rt_queued EXCEPT ![c] = @ /\ ~throttle]
        /\ nr_running' = [nr_running EXCEPT ![c] = IF throttle THEN dequeue_top_rt_rq(c) ELSE @]
        /\ pc' = [pc EXCEPT ![c] = "unlocked"]
        /\ missed' = IF throttle /\ Behind(c) THEN missed \cup {c} ELSE missed
        /\ UNCHANGED <<rt_runtime, rt_nr_running, curr, online, rt_b, timer, sysctl, leakVars>>

-----------------------------------------------------------------------------
\* The period timer.

sched_rt_period_timer ==
    /\ rt_b.active /\ ~timer.on
    /\ timer' = [on |-> TRUE, todo |-> CPU, idle |-> TRUE, throttled |-> FALSE]
    /\ missed' = {}
    /\ UNCHANGED <<rqVars, online, rt_b, sysctl, leakVars>>

\* One CPU of do_sched_rt_period_timer: skipped without rq->lock if there is
\* nothing to do, else given back overrun times its runtime and unthrottled.
do_sched_rt_period_timer(overrun) ==
    LET c == Min(timer.todo)
        skipped == rt_time[c] = 0 /\ rt_nr_running[c] = 0
        run == IF rt_throttled[c] /\ rt_time[c] > rt_runtime[c] /\ rt_runtime[c] # RUNTIME_INF
               THEN do_balance_runtime(rt_runtime, c) ELSE rt_runtime
        time == IF run[c] = RUNTIME_INF THEN 0 ELSE Max({0, rt_time[c] - overrun * run[c]})
        unthrottle == rt_throttled[c] /\ rt_time[c] # 0 /\ (time < run[c] \/ run[c] = RUNTIME_INF)
        enqueue == unthrottle \/ (rt_time[c] = 0 /\ rt_nr_running[c] # 0 /\ ~rt_throttled[c])
    IN  /\ timer.todo # {}
        /\ ~skipped => pc[c] = "unlocked"
        /\ rt_runtime' = run
        /\ rt_time' = [rt_time EXCEPT ![c] = time]
        /\ rt_throttled' = [rt_throttled EXCEPT ![c] = @ /\ ~unthrottle]
        /\ IF enqueue THEN sched_rt_rq_enqueue(c) ELSE UNCHANGED <<rt_queued, nr_running>>
        /\ timer' = [on |-> timer.on, todo |-> timer.todo \ {c},
                     idle |-> timer.idle /\ time = 0 /\ rt_nr_running[c] = 0,
                     throttled |-> timer.throttled \/ (rt_throttled[c] /\ ~unthrottle /\ ~skipped)]
        /\ UNCHANGED <<rt_nr_running, curr, pc, online, rt_b, sysctl, missed, leakVars>>

\* Faulty variant: without a limit the timer stops at once.
rt_period_timer_done_Throttled ==
    LET off == ~rt_bandwidth_enabled \/ rt_b.runtime = RUNTIME_INF
    IN  /\ timer.on /\ timer.todo = {}
        /\ rt_b' = [rt_b EXCEPT !.active = ~(timer.idle \/ off)]
        /\ missed' = IF off THEN missed \cup {c \in CPU : rt_nr_running[c] > 0} ELSE missed
        /\ timer' = [on |-> FALSE, todo |-> {}, idle |-> TRUE, throttled |-> FALSE]
        /\ UNCHANGED <<rqVars, online, sysctl, leakVars>>

\* The end of sched_rt_period_timer, under rt_b->rt_runtime_lock: stop if the
\* walk found every CPU idle, or if there is no limit and nobody is throttled.
rt_period_timer_done ==
    LET off == ~timer.throttled /\ (~rt_bandwidth_enabled \/ rt_b.runtime = RUNTIME_INF)
    IN  /\ timer.on /\ timer.todo = {}
        /\ rt_b' = [rt_b EXCEPT !.active = ~(timer.idle \/ off)]
        /\ missed' = IF off THEN missed \cup {c \in CPU : rt_nr_running[c] > 0} ELSE missed
        /\ timer' = [on |-> FALSE, todo |-> {}, idle |-> TRUE, throttled |-> FALSE]
        /\ UNCHANGED <<rqVars, online, sysctl, leakVars>>

-----------------------------------------------------------------------------
\* CPUs leave and join, and the limit changes.

\* __disable_runtime: reclaim what was lent, greedily, or give back what was
\* borrowed, to the first neighbour that takes part.  s.run is the runtime of
\* every CPU and s.want what is still to be moved when neighbour i is visited.
ReclaimFrom(s, c, i) ==
    LET diff == IF s.want > 0 THEN Min({s.run[i], s.want}) ELSE s.want
    IN  IF i = c \/ s.run[i] = RUNTIME_INF \/ s.want = 0 THEN s
        ELSE [run |-> [s.run EXCEPT ![i] = @ - diff], want |-> s.want - diff]

Reclaim(c) ==
    LET step[i \in -1 .. N - 1] ==
            IF i = -1 THEN [run |-> rt_runtime, want |-> rt_b.runtime - rt_runtime[c]]
            ELSE ReclaimFrom(step[i - 1], c, i)
    IN  IF rt_runtime[c] \in {RUNTIME_INF, rt_b.runtime}
        THEN [run |-> rt_runtime, want |-> 0] ELSE step[N - 1]

rq_offline_rt(c) ==
    LET r == Reclaim(c) IN
    /\ c \in online /\ online # {c}      \* the last CPU cannot be unplugged
    /\ pc[c] = "unlocked" /\ ~leaked
    /\ online' = online \ {c}
    /\ rt_runtime' = [r.run EXCEPT ![c] = RUNTIME_INF]
    /\ rt_throttled' = [rt_throttled EXCEPT ![c] = FALSE]
    /\ sched_rt_rq_enqueue(c)
    /\ wanting' = (wanting \/ r.want # 0)
    /\ leaked' = (leaked \/ sysctl.pc = "global")
    /\ UNCHANGED <<rt_time, rt_nr_running, curr, pc, rt_b, timer, sysctl, missed>>

\* __enable_runtime.
rq_online_rt(c) ==
    /\ c \notin online /\ pc[c] = "unlocked" /\ ~leaked
    /\ online' = online \cup {c}
    /\ rt_runtime' = [rt_runtime EXCEPT ![c] = rt_b.runtime]
    /\ rt_time' = [rt_time EXCEPT ![c] = 0]
    /\ rt_throttled' = [rt_throttled EXCEPT ![c] = FALSE]
    /\ leaked' = (leaked \/ sysctl.pc = "global")
    /\ UNCHANGED <<rt_queued, rt_nr_running, nr_running, curr, pc, rt_b, timer, sysctl, missed, wanting>>

\* sched_rt_handler: the value is stored first ...
sched_rt_handler(runtime) ==
    /\ sysctl.pc = "done" /\ runtime # sysctl.runtime
    /\ sysctl' = [pc |-> "constraints", runtime |-> runtime]
    /\ UNCHANGED <<rqVars, online, rt_b, timer, missed, leakVars>>

\* ... then given to every possible CPU, the disabled ones included ...
sched_rt_global_constraints ==
    /\ sysctl.pc = "constraints"
    /\ rt_runtime' = [c \in CPU |-> sysctl.runtime]
    /\ sysctl' = [sysctl EXCEPT !.pc = "global"]
    /\ leaked' = (leaked \/ online # CPU)
    /\ UNCHANGED <<rt_time, rt_throttled, rt_queued, rt_nr_running, nr_running, curr, pc,
                   online, rt_b, timer, missed, wanting>>

\* ... and last to def_rt_bandwidth, without its lock.
sched_rt_do_global ==
    /\ sysctl.pc = "global"
    /\ rt_b' = [rt_b EXCEPT !.runtime = sysctl.runtime]
    /\ sysctl' = [sysctl EXCEPT !.pc = "done"]
    /\ UNCHANGED <<rqVars, online, timer, missed, leakVars>>

-----------------------------------------------------------------------------
CpuStep(c) ==
    \/ \E delta \in Delta : update_curr_rt(c, delta)
    \/ balance_runtime(c)
    \/ sched_rt_runtime_exceeded(c)
    \/ pick_next_task_rt(c)

TimerStep ==
    \/ sched_rt_period_timer
    \/ \E overrun \in {1, 2} : do_sched_rt_period_timer(overrun)
    \/ rt_period_timer_done

Next ==
    \/ TimerStep
    \/ \E c \in CPU :
          \/ CpuStep(c)
          \/ enqueue_task_rt(c) \/ dequeue_task_rt(c)
          \/ rq_offline_rt(c) \/ rq_online_rt(c)
    \/ \E runtime \in NewRuntime \cup {RUNTIME_INF} : sched_rt_handler(runtime)
    \/ sched_rt_global_constraints \/ sched_rt_do_global

Spec == Init /\ [][Next]_vars

-----------------------------------------------------------------------------
\* Type correctness; no CPU owes runtime, whatever is borrowed, lent and
\* reclaimed: rt_runtime never wraps around below RUNTIME_INF.
TypeOK ==
    /\ rt_time \in [CPU -> 0 .. MaxTime]
    /\ rt_runtime \in [CPU -> Int] /\ \A c \in CPU : rt_runtime[c] >= RUNTIME_INF
    /\ rt_throttled \in [CPU -> BOOLEAN] /\ rt_queued \in [CPU -> BOOLEAN]
    /\ rt_nr_running \in [CPU -> 0 .. MaxTasks] /\ nr_running \in [CPU -> 0 .. MaxTasks]
    /\ curr \in [CPU -> BOOLEAN]
    /\ pc \in [CPU -> {"unlocked", "balance", "exceeded"}]
    /\ online \subseteq CPU
    /\ rt_b \in [runtime : RUNTIME_INF .. Period, active : BOOLEAN]
    /\ timer \in [on : BOOLEAN, todo : SUBSET CPU, idle : BOOLEAN, throttled : BOOLEAN]
    /\ sysctl \in [pc : {"done", "constraints", "global"}, runtime : RUNTIME_INF .. Period]
    /\ missed \subseteq CPU /\ leaked \in BOOLEAN /\ wanting \in BOOLEAN

\* __disable_runtime, "We cannot be left wanting - that would mean some runtime
\* leaked out of the system": the CPUs that take part in borrowing own
\* together exactly their shares, so BUG_ON(want) is never reached -- unless
\* the limit was changed while a CPU was disabled, or a CPU came or went
\* between sched_rt_global_constraints and sched_rt_do_global.
RuntimeConserved ==
    ~leaked =>
        /\ ~wanting
        /\ sysctl.pc # "global" /\ rt_b.runtime # RUNTIME_INF =>
              SumFunctionOnSet(rt_runtime, online) = Cardinality(online) * rt_b.runtime

\* A throttled CPU is waiting for the period timer, so the timer must be
\* running.  start_rt_bandwidth relies on rt_period_active, which the timer
\* clears at the end of a walk over the CPUs: only a CPU whose tasks arrived or
\* ran out of time behind the walk, or arrived while there was no limit, can be
\* throttled without a timer.
ThrottledIsTimed == \A c \in CPU : rt_throttled[c] /\ ~rt_b.active => c \in missed

\* enqueue_top_rt_rq and dequeue_top_rt_rq: rq->nr_running counts the
\* real-time tasks exactly as long as they may be picked, through throttling,
\* enqueues while throttled, and CPUs that leave or join.
CountedIffRunnable ==
    \A c \in CPU :
        /\ rt_queued[c] <=> rt_nr_running[c] > 0 /\ ~rt_throttled[c]
        /\ nr_running[c] = IF rt_queued[c] THEN rt_nr_running[c] ELSE 0
=============================================================================
