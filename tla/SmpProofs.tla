----------------------------- MODULE SmpProofs ------------------------------
(***************************************************************************)
(* SchedSMP for any number of CPUs, tasks and wakers: the fields of        *)
(* task_struct and the run queues agree; nothing but SCHED_TS tasks stays  *)
(* on a dead CPU, and __set_cpus_allowed_ptr keeps its promise although the*)
(* task may be running, sleeping, waking or on a wake list while the       *)
(* migration thread is on its way; and every step of the protocol, seen    *)
(* through StacksInUse, Asleep and CallsInFlight, is a step of TaskContract*)
(* or leaves it unchanged.  A leaf names Zenon where that prover is enough;*)
(* the others need SMT.                                                    *)
(***************************************************************************)
EXTENDS SchedSMP, FiniteSetTheorems, TLAPS

TaskTypes ==
    /\ state \in [Task -> {TASK_RUNNING, TASK_UNINTERRUPTIBLE, TASK_WAKING}]
    /\ on_rq \in [Task -> {OffRq, TASK_ON_RQ_QUEUED, TASK_ON_RQ_MIGRATING}]
    /\ on_cpu \in [Task -> BOOLEAN]
    /\ task_cpu \in [Task -> CPU]
    /\ cpus_allowed \in [Task -> SUBSET CPU]
WaitTypes ==
    /\ loc \in [Task -> {"loop", "test", "schedule"}]
    /\ cond \in [Task -> BOOLEAN]
RqTypes ==
    /\ rq \in [CPU -> SUBSET Task]
    /\ curr \in [CPU -> Task \cup {Idle, Stop}]
    /\ prev \in [CPU -> Task \cup {NULL}]
WakeTypes ==
    /\ wake_list \in [CPU -> SUBSET Task]
    /\ ipi \in [CPU -> BOOLEAN]
    /\ ttwu \in [Waker -> Call]
StopTypes ==
    /\ setaff \in Call
    /\ work \in [CPU -> [task : Task, dest : CPU] \cup {NULL}]
    /\ stopper \in [CPU -> {"idle", "flushed", "move"}]
CpuTypes == cpu_active \subseteq cpu_online /\ cpu_online \subseteq CPU

\* A task that is being switched out is marked, not in motion and belongs to
\* the CPU that switches.
Leaving ==
    \A c \in CPU : prev[c] # NULL =>
        /\ on_cpu[prev[c]] /\ task_cpu[prev[c]] = c
        /\ on_rq[prev[c]] # TASK_ON_RQ_MIGRATING /\ prev[c] # curr[c]

\* The migration thread works only while it runs, for the one caller there is.
Stopping ==
    \A c \in CPU :
        /\ stopper[c] # "idle" => curr[c] = Stop /\ prev[c] = NULL /\ work[c] # NULL
        /\ work[c] # NULL => /\ setaff.pc = "stop" /\ setaff.task = work[c].task
                             /\ \A d \in CPU : work[d] # NULL => d = c

\* A task between two run queues is marked.
Moving ==
    /\ setaff.pc = "move" => setaff.task \in Task /\ on_rq[setaff.task] = TASK_ON_RQ_MIGRATING
    /\ \A c \in CPU : stopper[c] = "move" => on_rq[work[c].task] = TASK_ON_RQ_MIGRATING

\* A task off the run queue sleeps or is being woken.
OffState ==
    \A p \in Task : /\ on_rq[p] = OffRq => state[p] # TASK_RUNNING
                    /\ state[p] = TASK_WAKING => on_rq[p] = OffRq

\* A pending remote wakeup is for a task that is off every CPU.
Listed ==
    \A c \in CPU : \A p \in wake_list[c] :
        task_cpu[p] = c /\ on_rq[p] = OffRq /\ ~on_cpu[p] /\ state[p] = TASK_WAKING

\* What try_to_wake_up knows at each of its steps; the lock is held by one waker.
Holds(w) == ttwu[w].pc \in {"on_rq", "remote", "on_cpu", "queue"}
Wakers ==
    \A w \in Waker :
        /\ ttwu[w].pc = "idle" => ttwu[w] = NoCall
        /\ ttwu[w].pc = "call" \/ Holds(w) => ttwu[w].task \in Task
        /\ ttwu[w].pc \in {"idle", "call"} \/ Holds(w)
        /\ ttwu[w].pc \in {"on_rq", "remote", "on_cpu"} => state[ttwu[w].task] # TASK_WAKING
        /\ ttwu[w].pc = "on_cpu" => on_rq[ttwu[w].task] = OffRq
        /\ ttwu[w].pc = "queue" => /\ on_rq[ttwu[w].task] = OffRq
                                   /\ state[ttwu[w].task] = TASK_WAKING
                                   /\ ~on_cpu[ttwu[w].task]
                                   /\ \A c \in CPU : ttwu[w].task \notin wake_list[c]
        /\ \A v \in Waker : Holds(w) /\ Holds(v) /\ ttwu[w].task = ttwu[v].task => v = w

\* A task that has tested its condition, or sleeps, has a waker if the condition
\* became true since.
Attended ==
    \A p \in Task : cond[p] /\ state[p] = TASK_UNINTERRUPTIBLE /\ loc[p] # "test" =>
        \E w \in Waker : ttwu[w].task = p

IInv ==
    /\ TaskTypes /\ WaitTypes /\ RqTypes /\ WakeTypes /\ StopTypes /\ CpuTypes
    /\ QueueAgrees /\ Leaving /\ Stopping /\ Moving /\ OffState /\ Listed
    /\ Wakers /\ Attended

\* Each conjunct depends only on the variables it mentions.
LEMMA Kept ==
    /\ TaskTypes /\ UNCHANGED <<state, on_rq, on_cpu, task_cpu, cpus_allowed>> => TaskTypes'
    /\ WaitTypes /\ UNCHANGED <<loc, cond>> => WaitTypes'
    /\ RqTypes /\ UNCHANGED <<rq, curr, prev>> => RqTypes'
    /\ WakeTypes /\ UNCHANGED <<wake_list, ipi, ttwu>> => WakeTypes'
    /\ StopTypes /\ UNCHANGED <<setaff, work, stopper>> => StopTypes'
    /\ CpuTypes /\ UNCHANGED <<cpu_active, cpu_online>> => CpuTypes'
    /\ QueueAgrees /\ UNCHANGED <<rq, on_rq, task_cpu, curr, on_cpu>> => QueueAgrees'
    /\ Leaving /\ UNCHANGED <<prev, on_cpu, task_cpu, on_rq, curr>> => Leaving'
    /\ Stopping /\ UNCHANGED <<stopper, curr, prev, work, setaff>> => Stopping'
    /\ Moving /\ UNCHANGED <<setaff, on_rq, stopper, work>> => Moving'
    /\ OffState /\ UNCHANGED <<on_rq, state>> => OffState'
    /\ Listed /\ UNCHANGED <<wake_list, task_cpu, on_rq, on_cpu, state>> => Listed'
    /\ Wakers /\ UNCHANGED <<ttwu, state, on_rq, on_cpu, wake_list>> => Wakers'
    /\ Attended /\ UNCHANGED <<cond, state, loc, ttwu>> => Attended'
<1>1. TaskTypes /\ UNCHANGED <<state, on_rq, on_cpu, task_cpu, cpus_allowed>> => TaskTypes'
  BY Zenon DEF TaskTypes
<1>2. WaitTypes /\ UNCHANGED <<loc, cond>> => WaitTypes'
  BY Zenon DEF WaitTypes
<1>3. RqTypes /\ UNCHANGED <<rq, curr, prev>> => RqTypes'
  BY Zenon DEF RqTypes
<1>4. WakeTypes /\ UNCHANGED <<wake_list, ipi, ttwu>> => WakeTypes'
  BY Zenon DEF WakeTypes
<1>5. StopTypes /\ UNCHANGED <<setaff, work, stopper>> => StopTypes'
  BY Zenon DEF StopTypes
<1>6. CpuTypes /\ UNCHANGED <<cpu_active, cpu_online>> => CpuTypes'
  BY Zenon DEF CpuTypes
<1>7. QueueAgrees /\ UNCHANGED <<rq, on_rq, task_cpu, curr, on_cpu>> => QueueAgrees'
  BY DEF QueueAgrees
<1>8. Leaving /\ UNCHANGED <<prev, on_cpu, task_cpu, on_rq, curr>> => Leaving'
  BY Zenon DEF Leaving
<1>9. Stopping /\ UNCHANGED <<stopper, curr, prev, work, setaff>> => Stopping'
  BY Zenon DEF Stopping
<1>10. Moving /\ UNCHANGED <<setaff, on_rq, stopper, work>> => Moving'
  BY Zenon DEF Moving
<1>11. OffState /\ UNCHANGED <<on_rq, state>> => OffState'
  BY Zenon DEF OffState
<1>12. Listed /\ UNCHANGED <<wake_list, task_cpu, on_rq, on_cpu, state>> => Listed'
  BY Zenon DEF Listed
<1>13. Wakers /\ UNCHANGED <<ttwu, state, on_rq, on_cpu, wake_list>> => Wakers'
  BY DEF Wakers, Holds
<1>14. Attended /\ UNCHANGED <<cond, state, loc, ttwu>> => Attended'
  BY Zenon DEF Attended
<1> QED BY <1>1, <1>2, <1>3, <1>4, <1>5, <1>6, <1>7, <1>8, <1>9, <1>10, <1>11, <1>12,
   <1>13, <1>14, Zenon

\* set_current_state only touches the state of the task that runs, which is queued.
LEMMA Inv_set_current_state ==
    ASSUME IInv, NEW c \in CPU, set_current_state(c)
    PROVE  IInv'
<1>1. RqTypes' /\ WakeTypes' /\ StopTypes' /\ CpuTypes' /\ QueueAgrees' /\ Leaving' /\
      Stopping' /\ Moving'
  BY Kept, Zenon DEF IInv, set_current_state, taskVars, rqVars, ipiVars, stopVars,
     cpuVars
<1>2. TaskTypes'
  BY Zenon DEF IInv, TaskTypes, set_current_state, Running
<1>3. WaitTypes'
  BY Zenon DEF IInv, WaitTypes, set_current_state, Running
<1>4. OffState'
  BY Zenon DEF IInv, TaskTypes, OffState, set_current_state, TASK_RUNNING,
     TASK_UNINTERRUPTIBLE, TASK_WAKING
<1>5. Listed'
  BY DEF IInv, WakeTypes, Listed, QueueAgrees, set_current_state, ipiVars
<1>6. Wakers'
  BY DEF IInv, Wakers, QueueAgrees, Holds, set_current_state, ipiVars,
     TASK_UNINTERRUPTIBLE, TASK_WAKING
<1>7. Attended'
  BY Zenon DEF IInv, TaskTypes, WaitTypes, Attended, set_current_state
<1> QED BY <1>1, <1>2, <1>3, <1>4, <1>5, <1>6, <1>7, Zenon DEF IInv

\* A task whose condition is true becomes TASK_RUNNING; it is queued all the time.
LEMMA Inv_test_condition ==
    ASSUME IInv, NEW c \in CPU, test_condition(c)
    PROVE  IInv'
<1>1. RqTypes' /\ WakeTypes' /\ StopTypes' /\ CpuTypes' /\ QueueAgrees' /\ Leaving' /\
      Stopping' /\ Moving'
  BY Kept, Zenon DEF IInv, test_condition, taskVars, rqVars, ipiVars, stopVars, cpuVars
<1>2. TaskTypes'
  BY Zenon DEF IInv, TaskTypes, test_condition
<1>3. WaitTypes'
  <2>1. cond' = cond \/ cond' = [cond EXCEPT ![curr[c]] = FALSE]
    BY Zenon DEF test_condition
  <2>2. \/ loc' = [loc EXCEPT ![curr[c]] = "schedule"]
        \/ loc' = [loc EXCEPT ![curr[c]] = "loop"]
    BY Zenon DEF test_condition
  <2> QED BY <2>1, <2>2, Zenon DEF IInv, WaitTypes
<1>4. OffState'
  BY DEF IInv, TaskTypes, OffState, QueueAgrees, test_condition, TASK_RUNNING,
     TASK_WAKING, TASK_ON_RQ_QUEUED, OffRq
<1>5. Listed'
  BY DEF IInv, TaskTypes, WakeTypes, Listed, QueueAgrees, test_condition, ipiVars
<1>6. Wakers'
  BY DEF IInv, TaskTypes, Wakers, QueueAgrees, Holds, test_condition, ipiVars,
     TASK_RUNNING, TASK_WAKING
<1>7. Attended'
  BY Zenon DEF IInv, TaskTypes, WaitTypes, Attended, test_condition
<1> QED BY <1>1, <1>2, <1>3, <1>4, <1>5, <1>6, <1>7, Zenon DEF IInv

\* __schedule takes a sleeping task off its queue and marks the next one on_cpu
\* before the old one is released.
LEMMA Inv_schedule ==
    ASSUME IInv, NEW c \in CPU, schedule(c)
    PROVE  IInv'
<1>1. WakeTypes' /\ StopTypes' /\ CpuTypes'
  BY Kept, Zenon DEF IInv, schedule, ipiVars, stopVars, cpuVars
<1>2. TaskTypes'
  BY Zenon DEF IInv, TaskTypes, schedule, Running, prepare_task
<1>3. WaitTypes'
  BY Zenon DEF IInv, WaitTypes, schedule, Running
<1>4. RqTypes'
  BY DEF IInv, RqTypes, schedule, pick_next_task, prepare_task
<1>5. QueueAgrees'
  BY SmpAssumption DEF IInv, TaskTypes, RqTypes, QueueAgrees, schedule, pick_next_task,
     prepare_task, TASK_ON_RQ_QUEUED, OffRq
<1>6. Leaving'
  BY DEF IInv, RqTypes, Leaving, QueueAgrees, schedule, prepare_task, TASK_ON_RQ_QUEUED,
     TASK_ON_RQ_MIGRATING, OffRq
<1>7. Stopping'
  BY DEF IInv, Stopping, schedule, pick_next_task, prepare_task, stopVars
<1>8. Moving'
  BY DEF IInv, Moving, QueueAgrees, schedule, Running, stopVars, TASK_ON_RQ_QUEUED,
     TASK_ON_RQ_MIGRATING
<1>9. OffState'
  BY Zenon DEF IInv, TaskTypes, OffState, schedule
<1>10. Listed'
  BY SmpAssumption DEF IInv, Listed, QueueAgrees, schedule, pick_next_task,
     prepare_task, ipiVars, TASK_ON_RQ_QUEUED, OffRq
<1>11. Wakers'
  BY SmpAssumption DEF IInv, Wakers, QueueAgrees, Holds, schedule, pick_next_task,
     prepare_task, ipiVars, TASK_ON_RQ_QUEUED, OffRq
<1>12. Attended'
  BY DEF IInv, Attended, schedule
<1> QED BY <1>1, <1>2, <1>3, <1>4, <1>5, <1>6, <1>7, <1>8, <1>9, <1>10, <1>11, <1>12,
   Zenon DEF IInv

\* A preempted task stays queued whatever its state.
LEMMA Inv_preempt_schedule ==
    ASSUME IInv, NEW c \in CPU, preempt_schedule(c)
    PROVE  IInv'
<1>1. WaitTypes' /\ WakeTypes' /\ StopTypes' /\ CpuTypes' /\ Moving' /\ OffState' /\
      Attended'
  BY Kept, Zenon DEF IInv, preempt_schedule, taskVars, waitVars, ipiVars, stopVars,
     cpuVars
<1>2. TaskTypes'
  BY Zenon DEF IInv, TaskTypes, preempt_schedule, prepare_task
<1>3. RqTypes'
  BY Zenon DEF IInv, RqTypes, preempt_schedule, pick_next_task, prepare_task
<1>4. QueueAgrees'
  BY SmpAssumption DEF IInv, TaskTypes, QueueAgrees, preempt_schedule, pick_next_task,
     prepare_task
<1>5. Leaving'
  BY DEF IInv, RqTypes, Leaving, QueueAgrees, preempt_schedule, prepare_task,
     TASK_ON_RQ_QUEUED, TASK_ON_RQ_MIGRATING
<1>6. Stopping'
  BY DEF IInv, Stopping, preempt_schedule, prepare_task, stopVars
<1>7. Listed'
  BY SmpAssumption DEF IInv, Listed, QueueAgrees, preempt_schedule, pick_next_task,
     prepare_task, ipiVars, TASK_ON_RQ_QUEUED, OffRq
<1>8. Wakers'
  BY SmpAssumption DEF IInv, Wakers, QueueAgrees, Holds, preempt_schedule,
     pick_next_task, prepare_task, ipiVars, TASK_ON_RQ_QUEUED, OffRq
<1> QED BY <1>1, <1>2, <1>3, <1>4, <1>5, <1>6, <1>7, <1>8, Zenon DEF IInv

\* finish_task_switch releases exactly the task its CPU was leaving.
LEMMA Inv_finish_task ==
    ASSUME IInv, NEW c \in CPU, finish_task(c)
    PROVE  IInv'
<1>1. WaitTypes' /\ WakeTypes' /\ StopTypes' /\ CpuTypes' /\ Moving' /\ OffState' /\
      Attended'
  BY Kept, Zenon DEF IInv, finish_task, taskVars, waitVars, ipiVars, stopVars, cpuVars
<1>2. TaskTypes'
  BY Zenon DEF IInv, TaskTypes, RqTypes, finish_task, Switching
<1>3. RqTypes'
  BY Zenon DEF IInv, RqTypes, finish_task
<1>4. QueueAgrees'
  BY DEF IInv, QueueAgrees, Leaving, finish_task, Switching
<1>5. Leaving'
  BY DEF IInv, RqTypes, Leaving, finish_task
<1>6. Stopping'
  BY Zenon DEF IInv, RqTypes, Stopping, finish_task, stopVars
<1>7. Listed'
  BY Zenon DEF IInv, TaskTypes, WakeTypes, Listed, finish_task, ipiVars
<1>8. Wakers'
  BY Zenon DEF IInv, TaskTypes, Wakers, Holds, finish_task, ipiVars
<1> QED BY <1>1, <1>2, <1>3, <1>4, <1>5, <1>6, <1>7, <1>8, Zenon DEF IInv

\* The interrupt activates tasks that are off every queue and every CPU.
LEMMA Inv_scheduler_ipi ==
    ASSUME IInv, NEW c \in CPU, scheduler_ipi(c)
    PROVE  IInv'
<1>1. WaitTypes' /\ StopTypes' /\ CpuTypes' /\ Stopping'
  BY Kept, Zenon DEF IInv, scheduler_ipi, waitVars, rqVars, stopVars, cpuVars
<1>2. TaskTypes'
  BY Zenon DEF IInv, TaskTypes, scheduler_ipi, sched_ttwu_pending, ttwu_do_activate
<1>3. RqTypes'
  BY Zenon DEF IInv, RqTypes, WakeTypes, scheduler_ipi, sched_ttwu_pending,
     ttwu_do_activate
<1>4. WakeTypes'
  BY Zenon DEF IInv, WakeTypes, scheduler_ipi, sched_ttwu_pending
<1>5. QueueAgrees'
  BY DEF IInv, RqTypes, QueueAgrees, Listed, scheduler_ipi, sched_ttwu_pending,
     ttwu_do_activate
<1>6. Leaving'
  BY DEF IInv, RqTypes, Leaving, Listed, scheduler_ipi, sched_ttwu_pending,
     ttwu_do_activate
<1>7. Moving'
  BY DEF IInv, StopTypes, Moving, Stopping, Listed, scheduler_ipi, sched_ttwu_pending,
     ttwu_do_activate, stopVars, TASK_ON_RQ_MIGRATING, OffRq
<1>8. OffState'
  BY Zenon DEF IInv, OffState, scheduler_ipi, sched_ttwu_pending, ttwu_do_activate,
     TASK_RUNNING, TASK_WAKING, TASK_ON_RQ_QUEUED, OffRq
<1>9. Listed'
  BY DEF IInv, WakeTypes, Listed, scheduler_ipi, sched_ttwu_pending, ttwu_do_activate
<1>10. Wakers'
  BY DEF IInv, Wakers, Listed, Holds, scheduler_ipi, sched_ttwu_pending,
     ttwu_do_activate
<1>11. Attended'
  BY Zenon DEF IInv, Attended, scheduler_ipi, sched_ttwu_pending, ttwu_do_activate,
     waitVars, TASK_RUNNING, TASK_UNINTERRUPTIBLE
<1> QED BY <1>1, <1>2, <1>3, <1>4, <1>5, <1>6, <1>7, <1>8, <1>9, <1>10, <1>11, Zenon DEF
   IInv

\* So does migration_cpu_stop when it flushes the list.
LEMMA Inv_stop_pending ==
    ASSUME IInv, NEW c \in CPU, stop_pending(c)
    PROVE  IInv'
<1>1. WaitTypes' /\ CpuTypes'
  BY Kept, Zenon DEF IInv, stop_pending, waitVars, cpuVars
<1>2. TaskTypes'
  BY Zenon DEF IInv, TaskTypes, stop_pending, sched_ttwu_pending, ttwu_do_activate
<1>3. RqTypes'
  BY Zenon DEF IInv, RqTypes, WakeTypes, stop_pending, sched_ttwu_pending,
     ttwu_do_activate
<1>4. WakeTypes'
  BY Zenon DEF IInv, WakeTypes, stop_pending, sched_ttwu_pending
<1>5. StopTypes'
  BY Zenon DEF IInv, StopTypes, stop_pending
<1>6. QueueAgrees'
  BY DEF IInv, RqTypes, QueueAgrees, Listed, stop_pending, sched_ttwu_pending,
     ttwu_do_activate
<1>7. Leaving'
  BY DEF IInv, RqTypes, Leaving, Listed, stop_pending, sched_ttwu_pending,
     ttwu_do_activate
<1>8. Stopping'
  BY DEF IInv, Stopping, stop_pending, Switching
<1>9. Moving'
  BY Zenon DEF IInv, StopTypes, Moving, Stopping, stop_pending
<1>10. OffState'
  BY Zenon DEF IInv, OffState, stop_pending, sched_ttwu_pending, ttwu_do_activate,
     TASK_RUNNING, TASK_WAKING, TASK_ON_RQ_QUEUED, OffRq
<1>11. Listed'
  BY DEF IInv, WakeTypes, Listed, stop_pending, sched_ttwu_pending, ttwu_do_activate
<1>12. Wakers'
  BY DEF IInv, Wakers, Listed, Holds, stop_pending, sched_ttwu_pending, ttwu_do_activate
<1>13. Attended'
  BY Zenon DEF IInv, Attended, stop_pending, sched_ttwu_pending, ttwu_do_activate,
     waitVars, TASK_RUNNING, TASK_UNINTERRUPTIBLE
<1> QED BY <1>1, <1>2, <1>3, <1>4, <1>5, <1>6, <1>7, <1>8, <1>9, <1>10, <1>11, <1>12,
   <1>13, Zenon DEF IInv

\* migration_cpu_stop takes a task off only if it is queued here, and marks it.
LEMMA Inv_migration_cpu_stop ==
    ASSUME IInv, NEW c \in CPU, migration_cpu_stop(c)
    PROVE  IInv'
<1>1. WaitTypes' /\ WakeTypes' /\ CpuTypes' /\ Attended'
  BY Kept, Zenon DEF IInv, migration_cpu_stop, taskVars, waitVars, ipiVars, cpuVars
<1>2. TaskTypes'
  BY DEF IInv, TaskTypes, migration_cpu_stop, MoveOut, set_task_cpu, is_cpu_allowed
<1>3. RqTypes'
  BY DEF IInv, RqTypes, migration_cpu_stop, MoveOut
<1>4. StopTypes'
  BY DEF IInv, StopTypes, Call, migration_cpu_stop, StopDone, NoCall, At
<1>5. QueueAgrees'
  BY SmpAssumption DEF IInv, TaskTypes, RqTypes, QueueAgrees, Stopping,
     migration_cpu_stop, MoveOut, set_task_cpu, TASK_ON_RQ_QUEUED, TASK_ON_RQ_MIGRATING
<1>6. Leaving'
  BY DEF IInv, TaskTypes, RqTypes, Leaving, Stopping, migration_cpu_stop, MoveOut,
     set_task_cpu
<1>7. Stopping'
  BY DEF IInv, StopTypes, Stopping, migration_cpu_stop, StopDone
<1>8. Moving'
  BY DEF IInv, TaskTypes, StopTypes, Moving, Stopping, migration_cpu_stop, MoveOut,
     StopDone, NoCall, At
<1>9. OffState'
  BY Zenon DEF IInv, TaskTypes, OffState, migration_cpu_stop, MoveOut,
     TASK_ON_RQ_QUEUED, TASK_ON_RQ_MIGRATING, OffRq
<1>10. Listed'
  BY DEF IInv, TaskTypes, WakeTypes, Listed, migration_cpu_stop, MoveOut, set_task_cpu,
     ipiVars, TASK_ON_RQ_QUEUED, OffRq
<1>11. Wakers'
  BY Zenon DEF IInv, TaskTypes, Wakers, Holds, migration_cpu_stop, MoveOut, ipiVars,
     TASK_ON_RQ_QUEUED, OffRq
<1> QED BY <1>1, <1>2, <1>3, <1>4, <1>5, <1>6, <1>7, <1>8, <1>9, <1>10, <1>11, Zenon DEF
   IInv

\* The second half of __migrate_task links the marked task again.
LEMMA Inv_migration_cpu_move ==
    ASSUME IInv, NEW c \in CPU, migration_cpu_move(c)
    PROVE  IInv'
<1>1. WaitTypes' /\ WakeTypes' /\ CpuTypes' /\ Attended'
  BY Kept, Zenon DEF IInv, migration_cpu_move, taskVars, waitVars, ipiVars, cpuVars
<1>2. TaskTypes'
  <2>1. on_rq' = [on_rq EXCEPT ![work[c].task] = TASK_ON_RQ_QUEUED]
    BY Zenon DEF migration_cpu_move, MoveIn
  <2>2. on_rq' \in [Task -> {OffRq, TASK_ON_RQ_QUEUED, TASK_ON_RQ_MIGRATING}]
    BY <2>1, Zenon DEF IInv, TaskTypes
  <2> QED BY <2>2, Zenon DEF IInv, TaskTypes, migration_cpu_move
<1>3. RqTypes'
  <2>1. work[c].task \in Task
    BY Zenon DEF IInv, Stopping, StopTypes, migration_cpu_move
  <2>2. rq' = [rq EXCEPT ![task_cpu[work[c].task]] = @ \cup {work[c].task}]
    BY Zenon DEF migration_cpu_move, MoveIn
  <2>3. rq' \in [CPU -> SUBSET Task]
    BY <2>1, <2>2, Zenon DEF IInv, RqTypes, TaskTypes
  <2> QED BY <2>3, Zenon DEF IInv, RqTypes, migration_cpu_move
<1>4. StopTypes'
  BY Zenon DEF IInv, StopTypes, Call, migration_cpu_move, StopDone, NoCall, At
<1>5. QueueAgrees'
  BY DEF IInv, TaskTypes, RqTypes, QueueAgrees, migration_cpu_move, MoveIn
<1>6. Leaving'
  BY Zenon DEF IInv, TaskTypes, RqTypes, Leaving, migration_cpu_move, Switching, MoveIn
<1>7. Stopping'
  BY Zenon DEF IInv, StopTypes, Stopping, migration_cpu_move, StopDone
<1>8. Moving'
  BY Zenon DEF IInv, StopTypes, Moving, Stopping, migration_cpu_move, StopDone, NoCall,
     At
<1>9. OffState'
  BY Zenon DEF IInv, TaskTypes, OffState, Moving, migration_cpu_move, MoveIn,
     TASK_ON_RQ_QUEUED, TASK_ON_RQ_MIGRATING, OffRq
<1>10. Listed'
  <2>1. /\ on_rq' = [on_rq EXCEPT ![work[c].task] = TASK_ON_RQ_QUEUED]
        /\ UNCHANGED <<wake_list, task_cpu, on_cpu, state>>
    BY Zenon DEF migration_cpu_move, MoveIn, ipiVars
  <2>2. on_rq[work[c].task] = TASK_ON_RQ_MIGRATING
    BY Zenon DEF IInv, Moving, migration_cpu_move
  <2>3. \A q \in Task : on_rq[q] = OffRq => on_rq'[q] = OffRq
    BY <2>1, <2>2, Zenon DEF IInv, TaskTypes, TASK_ON_RQ_MIGRATING, OffRq
  <2> QED BY <2>1, <2>3 DEF IInv, WakeTypes, Listed
<1>11. Wakers'
  <2>1. /\ on_rq' = [on_rq EXCEPT ![work[c].task] = TASK_ON_RQ_QUEUED]
        /\ UNCHANGED <<ttwu, wake_list, on_cpu, state>>
    BY Zenon DEF migration_cpu_move, MoveIn, ipiVars
  <2>2. on_rq[work[c].task] = TASK_ON_RQ_MIGRATING
    BY Zenon DEF IInv, Moving, migration_cpu_move
  <2>3. \A q \in Task : on_rq[q] = OffRq => on_rq'[q] = OffRq
    BY <2>1, <2>2, Zenon DEF IInv, TaskTypes, TASK_ON_RQ_MIGRATING, OffRq
  <2> QED BY <2>1, <2>3 DEF IInv, Wakers, Holds
<1> QED BY <1>1, <1>2, <1>3, <1>4, <1>5, <1>6, <1>7, <1>8, <1>9, <1>10, <1>11, Zenon DEF
   IInv

\* Deactivation only shrinks cpu_active.
LEMMA Inv_sched_cpu_deactivate ==
    ASSUME IInv, NEW c \in CPU, sched_cpu_deactivate(c)
    PROVE  IInv'
<1>1. TaskTypes' /\ WaitTypes' /\ RqTypes' /\ WakeTypes' /\ StopTypes' /\ QueueAgrees'
      /\ Leaving' /\ Stopping' /\ Moving' /\ OffState' /\ Listed' /\ Wakers' /\
      Attended'
  BY Kept, Zenon DEF IInv, sched_cpu_deactivate, taskVars, waitVars, rqVars, ipiVars,
     stopVars
<1>2. CpuTypes'
  BY Zenon DEF IInv, CpuTypes, sched_cpu_deactivate
<1> QED BY <1>1, <1>2, Zenon DEF IInv

\* sched_cpu_dying activates what is pending and re-homes what it migrates.
LEMMA Inv_sched_cpu_dying ==
    ASSUME IInv, NEW c \in CPU, sched_cpu_dying(c)
    PROVE  IInv'
<1>1. WaitTypes' /\ StopTypes'
  BY Kept, Zenon DEF IInv, sched_cpu_dying, waitVars, stopVars
<1>2. TaskTypes'
  BY Zenon DEF IInv, TaskTypes, sched_cpu_dying, Migrated, FallbackMask
<1>3. RqTypes'
  <2>1. rq[c] \cup wake_list[c] \in SUBSET Task
    BY Zenon DEF IInv, RqTypes, WakeTypes
  <2>2. Migrated(rq[c] \cup wake_list[c]) \in SUBSET Task
    BY <2>1, Zenon DEF Migrated
  <2> DEFINE all == rq[c] \cup wake_list[c]
  <2>3. PICK to \in [Migrated(all) -> CPU] : rq' = [d \in CPU |-> IF d = c THEN all \ Migrated(all)
            ELSE rq[d] \cup {p \in Migrated(all) : to[p] = d}]
    BY DEF sched_cpu_dying
  <2>5. \A d \in CPU : rq'[d] \in SUBSET Task
    BY <2>1, <2>2, <2>3 DEF IInv, RqTypes
  <2>6. rq' \in [CPU -> SUBSET Task]
    BY <2>3, <2>5, Zenon
  <2>4. curr' \in [CPU -> Task \cup {Idle, Stop}] /\ prev' = prev
    BY Zenon DEF IInv, RqTypes, sched_cpu_dying
  <2> QED BY <2>6, <2>4, Zenon DEF IInv, RqTypes
<1>4. WakeTypes'
  BY Zenon DEF IInv, WakeTypes, sched_cpu_dying
<1>5. CpuTypes'
  BY Zenon DEF IInv, CpuTypes, sched_cpu_dying
<1>6. QueueAgrees'
  <2> DEFINE all == rq[c] \cup wake_list[c]
             gone == Migrated(all)
  <2>1. PICK to \in [gone -> CPU] :
            /\ task_cpu' = [p \in Task |-> IF p \in gone THEN to[p] ELSE task_cpu[p]]
            /\ rq' = [d \in CPU |-> IF d = c THEN all \ gone
                                    ELSE rq[d] \cup {p \in gone : to[p] = d}]
            /\ \A p \in gone : to[p] \in select_fallback_rq(p)
    BY DEF sched_cpu_dying
  <2>2. /\ on_rq' = [p \in Task |-> IF p \in all THEN TASK_ON_RQ_QUEUED ELSE on_rq[p]]
        /\ on_cpu' = [p \in Task |-> on_cpu[p] /\ curr[c] # p]
        /\ curr' = [curr EXCEPT ![c] = Idle]
        /\ c \notin cpu_active
    BY Zenon DEF sched_cpu_dying
  <2>3. gone \subseteq all /\ \A p \in gone : to[p] # c
    BY <2>1, <2>2, Zenon DEF Migrated, select_fallback_rq
  <2>4. \A p \in all : task_cpu[p] = c /\ \A d \in CPU : d # c => p \notin rq[d]
    BY DEF IInv, QueueAgrees, Listed, RqTypes, WakeTypes, TASK_ON_RQ_QUEUED, OffRq
  <2> HIDE DEF gone
  <2>5. \A p \in Task, d \in CPU :
            p \in rq'[d] <=> on_rq'[p] = TASK_ON_RQ_QUEUED /\ task_cpu'[p] = d
    <3> SUFFICES ASSUME NEW p \in Task, NEW d \in CPU
                 PROVE  p \in rq'[d] <=> on_rq'[p] = TASK_ON_RQ_QUEUED /\ task_cpu'[p] = d
      OBVIOUS
    <3>1. /\ task_cpu'[p] = IF p \in gone THEN to[p] ELSE task_cpu[p]
          /\ rq'[d] = IF d = c THEN all \ gone ELSE rq[d] \cup {q \in gone : to[q] = d}
          /\ on_rq'[p] = IF p \in all THEN TASK_ON_RQ_QUEUED ELSE on_rq[p]
      BY <2>1, <2>2, Zenon
    <3>2. p \in rq[d] <=> on_rq[p] = TASK_ON_RQ_QUEUED /\ task_cpu[p] = d
      BY Zenon DEF IInv, QueueAgrees
    <3>3. CASE p \in all
      BY <3>1, <3>2, <3>3, <2>3, <2>4
    <3>4. CASE p \notin all
      BY <3>1, <3>2, <3>4, <2>3
    <3> QED BY <3>3, <3>4, Zenon
  <2>6. \A d \in CPU : curr'[d] \in Task => curr'[d] \in rq'[d] /\ on_cpu'[curr'[d]]
    <3> SUFFICES ASSUME NEW d \in CPU, curr'[d] \in Task
                 PROVE  curr'[d] \in rq'[d] /\ on_cpu'[curr'[d]]
      OBVIOUS
    <3>1. d # c /\ curr'[d] = curr[d]
      BY <2>2, SmpAssumption DEF IInv, RqTypes
    <3>2. curr[d] \in rq[d] /\ on_cpu[curr[d]]
      BY <3>1, Zenon DEF IInv, QueueAgrees
    <3>3. curr[d] # curr[c]
      BY <3>1, <3>2, <2>4 DEF IInv, QueueAgrees, RqTypes
    <3>4. rq[d] \subseteq rq'[d]
      BY <2>1, <3>1
    <3>5. on_cpu'[curr[d]]
      BY <2>2, <3>1, <3>2, <3>3
    <3> QED BY <3>1, <3>2, <3>4, <3>5, Zenon
  <2> QED BY <2>5, <2>6, Zenon DEF QueueAgrees
<1>7. Leaving'
  BY Zenon DEF IInv, Leaving, sched_cpu_dying, Switching
<1>8. Stopping'
  BY Zenon DEF IInv, RqTypes, Stopping, sched_cpu_dying, stopVars
<1>9. Moving'
  BY Zenon DEF IInv, Moving, sched_cpu_dying, stopVars
<1>10. OffState'
  <2> DEFINE all == rq[c] \cup wake_list[c]
  <2>1. /\ on_rq' = [p \in Task |-> IF p \in all THEN TASK_ON_RQ_QUEUED ELSE on_rq[p]]
        /\ state' = [p \in Task |-> IF p \in wake_list[c] THEN TASK_RUNNING ELSE state[p]]
    BY Zenon DEF sched_cpu_dying
  <2>2. \A p \in wake_list[c] : on_rq[p] = OffRq /\ state[p] = TASK_WAKING
    BY Zenon DEF IInv, Listed
  <2>3. \A p \in Task : p \in rq[c] => on_rq[p] = TASK_ON_RQ_QUEUED
    BY Zenon DEF IInv, QueueAgrees
  <2>4. \A p \in Task : /\ on_rq[p] = OffRq => state[p] # TASK_RUNNING
                        /\ state[p] = TASK_WAKING => on_rq[p] = OffRq
    BY Zenon DEF IInv, OffState
  <2>5. TASK_ON_RQ_QUEUED # OffRq
    BY DEF TASK_ON_RQ_QUEUED, OffRq
  <2>6. ASSUME NEW p \in Task, on_rq'[p] = OffRq PROVE state'[p] # TASK_RUNNING
    BY <2>1, <2>4, <2>5, <2>6
  <2>7. ASSUME NEW p \in Task, state'[p] = TASK_WAKING PROVE on_rq'[p] = OffRq
    BY <2>1, <2>2, <2>3, <2>4, <2>5, <2>7
  <2> QED BY <2>6, <2>7, Zenon DEF OffState
<1>11. Listed'
  <2> DEFINE all == rq[c] \cup wake_list[c]
             gone == Migrated(all)
  <2>1. \A p \in Task : p \in gone \/ task_cpu'[p] = task_cpu[p]
    BY DEF sched_cpu_dying
  <2>2. /\ on_rq' = [p \in Task |-> IF p \in all THEN TASK_ON_RQ_QUEUED ELSE on_rq[p]]
        /\ on_cpu' = [p \in Task |-> on_cpu[p] /\ curr[c] # p]
        /\ state' = [p \in Task |-> IF p \in wake_list[c] THEN TASK_RUNNING ELSE state[p]]
        /\ wake_list' = [wake_list EXCEPT ![c] = {}]
    BY Zenon DEF sched_cpu_dying
  <2>3. gone \subseteq all
    BY Zenon DEF Migrated
  <2>4. \A d \in CPU : \A p \in wake_list'[d] : d # c /\ p \in wake_list[d] /\ p \in Task
    BY <2>2 DEF IInv, WakeTypes
  <2>5. \A d \in CPU : \A p \in wake_list'[d] : p \notin all
    BY <2>4 DEF IInv, Listed, QueueAgrees, TASK_ON_RQ_QUEUED, OffRq
  <2> HIDE DEF all, gone
  <2>6. \A d \in CPU : \A p \in wake_list'[d] :
            task_cpu'[p] = task_cpu[p] /\ on_rq'[p] = on_rq[p] /\ (on_cpu'[p] => on_cpu[p])
    BY <2>1, <2>2, <2>3, <2>4, <2>5
  <2>7. \A d \in CPU : \A p \in wake_list'[d] : p \notin wake_list[c]
    BY <2>4 DEF IInv, Listed
  <2>8. \A d \in CPU : \A p \in wake_list'[d] : state'[p] = state[p]
    BY <2>2, <2>4, <2>7, Zenon
  <2> QED BY <2>4, <2>6, <2>8 DEF IInv, Listed
<1>12. Wakers'
  BY Zenon DEF IInv, Wakers, Holds, sched_cpu_dying
<1>13. Attended'
  BY Zenon DEF IInv, Attended, sched_cpu_dying, waitVars, TASK_RUNNING,
     TASK_UNINTERRUPTIBLE
<1> QED BY <1>1, <1>2, <1>3, <1>4, <1>5, <1>6, <1>7, <1>8, <1>9, <1>10, <1>11, <1>12,
   <1>13, Zenon DEF IInv

\* Activation adds the CPU to both masks.
LEMMA Inv_sched_cpu_activate ==
    ASSUME IInv, NEW c \in CPU, sched_cpu_activate(c)
    PROVE  IInv'
<1>1. TaskTypes' /\ WaitTypes' /\ RqTypes' /\ WakeTypes' /\ StopTypes' /\ QueueAgrees'
      /\ Leaving' /\ Stopping' /\ Moving' /\ OffState' /\ Listed' /\ Wakers' /\
      Attended'
  BY Kept, Zenon DEF IInv, sched_cpu_activate, taskVars, waitVars, rqVars, ipiVars,
     stopVars
<1>2. CpuTypes'
  BY Zenon DEF IInv, CpuTypes, sched_cpu_activate
<1> QED BY <1>1, <1>2, Zenon DEF IInv

\* try_to_wake_up that returns without touching a task leaves the others as they are.
LEMMA WakerReturns ==
    ASSUME IInv, NEW w \in Waker, ttwu' = [ttwu EXCEPT ![w] = NoCall],
           UNCHANGED <<state, on_rq, on_cpu, wake_list>>
    PROVE  Wakers'
<1>1. /\ ttwu'[w] = NoCall /\ NoCall.pc = "idle"
      /\ \A v \in Waker \ {w} : ttwu'[v] = ttwu[v]
  BY Zenon DEF IInv, WakeTypes, NoCall, At
<1> QED BY <1>1 DEF IInv, Wakers, Holds

\* The waker that holds pi_lock may change its task: no other waker depends on it.
LEMMA LastHolder ==
    ASSUME IInv, NEW w \in Waker, ttwu' = [ttwu EXCEPT ![w] = NoCall], ttwu[w].pc = "queue",
           UNCHANGED <<on_cpu, wake_list>>,
           \A p \in Task : p # ttwu[w].task => on_rq'[p] = on_rq[p] /\ state'[p] = state[p]
    PROVE  Wakers'
<1>1. /\ ttwu'[w] = NoCall /\ NoCall.pc = "idle"
      /\ \A v \in Waker \ {w} : ttwu'[v] = ttwu[v]
  BY Zenon DEF IInv, WakeTypes, NoCall, At
<1>2. \A v \in Waker \ {w} : Holds(v) => ttwu[v].task \in Task /\ ttwu[v].task # ttwu[w].task
  BY Zenon DEF IInv, Wakers, Holds
<1> QED BY <1>1, <1>2 DEF IInv, Wakers, Holds

\* pi_lock keeps a second waker of the same task out.
LEMMA Inv_ttwu_lock ==
    ASSUME IInv, NEW w \in Waker, ttwu_lock(w)
    PROVE  IInv'
<1>1. TaskTypes' /\ WaitTypes' /\ RqTypes' /\ StopTypes' /\ CpuTypes' /\ QueueAgrees' /\
      Leaving' /\ Stopping' /\ Moving' /\ OffState' /\ Listed'
  BY Kept, Zenon DEF IInv, ttwu_lock, taskVars, waitVars, rqVars, ipiVars, stopVars,
     cpuVars
<1>2. WakeTypes'
  BY Zenon DEF IInv, WakeTypes, Call, ttwu_lock, ipiVars, NoCall, At
<1>3. Wakers'
  <2>1. /\ ttwu[w].pc = "call" /\ ~PiLocked(ttwu[w].task)
        /\ UNCHANGED <<state, on_rq, on_cpu, wake_list>>
    BY Zenon DEF ttwu_lock, taskVars, ipiVars
  <2>2. CASE state[ttwu[w].task] = TASK_UNINTERRUPTIBLE
    <3>1. ttwu' = [ttwu EXCEPT ![w] = At("on_rq", ttwu[w].task)]
      BY <2>2, Zenon DEF ttwu_lock
    <3>2. /\ ttwu'[w].pc = "on_rq" /\ ttwu'[w].task = ttwu[w].task
          /\ \A v \in Waker \ {w} : ttwu'[v] = ttwu[v]
      BY <3>1, Zenon DEF IInv, WakeTypes, At
    <3>3. \A v \in Waker \ {w} : Holds(v) => ttwu[v].task # ttwu[w].task
      BY <2>1, Zenon DEF PiLocked, Holds
    <3>4. ttwu[w].task \in Task
      BY <2>1, Zenon DEF IInv, Wakers
    <3>5. state[ttwu[w].task] # TASK_WAKING
      BY <2>2, Zenon DEF TASK_UNINTERRUPTIBLE, TASK_WAKING
    <3> QED BY <2>1, <3>2, <3>3, <3>4, <3>5 DEF IInv, Wakers, Holds
  <2>3. CASE state[ttwu[w].task] # TASK_UNINTERRUPTIBLE
    <3>1. ttwu' = [ttwu EXCEPT ![w] = NoCall]
      BY <2>3, Zenon DEF ttwu_lock
    <3> QED BY <2>1, <3>1, WakerReturns, Zenon
  <2> QED BY <2>2, <2>3, Zenon
<1>4. Attended'
  BY DEF IInv, Attended, ttwu_lock, taskVars, waitVars, At
<1> QED BY <1>1, <1>2, <1>3, <1>4, Zenon DEF IInv

\* The lockless read of on_rq finds a task off its queue or one to be locked.
LEMMA Inv_ttwu_on_rq ==
    ASSUME IInv, NEW w \in Waker, ttwu_on_rq(w)
    PROVE  IInv'
<1>1. TaskTypes' /\ WaitTypes' /\ RqTypes' /\ StopTypes' /\ CpuTypes' /\ QueueAgrees' /\
      Leaving' /\ Stopping' /\ Moving' /\ OffState' /\ Listed'
  BY Kept, Zenon DEF IInv, ttwu_on_rq, taskVars, waitVars, rqVars, ipiVars, stopVars,
     cpuVars
<1>2. WakeTypes'
  BY Zenon DEF IInv, WakeTypes, Call, ttwu_on_rq, ipiVars, At
<1>3. Wakers'
  BY DEF IInv, Wakers, Holds, ttwu_on_rq, taskVars, ipiVars, At
<1>4. Attended'
  BY Zenon DEF IInv, WakeTypes, Attended, ttwu_on_rq, taskVars, waitVars, At
<1> QED BY <1>1, <1>2, <1>3, <1>4, Zenon DEF IInv

\* A queued task only has its state reset.
LEMMA Inv_ttwu_remote ==
    ASSUME IInv, NEW w \in Waker, ttwu_remote(w)
    PROVE  IInv'
<1>1. WaitTypes' /\ RqTypes' /\ StopTypes' /\ CpuTypes' /\ QueueAgrees' /\ Leaving' /\
      Stopping' /\ Moving'
  BY Kept, Zenon DEF IInv, ttwu_remote, taskVars, waitVars, rqVars, stopVars, cpuVars
<1>2. TaskTypes'
  <2>1. state' = state \/ state' = [state EXCEPT ![ttwu[w].task] = TASK_RUNNING]
    BY Zenon DEF ttwu_remote
  <2> QED BY <2>1, Zenon DEF IInv, TaskTypes, ttwu_remote
<1>3. WakeTypes'
  <2>1. NoCall \in Call /\ At("on_cpu", ttwu[w].task) \in Call
    <3>1. ttwu[w].task \in Task \cup {NULL}
      BY Zenon DEF IInv, WakeTypes, Call
    <3> QED BY <3>1, Zenon DEF NoCall, At, Call
  <2>2. \/ ttwu' = [ttwu EXCEPT ![w] = NoCall]
        \/ ttwu' = [ttwu EXCEPT ![w] = At("on_cpu", ttwu[w].task)]
    BY Zenon DEF ttwu_remote
  <2>3. ttwu' \in [Waker -> Call]
    BY <2>1, <2>2, Zenon DEF IInv, WakeTypes
  <2> QED BY <2>3, Zenon DEF IInv, WakeTypes, ttwu_remote, ipiVars
<1>4. OffState'
  BY Zenon DEF IInv, TaskTypes, OffState, ttwu_remote, TASK_RUNNING, TASK_WAKING,
     TASK_ON_RQ_QUEUED, OffRq
<1>5. Listed'
  <2>1. /\ UNCHANGED <<wake_list, task_cpu, on_rq, on_cpu>> /\ ttwu[w].pc = "remote"
        /\ state' = state \/ state' = [state EXCEPT ![ttwu[w].task] = TASK_RUNNING]
    BY Zenon DEF ttwu_remote, ipiVars
  <2>2. \A c \in CPU : ttwu[w].task \notin wake_list[c]
    BY <2>1, Zenon DEF IInv, Wakers, Listed
  <2> QED BY <2>1, <2>2 DEF IInv, TaskTypes, WakeTypes, Listed
<1>6. Wakers'
  <2>1. CASE on_rq[ttwu[w].task] = TASK_ON_RQ_QUEUED
    <3>1. ttwu' = [ttwu EXCEPT ![w] = NoCall]
      BY <2>1, Zenon DEF ttwu_remote
    <3>2. state' = [state EXCEPT ![ttwu[w].task] = TASK_RUNNING]
      BY <2>1, Zenon DEF ttwu_remote
    <3>3. UNCHANGED <<on_rq, on_cpu, wake_list>>
      BY Zenon DEF ttwu_remote, ipiVars
    <3> QED BY <3>1, <3>2, <3>3, <2>1 DEF IInv, WakeTypes, TaskTypes, Wakers, Holds, NoCall, At,
                 TASK_RUNNING, TASK_WAKING, TASK_ON_RQ_QUEUED, OffRq
  <2>2. CASE on_rq[ttwu[w].task] # TASK_ON_RQ_QUEUED
    <3>1. ttwu' = [ttwu EXCEPT ![w] = At("on_cpu", ttwu[w].task)]
      BY <2>2, Zenon DEF ttwu_remote
    <3>2. UNCHANGED <<state, on_rq, on_cpu, wake_list>>
      BY <2>2, Zenon DEF ttwu_remote, ipiVars
    <3>3. on_rq[ttwu[w].task] = OffRq /\ ttwu[w].pc = "remote"
      BY <2>2, Zenon DEF IInv, TaskTypes, Wakers, Holds, ttwu_remote
    <3> QED BY <3>1, <3>2, <3>3 DEF IInv, WakeTypes, Wakers, Holds, At
  <2> QED BY <2>1, <2>2, Zenon
<1>7. Attended'
  <2>1. UNCHANGED <<cond, loc>>
    BY Zenon DEF ttwu_remote, waitVars
  <2>2. CASE on_rq[ttwu[w].task] = TASK_ON_RQ_QUEUED
    <3>1. ttwu' = [ttwu EXCEPT ![w] = NoCall]
      BY <2>2, Zenon DEF ttwu_remote
    <3>2. state' = [state EXCEPT ![ttwu[w].task] = TASK_RUNNING]
      BY <2>2, Zenon DEF ttwu_remote
    <3>3. \A p \in Task : state'[p] = TASK_UNINTERRUPTIBLE =>
                          state[p] = TASK_UNINTERRUPTIBLE /\ p # ttwu[w].task
      BY <3>2, Zenon DEF IInv, TaskTypes, TASK_RUNNING, TASK_UNINTERRUPTIBLE
    <3>4. \A v \in Waker : v # w => ttwu'[v] = ttwu[v]
      BY <3>1, Zenon DEF IInv, WakeTypes
    <3> QED BY <2>1, <3>3, <3>4 DEF IInv, Attended
  <2>3. CASE on_rq[ttwu[w].task] # TASK_ON_RQ_QUEUED
    <3>1. ttwu' = [ttwu EXCEPT ![w] = At("on_cpu", ttwu[w].task)] /\ UNCHANGED state
      BY <2>3, Zenon DEF ttwu_remote
    <3>2. \A v \in Waker : ttwu'[v].task = ttwu[v].task
      BY <3>1, Zenon DEF IInv, WakeTypes, At
    <3> QED BY <2>1, <3>1, <3>2 DEF IInv, Attended
  <2> QED BY <2>2, <2>3, Zenon
<1> QED BY <1>1, <1>2, <1>3, <1>4, <1>5, <1>6, <1>7, Zenon DEF IInv

\* A waker moves a task only when it is off its queue and off its CPU.
LEMMA Inv_ttwu_select ==
    ASSUME IInv, NEW w \in Waker, ttwu_select(w)
    PROVE  IInv'
<1>1. WaitTypes' /\ RqTypes' /\ StopTypes' /\ CpuTypes' /\ Stopping' /\ Moving'
  BY Kept, Zenon DEF IInv, ttwu_select, taskVars, waitVars, rqVars, stopVars, cpuVars
<1>2. TaskTypes'
  <2>1. ttwu[w].task \in Task
    BY Zenon DEF IInv, Wakers, Holds, ttwu_select
  <2>2. FallbackMask(ttwu[w].task) \in SUBSET CPU
    BY <2>1, Zenon DEF IInv, TaskTypes, FallbackMask
  <2>3. select_task_rq(ttwu[w].task) \in SUBSET CPU
    BY <2>1, <2>2 DEF IInv, TaskTypes, select_task_rq, select_fallback_rq
  <2>4. task_cpu' \in [Task -> CPU]
    BY <2>3, Zenon DEF IInv, TaskTypes, ttwu_select, set_task_cpu
  <2>5. cpus_allowed' \in [Task -> SUBSET CPU]
    BY <2>2, Zenon DEF IInv, TaskTypes, ttwu_select
  <2>6. state' \in [Task -> {TASK_RUNNING, TASK_UNINTERRUPTIBLE, TASK_WAKING}]
    BY Zenon DEF IInv, TaskTypes, ttwu_select
  <2> QED BY <2>4, <2>5, <2>6, Zenon DEF IInv, TaskTypes, ttwu_select
<1>3. WakeTypes'
  BY Zenon DEF IInv, WakeTypes, Call, ttwu_select, ipiVars, At
<1>4. QueueAgrees'
  <2>1. /\ UNCHANGED <<rq, on_rq, curr, on_cpu>> /\ ttwu[w].pc = "on_cpu"
        /\ \E c : task_cpu' = [task_cpu EXCEPT ![ttwu[w].task] = c]
    BY Zenon DEF ttwu_select, rqVars, set_task_cpu
  <2>2. on_rq[ttwu[w].task] # TASK_ON_RQ_QUEUED
    BY <2>1, Zenon DEF IInv, Wakers, TASK_ON_RQ_QUEUED, OffRq
  <2>3. \A p \in Task : p = ttwu[w].task \/ task_cpu'[p] = task_cpu[p]
    BY <2>1, Zenon DEF IInv, TaskTypes
  <2> QED BY <2>1, <2>2, <2>3 DEF IInv, QueueAgrees
<1>5. Leaving'
  BY DEF IInv, Leaving, ttwu_select, set_task_cpu, rqVars
<1>6. OffState'
  BY Zenon DEF IInv, TaskTypes, OffState, Wakers, ttwu_select, TASK_RUNNING, TASK_WAKING
<1>7. Listed'
  <2>1. /\ UNCHANGED <<wake_list, on_rq, on_cpu>> /\ ttwu[w].pc = "on_cpu"
        /\ \E c : task_cpu' = [task_cpu EXCEPT ![ttwu[w].task] = c]
        /\ state' = [state EXCEPT ![ttwu[w].task] = TASK_WAKING]
    BY Zenon DEF ttwu_select, ipiVars, set_task_cpu
  <2>2. \A c \in CPU : ttwu[w].task \notin wake_list[c]
    BY <2>1, Zenon DEF IInv, Wakers, Listed
  <2>3. \A p \in Task : p = ttwu[w].task \/ task_cpu'[p] = task_cpu[p]
    BY <2>1, Zenon DEF IInv, TaskTypes
  <2>4. \A p \in Task : p = ttwu[w].task \/ state'[p] = state[p]
    BY <2>1, Zenon DEF IInv, TaskTypes
  <2> QED BY <2>1, <2>2, <2>3, <2>4 DEF IInv, WakeTypes, Listed
<1>8. Wakers'
  <2>1. /\ ttwu' = [ttwu EXCEPT ![w] = At("queue", ttwu[w].task)]
        /\ state' = [state EXCEPT ![ttwu[w].task] = TASK_WAKING]
        /\ UNCHANGED <<on_rq, on_cpu, wake_list>>
        /\ ttwu[w].pc = "on_cpu" /\ ~on_cpu[ttwu[w].task]
    BY Zenon DEF ttwu_select, ipiVars
  <2>2. \A c \in CPU : ttwu[w].task \notin wake_list[c]
    BY <2>1, Zenon DEF IInv, Wakers, Listed
  <2> QED BY <2>1, <2>2 DEF IInv, TaskTypes, WakeTypes, Wakers, Holds, At
<1>9. Attended'
  <2>1. \A p \in Task : state'[p] = TASK_UNINTERRUPTIBLE => state[p] = TASK_UNINTERRUPTIBLE
    BY Zenon DEF IInv, TaskTypes, ttwu_select, TASK_UNINTERRUPTIBLE, TASK_WAKING
  <2>2. \A v \in Waker : ttwu'[v].task = ttwu[v].task
    BY Zenon DEF IInv, WakeTypes, ttwu_select, At
  <2>3. UNCHANGED <<cond, loc>>
    BY Zenon DEF ttwu_select, waitVars
  <2> QED BY <2>1, <2>2, <2>3, Zenon DEF IInv, Attended
<1> QED BY <1>1, <1>2, <1>3, <1>4, <1>5, <1>6, <1>7, <1>8, <1>9, Zenon DEF IInv

\* The woken task is linked on the queue of the CPU chosen for it.
LEMMA Inv_ttwu_queue ==
    ASSUME IInv, NEW w \in Waker, ttwu_queue(w)
    PROVE  IInv'
<1>1. WaitTypes' /\ StopTypes' /\ CpuTypes' /\ Stopping'
  BY Kept, Zenon DEF IInv, ttwu_queue, waitVars, rqVars, stopVars, cpuVars
<1>2. TaskTypes'
  BY Zenon DEF IInv, TaskTypes, ttwu_queue, ttwu_do_activate
<1>3. RqTypes'
  <2>1. ttwu[w].task \in Task
    BY Zenon DEF IInv, Wakers, Holds, ttwu_queue
  <2>2. rq' = [rq EXCEPT ![task_cpu[ttwu[w].task]] = @ \cup {ttwu[w].task}]
    BY Zenon DEF ttwu_queue, ttwu_do_activate
  <2>3. rq' \in [CPU -> SUBSET Task]
    BY <2>1, <2>2, Zenon DEF IInv, RqTypes
  <2> QED BY <2>3, Zenon DEF IInv, RqTypes, ttwu_queue
<1>4. WakeTypes'
  BY Zenon DEF IInv, WakeTypes, Call, ttwu_queue, ipiVars, NoCall, At
<1>5. QueueAgrees'
  <2>1. /\ rq' = [rq EXCEPT ![task_cpu[ttwu[w].task]] = @ \cup {ttwu[w].task}]
        /\ on_rq' = [p \in Task |-> IF p \in {ttwu[w].task} THEN TASK_ON_RQ_QUEUED ELSE on_rq[p]]
        /\ ttwu[w].pc = "queue"
    BY Zenon DEF ttwu_queue, ttwu_do_activate
  <2>2. ttwu[w].task \in Task /\ on_rq[ttwu[w].task] # TASK_ON_RQ_QUEUED
    BY <2>1, Zenon DEF IInv, Wakers, Holds, TASK_ON_RQ_QUEUED, OffRq
  <2>3. \A c \in CPU : \A p : p \in rq'[c] <=>
            (p \in rq[c] \/ (p = ttwu[w].task /\ c = task_cpu[ttwu[w].task]))
    BY <2>1 DEF IInv, RqTypes
  <2>4. \A p \in Task : on_rq'[p] = IF p = ttwu[w].task THEN TASK_ON_RQ_QUEUED ELSE on_rq[p]
    BY <2>1, Zenon
  <2>5. UNCHANGED <<curr, on_cpu, task_cpu>>
    BY Zenon DEF ttwu_queue
  <2>6. \A p \in Task, c \in CPU :
            p \in rq'[c] <=> on_rq'[p] = TASK_ON_RQ_QUEUED /\ task_cpu[p] = c
    BY <2>2, <2>3, <2>4 DEF IInv, QueueAgrees
  <2>7. \A c \in CPU : curr[c] \in Task => curr[c] \in rq'[c] /\ on_cpu[curr[c]]
    BY <2>3 DEF IInv, QueueAgrees
  <2> QED BY <2>5, <2>6, <2>7, Zenon DEF QueueAgrees
<1>6. Leaving'
  BY Zenon DEF IInv, RqTypes, Leaving, ttwu_queue, Switching, ttwu_do_activate
<1>7. Moving'
  <2>1. /\ on_rq' = [p \in Task |-> IF p \in {ttwu[w].task} THEN TASK_ON_RQ_QUEUED ELSE on_rq[p]]
        /\ UNCHANGED <<setaff, work, stopper>> /\ ttwu[w].pc = "queue"
    BY Zenon DEF ttwu_queue, ttwu_do_activate, stopVars
  <2>2. on_rq[ttwu[w].task] # TASK_ON_RQ_MIGRATING
    BY <2>1, Zenon DEF IInv, Wakers, TASK_ON_RQ_MIGRATING, OffRq
  <2>3. \A p \in Task : on_rq[p] = TASK_ON_RQ_MIGRATING => on_rq'[p] = TASK_ON_RQ_MIGRATING
    BY <2>1, <2>2, Zenon
  <2>4. \A c \in CPU : stopper[c] = "move" => work[c].task \in Task
    BY Zenon DEF IInv, Stopping, StopTypes
  <2> QED BY <2>1, <2>3, <2>4, Zenon DEF IInv, Moving
<1>8. OffState'
  BY Zenon DEF IInv, OffState, ttwu_queue, ttwu_do_activate, TASK_RUNNING, TASK_WAKING,
     TASK_ON_RQ_QUEUED, OffRq
<1>9. Listed'
  <2>1. /\ on_rq' = [p \in Task |-> IF p \in {ttwu[w].task} THEN TASK_ON_RQ_QUEUED ELSE on_rq[p]]
        /\ state' = [p \in Task |-> IF p \in {ttwu[w].task} THEN TASK_RUNNING ELSE state[p]]
        /\ UNCHANGED <<wake_list, task_cpu, on_cpu>> /\ ttwu[w].pc = "queue"
    BY Zenon DEF ttwu_queue, ttwu_do_activate, ipiVars
  <2>2. \A c \in CPU : ttwu[w].task \notin wake_list[c]
    BY <2>1, Zenon DEF IInv, Wakers
  <2> QED BY <2>1, <2>2, Zenon DEF IInv, WakeTypes, Listed
<1>10. Wakers'
  <2>1. /\ ttwu' = [ttwu EXCEPT ![w] = NoCall] /\ UNCHANGED <<on_cpu, wake_list>>
        /\ ttwu[w].pc = "queue"
    BY Zenon DEF ttwu_queue, ipiVars
  <2>2. \A p \in Task : p # ttwu[w].task => on_rq'[p] = on_rq[p] /\ state'[p] = state[p]
    BY Zenon DEF ttwu_queue, ttwu_do_activate
  <2> QED BY <2>1, <2>2, LastHolder, Zenon
<1>11. Attended'
  BY Zenon DEF IInv, WakeTypes, Attended, ttwu_queue, ttwu_do_activate, waitVars,
     TASK_RUNNING, TASK_UNINTERRUPTIBLE
<1> QED BY <1>1, <1>2, <1>3, <1>4, <1>5, <1>6, <1>7, <1>8, <1>9, <1>10, <1>11, Zenon DEF
   IInv

\* A task enters one wake list only.
LEMMA Inv_ttwu_queue_remote ==
    ASSUME IInv, NEW w \in Waker, ttwu_queue_remote(w)
    PROVE  IInv'
<1>1. TaskTypes' /\ WaitTypes' /\ RqTypes' /\ StopTypes' /\ CpuTypes' /\ QueueAgrees' /\
      Leaving' /\ Stopping' /\ Moving' /\ OffState'
  BY Kept, Zenon DEF IInv, ttwu_queue_remote, taskVars, waitVars, rqVars, stopVars,
     cpuVars
<1>2. WakeTypes'
  <2>1. ttwu[w].task \in Task
    BY Zenon DEF IInv, Wakers, Holds, ttwu_queue_remote
  <2>2. ttwu' \in [Waker -> Call]
    BY Zenon DEF IInv, WakeTypes, Call, NoCall, At, ttwu_queue_remote
  <2>3. wake_list' \in [CPU -> SUBSET Task]
    BY <2>1, Zenon DEF IInv, WakeTypes, ttwu_queue_remote
  <2>4. ipi' \in [CPU -> BOOLEAN]
    BY Zenon DEF IInv, WakeTypes, ttwu_queue_remote
  <2> QED BY <2>2, <2>3, <2>4, Zenon DEF IInv, WakeTypes
<1>3. Listed'
  <2>1. /\ wake_list' = [wake_list EXCEPT ![task_cpu[ttwu[w].task]] = @ \cup {ttwu[w].task}]
        /\ UNCHANGED <<task_cpu, on_rq, on_cpu, state>> /\ ttwu[w].pc = "queue"
    BY Zenon DEF ttwu_queue_remote, taskVars
  <2>2. /\ on_rq[ttwu[w].task] = OffRq /\ state[ttwu[w].task] = TASK_WAKING
        /\ ~on_cpu[ttwu[w].task]
    BY <2>1, Zenon DEF IInv, Wakers
  <2>3. \A c \in CPU : \A p \in wake_list'[c] :
            p \in wake_list[c] \/ (p = ttwu[w].task /\ c = task_cpu[p])
    BY <2>1 DEF IInv, WakeTypes
  <2> QED BY <2>1, <2>2, <2>3 DEF IInv, Listed
<1>4. Wakers'
  BY Zenon DEF IInv, WakeTypes, Wakers, Holds, ttwu_queue_remote, taskVars, NoCall, At
<1>5. Attended'
  BY Zenon DEF IInv, WakeTypes, Attended, Wakers, ttwu_queue_remote, taskVars, waitVars,
     TASK_UNINTERRUPTIBLE, TASK_WAKING
<1> QED BY <1>1, <1>2, <1>3, <1>4, <1>5, Zenon DEF IInv

\* A new call changes the condition and the caller.
LEMMA Inv_wake_up_process ==
    ASSUME IInv, NEW w \in Waker, NEW p \in Task, wake_up_process(w, p)
    PROVE  IInv'
<1>1. TaskTypes' /\ RqTypes' /\ StopTypes' /\ CpuTypes' /\ QueueAgrees' /\ Leaving' /\
      Stopping' /\ Moving' /\ OffState' /\ Listed'
  BY Kept, Zenon DEF IInv, wake_up_process, taskVars, rqVars, ipiVars, stopVars, cpuVars
<1>2. WaitTypes'
  BY Zenon DEF IInv, WaitTypes, wake_up_process
<1>3. WakeTypes'
  <2>1. At("call", p) \in Call
    BY Zenon DEF At, Call
  <2>2. ttwu' \in [Waker -> Call]
    BY <2>1, Zenon DEF IInv, WakeTypes, wake_up_process
  <2> QED BY <2>2, Zenon DEF IInv, WakeTypes, wake_up_process, ipiVars
<1>4. Wakers'
  <2>1. /\ ttwu' = [ttwu EXCEPT ![w] = At("call", p)]
        /\ UNCHANGED <<state, on_rq, on_cpu, wake_list>>
    BY Zenon DEF wake_up_process, taskVars, ipiVars
  <2>2. /\ ttwu'[w].pc = "call" /\ ttwu'[w].task = p
        /\ \A v \in Waker \ {w} : ttwu'[v] = ttwu[v]
    BY <2>1, Zenon DEF IInv, WakeTypes, At
  <2> QED BY <2>1, <2>2 DEF IInv, Wakers, Holds
<1>5. Attended'
  <2>1. /\ ttwu' = [ttwu EXCEPT ![w] = At("call", p)] /\ ttwu[w].pc = "idle"
        /\ cond' = [cond EXCEPT ![p] = TRUE]
        /\ UNCHANGED <<state, loc>>
    BY Zenon DEF wake_up_process, taskVars
  <2>2. ttwu'[w].task = p /\ \A v \in Waker : v # w => ttwu'[v] = ttwu[v]
    BY <2>1, Zenon DEF IInv, WakeTypes, At
  <2>3. ttwu[w] = NoCall /\ NoCall.task = NULL
    BY <2>1, Zenon DEF IInv, Wakers, NoCall, At
  <2>4. \A q \in Task : q # p => cond'[q] = cond[q]
    BY <2>1, Zenon DEF IInv, WaitTypes
  <2> QED BY <2>1, <2>2, <2>3, <2>4, SmpAssumption DEF IInv, Attended
<1> QED BY <1>1, <1>2, <1>3, <1>4, <1>5, Zenon DEF IInv

\* The second half of move_queued_task links the marked task again.
LEMMA Inv_set_cpus_allowed_move ==
    ASSUME IInv, NEW p \in Task, set_cpus_allowed_move(p)
    PROVE  IInv'
<1>1. WaitTypes' /\ WakeTypes' /\ CpuTypes' /\ Attended'
  BY Kept, Zenon DEF IInv, set_cpus_allowed_move, taskVars, waitVars, ipiVars, cpuVars
<1>2. TaskTypes'
  BY Zenon DEF IInv, TaskTypes, set_cpus_allowed_move, MoveIn
<1>3. RqTypes'
  BY Zenon DEF IInv, RqTypes, TaskTypes, set_cpus_allowed_move, MoveIn
<1>4. StopTypes'
  BY Zenon DEF IInv, StopTypes, Call, set_cpus_allowed_move, stopVars, NoCall, At
<1>5. QueueAgrees'
  BY DEF IInv, TaskTypes, RqTypes, QueueAgrees, set_cpus_allowed_move, MoveIn
<1>6. Leaving'
  <2>1. UNCHANGED <<prev, on_cpu, task_cpu, curr>>
    BY Zenon DEF set_cpus_allowed_move
  <2>2. on_rq' = [on_rq EXCEPT ![p] = TASK_ON_RQ_QUEUED]
    BY Zenon DEF set_cpus_allowed_move, MoveIn
  <2> QED BY <2>1, <2>2 DEF IInv, TaskTypes, RqTypes, Leaving, TASK_ON_RQ_QUEUED,
                                  TASK_ON_RQ_MIGRATING
<1>7. Stopping'
  BY Zenon DEF IInv, Stopping, set_cpus_allowed_move, stopVars
<1>8. Moving'
  BY Zenon DEF IInv, Moving, Stopping, set_cpus_allowed_move, stopVars, NoCall, At
<1>9. OffState'
  BY Zenon DEF IInv, TaskTypes, OffState, Moving, set_cpus_allowed_move, MoveIn,
     TASK_ON_RQ_QUEUED, TASK_ON_RQ_MIGRATING, OffRq
<1>10. Listed'
  <2>1. /\ on_rq' = [on_rq EXCEPT ![p] = TASK_ON_RQ_QUEUED]
        /\ UNCHANGED <<wake_list, task_cpu, on_cpu, state>>
    BY Zenon DEF set_cpus_allowed_move, MoveIn, ipiVars
  <2>2. on_rq[p] = TASK_ON_RQ_MIGRATING
    BY Zenon DEF IInv, Moving, set_cpus_allowed_move
  <2>3. \A q \in Task : on_rq[q] = OffRq => on_rq'[q] = OffRq
    BY <2>1, <2>2, Zenon DEF IInv, TaskTypes, TASK_ON_RQ_MIGRATING, OffRq
  <2> QED BY <2>1, <2>3 DEF IInv, WakeTypes, Listed
<1>11. Wakers'
  <2>1. /\ on_rq' = [on_rq EXCEPT ![p] = TASK_ON_RQ_QUEUED]
        /\ UNCHANGED <<ttwu, wake_list, on_cpu, state>>
    BY Zenon DEF set_cpus_allowed_move, MoveIn, ipiVars
  <2>2. on_rq[p] = TASK_ON_RQ_MIGRATING
    BY Zenon DEF IInv, Moving, set_cpus_allowed_move
  <2>3. \A q \in Task : on_rq[q] = OffRq => on_rq'[q] = OffRq
    BY <2>1, <2>2, Zenon DEF IInv, TaskTypes, TASK_ON_RQ_MIGRATING, OffRq
  <2> QED BY <2>1, <2>3 DEF IInv, Wakers, Holds
<1> QED BY <1>1, <1>2, <1>3, <1>4, <1>5, <1>6, <1>7, <1>8, <1>9, <1>10, <1>11, Zenon DEF
   IInv

\* __set_cpus_allowed_ptr hands a task to the migration thread, moves a queued one
\* that is not running, or only changes the mask.
LEMMA Inv_set_cpus_allowed ==
    ASSUME IInv, NEW p \in Task, NEW mask \in SUBSET CPU, NEW dest \in CPU,
           set_cpus_allowed(p, mask, dest)
    PROVE  IInv'
<1>1. UNCHANGED <<state, on_cpu, loc, cond, curr, prev, wake_list, ipi, ttwu, stopper,
                  cpu_active, cpu_online>>
  BY Zenon DEF set_cpus_allowed, waitVars, ipiVars, cpuVars
<1>2. cpus_allowed' = [cpus_allowed EXCEPT ![p] = mask]
  BY Zenon DEF set_cpus_allowed
<1>3. /\ setaff.pc = "idle" /\ ~PiLocked(p)
      /\ ~Switching(task_cpu[p]) /\ on_rq[p] # TASK_ON_RQ_MIGRATING
  BY Zenon DEF set_cpus_allowed
<1>4. \A d \in CPU : work[d] = NULL /\ stopper[d] = "idle"
  BY <1>3, Zenon DEF IInv, Stopping, StopTypes
<1>5. WaitTypes' /\ WakeTypes' /\ CpuTypes' /\ Attended'
  BY <1>1, Kept, Zenon DEF IInv
<1>6. CASE /\ setaff' = [pc |-> "stop", task |-> p, dest |-> dest]
           /\ work' = [work EXCEPT ![task_cpu[p]] = [task |-> p, dest |-> dest]]
           /\ UNCHANGED <<on_rq, rq, task_cpu>>
  <2>1. TaskTypes'
    BY <1>1, <1>2, <1>6, Zenon DEF IInv, TaskTypes
  <2>2. StopTypes'
    BY <1>1, <1>6, Zenon DEF IInv, StopTypes, Call
  <2>3. RqTypes' /\ QueueAgrees' /\ Leaving' /\ OffState' /\ Listed' /\ Wakers'
    BY <1>1, <1>6, Kept, Zenon DEF IInv
  <2>4. Stopping'
    BY <1>1, <1>4, <1>6, Zenon DEF IInv, TaskTypes, StopTypes, Stopping
  <2>5. Moving'
    BY <1>1, <1>4, <1>6, Zenon DEF Moving
  <2> QED BY <1>5, <2>1, <2>2, <2>3, <2>4, <2>5, Zenon DEF IInv
<1>7. CASE /\ on_rq[p] = TASK_ON_RQ_QUEUED /\ ~on_cpu[p]
           /\ setaff' = [pc |-> "move", task |-> p, dest |-> dest]
           /\ MoveOut(p, dest)
           /\ UNCHANGED work
  <2>1. TaskTypes' /\ RqTypes'
    BY <1>1, <1>2, <1>7, Zenon DEF IInv, TaskTypes, RqTypes, MoveOut, set_task_cpu
  <2>2. StopTypes'
    BY <1>1, <1>7, Zenon DEF IInv, StopTypes, Call
  <2>3. QueueAgrees'
    BY <1>1, <1>7 DEF IInv, TaskTypes, RqTypes, QueueAgrees, MoveOut, set_task_cpu,
       TASK_ON_RQ_QUEUED, TASK_ON_RQ_MIGRATING
  <2>4. Leaving'
    BY <1>1, <1>7, Zenon DEF IInv, RqTypes, TaskTypes, Leaving, MoveOut, set_task_cpu
  <2>5. Stopping' /\ Moving'
    BY <1>1, <1>4, <1>7, Zenon DEF IInv, TaskTypes, Stopping, Moving, MoveOut
  <2>6. OffState'
    BY <1>1, <1>7, Zenon DEF IInv, TaskTypes, OffState, MoveOut, TASK_ON_RQ_QUEUED,
       TASK_ON_RQ_MIGRATING, OffRq
  <2>7. Listed'
    BY <1>1, <1>7, Zenon DEF IInv, WakeTypes, TaskTypes, Listed, MoveOut, set_task_cpu,
       TASK_ON_RQ_QUEUED, OffRq
  <2>8. Wakers'
    BY <1>1, <1>7, Zenon DEF IInv, TaskTypes, Wakers, Holds, MoveOut, TASK_ON_RQ_QUEUED,
       OffRq
  <2> QED BY <1>5, <2>1, <2>2, <2>3, <2>4, <2>5, <2>6, <2>7, <2>8, Zenon DEF IInv
<1>8. CASE UNCHANGED <<setaff, work, on_rq, rq, task_cpu>>
  <2>1. TaskTypes'
    BY <1>1, <1>2, <1>8, Zenon DEF IInv, TaskTypes
  <2>2. /\ RqTypes' /\ StopTypes' /\ QueueAgrees' /\ Leaving' /\ Stopping' /\ Moving'
        /\ OffState' /\ Listed' /\ Wakers'
    BY <1>1, <1>8, Kept, Zenon DEF IInv
  <2> QED BY <1>5, <2>1, <2>2, Zenon DEF IInv
<1> QED BY <1>6, <1>7, <1>8, Zenon DEF set_cpus_allowed

\* At boot every task is queued on the CPU it is assigned to, and nobody calls.
LEMMA InitInv == Init => IInv
<1> SUFFICES ASSUME Init PROVE IInv
  OBVIOUS
<1>1. TaskTypes /\ WaitTypes /\ RqTypes
  BY Zenon DEF Init, TaskTypes, WaitTypes, RqTypes
<1>2. NoCall \in Call
  BY Zenon DEF NoCall, At, Call
<1>3. WakeTypes /\ StopTypes /\ CpuTypes
  BY <1>2, Zenon DEF Init, WakeTypes, StopTypes, CpuTypes
<1>4. QueueAgrees
  BY SmpAssumption, Zenon DEF Init, QueueAgrees, TASK_ON_RQ_QUEUED
<1>5. Leaving /\ Stopping /\ Moving
  BY Zenon DEF Init, Leaving, Stopping, Moving, NoCall, At
<1>6. OffState /\ Listed /\ Attended
  BY Zenon DEF Init, OffState, Listed, Attended, TASK_RUNNING, TASK_WAKING,
     TASK_ON_RQ_QUEUED, OffRq
<1>7. Wakers
  BY Zenon DEF Init, Wakers, Holds, NoCall, At
<1> QED BY <1>1, <1>3, <1>4, <1>5, <1>6, <1>7, Zenon DEF IInv

\* Every step of a CPU, a waker or a caller of __set_cpus_allowed_ptr keeps it.
LEMMA NextInv == IInv /\ [Next]_vars => IInv'
<1> SUFFICES ASSUME IInv, [Next]_vars PROVE IInv'
  OBVIOUS
<1>1. CASE UNCHANGED vars
  BY <1>1, Kept, Zenon DEF IInv, vars, taskVars, waitVars, rqVars, ipiVars, stopVars,
     cpuVars
<1>2. ASSUME NEW c \in CPU,
             \/ set_current_state(c) \/ test_condition(c) \/ schedule(c)
             \/ preempt_schedule(c) \/ finish_task(c) \/ scheduler_ipi(c)
             \/ StopperStep(c) \/ sched_cpu_deactivate(c) \/ sched_cpu_dying(c)
             \/ sched_cpu_activate(c)
      PROVE  IInv'
  BY <1>2, Inv_set_current_state, Inv_test_condition, Inv_schedule,
     Inv_preempt_schedule, Inv_finish_task, Inv_scheduler_ipi, Inv_stop_pending,
     Inv_migration_cpu_stop, Inv_migration_cpu_move, Inv_sched_cpu_deactivate,
     Inv_sched_cpu_dying, Inv_sched_cpu_activate, Zenon DEF StopperStep
<1>3. ASSUME NEW w \in Waker, WakerStep(w)
      PROVE  IInv'
  BY <1>3, Inv_ttwu_lock, Inv_ttwu_on_rq, Inv_ttwu_remote, Inv_ttwu_select,
     Inv_ttwu_queue, Inv_ttwu_queue_remote, Zenon DEF WakerStep
<1>4. ASSUME NEW w \in Waker, NEW p \in Task, wake_up_process(w, p)
      PROVE  IInv'
  BY <1>4, Inv_wake_up_process, Zenon
<1>5. ASSUME NEW p \in Task, set_cpus_allowed_move(p)
      PROVE  IInv'
  BY <1>5, Inv_set_cpus_allowed_move, Zenon
<1>6. ASSUME NEW p \in Task, NEW mask \in SUBSET CPU, NEW dest \in CPU,
             set_cpus_allowed(p, mask, dest)
      PROVE  IInv'
  BY <1>6, Inv_set_cpus_allowed, Zenon
<1> QED BY <1>1, <1>2, <1>3, <1>4, <1>5, <1>6, Zenon DEF Next

\* The inductive invariant holds in every reachable state.
THEOREM Invariance == Spec => []IInv
<1> QED BY InitInv, NextInv, PTL DEF Spec

\* Every variable keeps its type, for any number of CPUs, tasks and wakers.
THEOREM TypesStayRight == Spec => []TypeOK
<1>1. IInv => TypeOK
  BY Zenon DEF IInv, TypeOK, TaskTypes, WaitTypes, RqTypes, WakeTypes, StopTypes,
     CpuTypes
<1> QED BY <1>1, Invariance, PTL

\* p is on the queue of task_cpu(p) exactly while on_rq says so and a CPU runs
\* only tasks of its own queue, whatever wakeups, migrations and hotplug do.
THEOREM QueuesAgree == Spec => []QueueAgrees
<1>1. IInv => QueueAgrees
  BY Zenon DEF IInv
<1> QED BY <1>1, Invariance, PTL

-----------------------------------------------------------------------------
(* Where tasks are put *)

\* Whoever is about to queue a task has chosen a CPU that is online.
Placed ==
    /\ DeadCpuEmpty
    /\ \A w \in Waker : ttwu[w].pc = "queue" => task_cpu[ttwu[w].task] \in cpu_online
    /\ setaff.pc = "move" => task_cpu[setaff.task] \in cpu_online
    /\ \A c \in CPU : stopper[c] = "move" => task_cpu[work[c].task] \in cpu_online

\* A task in TASK_WAKING is held by its waker or on the list of its CPU.
Woken ==
    \A p \in Task : state[p] = TASK_WAKING =>
        \/ \E w \in Waker : ttwu[w].pc = "queue" /\ ttwu[w].task = p
        \/ p \in wake_list[task_cpu[p]]

\* A task between two run queues has somebody who moves it.
Mover ==
    \A p \in Task : on_rq[p] = TASK_ON_RQ_MIGRATING =>
        \/ setaff.pc = "move" /\ setaff.task = p
        \/ \E c \in CPU : stopper[c] = "move" /\ work[c].task = p

\* It goes to a CPU of its mask.
Arriving ==
    /\ setaff.pc = "idle" => setaff.task = NULL
    /\ setaff.pc = "move" => setaff.task \notin Misplaced
    /\ \A c \in CPU : stopper[c] = "move" => work[c].task \notin Misplaced

\* While the caller of stop_one_cpu waits, its task is where the migration
\* thread will look for it, or no longer in need of it.
Awaited(c, p) ==
    /\ setaff.dest = work[c].dest /\ work[c].dest \in cpus_allowed[p]
    /\ p \in Misplaced => /\ task_cpu[p] = c
                          /\ state[p] = TASK_WAKING => p \in wake_list[c]
                          /\ stopper[c] # "idle" => on_rq[p] = TASK_ON_RQ_QUEUED
Settling == \A c \in CPU : work[c] # NULL => Awaited(c, work[c].task)

PInv == Placed /\ Woken /\ Mover /\ Arriving /\ Settling
Both == IInv /\ PInv

\* A step that the caller of __set_cpus_allowed_ptr does not notice: it goes on
\* waiting and no task is put outside its mask.
Quiet == setaff' = setaff /\ Misplaced' \subseteq Misplaced

\* Each conjunct depends only on the variables it mentions.
LEMMA StillPlaced ==
    /\ Placed /\ UNCHANGED <<rq, curr, wake_list, cpu_online, ttwu, task_cpu, setaff,
                             stopper, work>> => Placed'
    /\ Woken /\ UNCHANGED <<state, ttwu, wake_list, task_cpu>> => Woken'
    /\ Mover /\ UNCHANGED <<on_rq, setaff, stopper, work>> => Mover'
    /\ Arriving /\ UNCHANGED <<stopper, work>> /\ Quiet => Arriving'
    /\ Settling /\ UNCHANGED <<work, stopper, setaff, state, on_rq, task_cpu, wake_list,
                               cpus_allowed>> => Settling'
    /\ UNCHANGED <<setaff, state, on_rq, task_cpu, cpus_allowed>> => Quiet
<1>1. Placed /\ UNCHANGED <<rq, curr, wake_list, cpu_online, ttwu, task_cpu, setaff,
                           stopper, work>> => Placed'
  BY Zenon DEF Placed, DeadCpuEmpty
<1>2. Woken /\ UNCHANGED <<state, ttwu, wake_list, task_cpu>> => Woken'
  BY Zenon DEF Woken
<1>3. Mover /\ UNCHANGED <<on_rq, setaff, stopper, work>> => Mover'
  BY Zenon DEF Mover
<1>4. Arriving /\ UNCHANGED <<stopper, work>> /\ Quiet => Arriving'
  BY Zenon DEF Arriving, Quiet
<1>5. Settling /\ UNCHANGED <<work, stopper, setaff, state, on_rq, task_cpu, wake_list,
                             cpus_allowed>> => Settling'
  BY Zenon DEF Settling, Awaited, Misplaced
<1>6. UNCHANGED <<setaff, state, on_rq, task_cpu, cpus_allowed>> => Quiet
  BY Zenon DEF Quiet, Misplaced
<1> QED BY <1>1, <1>2, <1>3, <1>4, <1>5, <1>6, Zenon

\* The caller's task stays where it is awaited through a step that changes neither
\* the work nor the mask.
LEMMA StillAwaited ==
    ASSUME Settling, Quiet, UNCHANGED <<work, stopper>>,
           \A p \in Task : cpus_allowed[p] \subseteq cpus_allowed'[p],
           StopTypes,
           \A c \in CPU : work[c] # NULL /\ work[c].task \in Misplaced' =>
               /\ task_cpu'[work[c].task] = task_cpu[work[c].task]
               /\ state'[work[c].task] = TASK_WAKING =>
                     /\ state[work[c].task] = TASK_WAKING
                     /\ work[c].task \in wake_list[c] => work[c].task \in wake_list'[c]
               /\ stopper[c] # "idle" /\ on_rq[work[c].task] = TASK_ON_RQ_QUEUED
                     => on_rq'[work[c].task] = TASK_ON_RQ_QUEUED
    PROVE  Settling'
<1> SUFFICES ASSUME NEW c \in CPU, work[c] # NULL PROVE Awaited(c, work[c].task)'
  BY Zenon DEF Settling
<1>1. Awaited(c, work[c].task) /\ work' = work /\ stopper' = stopper /\ setaff' = setaff
  BY Zenon DEF Settling, Quiet
<1>2. work[c].task \in Task
  BY DEF StopTypes
<1>3. (setaff.dest = work[c].dest /\ work[c].dest \in cpus_allowed[work[c].task])'
  BY <1>1, <1>2, Zenon DEF Awaited
<1>4. work[c].task \in Misplaced' => work[c].task \in Misplaced
  BY Zenon DEF Quiet
<1> QED BY <1>1, <1>3, <1>4, Zenon DEF Awaited

\* A task that begins to wait stays on its queue.
LEMMA Put_set_current_state ==
    ASSUME Both, NEW c \in CPU, set_current_state(c)
    PROVE  PInv' /\ Quiet
<1>1. on_rq[curr[c]] = TASK_ON_RQ_QUEUED
  BY Zenon DEF Both, IInv, QueueAgrees, set_current_state, Running
<1>2. Quiet
  BY <1>1 DEF Both, IInv, TaskTypes, Quiet, Misplaced, set_current_state, TASK_ON_RQ_QUEUED, OffRq
<1>3. Placed' /\ Mover' /\ Arriving'
  BY <1>2, StillPlaced, Zenon DEF Both, PInv, set_current_state, rqVars, ipiVars, stopVars, cpuVars
<1>4. Woken'
  BY DEF Both, IInv, TaskTypes, PInv, Woken, set_current_state, ipiVars, TASK_WAKING,
     TASK_UNINTERRUPTIBLE
<1>5. Settling'
  BY <1>2, StillAwaited DEF Both, IInv, TaskTypes, PInv, set_current_state, ipiVars, stopVars,
     TASK_WAKING, TASK_UNINTERRUPTIBLE
<1> QED BY <1>2, <1>3, <1>4, <1>5, Zenon DEF PInv

\* So does one that finds its condition true.
LEMMA Put_test_condition ==
    ASSUME Both, NEW c \in CPU, test_condition(c)
    PROVE  PInv' /\ Quiet
<1>1. on_rq[curr[c]] = TASK_ON_RQ_QUEUED /\ curr[c] \in Task
  BY Zenon DEF Both, IInv, QueueAgrees, test_condition, Running
<1>2. /\ state' = state \/ state' = [state EXCEPT ![curr[c]] = TASK_RUNNING]
      /\ UNCHANGED <<on_rq, task_cpu, cpus_allowed, rq, curr, wake_list, cpu_online, ttwu, setaff,
                     stopper, work>>
  BY Zenon DEF test_condition, rqVars, ipiVars, stopVars, cpuVars
<1>3. Quiet
  BY <1>1, <1>2 DEF Both, IInv, TaskTypes, Quiet, Misplaced, TASK_ON_RQ_QUEUED, OffRq
<1>4. Placed' /\ Mover' /\ Arriving'
  BY <1>2, <1>3, StillPlaced, Zenon DEF Both, PInv
<1>5. Woken'
  BY <1>2 DEF Both, IInv, TaskTypes, PInv, Woken, TASK_WAKING, TASK_RUNNING
<1>6. Settling'
  <2>1. \A p \in Task : state'[p] = TASK_WAKING => state[p] = TASK_WAKING
    BY <1>2 DEF Both, IInv, TaskTypes, TASK_WAKING, TASK_RUNNING
  <2>2. \A d \in CPU : work[d] # NULL => work[d].task \in Task
    BY DEF Both, IInv, StopTypes
  <2> QED BY <1>2, <1>3, <2>1, <2>2, StillAwaited, Zenon DEF Both, IInv, PInv
<1> QED BY <1>3, <1>4, <1>5, <1>6, Zenon DEF PInv

\* A task that blocks does so on a CPU that is online and not in the migration thread.
LEMMA Put_schedule ==
    ASSUME Both, NEW c \in CPU, schedule(c)
    PROVE  PInv' /\ Quiet
<1>0. curr[c] \in Task /\ on_rq[curr[c]] = TASK_ON_RQ_QUEUED /\ task_cpu[curr[c]] = c
  BY Zenon DEF Both, IInv, QueueAgrees, schedule, Running
<1>1. c \in cpu_online
  BY <1>0, SmpAssumption, Zenon DEF Both, PInv, Placed, DeadCpuEmpty, SmpAssumption
<1>2. /\ \E queue, next : rq' = [rq EXCEPT ![c] = queue] /\ curr' = [curr EXCEPT ![c] = next]
      /\ on_rq' = on_rq \/ on_rq' = [on_rq EXCEPT ![curr[c]] = OffRq]
      /\ UNCHANGED <<state, task_cpu, cpus_allowed, wake_list, cpu_online, ttwu, setaff,
                     stopper, work>>
  BY Zenon DEF schedule, prepare_task, ipiVars, stopVars, cpuVars
<1>3. Quiet
  BY <1>2 DEF Both, IInv, TaskTypes, Quiet, Misplaced
<1>4. Woken' /\ Arriving'
  BY <1>2, <1>3, StillPlaced, Zenon DEF Both, PInv
<1>5. Placed'
  BY <1>1, <1>2 DEF Both, IInv, RqTypes, PInv, Placed, DeadCpuEmpty
<1>6. Mover'
  BY <1>2 DEF Both, IInv, TaskTypes, PInv, Mover, OffRq, TASK_ON_RQ_MIGRATING
<1>7. ASSUME NEW d \in CPU, work[d] # NULL, stopper[d] # "idle", work[d].task \in Misplaced
      PROVE  work[d].task # curr[c]
  <2>1. task_cpu[work[d].task] = d /\ curr[d] = Stop
    BY <1>7, Zenon DEF Both, IInv, Stopping, PInv, Settling, Awaited
  <2> QED BY <1>0, <2>1, SmpAssumption, Zenon DEF SmpAssumption
<1>8. Settling'
  <2>1. \A p \in Task : p # curr[c] => on_rq'[p] = on_rq[p]
    BY <1>2 DEF Both, IInv, TaskTypes
  <2>2. \A d \in CPU : work[d] # NULL => work[d].task \in Task
    BY DEF Both, IInv, StopTypes
  <2>3. \A d \in CPU : /\ work[d] # NULL /\ work[d].task \in Misplaced' /\ stopper[d] # "idle"
                         /\ on_rq[work[d].task] = TASK_ON_RQ_QUEUED
                       => on_rq'[work[d].task] = TASK_ON_RQ_QUEUED
    BY <1>3, <1>7, <2>1, <2>2, Zenon DEF Quiet
  <2> QED BY <1>2, <1>3, <2>3, StillAwaited, Zenon DEF Both, IInv, PInv
<1> QED BY <1>3, <1>4, <1>5, <1>6, <1>8, Zenon DEF PInv

\* A preempted task stays queued.
LEMMA Put_preempt_schedule ==
    ASSUME Both, NEW c \in CPU, preempt_schedule(c)
    PROVE  PInv' /\ Quiet
<1>1. /\ \E next : curr' = [curr EXCEPT ![c] = next]
      /\ rq' = [rq EXCEPT ![c] = rq[c]] /\ c \in cpu_online
  BY Zenon DEF preempt_schedule, prepare_task
<1>2. Quiet /\ Woken' /\ Mover' /\ Settling'
  BY StillPlaced, Zenon DEF Both, PInv, preempt_schedule, ipiVars, stopVars
<1>3. Arriving'
  BY <1>2, StillPlaced, Zenon DEF Both, PInv, preempt_schedule, stopVars
<1>4. UNCHANGED <<wake_list, cpu_online, ttwu, task_cpu, setaff, stopper, work>>
  BY Zenon DEF preempt_schedule, ipiVars, stopVars, cpuVars
<1>5. Placed'
  BY <1>1, <1>4 DEF Both, IInv, RqTypes, PInv, Placed, DeadCpuEmpty
<1> QED BY <1>2, <1>3, <1>5, Zenon DEF PInv

\* The end of a context switch moves nobody.
LEMMA Put_finish_task ==
    ASSUME Both, NEW c \in CPU, finish_task(c)
    PROVE  PInv' /\ Quiet
<1>1. Quiet /\ Placed' /\ Woken' /\ Mover' /\ Settling'
  BY StillPlaced, Zenon DEF Both, PInv, finish_task, taskVars, waitVars, rqVars, ipiVars, stopVars, cpuVars
<1>2. Arriving'
  BY <1>1, StillPlaced, Zenon DEF Both, PInv, finish_task, stopVars
<1> QED BY <1>1, <1>2, Zenon DEF PInv

\* sched_cpu_deactivate moves nobody.
LEMMA Put_sched_cpu_deactivate ==
    ASSUME Both, NEW c \in CPU, sched_cpu_deactivate(c)
    PROVE  PInv' /\ Quiet
<1>1. Quiet /\ Placed' /\ Woken' /\ Mover' /\ Settling'
  BY StillPlaced, Zenon DEF Both, PInv, sched_cpu_deactivate, taskVars, waitVars, rqVars, ipiVars, stopVars, cpuVars
<1>2. Arriving'
  BY <1>1, StillPlaced, Zenon DEF Both, PInv, sched_cpu_deactivate, stopVars
<1> QED BY <1>1, <1>2, Zenon DEF PInv

\* Taking pi_lock moves nobody.
LEMMA Put_ttwu_lock ==
    ASSUME Both, NEW w \in Waker, ttwu_lock(w)
    PROVE  PInv' /\ Quiet
<1>1. /\ ttwu[w].pc = "call"
      /\ \E new \in {At("on_rq", ttwu[w].task), NoCall} : ttwu' = [ttwu EXCEPT ![w] = new]
  BY Zenon DEF ttwu_lock
<1>2. UNCHANGED <<taskVars, waitVars, rqVars, ipiVars, setaff, stopVars, cpuVars>>
  BY Zenon DEF ttwu_lock
<1>3. Quiet /\ Mover' /\ Settling'
  BY <1>2, StillPlaced, Zenon DEF Both, PInv, taskVars, waitVars, rqVars, ipiVars, stopVars, cpuVars
<1>4. Arriving'
  BY <1>2, <1>3, StillPlaced, Zenon DEF Both, PInv, stopVars
<1>5. Placed'
  BY <1>1, <1>2 DEF Both, IInv, WakeTypes, PInv, Placed, DeadCpuEmpty, At, NoCall, taskVars, waitVars, rqVars, ipiVars, stopVars, cpuVars
<1>6. Woken'
  BY <1>1, <1>2 DEF Both, IInv, WakeTypes, PInv, Woken, At, NoCall, taskVars, waitVars, rqVars, ipiVars, stopVars, cpuVars
<1> QED BY <1>3, <1>4, <1>5, <1>6, Zenon DEF PInv

\* The lockless read of on_rq moves nobody.
LEMMA Put_ttwu_on_rq ==
    ASSUME Both, NEW w \in Waker, ttwu_on_rq(w)
    PROVE  PInv' /\ Quiet
<1>1. /\ ttwu[w].pc = "on_rq"
      /\ \E new \in {At("remote", ttwu[w].task), At("on_cpu", ttwu[w].task)} :
            ttwu' = [ttwu EXCEPT ![w] = new]
  BY Zenon DEF ttwu_on_rq
<1>2. UNCHANGED <<taskVars, waitVars, rqVars, ipiVars, setaff, stopVars, cpuVars>>
  BY Zenon DEF ttwu_on_rq
<1>3. Quiet /\ Mover' /\ Settling'
  BY <1>2, StillPlaced, Zenon DEF Both, PInv, taskVars, waitVars, rqVars, ipiVars, stopVars, cpuVars
<1>4. Arriving'
  BY <1>2, <1>3, StillPlaced, Zenon DEF Both, PInv, stopVars
<1>5. Placed'
  BY <1>1, <1>2 DEF Both, IInv, WakeTypes, PInv, Placed, DeadCpuEmpty, At, NoCall, taskVars, waitVars, rqVars, ipiVars, stopVars, cpuVars
<1>6. Woken'
  BY <1>1, <1>2 DEF Both, IInv, WakeTypes, PInv, Woken, At, NoCall, taskVars, waitVars, rqVars, ipiVars, stopVars, cpuVars
<1> QED BY <1>3, <1>4, <1>5, <1>6, Zenon DEF PInv

\* The caller of wake_up_process has chosen no CPU yet.
LEMMA Put_wake_up_process ==
    ASSUME Both, NEW w \in Waker, NEW p \in Task, wake_up_process(w, p)
    PROVE  PInv' /\ Quiet
<1>1. ttwu[w].pc = "idle" /\ ttwu' = [ttwu EXCEPT ![w] = At("call", p)]
  BY Zenon DEF wake_up_process
<1>2. UNCHANGED <<taskVars, rqVars, ipiVars, setaff, stopVars, cpuVars>>
  BY Zenon DEF wake_up_process
<1>3. Quiet /\ Mover' /\ Settling'
  BY <1>2, StillPlaced, Zenon DEF Both, PInv, taskVars, rqVars, ipiVars, stopVars, cpuVars
<1>4. Arriving'
  BY <1>2, <1>3, StillPlaced, Zenon DEF Both, PInv, stopVars
<1>5. Placed'
  BY <1>1, <1>2 DEF Both, IInv, WakeTypes, PInv, Placed, DeadCpuEmpty, At, taskVars, rqVars,
     ipiVars, stopVars, cpuVars
<1>6. Woken'
  BY <1>1, <1>2 DEF Both, IInv, WakeTypes, PInv, Woken, At, taskVars, ipiVars
<1> QED BY <1>3, <1>4, <1>5, <1>6, Zenon DEF PInv

\* A wakeup that finds its task still queued resets the state.
LEMMA Put_ttwu_remote ==
    ASSUME Both, NEW w \in Waker, ttwu_remote(w)
    PROVE  PInv' /\ Quiet
<1>0. ttwu[w].pc = "remote" /\ ttwu[w].task \in Task /\ state[ttwu[w].task] # TASK_WAKING
  BY Zenon DEF Both, IInv, Wakers, Holds, ttwu_remote
<1>1. /\ \E new \in {At("on_cpu", ttwu[w].task), NoCall} : ttwu' = [ttwu EXCEPT ![w] = new]
      /\ state' = state \/ state' = [state EXCEPT ![ttwu[w].task] = TASK_RUNNING]
  BY Zenon DEF ttwu_remote
<1>2. UNCHANGED <<on_rq, task_cpu, cpus_allowed, rq, curr, wake_list, cpu_online, setaff, stopper, work>>
  BY Zenon DEF ttwu_remote, rqVars, ipiVars, stopVars, cpuVars
<1>3. \A p \in Task : state'[p] = TASK_WAKING <=> state[p] = TASK_WAKING
  BY <1>0, <1>1 DEF Both, IInv, TaskTypes, TASK_WAKING, TASK_RUNNING
<1>4. Quiet
  BY <1>2, <1>3, Zenon DEF Quiet, Misplaced
<1>5. Mover' /\ Arriving'
  BY <1>2, <1>4, StillPlaced, Zenon DEF Both, PInv
<1>6. Placed'
  BY <1>0, <1>1, <1>2 DEF Both, IInv, WakeTypes, PInv, Placed, DeadCpuEmpty, At, NoCall
<1>7. Woken'
  BY <1>0, <1>1, <1>2, <1>3 DEF Both, IInv, WakeTypes, PInv, Woken, At, NoCall
<1>8. Settling'
  <2>1. \A d \in CPU : work[d] # NULL => work[d].task \in Task
    BY DEF Both, IInv, StopTypes
  <2> QED BY <1>2, <1>3, <1>4, <2>1, StillAwaited, Zenon DEF Both, IInv, PInv
<1> QED BY <1>4, <1>5, <1>6, <1>7, <1>8, Zenon DEF PInv

\* The CPU that select_task_rq returns is active and in the mask, which may have
\* been widened.
LEMMA SelectedCpu ==
    ASSUME Both, NEW p \in Task, NEW c \in select_task_rq(p)
    PROVE  c \in FallbackMask(p) /\ c \in cpu_online /\ cpus_allowed[p] \subseteq FallbackMask(p)
<1>1. cpu_active \subseteq CPU /\ cpu_active \subseteq cpu_online /\ cpus_allowed[p] \subseteq CPU
  BY DEF Both, IInv, TaskTypes, CpuTypes
<1>2. cpus_allowed[p] \subseteq FallbackMask(p)
  BY <1>1 DEF FallbackMask
<1>3. CASE c = task_cpu[p] /\ is_cpu_allowed(p, task_cpu[p])
  BY <1>1, <1>2, <1>3 DEF is_cpu_allowed
<1>4. CASE c \in select_fallback_rq(p)
  BY <1>1, <1>2, <1>4 DEF select_fallback_rq
<1> QED BY <1>3, <1>4, Zenon DEF select_task_rq

\* A waking task is put inside its mask.
LEMMA Put_ttwu_select ==
    ASSUME Both, NEW w \in Waker, ttwu_select(w)
    PROVE  PInv' /\ Quiet
<1> DEFINE p == ttwu[w].task
<1>0. p \in Task /\ on_rq[p] = OffRq /\ state[p] # TASK_WAKING
  BY Zenon DEF Both, IInv, Wakers, Holds, ttwu_select
<1>1. PICK c \in select_task_rq(p) : task_cpu' = [task_cpu EXCEPT ![p] = c]
  BY Zenon DEF ttwu_select, set_task_cpu
<1>2. c \in FallbackMask(p) /\ c \in cpu_online /\ cpus_allowed[p] \subseteq FallbackMask(p)
  BY <1>0, <1>1, SelectedCpu, Zenon
<1>3. /\ state' = [state EXCEPT ![p] = TASK_WAKING]
      /\ cpus_allowed' = [cpus_allowed EXCEPT ![p] = FallbackMask(p)]
      /\ ttwu' = [ttwu EXCEPT ![w] = At("queue", p)]
      /\ UNCHANGED <<on_rq, rq, curr, wake_list, setaff, work, stopper, cpu_online>>
  BY Zenon DEF ttwu_select, rqVars, ipiVars, stopVars, cpuVars
<1> HIDE DEF p
<1>4. \A q \in Task : q # p => /\ state'[q] = state[q] /\ task_cpu'[q] = task_cpu[q]
                               /\ cpus_allowed'[q] = cpus_allowed[q]
  BY <1>1, <1>3, Zenon DEF Both, IInv, TaskTypes
<1>5. task_cpu'[p] = c /\ cpus_allowed'[p] = FallbackMask(p)
  BY <1>0, <1>1, <1>3, Zenon DEF Both, IInv, TaskTypes
<1>6. p \notin Misplaced'
  BY <1>2, <1>5, Zenon DEF Misplaced
<1>7. Quiet
  BY <1>3, <1>4, <1>6, Zenon DEF Misplaced, Quiet
<1>8. Mover' /\ Arriving'
  BY <1>3, <1>7, StillPlaced, Zenon DEF Both, PInv
<1>9. Settling'
  <2>1. \A d \in CPU : work[d] # NULL => work[d].task \in Task
    BY DEF Both, IInv, StopTypes
  <2>2. \A q \in Task : cpus_allowed[q] \subseteq cpus_allowed'[q]
    BY <1>2, <1>4, <1>5, Zenon
  <2> QED BY <1>3, <1>4, <1>6, <1>7, <2>1, <2>2, StillAwaited, Zenon DEF Both, IInv, PInv
<1>10. \A v \in Waker : v # w => ttwu'[v] = ttwu[v]
  BY <1>3, Zenon DEF Both, IInv, WakeTypes
<1>11. ttwu'[w].pc = "queue" /\ ttwu'[w].task = p
  BY <1>3 DEF Both, IInv, WakeTypes, At
<1>12. Woken'
  <2> SUFFICES ASSUME NEW q \in Task, state'[q] = TASK_WAKING
               PROVE  \/ \E v \in Waker : ttwu'[v].pc = "queue" /\ ttwu'[v].task = q
                      \/ q \in wake_list'[task_cpu'[q]]
    BY Zenon DEF Woken
  <2>1. CASE q = p
    BY <1>11, <2>1, Zenon
  <2>2. CASE q # p
    <3>1. \/ \E v \in Waker : ttwu[v].pc = "queue" /\ ttwu[v].task = q
          \/ q \in wake_list[task_cpu[q]]
      BY <1>4, <2>2, Zenon DEF Both, PInv, Woken
    <3>2. ttwu[w].pc # "queue"
      BY Zenon DEF ttwu_select
    <3> QED BY <1>3, <1>4, <1>10, <2>2, <3>1, <3>2, Zenon
  <2> QED BY <2>1, <2>2, Zenon
<1>13. \A q \in Task : task_cpu'[q] = task_cpu[q] \/ task_cpu'[q] \in cpu_online
  BY <1>2, <1>4, <1>5, Zenon
<1>14. \A v \in Waker : ttwu[v].pc = "queue" => ttwu[v].task \in Task
  BY Zenon DEF Both, IInv, Wakers, Holds
<1>15. /\ setaff.pc = "move" => setaff.task \in Task
       /\ \A d \in CPU : stopper[d] = "move" => work[d].task \in Task
  BY DEF Both, IInv, Moving, StopTypes, Stopping
<1>16. Placed'
  <2>1. DeadCpuEmpty'
    BY <1>3, Zenon DEF Both, PInv, Placed, DeadCpuEmpty
  <2>2. \A v \in Waker : ttwu'[v].pc = "queue" => task_cpu'[ttwu'[v].task] \in cpu_online
    BY <1>2, <1>5, <1>10, <1>11, <1>13, <1>14, Zenon DEF Both, PInv, Placed
  <2>3. /\ setaff.pc = "move" => task_cpu'[setaff.task] \in cpu_online
        /\ \A d \in CPU : stopper[d] = "move" => task_cpu'[work[d].task] \in cpu_online
    BY <1>13, <1>15, Zenon DEF Both, PInv, Placed
  <2> QED BY <1>3, <2>1, <2>2, <2>3, Zenon DEF Placed
<1> QED BY <1>7, <1>8, <1>9, <1>12, <1>16, Zenon DEF PInv

\* ttwu_do_activate: a waking task keeps its CPU and becomes a queued one.
LEMMA Activated ==
    ASSUME Both, NEW c \in CPU, NEW ps \in SUBSET Task, ttwu_do_activate(c, ps),
           \A p \in ps : state[p] = TASK_WAKING /\ on_rq[p] = OffRq,
           UNCHANGED <<task_cpu, cpus_allowed, setaff>>
    PROVE  /\ Quiet
           /\ \A p \in Task : p \in ps => on_rq'[p] = TASK_ON_RQ_QUEUED /\ state'[p] # TASK_WAKING
           /\ \A p \in Task : p \notin ps => on_rq'[p] = on_rq[p] /\ state'[p] = state[p]
           /\ \A p \in Task : on_rq'[p] = TASK_ON_RQ_MIGRATING => on_rq[p] = TASK_ON_RQ_MIGRATING
           /\ \A d \in CPU : d # c => rq'[d] = rq[d]
           /\ rq'[c] = rq[c] \cup ps
<1>1. \A p \in Task : p \in ps => on_rq'[p] = TASK_ON_RQ_QUEUED /\ state'[p] # TASK_WAKING
  BY DEF ttwu_do_activate, TASK_WAKING, TASK_RUNNING
<1>2. \A p \in Task : p \notin ps => on_rq'[p] = on_rq[p] /\ state'[p] = state[p]
  BY DEF ttwu_do_activate
<1>3. \A d \in CPU : d # c => rq'[d] = rq[d]
  BY Zenon DEF ttwu_do_activate, Both, IInv, RqTypes
<1>4. rq'[c] = rq[c] \cup ps
  BY Zenon DEF ttwu_do_activate, Both, IInv, RqTypes
<1>5. Quiet
  BY <1>1, <1>2, Zenon DEF Quiet, Misplaced
<1>6. \A p \in Task : on_rq'[p] = TASK_ON_RQ_MIGRATING => on_rq[p] = TASK_ON_RQ_MIGRATING
  BY <1>1, <1>2 DEF TASK_ON_RQ_QUEUED, TASK_ON_RQ_MIGRATING
<1> QED BY <1>1, <1>2, <1>3, <1>4, <1>5, <1>6, Zenon

\* The waker queues the task on the CPU it chose.
LEMMA Put_ttwu_queue ==
    ASSUME Both, NEW w \in Waker, ttwu_queue(w)
    PROVE  PInv' /\ Quiet
<1> DEFINE p == ttwu[w].task
<1> DEFINE c == task_cpu[p]
<1>0. /\ ttwu[w].pc = "queue" /\ p \in Task /\ state[p] = TASK_WAKING /\ on_rq[p] = OffRq
      /\ \A d \in CPU : p \notin wake_list[d]
  BY Zenon DEF Both, IInv, Wakers, Holds, ttwu_queue
<1>1. c \in CPU /\ c \in cpu_online
  BY <1>0, Zenon DEF Both, IInv, TaskTypes, PInv, Placed
<1>2. /\ ttwu_do_activate(c, {p}) /\ ttwu' = [ttwu EXCEPT ![w] = NoCall]
      /\ UNCHANGED <<task_cpu, cpus_allowed, curr, wake_list, setaff, work, stopper, cpu_online>>
  BY Zenon DEF ttwu_queue, ipiVars, stopVars, cpuVars
<1> HIDE DEF c, p
<1>3. /\ Quiet
      /\ on_rq'[p] = TASK_ON_RQ_QUEUED /\ state'[p] # TASK_WAKING
      /\ \A q \in Task : q # p => on_rq'[q] = on_rq[q] /\ state'[q] = state[q]
      /\ \A q \in Task : on_rq'[q] = TASK_ON_RQ_MIGRATING => on_rq[q] = TASK_ON_RQ_MIGRATING
      /\ \A d \in CPU : d # c => rq'[d] = rq[d]
  <2>1. {p} \in SUBSET Task /\ \A q \in {p} : state[q] = TASK_WAKING /\ on_rq[q] = OffRq
    BY <1>0, Zenon
  <2>2. /\ Quiet
        /\ \A q \in Task : q \in {p} => on_rq'[q] = TASK_ON_RQ_QUEUED /\ state'[q] # TASK_WAKING
        /\ \A q \in Task : q \notin {p} => on_rq'[q] = on_rq[q] /\ state'[q] = state[q]
        /\ \A q \in Task : on_rq'[q] = TASK_ON_RQ_MIGRATING => on_rq[q] = TASK_ON_RQ_MIGRATING
        /\ \A d \in CPU : d # c => rq'[d] = rq[d]
    BY <1>1, <1>2, <2>1, Activated, Zenon
  <2> QED BY <1>0, <2>2, Zenon
<1>4. Arriving'
  BY <1>2, <1>3, StillPlaced, Zenon DEF Both, PInv
<1>5. Mover'
  BY <1>2, <1>3, Zenon DEF Both, PInv, Mover
<1>6. \A v \in Waker : v # w => ttwu'[v] = ttwu[v]
  BY <1>2, Zenon DEF Both, IInv, WakeTypes
<1>7. ttwu'[w].pc # "queue"
  BY <1>2 DEF Both, IInv, WakeTypes, NoCall, At
<1>8. Placed'
  <2>1. DeadCpuEmpty'
    BY <1>1, <1>2, <1>3, Zenon DEF Both, PInv, Placed, DeadCpuEmpty
  <2>2. \A v \in Waker : ttwu'[v].pc = "queue" => task_cpu[ttwu'[v].task] \in cpu_online
    BY <1>6, <1>7, Zenon DEF Both, PInv, Placed
  <2> QED BY <1>2, <2>1, <2>2, Zenon DEF Both, PInv, Placed
<1>9. Woken'
  <2>1. \A q \in Task : state'[q] = TASK_WAKING => q # p /\ state[q] = TASK_WAKING
    BY <1>3, Zenon
  <2>2. \A v \in Waker : ttwu[v].pc = "queue" /\ ttwu[v].task # p => ttwu'[v] = ttwu[v]
    BY <1>6, Zenon DEF p
  <2> QED BY <1>2, <2>1, <2>2, Zenon DEF Both, PInv, Woken
<1>10. Settling'
  <2>1. \A d \in CPU : work[d] # NULL => work[d].task \in Task
    BY DEF Both, IInv, StopTypes
  <2>2. \A q \in Task : on_rq[q] = TASK_ON_RQ_QUEUED => on_rq'[q] = TASK_ON_RQ_QUEUED
    BY <1>3, Zenon
  <2>3. \A q \in Task : state'[q] = TASK_WAKING => state[q] = TASK_WAKING
    BY <1>3, Zenon
  <2> QED BY <1>2, <1>3, <2>1, <2>2, <2>3, StillAwaited, Zenon DEF Both, IInv, PInv
<1> QED BY <1>3, <1>4, <1>5, <1>8, <1>9, <1>10, Zenon DEF PInv

\* ... or puts it on the wake list of that CPU.
LEMMA Put_ttwu_queue_remote ==
    ASSUME Both, NEW w \in Waker, ttwu_queue_remote(w)
    PROVE  PInv' /\ Quiet
<1> DEFINE p == ttwu[w].task
<1> DEFINE c == task_cpu[p]
<1>0. ttwu[w].pc = "queue" /\ p \in Task
  BY Zenon DEF Both, IInv, Wakers, Holds, ttwu_queue_remote
<1>1. c \in CPU /\ c \in cpu_online
  BY <1>0, Zenon DEF Both, IInv, TaskTypes, PInv, Placed
<1>2. /\ wake_list' = [wake_list EXCEPT ![c] = @ \cup {p}]
      /\ ttwu' = [ttwu EXCEPT ![w] = NoCall]
      /\ UNCHANGED <<state, on_rq, task_cpu, cpus_allowed, rq, curr, setaff, work, stopper, cpu_online>>
  BY Zenon DEF ttwu_queue_remote, taskVars, rqVars, stopVars, cpuVars
<1> HIDE DEF p
<1>3. Quiet /\ Mover'
  BY <1>2, StillPlaced, Zenon DEF Both, PInv
<1>4. Arriving'
  BY <1>2, <1>3, StillPlaced, Zenon DEF Both, PInv
<1>5. \A v \in Waker : v # w => ttwu'[v] = ttwu[v]
  BY <1>2, Zenon DEF Both, IInv, WakeTypes
<1>6. ttwu'[w].pc # "queue"
  BY <1>2 DEF Both, IInv, WakeTypes, NoCall, At
<1>7. /\ \A d \in CPU : wake_list[d] \subseteq wake_list'[d] /\ (d # c => wake_list'[d] = wake_list[d])
      /\ p \in wake_list'[task_cpu[p]]
  BY <1>1, <1>2, Zenon DEF Both, IInv, WakeTypes
<1>8. Placed'
  <2>1. DeadCpuEmpty'
    BY <1>1, <1>2, <1>7, Zenon DEF Both, PInv, Placed, DeadCpuEmpty
  <2>2. \A v \in Waker : ttwu'[v].pc = "queue" => task_cpu[ttwu'[v].task] \in cpu_online
    BY <1>5, <1>6, Zenon DEF Both, PInv, Placed
  <2> QED BY <1>2, <2>1, <2>2, Zenon DEF Both, PInv, Placed
<1>9. Woken'
  <2>1. \A v \in Waker : ttwu[v].pc = "queue" /\ ttwu[v].task # p => ttwu'[v] = ttwu[v]
    BY <1>5, Zenon DEF p
  <2>2. \A q \in Task : q \in wake_list[task_cpu[q]] => q \in wake_list'[task_cpu[q]]
    BY <1>7, Zenon DEF Both, IInv, TaskTypes
  <2>3. ASSUME NEW q \in Task, q # p, state[q] = TASK_WAKING
        PROVE  \/ \E v \in Waker : ttwu'[v].pc = "queue" /\ ttwu'[v].task = q
               \/ q \in wake_list'[task_cpu[q]]
    BY <2>1, <2>2, <2>3, Zenon DEF Both, PInv, Woken
  <2> QED BY <1>2, <1>7, <2>3, Zenon DEF Woken
<1>10. Settling'
  BY <1>2, <1>3, <1>7, StillAwaited, Zenon DEF Both, IInv, PInv
<1> QED BY <1>3, <1>4, <1>8, <1>9, <1>10, Zenon DEF PInv

\* sched_ttwu_pending: the wake list becomes part of the run queue.
LEMMA Flushed ==
    ASSUME Both, NEW c \in CPU, sched_ttwu_pending(c),
           UNCHANGED <<task_cpu, cpus_allowed, setaff, ttwu, curr, cpu_online, work>>,
           \/ stopper' = stopper
           \/ stopper[c] = "idle" /\ stopper' = [stopper EXCEPT ![c] = "flushed"]
    PROVE  /\ Quiet /\ Placed' /\ Woken' /\ Mover' /\ Arriving'
           /\ \A p \in Task : on_rq[p] = TASK_ON_RQ_QUEUED => on_rq'[p] = TASK_ON_RQ_QUEUED
           /\ \A p \in wake_list[c] : on_rq'[p] = TASK_ON_RQ_QUEUED
           /\ \A p \in Task : state'[p] = TASK_WAKING =>
                 /\ state[p] = TASK_WAKING
                 /\ \A d \in CPU : p \in wake_list[d] => p \in wake_list'[d]
<1>0. /\ wake_list[c] \in SUBSET Task /\ ttwu_do_activate(c, wake_list[c])
      /\ \A p \in wake_list[c] : state[p] = TASK_WAKING /\ on_rq[p] = OffRq
      /\ \A p \in wake_list[c] : p \in Task /\ task_cpu[p] = c
  BY Zenon DEF Both, IInv, WakeTypes, Listed, sched_ttwu_pending
<1>1. /\ Quiet
      /\ \A p \in Task : p \in wake_list[c] => on_rq'[p] = TASK_ON_RQ_QUEUED /\ state'[p] # TASK_WAKING
      /\ \A p \in Task : p \notin wake_list[c] => on_rq'[p] = on_rq[p] /\ state'[p] = state[p]
      /\ \A p \in Task : on_rq'[p] = TASK_ON_RQ_MIGRATING => on_rq[p] = TASK_ON_RQ_MIGRATING
      /\ \A d \in CPU : d # c => rq'[d] = rq[d]
      /\ rq'[c] = rq[c] \cup wake_list[c]
  BY <1>0, Activated, Zenon
<1>2. wake_list'[c] = {} /\ \A d \in CPU : d # c => wake_list'[d] = wake_list[d]
  BY Zenon DEF Both, IInv, WakeTypes, sched_ttwu_pending
<1>3. \A d \in CPU : stopper'[d] = "move" <=> stopper[d] = "move"
  BY DEF Both, IInv, StopTypes
<1>4. DeadCpuEmpty'
  <2>1. ASSUME NEW d \in CPU \ cpu_online
        PROVE  rq'[d] \subseteq Ts /\ curr'[d] = Idle /\ wake_list'[d] = {}
    <3>1. rq[d] \subseteq Ts /\ curr[d] = Idle /\ wake_list[d] = {}
      BY Zenon DEF Both, PInv, Placed, DeadCpuEmpty
    <3>2. rq'[d] \subseteq Ts
      BY <1>1, <3>1
    <3> QED BY <1>2, <3>1, <3>2, Zenon
  <2> QED BY <2>1, Zenon DEF DeadCpuEmpty
<1>5. Placed'
  BY <1>3, <1>4, Zenon DEF Both, PInv, Placed
<1>6. Mover'
  BY <1>1, <1>3, Zenon DEF Both, PInv, Mover
<1>7. Arriving'
  BY <1>1, <1>3, Zenon DEF Both, PInv, Arriving, Quiet
<1>8. \A p \in Task : state'[p] = TASK_WAKING =>
          /\ state[p] = TASK_WAKING
          /\ \A d \in CPU : p \in wake_list[d] => p \in wake_list'[d]
  BY <1>1, <1>2, Zenon
<1>9. Woken'
  BY <1>8, Zenon DEF Both, IInv, TaskTypes, PInv, Woken
<1>10. \A p \in Task : on_rq[p] = TASK_ON_RQ_QUEUED => on_rq'[p] = TASK_ON_RQ_QUEUED
  BY <1>1, Zenon
<1>11. \A p \in wake_list[c] : on_rq'[p] = TASK_ON_RQ_QUEUED
  BY <1>0, <1>1, Zenon
<1> QED BY <1>1, <1>5, <1>6, <1>7, <1>8, <1>9, <1>10, <1>11, Zenon

\* The reschedule interrupt flushes the list.
LEMMA Put_scheduler_ipi ==
    ASSUME Both, NEW c \in CPU, scheduler_ipi(c)
    PROVE  PInv' /\ Quiet
<1>1. /\ sched_ttwu_pending(c)
      /\ UNCHANGED <<task_cpu, cpus_allowed, setaff, ttwu, curr, cpu_online, work, stopper>>
  BY Zenon DEF scheduler_ipi, stopVars, cpuVars
<1>2. /\ Quiet /\ Placed' /\ Woken' /\ Mover' /\ Arriving'
      /\ \A p \in Task : on_rq[p] = TASK_ON_RQ_QUEUED => on_rq'[p] = TASK_ON_RQ_QUEUED
      /\ \A p \in Task : state'[p] = TASK_WAKING =>
            /\ state[p] = TASK_WAKING
            /\ \A d \in CPU : p \in wake_list[d] => p \in wake_list'[d]
  BY <1>1, Flushed, Zenon
<1>3. \A d \in CPU : work[d] # NULL => work[d].task \in Task
  BY DEF Both, IInv, StopTypes
<1>4. Settling'
  BY <1>1, <1>2, <1>3, StillAwaited, Zenon DEF Both, IInv, PInv
<1> QED BY <1>2, <1>4, Zenon DEF PInv

\* With the migration thread running, a misplaced task that is not waking is queued.
LEMMA NobodyMoves ==
    ASSUME Both, NEW c \in CPU, work[c] # NULL, stopper[c] # "move", NEW p \in Task
    PROVE  on_rq[p] # TASK_ON_RQ_MIGRATING
<1> SUFFICES ASSUME on_rq[p] = TASK_ON_RQ_MIGRATING PROVE FALSE
  BY Zenon
<1>1. setaff.pc # "move"
  BY DEF Both, IInv, Stopping
<1>2. PICK d \in CPU : stopper[d] = "move"
  BY <1>1, Zenon DEF Both, PInv, Mover
<1>3. work[d] # NULL
  BY <1>2 DEF Both, IInv, Stopping
<1>4. d = c
  BY <1>3, Zenon DEF Both, IInv, Stopping
<1> QED BY <1>2, <1>4, Zenon

\* migration_cpu_stop flushes it too, so that the task it looks for is queued.
LEMMA Put_stop_pending ==
    ASSUME Both, NEW c \in CPU, stop_pending(c)
    PROVE  PInv' /\ Quiet
<1>1. /\ sched_ttwu_pending(c) /\ work[c] # NULL
      /\ stopper[c] = "idle" /\ stopper' = [stopper EXCEPT ![c] = "flushed"]
      /\ UNCHANGED <<task_cpu, cpus_allowed, setaff, ttwu, curr, cpu_online, work>>
  BY Zenon DEF stop_pending, cpuVars
<1>2. /\ Quiet /\ Placed' /\ Woken' /\ Mover' /\ Arriving'
      /\ \A p \in Task : on_rq[p] = TASK_ON_RQ_QUEUED => on_rq'[p] = TASK_ON_RQ_QUEUED
      /\ \A p \in wake_list[c] : on_rq'[p] = TASK_ON_RQ_QUEUED
      /\ \A p \in Task : state'[p] = TASK_WAKING =>
            /\ state[p] = TASK_WAKING
            /\ \A d \in CPU : p \in wake_list[d] => p \in wake_list'[d]
  BY <1>1, Flushed, Zenon
<1>3. \A d \in CPU : work[d] # NULL => work[d].task \in Task /\ d = c
  BY <1>1 DEF Both, IInv, StopTypes, Stopping
<1>4. stopper[c] # "move"
  BY <1>1
<1>5. ASSUME work[c].task \in Misplaced' PROVE on_rq'[work[c].task] = TASK_ON_RQ_QUEUED
  <2> DEFINE p == work[c].task
  <2>0. p \in Task
    BY <1>1, <1>3, Zenon
  <2>1. p \in Misplaced
    BY <1>2, <1>5, Zenon DEF Quiet
  <2>2. CASE state[p] = TASK_WAKING
    BY <1>1, <1>2, <2>1, <2>2, Zenon DEF Both, PInv, Settling, Awaited
  <2>3. CASE on_rq[p] # OffRq
    <3>1. on_rq[p] # TASK_ON_RQ_MIGRATING
      BY <1>1, <1>4, <2>0, NobodyMoves, Zenon
    <3>2. on_rq[p] = TASK_ON_RQ_QUEUED
      BY <2>0, <2>3, <3>1 DEF Both, IInv, TaskTypes
    <3> QED BY <1>2, <2>0, <3>2, Zenon
  <2> QED BY <2>1, <2>2, <2>3, Zenon DEF Misplaced
<1>6. Awaited(c, work[c].task)'
  <2>1. Awaited(c, work[c].task)
    BY <1>1, Zenon DEF Both, PInv, Settling
  <2>2. work[c].task \in Misplaced' => work[c].task \in Misplaced
    BY <1>2, Zenon DEF Quiet
  <2>3. work[c].task \in Task
    BY <1>1, <1>3, Zenon
  <2> QED BY <1>1, <1>2, <1>5, <2>1, <2>2, <2>3, Zenon DEF Awaited
<1>7. Settling'
  BY <1>1, <1>3, <1>6, Zenon DEF Settling
<1> QED BY <1>2, <1>7, Zenon DEF PInv

\* Second half of move_queued_task: the task arrives on an online CPU of its mask.
LEMMA Arrives ==
    ASSUME Both, NEW p \in Task, MoveIn(p), on_rq[p] = TASK_ON_RQ_MIGRATING,
           task_cpu[p] \in cpu_online, p \notin Misplaced, setaff'.pc # "move",
           \A d \in CPU : stopper'[d] # "move", \A d \in CPU : work'[d] = NULL,
           setaff' = NoCall,
           UNCHANGED <<state, task_cpu, cpus_allowed, curr, wake_list, cpu_online, ttwu>>,
           \A q \in Task : q # p => on_rq[q] # TASK_ON_RQ_MIGRATING
    PROVE  PInv' /\ Misplaced' \subseteq Misplaced /\ p \notin Misplaced'
<1>1. /\ on_rq'[p] = TASK_ON_RQ_QUEUED
      /\ \A q \in Task : q # p => on_rq'[q] = on_rq[q]
      /\ \A d \in CPU : d # task_cpu[p] => rq'[d] = rq[d]
  BY Zenon DEF MoveIn, Both, IInv, TaskTypes, RqTypes
<1>2. Misplaced' \subseteq Misplaced /\ p \notin Misplaced'
  <2>1. p \notin Misplaced'
    BY DEF Misplaced, TASK_ON_RQ_MIGRATING, OffRq
  <2> QED BY <1>1, <2>1, Zenon DEF Misplaced
<1>3. Placed'
  <2>1. DeadCpuEmpty'
    BY <1>1, Zenon DEF Both, PInv, Placed, DeadCpuEmpty
  <2> QED BY <2>1, Zenon DEF Both, PInv, Placed
<1>4. Woken'
  BY StillPlaced, Zenon DEF Both, PInv
<1>5. Mover'
  BY <1>1 DEF Mover, TASK_ON_RQ_QUEUED, TASK_ON_RQ_MIGRATING
<1>6. Arriving'
  BY DEF Arriving, NoCall, At
<1>7. Settling'
  BY Zenon DEF Settling
<1> QED BY <1>2, <1>3, <1>4, <1>5, <1>6, <1>7, Zenon DEF PInv

\* The caller moved the task itself: it arrives inside the new mask.
LEMMA Put_set_cpus_allowed_move ==
    ASSUME Both, NEW p \in Task, set_cpus_allowed_move(p)
    PROVE  PInv' /\ Honours
<1>1. /\ setaff.pc = "move" /\ setaff.task = p /\ MoveIn(p) /\ setaff' = NoCall
      /\ UNCHANGED <<state, task_cpu, cpus_allowed, curr, wake_list, cpu_online, ttwu, work, stopper>>
  BY Zenon DEF set_cpus_allowed_move, ipiVars, stopVars, cpuVars
<1>2. \A d \in CPU : work[d] = NULL
  BY <1>1 DEF Both, IInv, Stopping
<1>3. \A d \in CPU : stopper[d] # "move"
  BY <1>2 DEF Both, IInv, Stopping
<1>4. on_rq[p] = TASK_ON_RQ_MIGRATING /\ task_cpu[p] \in cpu_online /\ p \notin Misplaced
  BY <1>1, Zenon DEF Both, IInv, Moving, PInv, Placed, Arriving
<1>5. \A q \in Task : q # p => on_rq[q] # TASK_ON_RQ_MIGRATING
  BY <1>1, <1>3, Zenon DEF Both, PInv, Mover
<1>6. setaff'.pc # "move"
  BY <1>1 DEF NoCall, At
<1>7. PInv' /\ Misplaced' \subseteq Misplaced /\ p \notin Misplaced'
  BY <1>1, <1>2, <1>3, <1>4, <1>5, <1>6, Arrives, Zenon
<1> QED BY <1>1, <1>7, Zenon DEF Honours

\* The migration thread moved it: the same.
LEMMA Put_migration_cpu_move ==
    ASSUME Both, NEW c \in CPU, migration_cpu_move(c)
    PROVE  PInv' /\ Honours
<1> DEFINE p == work[c].task
<1>1. /\ stopper[c] = "move" /\ MoveIn(p) /\ StopDone(c)
      /\ UNCHANGED <<state, task_cpu, cpus_allowed, curr, wake_list, cpu_online, ttwu>>
  BY Zenon DEF migration_cpu_move, ipiVars, cpuVars
<1>2. work[c] # NULL /\ \A d \in CPU : d # c => work[d] = NULL
  BY <1>1 DEF Both, IInv, Stopping
<1>3. p \in Task /\ setaff.task = p /\ setaff.pc = "stop"
  BY <1>2 DEF Both, IInv, StopTypes, Stopping
<1>4. \A d \in CPU : d # c => stopper[d] # "move"
  BY <1>2 DEF Both, IInv, Stopping
<1>5. \A d \in CPU : stopper'[d] # "move" /\ work'[d] = NULL
  BY <1>1, <1>2, <1>4 DEF StopDone, Both, IInv, StopTypes
<1>6. setaff' = NoCall /\ setaff'.pc # "move"
  BY <1>1 DEF StopDone, NoCall, At
<1>7. on_rq[p] = TASK_ON_RQ_MIGRATING /\ task_cpu[p] \in cpu_online /\ p \notin Misplaced
  BY <1>1, Zenon DEF Both, IInv, Moving, PInv, Placed, Arriving
<1>8. \A q \in Task : q # p => on_rq[q] # TASK_ON_RQ_MIGRATING
  <2>1. setaff.pc # "move"
    BY <1>3
  <2> QED BY <1>4, <2>1, Zenon DEF Both, PInv, Mover
<1> HIDE DEF p
<1>9. PInv' /\ Misplaced' \subseteq Misplaced /\ p \notin Misplaced'
  BY <1>1, <1>3, <1>5, <1>6, <1>7, <1>8, Arrives, Zenon
<1> QED BY <1>3, <1>9, Zenon DEF Honours

\* First half of move_queued_task: the task leaves for an online CPU of its mask.
LEMMA Departs ==
    ASSUME Both, NEW p \in Task, NEW dest \in CPU, MoveOut(p, dest), on_rq[p] = TASK_ON_RQ_QUEUED,
           dest \in cpu_online, dest \in cpus_allowed'[p],
           \A q \in Task : q # p => cpus_allowed'[q] = cpus_allowed[q],
           UNCHANGED <<state, curr, wake_list, cpu_online, ttwu>>
    PROVE  /\ Misplaced' \subseteq Misplaced /\ p \notin Misplaced' /\ Woken' /\ DeadCpuEmpty'
           /\ \A w \in Waker : ttwu'[w].pc = "queue" => task_cpu'[ttwu'[w].task] \in cpu_online
           /\ task_cpu'[p] = dest
           /\ \A q \in Task : q # p => on_rq'[q] = on_rq[q] /\ task_cpu'[q] = task_cpu[q]
<1>1. /\ task_cpu'[p] = dest
      /\ \A q \in Task : q # p => on_rq'[q] = on_rq[q] /\ task_cpu'[q] = task_cpu[q]
      /\ \A d \in CPU : rq'[d] \subseteq rq[d]
  BY Zenon DEF MoveOut, set_task_cpu, Both, IInv, TaskTypes, RqTypes
<1>2. p \notin Misplaced'
  BY <1>1, Zenon DEF Misplaced
<1>3. Misplaced' \subseteq Misplaced
  BY <1>1, <1>2, Zenon DEF Misplaced
<1>4. state[p] # TASK_WAKING
  BY DEF Both, IInv, OffState, TASK_ON_RQ_QUEUED, OffRq
<1>5. Woken'
  BY <1>1, <1>4, Zenon DEF Both, PInv, Woken
<1>6. DeadCpuEmpty'
  <2>1. \A d \in CPU \ cpu_online : rq'[d] \subseteq Ts
    BY <1>1, Zenon DEF Both, PInv, Placed, DeadCpuEmpty
  <2> QED BY <2>1, Zenon DEF Both, PInv, Placed, DeadCpuEmpty
<1>7. \A w \in Waker : ttwu'[w].pc = "queue" => task_cpu'[ttwu'[w].task] \in cpu_online
  <2>1. \A w \in Waker : ttwu[w].pc = "queue" => ttwu[w].task \in Task
    BY Zenon DEF Both, IInv, Wakers, Holds
  <2> QED BY <1>1, <2>1, Zenon DEF Both, PInv, Placed
<1> QED BY <1>1, <1>2, <1>3, <1>5, <1>6, <1>7, Zenon

\* migration_cpu_stop takes the task along, or finds that it is where it may be,
\* or that the destination has gone.
LEMMA Put_migration_cpu_stop ==
    ASSUME Both, NEW c \in CPU, migration_cpu_stop(c)
    PROVE  PInv' /\ Honours
<1> DEFINE p == work[c].task
<1> DEFINE dest == work[c].dest
<1>1. /\ stopper[c] = "flushed"
      /\ UNCHANGED <<state, cpus_allowed, curr, wake_list, cpu_online, ttwu>>
  BY Zenon DEF migration_cpu_stop, ipiVars, cpuVars
<1>2. work[c] # NULL /\ \A d \in CPU : d # c => work[d] = NULL
  BY <1>1 DEF Both, IInv, Stopping
<1>3. p \in Task /\ dest \in CPU /\ setaff.task = p /\ setaff.pc = "stop"
  BY <1>2 DEF Both, IInv, StopTypes, Stopping
<1>4. \A d \in CPU : stopper[d] # "move"
  BY <1>1, <1>2 DEF Both, IInv, Stopping
<1>5. Awaited(c, p)
  BY <1>2, Zenon DEF Both, PInv, Settling
<1>6. setaff.pc # "move" /\ setaff.pc # "idle" /\ stopper[c] # "idle"
  BY <1>1, <1>3
<1>7. \A q \in Task : on_rq[q] # TASK_ON_RQ_MIGRATING
  BY <1>4, <1>6, Zenon DEF Both, PInv, Mover
<1>8. CASE task_cpu[p] = c /\ on_rq[p] = TASK_ON_RQ_QUEUED /\ is_cpu_allowed(p, dest)
  <2>1. /\ MoveOut(p, dest) /\ stopper' = [stopper EXCEPT ![c] = "move"]
        /\ work' = work /\ setaff' = setaff
    BY <1>8, Zenon DEF migration_cpu_stop
  <2>2. dest \in cpus_allowed[p] /\ dest \in cpu_online
    BY <1>8, Zenon DEF is_cpu_allowed, Both, IInv, CpuTypes
  <2> HIDE DEF p, dest
  <2>3. /\ Misplaced' \subseteq Misplaced /\ p \notin Misplaced' /\ Woken' /\ DeadCpuEmpty'
        /\ \A w \in Waker : ttwu'[w].pc = "queue" => task_cpu'[ttwu'[w].task] \in cpu_online
        /\ task_cpu'[p] = dest
        /\ \A q \in Task : q # p => on_rq'[q] = on_rq[q] /\ task_cpu'[q] = task_cpu[q]
    BY <1>1, <1>3, <1>8, <2>1, <2>2, Departs, Zenon
  <2>4. stopper'[c] = "move" /\ \A d \in CPU : stopper'[d] = "move" => d = c
    BY <1>4, <2>1, Zenon DEF Both, IInv, StopTypes
  <2>5. Placed'
    BY <1>1, <1>6, <2>1, <2>2, <2>3, <2>4, Zenon DEF Placed, p
  <2>6. Mover'
    BY <1>7, <2>1, <2>3, <2>4, Zenon DEF Mover, p
  <2>7. Arriving'
    BY <1>6, <2>1, <2>3, <2>4, Zenon DEF Arriving, p
  <2>8. Awaited(c, p)'
    BY <1>1, <1>5, <2>1, <2>3, Zenon DEF Awaited, p
  <2>9. Settling'
    BY <1>2, <2>1, <2>8, Zenon DEF Settling, p
  <2> QED BY <1>6, <2>1, <2>3, <2>5, <2>6, <2>7, <2>9, Zenon DEF PInv, Honours
<1>9. CASE ~(task_cpu[p] = c /\ on_rq[p] = TASK_ON_RQ_QUEUED /\ is_cpu_allowed(p, dest))
  <2>1. StopDone(c) /\ UNCHANGED <<on_rq, rq, task_cpu>>
    BY <1>9, Zenon DEF migration_cpu_stop
  <2>2. \A d \in CPU : work'[d] = NULL /\ stopper'[d] # "move"
    BY <1>2, <1>4, <2>1 DEF StopDone, Both, IInv, StopTypes
  <2>3. setaff'.task = NULL /\ setaff'.pc = "idle" /\ setaff'.pc # "move"
    BY <2>1 DEF StopDone, NoCall, At
  <2>4. Placed'
    <3>1. DeadCpuEmpty'
      BY <1>1, <2>1, Zenon DEF Both, PInv, Placed, DeadCpuEmpty
    <3> QED BY <1>1, <2>1, <2>2, <2>3, <3>1, Zenon DEF Both, PInv, Placed
  <2>5. Woken'
    BY <1>1, <2>1, StillPlaced, Zenon DEF Both, PInv
  <2>6. Mover'
    BY <1>7, <2>1, Zenon DEF Mover
  <2>7. Arriving' /\ Settling'
    BY <2>2, <2>3, Zenon DEF Arriving, Settling
  <2>8. Misplaced' = Misplaced
    BY <1>1, <2>1, Zenon DEF Misplaced
  <2>9. p \in Misplaced => setaff.dest \notin cpu_active
    BY <1>5, <1>6, <1>9, Zenon DEF Awaited, is_cpu_allowed
  <2> HIDE DEF p
  <2>10. Honours
    BY <1>3, <2>8, <2>9, Zenon DEF Honours
  <2> QED BY <2>4, <2>5, <2>6, <2>7, <2>10, Zenon DEF PInv
<1> QED BY <1>8, <1>9, Zenon

\* __set_cpus_allowed_ptr returns at once, moves the task or asks the migration
\* thread to.
LEMMA Put_set_cpus_allowed ==
    ASSUME Both, NEW p \in Task, NEW mask \in SUBSET CPU, NEW dest \in CPU,
           set_cpus_allowed(p, mask, dest)
    PROVE  PInv' /\ Honours
<1> DEFINE c == task_cpu[p]
<1>1. /\ setaff.pc = "idle" /\ ~PiLocked(p) /\ on_rq[p] # TASK_ON_RQ_MIGRATING
      /\ dest \in mask /\ dest \in cpu_active
      /\ cpus_allowed' = [cpus_allowed EXCEPT ![p] = mask]
      /\ UNCHANGED <<state, curr, wake_list, cpu_online, ttwu, stopper>>
  BY Zenon DEF set_cpus_allowed, ipiVars, cpuVars
<1>2. /\ cpus_allowed'[p] = mask
      /\ \A q \in Task : q # p => cpus_allowed'[q] = cpus_allowed[q]
  BY <1>1, Zenon DEF Both, IInv, TaskTypes
<1>3. /\ \A d \in CPU : work[d] = NULL
      /\ setaff.task = NULL /\ setaff.task # p /\ setaff.pc # "move"
  BY <1>1, SmpAssumption DEF Both, IInv, Stopping, PInv, Arriving, SmpAssumption
<1>4. \A d \in CPU : stopper[d] = "idle" /\ stopper[d] # "move"
  BY <1>3 DEF Both, IInv, Stopping
<1>5. \A q \in Task : on_rq[q] # TASK_ON_RQ_MIGRATING
  BY <1>3, <1>4, Zenon DEF Both, PInv, Mover
<1>6. c \in CPU /\ dest \in cpu_online
  BY <1>1 DEF Both, IInv, TaskTypes, CpuTypes
<1>7. CASE c \notin mask /\ (on_cpu[p] \/ state[p] = TASK_WAKING)
  <2>1. /\ setaff' = [pc |-> "stop", task |-> p, dest |-> dest]
        /\ work' = [work EXCEPT ![c] = [task |-> p, dest |-> dest]]
        /\ UNCHANGED <<on_rq, rq, task_cpu>>
    BY <1>7, Zenon DEF set_cpus_allowed
  <2>2. setaff'.pc = "stop" /\ setaff'.task = p /\ setaff'.dest = dest
    BY <2>1
  <2>3. setaff'.pc # "move" /\ setaff'.pc # "idle"
    BY <2>2
  <2>4. /\ work'[c].task = p /\ work'[c].dest = dest
        /\ \A d \in CPU : d # c => work'[d] = NULL
    BY <1>3, <1>6, <2>1 DEF Both, IInv, StopTypes
  <2>5. Placed'
    <3>1. DeadCpuEmpty'
      BY <1>1, <2>1, Zenon DEF Both, PInv, Placed, DeadCpuEmpty
    <3> QED BY <1>1, <1>4, <2>1, <2>3, <3>1, Zenon DEF Both, PInv, Placed
  <2>6. Woken'
    BY <1>1, <2>1, StillPlaced, Zenon DEF Both, PInv
  <2>7. Mover' /\ Arriving'
    BY <1>1, <1>4, <1>5, <2>1, <2>3, Zenon DEF Mover, Arriving
  <2>8. state[p] = TASK_WAKING => p \in wake_list[c]
    <3>1. ~ \E w \in Waker : ttwu[w].pc = "queue" /\ ttwu[w].task = p
      BY <1>1 DEF PiLocked
    <3> QED BY <3>1, Zenon DEF Both, PInv, Woken
  <2>9. Awaited(c, p)'
    <3>1. (setaff.dest = work[c].dest /\ work[c].dest \in cpus_allowed[p])'
      BY <1>1, <1>2, <2>1, <2>2, <2>4, Zenon
    <3>2. (task_cpu[p] = c)' /\ (state[p] = TASK_WAKING => p \in wake_list[c])' /\ (stopper[c] = "idle")'
      BY <1>1, <1>4, <1>6, <2>1, <2>8, Zenon
    <3> QED BY <3>1, <3>2, Zenon DEF Awaited
  <2>10. Settling'
    BY <2>1, <2>4, <2>9, Zenon DEF Settling
  <2> QED BY <2>3, <2>5, <2>6, <2>7, <2>10, Zenon DEF PInv, Honours
<1>8. CASE ~(c \notin mask /\ (on_cpu[p] \/ state[p] = TASK_WAKING))
           /\ c \notin mask /\ on_rq[p] = TASK_ON_RQ_QUEUED
  <2>1. /\ setaff' = [pc |-> "move", task |-> p, dest |-> dest]
        /\ MoveOut(p, dest) /\ work' = work
    BY <1>8, Zenon DEF set_cpus_allowed
  <2>2. setaff'.pc = "move" /\ setaff'.task = p /\ setaff'.pc # "idle"
    BY <2>1
  <2>3. /\ Misplaced' \subseteq Misplaced /\ p \notin Misplaced' /\ Woken' /\ DeadCpuEmpty'
        /\ \A w \in Waker : ttwu'[w].pc = "queue" => task_cpu'[ttwu'[w].task] \in cpu_online
        /\ task_cpu'[p] = dest
        /\ \A q \in Task : q # p => on_rq'[q] = on_rq[q] /\ task_cpu'[q] = task_cpu[q]
    BY <1>1, <1>2, <1>6, <1>8, <2>1, Departs, Zenon
  <2>4. Placed'
    BY <1>1, <1>4, <1>6, <2>1, <2>2, <2>3, Zenon DEF Placed
  <2>5. Mover'
    BY <1>5, <2>2, <2>3, Zenon DEF Mover
  <2>6. Arriving'
    BY <1>1, <1>4, <2>2, <2>3, Zenon DEF Arriving
  <2>7. Settling'
    BY <1>3, <2>1, Zenon DEF Settling
  <2> QED BY <2>2, <2>3, <2>4, <2>5, <2>6, <2>7, Zenon DEF PInv, Honours
<1>9. CASE ~(c \notin mask /\ (on_cpu[p] \/ state[p] = TASK_WAKING))
           /\ ~(c \notin mask /\ on_rq[p] = TASK_ON_RQ_QUEUED)
  <2>1. UNCHANGED <<setaff, work, on_rq, rq, task_cpu>>
    BY <1>9, Zenon DEF set_cpus_allowed
  <2>2. c \in mask \/ (state[p] # TASK_WAKING /\ on_rq[p] = OffRq)
    BY <1>1, <1>9 DEF Both, IInv, TaskTypes
  <2>3. p \notin Misplaced'
    BY <1>1, <1>2, <2>1, <2>2, Zenon DEF Misplaced
  <2>4. Quiet
    BY <1>1, <1>2, <2>1, <2>3, Zenon DEF Quiet, Misplaced
  <2>5. Placed' /\ Woken' /\ Mover' /\ Arriving'
    BY <1>1, <2>1, <2>4, StillPlaced, Zenon DEF Both, PInv
  <2>6. Settling'
    BY <1>3, <2>1, Zenon DEF Settling
  <2>7. Honours
    BY <1>3, <2>4, SmpAssumption, Zenon DEF Honours, Quiet, Misplaced, SmpAssumption
  <2> QED BY <2>5, <2>6, <2>7, Zenon DEF PInv
<1> QED BY <1>7, <1>8, <1>9, Zenon

\* migrate_tasks puts every task it takes away on an active CPU of its mask.
LEMMA Put_sched_cpu_dying ==
    ASSUME Both, NEW c \in CPU, sched_cpu_dying(c)
    PROVE  PInv' /\ Quiet
<1> DEFINE all == rq[c] \cup wake_list[c]
<1> DEFINE gone == Migrated(all)
<1>1. /\ c \notin cpu_active /\ work[c] = NULL /\ setaff.pc # "move"
      /\ \A d \in CPU : stopper[d] # "move"
      /\ \A w \in Waker : ttwu[w].pc \in {"idle", "call"}
      /\ on_rq' = [p \in Task |-> IF p \in all THEN TASK_ON_RQ_QUEUED ELSE on_rq[p]]
      /\ state' = [p \in Task |-> IF p \in wake_list[c] THEN TASK_RUNNING ELSE state[p]]
      /\ cpus_allowed' = [p \in Task |-> IF p \in gone THEN FallbackMask(p) ELSE cpus_allowed[p]]
      /\ wake_list' = [wake_list EXCEPT ![c] = {}]
      /\ curr' = [curr EXCEPT ![c] = Idle] /\ cpu_online' = cpu_online \ {c}
      /\ UNCHANGED <<ttwu, setaff, work, stopper>>
  BY Zenon DEF sched_cpu_dying, stopVars
<1>2. PICK to \in [gone -> CPU] :
        /\ \A p \in gone : to[p] \in select_fallback_rq(p)
        /\ task_cpu' = [p \in Task |-> IF p \in gone THEN to[p] ELSE task_cpu[p]]
        /\ rq' = [d \in CPU |-> IF d = c THEN all \ gone
                                ELSE rq[d] \cup {p \in gone : to[p] = d}]
  BY Zenon DEF sched_cpu_dying
<1>3. gone \subseteq all /\ all \subseteq Task /\ all \ gone \subseteq Ts
  BY DEF Migrated, Both, IInv, RqTypes, WakeTypes
<1>4. /\ \A p \in rq[c] : on_rq[p] = TASK_ON_RQ_QUEUED
      /\ \A p \in wake_list[c] : state[p] = TASK_WAKING
  BY Zenon DEF Both, IInv, QueueAgrees, RqTypes, Listed
<1> HIDE DEF gone
<1>5. ASSUME NEW p \in gone
      PROVE  /\ p \in Task /\ task_cpu'[p] \in cpu_active
             /\ task_cpu'[p] \in FallbackMask(p) /\ cpus_allowed'[p] = FallbackMask(p)
  BY <1>1, <1>2, <1>3, Zenon DEF select_fallback_rq
<1>6. \A p \in Task : p \notin gone => task_cpu'[p] = task_cpu[p] /\ cpus_allowed'[p] = cpus_allowed[p]
  BY <1>1, <1>2, Zenon
<1>7. /\ \A p \in Task : p \notin all => on_rq'[p] = on_rq[p]
      /\ \A p \in Task : p \in all => on_rq'[p] = TASK_ON_RQ_QUEUED
      /\ \A p \in Task : p \notin wake_list[c] => state'[p] = state[p]
      /\ \A p \in wake_list[c] : p \in Task => state'[p] = TASK_RUNNING
  BY <1>1, Zenon
<1>8. \A p \in Task : /\ state'[p] = TASK_WAKING => p \notin wake_list[c] /\ state[p] = TASK_WAKING
                      /\ on_rq[p] = TASK_ON_RQ_QUEUED => on_rq'[p] = TASK_ON_RQ_QUEUED
                      /\ on_rq'[p] = TASK_ON_RQ_MIGRATING => on_rq[p] = TASK_ON_RQ_MIGRATING
                      /\ on_rq'[p] # OffRq => on_rq[p] # OffRq \/ state[p] = TASK_WAKING
  BY <1>4, <1>7 DEF TASK_RUNNING, TASK_WAKING, TASK_ON_RQ_QUEUED, TASK_ON_RQ_MIGRATING, OffRq
<1> HIDE DEF all
<1>9. \A p \in gone : p \notin Misplaced'
  BY <1>5, Zenon DEF Misplaced
<1>10. Quiet
  BY <1>1, <1>6, <1>8, <1>9, Zenon DEF Quiet, Misplaced
<1>11. wake_list'[c] = {} /\ \A d \in CPU : d # c => wake_list'[d] = wake_list[d]
  BY <1>1, Zenon DEF Both, IInv, WakeTypes
<1>12. Woken'
  <2>1. ASSUME NEW p \in Task, state'[p] = TASK_WAKING
        PROVE  p \in wake_list'[task_cpu'[p]]
    <3>1. p \notin wake_list[c] /\ state[p] = TASK_WAKING
      BY <1>8, <2>1, Zenon
    <3>2. p \in wake_list[task_cpu[p]]
      BY <1>1, <3>1 DEF Both, PInv, Woken
    <3>3. p \notin rq[c]
      BY <1>4, <3>1 DEF Both, IInv, OffState, OffRq, TASK_ON_RQ_QUEUED
    <3>4. p \notin gone
      BY <1>3, <3>1, <3>3, Zenon DEF all
    <3> QED BY <1>6, <1>11, <3>1, <3>2, <3>4, Zenon DEF Both, IInv, TaskTypes
  <2> QED BY <2>1, Zenon DEF Woken
<1>13. Mover'
  BY <1>1, <1>8, Zenon DEF Both, PInv, Mover
<1>14. Arriving'
  BY <1>1, <1>10, StillPlaced, Zenon DEF Both, PInv
<1>15. \A p \in Task : cpus_allowed[p] \subseteq cpus_allowed'[p]
  <2>1. \A p \in Task : cpus_allowed[p] \subseteq FallbackMask(p)
    BY DEF FallbackMask, Both, IInv, TaskTypes
  <2> QED BY <1>5, <1>6, <2>1, Zenon
<1>16. Settling'
  <2>1. \A d \in CPU : work[d] # NULL => work[d].task \in Task /\ d # c
    BY <1>1 DEF Both, IInv, StopTypes
  <2> QED BY <1>1, <1>6, <1>8, <1>9, <1>10, <1>11, <1>15, <2>1, StillAwaited, Zenon
         DEF Both, IInv, PInv
<1>17. DeadCpuEmpty'
  <2>1. ASSUME NEW d \in CPU \ cpu_online'
        PROVE  rq'[d] \subseteq Ts /\ curr'[d] = Idle /\ wake_list'[d] = {}
    <3>1. CASE d = c
      BY <1>1, <1>2, <1>3, <1>11, <3>1, Zenon DEF Both, IInv, RqTypes
    <3>2. CASE d # c
      <4>1. d \notin cpu_online /\ d \notin cpu_active
        BY <1>1, <3>2 DEF Both, IInv, CpuTypes
      <4>2. rq[d] \subseteq Ts /\ curr[d] = Idle /\ wake_list[d] = {}
        BY <4>1, Zenon DEF Both, PInv, Placed, DeadCpuEmpty
      <4>3. {p \in gone : to[p] = d} = {}
        BY <1>2, <4>1, Zenon DEF select_fallback_rq
      <4>4. rq'[d] = rq[d]
        BY <1>2, <3>2, <4>3
      <4>5. curr'[d] = curr[d]
        BY <1>1, <3>2, Zenon DEF Both, IInv, RqTypes
      <4> QED BY <1>11, <3>2, <4>2, <4>4, <4>5, Zenon
    <3> QED BY <3>1, <3>2, Zenon
  <2> QED BY <2>1, Zenon DEF DeadCpuEmpty
<1>18. Placed'
  <2>1. \A w \in Waker : ttwu[w].pc # "queue"
    BY <1>1
  <2> QED BY <1>1, <1>17, <2>1, Zenon DEF Placed
<1> QED BY <1>10, <1>12, <1>13, <1>14, <1>16, <1>18, Zenon DEF PInv

\* A CPU that comes back is empty or holds SCHED_TS tasks.
LEMMA Put_sched_cpu_activate ==
    ASSUME Both, NEW c \in CPU, sched_cpu_activate(c)
    PROVE  PInv' /\ Quiet
<1>1. /\ cpu_online \subseteq cpu_online'
      /\ UNCHANGED <<taskVars, rqVars, ipiVars, ttwu, setaff, stopVars>>
  BY Zenon DEF sched_cpu_activate
<1>2. Quiet /\ Woken' /\ Mover' /\ Settling'
  BY <1>1, StillPlaced, Zenon DEF Both, PInv, taskVars, rqVars, ipiVars, stopVars
<1>3. Arriving'
  BY <1>1, <1>2, StillPlaced, Zenon DEF Both, PInv, stopVars
<1>4. DeadCpuEmpty'
  BY <1>1, Zenon DEF Both, PInv, Placed, DeadCpuEmpty, rqVars, ipiVars
<1>5. Placed'
  BY <1>1, <1>4, Zenon DEF Both, PInv, Placed, taskVars, stopVars
<1> QED BY <1>2, <1>3, <1>5, Zenon DEF PInv

-----------------------------------------------------------------------------
\* At boot every task is queued on its CPU and nobody moves.
LEMMA InitPlaced == Init => PInv
<1> SUFFICES ASSUME Init PROVE PInv
  OBVIOUS
<1>1. setaff.pc = "idle" /\ setaff.task = NULL /\ \A w \in Waker : ttwu[w].pc = "idle"
  BY DEF Init, NoCall, At
<1>2. setaff.pc # "move" /\ \A w \in Waker : ttwu[w].pc # "queue"
  BY <1>1
<1>3. \A c \in CPU : stopper[c] # "move" /\ work[c] = NULL
  BY DEF Init
<1>4. \A p \in Task : state[p] # TASK_WAKING /\ on_rq[p] # TASK_ON_RQ_MIGRATING
  BY DEF Init, TASK_RUNNING, TASK_WAKING, TASK_ON_RQ_QUEUED, TASK_ON_RQ_MIGRATING
<1>5. DeadCpuEmpty
  BY Zenon DEF Init, DeadCpuEmpty
<1>6. Placed
  BY <1>2, <1>3, <1>5, Zenon DEF Placed
<1>7. Woken /\ Mover
  BY <1>4, Zenon DEF Woken, Mover
<1>8. Arriving /\ Settling
  BY <1>1, <1>2, <1>3, Zenon DEF Arriving, Settling
<1> QED BY <1>6, <1>7, <1>8, Zenon DEF PInv

\* A quiet step honours every mask.
LEMMA QuietHonours ==
    ASSUME Both, Quiet
    PROVE  Honours
BY SmpAssumption, Zenon DEF Both, PInv, Arriving, Quiet, Honours, Misplaced, SmpAssumption

\* Every step keeps the invariant and honours every mask.
LEMMA NextPlaced == Both /\ [Next]_vars => PInv' /\ (Honours \/ UNCHANGED vars)
<1> SUFFICES ASSUME Both, [Next]_vars PROVE PInv' /\ (Honours \/ UNCHANGED vars)
  OBVIOUS
<1>1. CASE UNCHANGED vars
  <2>1. UNCHANGED <<taskVars, rqVars, ipiVars, ttwu, setaff, stopVars, cpuVars>>
    BY <1>1, Zenon DEF vars
  <2>2. Quiet /\ Placed' /\ Woken' /\ Mover' /\ Settling'
    BY <2>1, StillPlaced, Zenon DEF Both, PInv, taskVars, rqVars, ipiVars, stopVars, cpuVars
  <2>3. Arriving'
    BY <2>1, <2>2, StillPlaced, Zenon DEF Both, PInv, stopVars
  <2> QED BY <1>1, <2>2, <2>3, Zenon DEF PInv
<1>2. ASSUME NEW c \in CPU,
             \/ set_current_state(c) \/ test_condition(c) \/ schedule(c)
             \/ preempt_schedule(c) \/ finish_task(c) \/ scheduler_ipi(c)
             \/ StopperStep(c) \/ sched_cpu_deactivate(c) \/ sched_cpu_dying(c)
             \/ sched_cpu_activate(c)
      PROVE  PInv' /\ Honours
  BY <1>2, QuietHonours, Put_set_current_state, Put_test_condition, Put_schedule,
     Put_preempt_schedule, Put_finish_task, Put_scheduler_ipi, Put_stop_pending,
     Put_migration_cpu_stop, Put_migration_cpu_move, Put_sched_cpu_deactivate,
     Put_sched_cpu_dying, Put_sched_cpu_activate, Zenon DEF StopperStep
<1>3. ASSUME NEW w \in Waker, WakerStep(w)
      PROVE  PInv' /\ Honours
  BY <1>3, QuietHonours, Put_ttwu_lock, Put_ttwu_on_rq, Put_ttwu_remote, Put_ttwu_select,
     Put_ttwu_queue, Put_ttwu_queue_remote, Zenon DEF WakerStep
<1>4. ASSUME NEW w \in Waker, NEW p \in Task, wake_up_process(w, p)
      PROVE  PInv' /\ Honours
  BY <1>4, QuietHonours, Put_wake_up_process, Zenon
<1>5. ASSUME NEW p \in Task, set_cpus_allowed_move(p)
      PROVE  PInv' /\ Honours
  BY <1>5, Put_set_cpus_allowed_move, Zenon
<1>6. ASSUME NEW p \in Task, NEW mask \in SUBSET CPU, NEW dest \in CPU,
             set_cpus_allowed(p, mask, dest)
      PROVE  PInv' /\ Honours
  BY <1>6, Put_set_cpus_allowed, Zenon
<1> QED BY <1>1, <1>2, <1>3, <1>4, <1>5, <1>6, Zenon DEF Next

\* Both invariants hold in every reachable state.
THEOREM Placement == Spec => []Both
<1>1. Init => Both
  BY InitInv, InitPlaced, Zenon DEF Both
<1>2. Both /\ [Next]_vars => Both'
  BY NextInv, NextPlaced, Zenon DEF Both
<1> QED BY <1>1, <1>2, PTL DEF Spec

\* sched_cpu_dying leaves nothing but SCHED_TS tasks on a dead CPU, and no wakeup,
\* migration or affinity change ever puts another task there.
THEOREM DeadCpusStayEmpty == Spec => []DeadCpuEmpty
<1>1. Both => DeadCpuEmpty
  BY Zenon DEF Both, PInv, Placed
<1> QED BY <1>1, Placement, PTL

\* When __set_cpus_allowed_ptr returns its task is not runnable outside the new
\* mask, unless the destination was deactivated, and no step puts a task there.
THEOREM MasksAreHonoured == Spec => AffinityHonoured
<1>1. Both /\ [Next]_vars => [Honours]_vars
  BY NextPlaced, Zenon
<1> QED BY <1>1, Placement, PTL DEF Spec, AffinityHonoured

-----------------------------------------------------------------------------
(* The calls in flight are counted by the wakers that make them.           *)

\* A set of wakers is finite.
LEMMA WakersFinite ==
    ASSUME NEW p \in Task
    PROVE  IsFiniteSet(WakersOf(p)) /\ IsFiniteSet(WakersOf(p)')
<1>1. WakersOf(p) \subseteq Waker /\ WakersOf(p)' \subseteq Waker
  BY Zenon DEF WakersOf
<1> QED BY <1>1, FS_Subset, SmpAssumption, Zenon DEF SmpAssumption

\* A waker that is inside try_to_wake_up for p is counted.
LEMMA CallCounted ==
    ASSUME NEW p \in Task, NEW w \in WakersOf(p)
    PROVE  CallsInFlight[p] \in Nat /\ CallsInFlight[p] > 0
<1>1. Cardinality(WakersOf(p)) \in Nat
  BY WakersFinite, FS_CardinalityType, Zenon
<1>2. Cardinality(WakersOf(p)) # 0
  BY WakersFinite, FS_EmptySet, Zenon
<1> QED BY <1>1, <1>2 DEF CallsInFlight

\* wake_up_process: one more call for p.
LEMMA CallBegins ==
    ASSUME NEW w \in Waker, NEW p \in Task, ttwu \in [Waker -> Call],
           ttwu[w] = NoCall, ttwu' = [ttwu EXCEPT ![w] = At("call", p)]
    PROVE  CallsInFlight' = [CallsInFlight EXCEPT ![p] = @ + 1]
<1>1. WakersOf(p)' = WakersOf(p) \cup {w} /\ w \notin WakersOf(p)
  BY SmpAssumption DEF WakersOf, At, NoCall, SmpAssumption
<1>2. Cardinality(WakersOf(p)') = Cardinality(WakersOf(p)) + 1
  BY <1>1, WakersFinite, FS_AddElement, Zenon
<1>3. \A q \in Task : q # p => WakersOf(q)' = WakersOf(q)
  BY SmpAssumption DEF WakersOf, At, NoCall, SmpAssumption
<1> QED BY <1>2, <1>3, Zenon DEF CallsInFlight

\* A return from try_to_wake_up: one call less for p.
LEMMA CallEnds ==
    ASSUME NEW w \in Waker, NEW p \in Task, ttwu \in [Waker -> Call],
           ttwu[w].task = p, ttwu' = [ttwu EXCEPT ![w] = NoCall]
    PROVE  /\ CallsInFlight[p] > 0
           /\ CallsInFlight' = [CallsInFlight EXCEPT ![p] = @ - 1]
<1>0. w \in WakersOf(p)
  BY Zenon DEF WakersOf
<1>1. WakersOf(p)' = WakersOf(p) \ {w}
  BY SmpAssumption, Zenon DEF WakersOf, At, NoCall, SmpAssumption
<1>2. Cardinality(WakersOf(p)') = Cardinality(WakersOf(p)) - 1
  BY <1>0, <1>1, WakersFinite, FS_RemoveElement, Zenon
<1>3. \A q \in Task : q # p => WakersOf(q)' = WakersOf(q)
  BY SmpAssumption, Zenon DEF WakersOf, At, NoCall, SmpAssumption
<1>4. CallsInFlight' = [CallsInFlight EXCEPT ![p] = @ - 1]
  BY <1>2, <1>3, Zenon DEF CallsInFlight
<1> QED BY <1>0, <1>4, CallCounted, Zenon

\* Inside try_to_wake_up nothing is counted.
LEMMA CallGoesOn ==
    ASSUME NEW w \in Waker, NEW pc, ttwu \in [Waker -> Call],
           ttwu' = [ttwu EXCEPT ![w] = At(pc, ttwu[w].task)]
    PROVE  CallsInFlight' = CallsInFlight
<1>1. \A q \in Task : WakersOf(q)' = WakersOf(q)
  BY Zenon DEF WakersOf, At
<1> QED BY <1>1, Zenon DEF CallsInFlight

LEMMA CallsKept ==
    ASSUME ttwu' = ttwu
    PROVE  CallsInFlight' = CallsInFlight
BY DEF CallsInFlight, WakersOf

-----------------------------------------------------------------------------
(* The stacks in use and the sleeping tasks.                               *)

\* A stack in use belongs to a task of that CPU, which is marked on_cpu and
\* does not sleep unless it is on its way out.
LEMMA StackIsLocal ==
    ASSUME IInv, NEW c \in CPU, NEW p \in StacksInUse[c]
    PROVE  p \in Task /\ task_cpu[p] = c /\ on_cpu[p]
<1>1. p \in Task /\ (p = curr[c] \/ p = prev[c])
  BY Zenon DEF StacksInUse
<1>2. CASE p = curr[c]
  BY <1>1, <1>2, Zenon DEF IInv, QueueAgrees
<1>3. CASE p = prev[c]
  BY <1>1, <1>3, SmpAssumption, Zenon DEF IInv, Leaving, SmpAssumption
<1> QED BY <1>1, <1>2, <1>3, Zenon

\* The task a CPU runs is not asleep.
LEMMA RunnerIsAwake ==
    ASSUME IInv, NEW c \in CPU, curr[c] \in Task
    PROVE  /\ on_rq[curr[c]] = TASK_ON_RQ_QUEUED /\ curr[c] \notin Asleep
           /\ curr[c] \in StacksInUse[c]
BY DEF IInv, QueueAgrees, Asleep, StacksInUse, TASK_ON_RQ_QUEUED, OffRq

LEMMA StacksKept ==
    ASSUME curr' = curr, prev' = prev
    PROVE  StacksInUse' = StacksInUse
BY DEF StacksInUse

\* A step that moves tasks between QUEUED and MIGRATING puts nobody to sleep.
LEMMA AsleepKept ==
    ASSUME \A p \in Task : (state'[p] = TASK_UNINTERRUPTIBLE /\ on_rq'[p] = OffRq) <=>
                           (state[p] = TASK_UNINTERRUPTIBLE /\ on_rq[p] = OffRq)
    PROVE  Asleep' = Asleep
BY DEF Asleep

-----------------------------------------------------------------------------
(* One lemma per action.                                                   *)

AbstractStep == Contract!Next \/ UNCHANGED Contract!vars

\* Steps the contract does not see.
LEMMA Unseen ==
    ASSUME StacksInUse' = StacksInUse, Asleep' = Asleep, cond' = cond,
           CallsInFlight' = CallsInFlight
    PROVE  AbstractStep
BY DEF AbstractStep, Contract!vars

LEMMA Ref_set_current_state ==
    ASSUME IInv, NEW c \in CPU, set_current_state(c)
    PROVE  AbstractStep
<1>1. Asleep' = Asleep
  <2>1. on_rq[curr[c]] = TASK_ON_RQ_QUEUED
    BY RunnerIsAwake, Zenon DEF set_current_state, Running
  <2> QED BY <2>1, AsleepKept, Zenon DEF IInv, TaskTypes, set_current_state,
     TASK_ON_RQ_QUEUED, OffRq
<1>2. StacksInUse' = StacksInUse /\ cond' = cond /\ CallsInFlight' = CallsInFlight
  BY StacksKept, CallsKept, Zenon DEF set_current_state, rqVars
<1> QED BY <1>1, <1>2, Unseen, Zenon

LEMMA Ref_scheduler_ipi ==
    ASSUME IInv, NEW c \in CPU, scheduler_ipi(c)
    PROVE  AbstractStep
<1>1. Asleep' = Asleep
  BY AsleepKept, Zenon DEF IInv, TaskTypes, Listed, scheduler_ipi, sched_ttwu_pending,
     ttwu_do_activate, TASK_RUNNING, TASK_UNINTERRUPTIBLE, TASK_WAKING,
     TASK_ON_RQ_QUEUED, OffRq
<1>2. StacksInUse' = StacksInUse /\ cond' = cond /\ CallsInFlight' = CallsInFlight
  BY StacksKept, CallsKept, Zenon DEF scheduler_ipi, waitVars
<1> QED BY <1>1, <1>2, Unseen, Zenon

LEMMA Ref_stop_pending ==
    ASSUME IInv, NEW c \in CPU, stop_pending(c)
    PROVE  AbstractStep
<1>1. Asleep' = Asleep
  BY AsleepKept, Zenon DEF IInv, TaskTypes, Listed, stop_pending, sched_ttwu_pending,
     ttwu_do_activate, TASK_RUNNING, TASK_UNINTERRUPTIBLE, TASK_WAKING,
     TASK_ON_RQ_QUEUED, OffRq
<1>2. StacksInUse' = StacksInUse /\ cond' = cond /\ CallsInFlight' = CallsInFlight
  BY StacksKept, CallsKept, Zenon DEF stop_pending, waitVars
<1> QED BY <1>1, <1>2, Unseen, Zenon

LEMMA Ref_migration_cpu_stop ==
    ASSUME IInv, NEW c \in CPU, migration_cpu_stop(c)
    PROVE  AbstractStep
<1>1. Asleep' = Asleep
  BY AsleepKept, Zenon DEF IInv, TaskTypes, migration_cpu_stop, MoveOut,
     TASK_ON_RQ_QUEUED, TASK_ON_RQ_MIGRATING, OffRq
<1>2. StacksInUse' = StacksInUse /\ cond' = cond /\ CallsInFlight' = CallsInFlight
  BY StacksKept, CallsKept, Zenon DEF migration_cpu_stop, waitVars
<1> QED BY <1>1, <1>2, Unseen, Zenon

LEMMA Ref_migration_cpu_move ==
    ASSUME IInv, NEW c \in CPU, migration_cpu_move(c)
    PROVE  AbstractStep
<1>1. Asleep' = Asleep
  BY AsleepKept, Zenon DEF IInv, TaskTypes, Moving, migration_cpu_move, MoveIn,
     TASK_ON_RQ_QUEUED, TASK_ON_RQ_MIGRATING, OffRq
<1>2. StacksInUse' = StacksInUse /\ cond' = cond /\ CallsInFlight' = CallsInFlight
  BY StacksKept, CallsKept, Zenon DEF migration_cpu_move, waitVars
<1> QED BY <1>1, <1>2, Unseen, Zenon

LEMMA Ref_set_cpus_allowed_move ==
    ASSUME IInv, NEW p \in Task, set_cpus_allowed_move(p)
    PROVE  AbstractStep
<1>1. Asleep' = Asleep
  BY AsleepKept, Zenon DEF IInv, TaskTypes, Moving, set_cpus_allowed_move, MoveIn,
     TASK_ON_RQ_QUEUED, TASK_ON_RQ_MIGRATING, OffRq
<1>2. StacksInUse' = StacksInUse /\ cond' = cond /\ CallsInFlight' = CallsInFlight
  BY StacksKept, CallsKept, Zenon DEF set_cpus_allowed_move, waitVars
<1> QED BY <1>1, <1>2, Unseen, Zenon

LEMMA Ref_set_cpus_allowed ==
    ASSUME IInv, NEW p \in Task, NEW mask, NEW dest, set_cpus_allowed(p, mask, dest)
    PROVE  AbstractStep
<1>1. Asleep' = Asleep
  BY AsleepKept, Zenon DEF IInv, TaskTypes, set_cpus_allowed, MoveOut,
     TASK_ON_RQ_QUEUED, TASK_ON_RQ_MIGRATING, OffRq
<1>2. StacksInUse' = StacksInUse /\ cond' = cond /\ CallsInFlight' = CallsInFlight
  BY StacksKept, CallsKept, Zenon DEF set_cpus_allowed, waitVars
<1> QED BY <1>1, <1>2, Unseen, Zenon

LEMMA Ref_sched_cpu_deactivate ==
    ASSUME IInv, NEW c \in CPU, sched_cpu_deactivate(c)
    PROVE  AbstractStep
<1>1. Asleep' = Asleep
  BY Zenon DEF Asleep, sched_cpu_deactivate, taskVars
<1>2. StacksInUse' = StacksInUse /\ cond' = cond /\ CallsInFlight' = CallsInFlight
  BY StacksKept, CallsKept, Zenon DEF sched_cpu_deactivate, waitVars, rqVars
<1> QED BY <1>1, <1>2, Unseen, Zenon

LEMMA Ref_sched_cpu_activate ==
    ASSUME IInv, NEW c \in CPU, sched_cpu_activate(c)
    PROVE  AbstractStep
<1>1. Asleep' = Asleep
  BY Zenon DEF Asleep, sched_cpu_activate, taskVars
<1>2. StacksInUse' = StacksInUse /\ cond' = cond /\ CallsInFlight' = CallsInFlight
  BY StacksKept, CallsKept, Zenon DEF sched_cpu_activate, waitVars, rqVars
<1> QED BY <1>1, <1>2, Unseen, Zenon

LEMMA Ref_test_condition ==
    ASSUME IInv, NEW c \in CPU, test_condition(c)
    PROVE  AbstractStep
<1>0. on_rq[curr[c]] = TASK_ON_RQ_QUEUED /\ curr[c] \notin Asleep /\ curr[c] \in StacksInUse[c]
  BY RunnerIsAwake, Zenon DEF test_condition, Running
<1>1. curr[c] \in Task
  BY Zenon DEF test_condition, Running
<1>2. StacksInUse' = StacksInUse /\ CallsInFlight' = CallsInFlight
  BY StacksKept, CallsKept, Zenon DEF test_condition, rqVars
<1>3. Asleep' = Asleep
  <2>1. state' = state \/ state' = [state EXCEPT ![curr[c]] = TASK_RUNNING]
    BY Zenon DEF test_condition
  <2>2. on_rq' = on_rq
    BY Zenon DEF test_condition
  <2> QED BY <1>0, <2>1, <2>2, AsleepKept, Zenon DEF IInv, TaskTypes, TASK_ON_RQ_QUEUED,
     OffRq
<1>4. CASE cond[curr[c]]
  <2>1. cond' = [cond EXCEPT ![curr[c]] = FALSE]
    BY <1>4, Zenon DEF test_condition
  <2>2. Contract!Consume(curr[c])
    BY <1>0, <1>2, <1>3, <1>4, <2>1, Zenon DEF Contract!Consume, Contract!InUse
  <2> QED BY <1>1, <2>2, Zenon DEF AbstractStep, Contract!Next
<1>5. CASE ~cond[curr[c]]
  <2>1. cond' = cond
    BY <1>5, Zenon DEF test_condition
  <2> QED BY <1>2, <1>3, <2>1, Unseen, Zenon
<1> QED BY <1>4, <1>5, Zenon

\* A context switch: the next task is awake and no CPU uses its stack.
LEMMA NextIsFree ==
    ASSUME IInv, NEW c \in CPU, ~Switching(c), NEW next \in rq[c], next # curr[c]
    PROVE  next \in Task \ (Asleep \cup Contract!InUse)
<1>1. next \in Task /\ on_rq[next] = TASK_ON_RQ_QUEUED /\ task_cpu[next] = c
  BY Zenon DEF IInv, RqTypes, QueueAgrees
<1>2. next \notin Asleep
  BY <1>1, Zenon DEF Asleep, TASK_ON_RQ_QUEUED, OffRq
<1>3. ASSUME NEW d \in CPU, next \in StacksInUse[d] PROVE FALSE
  <2>1. d = c
    BY <1>1, <1>3, StackIsLocal, Zenon
  <2> QED BY <1>1, <1>3, <2>1, SmpAssumption, Zenon DEF StacksInUse, Switching,
     SmpAssumption
<1> QED BY <1>1, <1>2, <1>3, Zenon DEF Contract!InUse

\* prepare_task as the contract sees it.
LEMMA SwitchesStack ==
    ASSUME IInv, NEW c \in CPU, ~Switching(c), NEW next, NEW queue,
           queue \subseteq rq[c], next \in {Idle, Stop} \cup queue,
           prepare_task(c, next, queue)
    PROVE  \E new \in SUBSET (Task \ (Asleep \cup Contract!InUse)) :
               StacksInUse' = [StacksInUse EXCEPT ![c] = @ \cup new]
<1>0. next \in Task \cup {Idle, Stop} /\ curr[c] \in Task \cup {Idle, Stop}
  BY Zenon DEF IInv, RqTypes
<1>1. \A d \in CPU : d # c => StacksInUse'[d] = StacksInUse[d]
  BY Zenon DEF IInv, RqTypes, prepare_task, StacksInUse
<1>2. StacksInUse'[c] = {next, IF curr[c] \in Task /\ next # curr[c] THEN curr[c] ELSE NULL} \cap Task
  BY Zenon DEF IInv, RqTypes, prepare_task, StacksInUse
<1>3. StacksInUse[c] = {curr[c]} \cap Task
  BY SmpAssumption, Zenon DEF StacksInUse, Switching, SmpAssumption
<1>4. StacksInUse'[c] = StacksInUse[c] \cup ({next} \cap (Task \ {curr[c]}))
  BY <1>0, <1>2, <1>3, SmpAssumption, Zenon DEF SmpAssumption
<1>5. {next} \cap (Task \ {curr[c]}) \subseteq Task \ (Asleep \cup Contract!InUse)
  BY NextIsFree, SmpAssumption, Zenon DEF SmpAssumption
<1>6. StacksInUse' = [StacksInUse EXCEPT ![c] = @ \cup ({next} \cap (Task \ {curr[c]}))]
  BY <1>1, <1>4, Zenon DEF StacksInUse
<1> QED BY <1>5, <1>6, Zenon

\* The contract's Switch when nobody falls asleep.
LEMMA NobodyBlocks ==
    ASSUME NEW c \in CPU, Asleep' = Asleep
    PROVE  \E blocked \in SUBSET StacksInUse[c] :
               /\ \A q \in blocked : cond[q] => CallsInFlight[q] > 0
               /\ Asleep' = Asleep \cup blocked
<1>1. {} \in SUBSET StacksInUse[c] /\ Asleep' = Asleep \cup {}
  OBVIOUS
<1> QED BY <1>1, Zenon

LEMMA Ref_schedule ==
    ASSUME IInv, NEW c \in CPU, schedule(c)
    PROVE  AbstractStep
<1> DEFINE p == curr[c]
<1> DEFINE queue == IF state[p] # TASK_RUNNING THEN rq[c] \ {p} ELSE rq[c]
<1>0. p \in Task /\ ~Switching(c) /\ p \in StacksInUse[c] /\ on_rq[p] = TASK_ON_RQ_QUEUED
  BY RunnerIsAwake, Zenon DEF schedule, Running
<1>1. PICK next \in pick_next_task(c, queue) : prepare_task(c, next, queue)
  BY Zenon DEF schedule
<1>2. next \in {Idle, Stop} \cup queue /\ queue \subseteq rq[c]
  BY <1>1, Zenon DEF pick_next_task
<1>3. \E new \in SUBSET (Task \ (Asleep \cup Contract!InUse)) :
          StacksInUse' = [StacksInUse EXCEPT ![c] = @ \cup new]
  BY <1>0, <1>1, <1>2, SwitchesStack, Zenon
<1>4. cond' = cond /\ CallsInFlight' = CallsInFlight
  BY CallsKept, Zenon DEF schedule
<1>5. \E blocked \in SUBSET StacksInUse[c] :
          /\ \A q \in blocked : cond[q] => CallsInFlight[q] > 0
          /\ Asleep' = Asleep \cup blocked
  <2>1. CASE state[p] = TASK_RUNNING
    <3>1. Asleep' = Asleep
      BY <2>1, Zenon DEF Asleep, schedule
    <3> QED BY <3>1, NobodyBlocks, Zenon
  <2>2. CASE state[p] # TASK_RUNNING
    <3>1. state[p] = TASK_UNINTERRUPTIBLE
      BY <1>0, <2>2, Zenon DEF IInv, TaskTypes, OffState, TASK_ON_RQ_QUEUED, OffRq
    <3>2. on_rq' = [on_rq EXCEPT ![p] = OffRq] /\ state' = state
      BY <2>2, Zenon DEF schedule
    <3>3. Asleep' = Asleep \cup {p}
      BY <1>0, <3>1, <3>2, Zenon DEF Asleep, IInv, TaskTypes
    <3>4. cond[p] => CallsInFlight[p] > 0
      <4>1. ASSUME cond[p] PROVE CallsInFlight[p] > 0
        <5>1. loc[p] # "test"
          BY Zenon DEF schedule
        <5>2. PICK w \in Waker : ttwu[w].task = p
          BY <1>0, <3>1, <4>1, <5>1, Zenon DEF IInv, Attended
        <5> QED BY <1>0, <5>2, CallCounted, Zenon DEF WakersOf
      <4> QED BY <4>1, Zenon
    <3> HIDE DEF p
    <3> QED BY <1>0, <3>3, <3>4, Zenon
  <2> QED BY <2>1, <2>2, Zenon
<1>6. Contract!Switch(c)
  BY <1>3, <1>4, <1>5, Zenon DEF Contract!Switch
<1> QED BY <1>6, Zenon DEF AbstractStep, Contract!Next

LEMMA Ref_preempt_schedule ==
    ASSUME IInv, NEW c \in CPU, preempt_schedule(c)
    PROVE  AbstractStep
<1>1. PICK next \in pick_next_task(c, rq[c]) : prepare_task(c, next, rq[c])
  BY Zenon DEF preempt_schedule
<1>2. next \in {Idle, Stop} \cup rq[c] /\ ~Switching(c)
  BY <1>1, Zenon DEF pick_next_task, preempt_schedule
<1>3. \E new \in SUBSET (Task \ (Asleep \cup Contract!InUse)) :
          StacksInUse' = [StacksInUse EXCEPT ![c] = @ \cup new]
  BY <1>1, <1>2, SwitchesStack, Zenon
<1>4. Asleep' = Asleep /\ cond' = cond /\ CallsInFlight' = CallsInFlight
  BY CallsKept, Zenon DEF preempt_schedule, waitVars, Asleep
<1>5. Contract!Switch(c)
  BY <1>3, <1>4, NobodyBlocks, Zenon DEF Contract!Switch
<1> QED BY <1>5, Zenon DEF AbstractStep, Contract!Next

\* Leaving a stack.
LEMMA LeavesStack ==
    ASSUME NEW c \in CPU, NEW gone \in SUBSET StacksInUse[c],
           StacksInUse' = [StacksInUse EXCEPT ![c] = @ \ gone],
           Asleep' = Asleep, cond' = cond, CallsInFlight' = CallsInFlight
    PROVE  AbstractStep
BY DEF AbstractStep, Contract!Next, Contract!Leave

LEMMA Ref_finish_task ==
    ASSUME IInv, NEW c \in CPU, finish_task(c)
    PROVE  AbstractStep
<1>1. prev[c] \in Task /\ prev[c] # curr[c]
  BY DEF IInv, RqTypes, Leaving, finish_task, Switching
<1>2. StacksInUse' = [StacksInUse EXCEPT ![c] = @ \ {prev[c]}]
  <2>1. curr' = curr /\ prev' = [prev EXCEPT ![c] = NULL]
    BY Zenon DEF finish_task
  <2>2. \A d \in CPU : d # c => StacksInUse'[d] = StacksInUse[d]
    BY <2>1, Zenon DEF IInv, RqTypes, StacksInUse
  <2>3. StacksInUse'[c] = {curr[c], NULL} \cap Task
    BY <2>1, Zenon DEF IInv, RqTypes, StacksInUse
  <2>4. StacksInUse[c] = {curr[c], prev[c]} \cap Task
    BY Zenon DEF StacksInUse
  <2>5. StacksInUse'[c] = StacksInUse[c] \ {prev[c]}
    BY <1>1, <2>3, <2>4, SmpAssumption, Zenon DEF SmpAssumption
  <2> QED BY <2>2, <2>5, Zenon DEF StacksInUse
<1>3. {prev[c]} \subseteq StacksInUse[c]
  BY <1>1, Zenon DEF StacksInUse
<1>4. Asleep' = Asleep /\ cond' = cond /\ CallsInFlight' = CallsInFlight
  BY CallsKept, Zenon DEF finish_task, waitVars, Asleep
<1>5. {prev[c]} \in SUBSET StacksInUse[c]
  BY <1>3, Zenon
<1> QED BY <1>2, <1>4, <1>5, LeavesStack, Zenon

LEMMA Ref_sched_cpu_dying ==
    ASSUME IInv, NEW c \in CPU, sched_cpu_dying(c)
    PROVE  AbstractStep
<1>1. StacksInUse' = [StacksInUse EXCEPT ![c] = @ \ StacksInUse[c]]
  <2>1. curr' = [curr EXCEPT ![c] = Idle] /\ prev' = prev /\ prev[c] = NULL
    BY Zenon DEF sched_cpu_dying, Switching
  <2>2. \A d \in CPU : d # c => StacksInUse'[d] = StacksInUse[d]
    BY <2>1, Zenon DEF IInv, RqTypes, StacksInUse
  <2>3. StacksInUse'[c] = {Idle, NULL} \cap Task
    BY <2>1, Zenon DEF IInv, RqTypes, StacksInUse
  <2>4. StacksInUse'[c] = {}
    BY <2>3, SmpAssumption, Zenon DEF SmpAssumption
  <2> QED BY <2>2, <2>4, Zenon DEF StacksInUse
<1>2. Asleep' = Asleep
  <2>1. \A p \in rq[c] : on_rq[p] = TASK_ON_RQ_QUEUED
    BY Zenon DEF IInv, QueueAgrees, RqTypes
  <2>2. \A p \in wake_list[c] : state[p] = TASK_WAKING
    BY Zenon DEF IInv, Listed
  <2>3. on_rq' = [p \in Task |-> IF p \in rq[c] \cup wake_list[c]
                                 THEN TASK_ON_RQ_QUEUED ELSE on_rq[p]]
    BY Zenon DEF sched_cpu_dying
  <2>4. state' = [p \in Task |-> IF p \in wake_list[c] THEN TASK_RUNNING ELSE state[p]]
    BY Zenon DEF sched_cpu_dying
  <2> QED BY <2>1, <2>2, <2>3, <2>4, AsleepKept, Zenon
          DEF TASK_RUNNING, TASK_UNINTERRUPTIBLE, TASK_WAKING, TASK_ON_RQ_QUEUED, OffRq
<1>3. cond' = cond /\ CallsInFlight' = CallsInFlight
  BY CallsKept, Zenon DEF sched_cpu_dying, waitVars
<1> QED BY <1>1, <1>2, <1>3, LeavesStack, Zenon

LEMMA Ref_wake_up_process ==
    ASSUME IInv, NEW w \in Waker, NEW p \in Task, wake_up_process(w, p)
    PROVE  AbstractStep
<1>1. CallsInFlight' = [CallsInFlight EXCEPT ![p] = @ + 1]
  BY CallBegins, Zenon DEF IInv, WakeTypes, Wakers, wake_up_process
<1>2. StacksInUse' = StacksInUse /\ Asleep' = Asleep
  BY StacksKept, Zenon DEF wake_up_process, rqVars, taskVars, Asleep
<1>3. Contract!Call(p)
  BY <1>1, <1>2, Zenon DEF Contract!Call, wake_up_process
<1> QED BY <1>3, Zenon DEF AbstractStep, Contract!Next

\* A call that returns while its task is not asleep.
LEMMA ReturnsAwake ==
    ASSUME IInv, NEW w \in Waker, ttwu[w].task \in Task, ttwu[w].task \notin Asleep,
           ttwu' = [ttwu EXCEPT ![w] = NoCall],
           StacksInUse' = StacksInUse, Asleep' = Asleep, cond' = cond
    PROVE  AbstractStep
<1>1. /\ CallsInFlight[ttwu[w].task] > 0
      /\ CallsInFlight' = [CallsInFlight EXCEPT ![ttwu[w].task] = @ - 1]
  BY CallEnds, Zenon DEF IInv, WakeTypes
<1>2. Contract!Return(ttwu[w].task)
  BY <1>1, Zenon DEF Contract!Return
<1> QED BY <1>2, Zenon DEF AbstractStep, Contract!Next

LEMMA Ref_ttwu_lock ==
    ASSUME IInv, NEW w \in Waker, ttwu_lock(w)
    PROVE  AbstractStep
<1>1. StacksInUse' = StacksInUse /\ Asleep' = Asleep /\ cond' = cond
  BY StacksKept, Zenon DEF ttwu_lock, taskVars, rqVars, waitVars, Asleep
<1>2. ttwu[w].task \in Task
  BY Zenon DEF IInv, Wakers, ttwu_lock
<1>3. CASE state[ttwu[w].task] = TASK_UNINTERRUPTIBLE
  <2>1. ttwu' = [ttwu EXCEPT ![w] = At("on_rq", ttwu[w].task)]
    BY <1>3, Zenon DEF ttwu_lock
  <2>2. CallsInFlight' = CallsInFlight
    BY <2>1, CallGoesOn, Zenon DEF IInv, WakeTypes
  <2> QED BY <1>1, <2>2, Unseen, Zenon
<1>4. CASE state[ttwu[w].task] # TASK_UNINTERRUPTIBLE
  <2>1. ttwu' = [ttwu EXCEPT ![w] = NoCall]
    BY <1>4, Zenon DEF ttwu_lock
  <2>2. ttwu[w].task \notin Asleep
    BY <1>4, Zenon DEF Asleep
  <2> QED BY <1>1, <1>2, <2>1, <2>2, ReturnsAwake, Zenon
<1> QED BY <1>3, <1>4, Zenon

LEMMA Ref_ttwu_on_rq ==
    ASSUME IInv, NEW w \in Waker, ttwu_on_rq(w)
    PROVE  AbstractStep
<1>1. StacksInUse' = StacksInUse /\ Asleep' = Asleep /\ cond' = cond
  BY StacksKept, Zenon DEF ttwu_on_rq, taskVars, rqVars, waitVars, Asleep
<1>2. CallsInFlight' = CallsInFlight
  BY CallGoesOn, Zenon DEF IInv, WakeTypes, ttwu_on_rq
<1> QED BY <1>1, <1>2, Unseen, Zenon

LEMMA Ref_ttwu_remote ==
    ASSUME IInv, NEW w \in Waker, ttwu_remote(w)
    PROVE  AbstractStep
<1>1. StacksInUse' = StacksInUse /\ cond' = cond
  BY StacksKept, Zenon DEF ttwu_remote, rqVars, waitVars
<1>2. ttwu[w].task \in Task
  BY Zenon DEF IInv, Wakers, Holds, ttwu_remote
<1>3. CASE on_rq[ttwu[w].task] = TASK_ON_RQ_QUEUED
  <2>1. ttwu' = [ttwu EXCEPT ![w] = NoCall]
    BY <1>3, Zenon DEF ttwu_remote
  <2>2. state' = [state EXCEPT ![ttwu[w].task] = TASK_RUNNING] /\ on_rq' = on_rq
    BY <1>3, Zenon DEF ttwu_remote
  <2>3. ttwu[w].task \notin Asleep
    BY <1>3, Zenon DEF Asleep, TASK_ON_RQ_QUEUED, OffRq
  <2>4. Asleep' = Asleep
    BY <1>3, <2>2, AsleepKept, Zenon DEF IInv, TaskTypes, TASK_ON_RQ_QUEUED, OffRq
  <2> QED BY <1>1, <1>2, <2>1, <2>3, <2>4, ReturnsAwake, Zenon
<1>4. CASE on_rq[ttwu[w].task] # TASK_ON_RQ_QUEUED
  <2>1. ttwu' = [ttwu EXCEPT ![w] = At("on_cpu", ttwu[w].task)]
    BY <1>4, Zenon DEF ttwu_remote
  <2>2. state' = state /\ on_rq' = on_rq
    BY <1>4, Zenon DEF ttwu_remote
  <2>3. CallsInFlight' = CallsInFlight
    BY <2>1, CallGoesOn, Zenon DEF IInv, WakeTypes
  <2>4. Asleep' = Asleep
    BY <2>2, Zenon DEF Asleep
  <2> QED BY <1>1, <2>3, <2>4, Unseen, Zenon
<1> QED BY <1>3, <1>4, Zenon

LEMMA Ref_ttwu_select ==
    ASSUME IInv, NEW w \in Waker, ttwu_select(w)
    PROVE  AbstractStep
<1> DEFINE p == ttwu[w].task
<1>1. StacksInUse' = StacksInUse /\ cond' = cond
  BY StacksKept, Zenon DEF ttwu_select, rqVars, waitVars
<1>2. p \in Task /\ on_rq[p] = OffRq /\ state[p] # TASK_WAKING
  BY Zenon DEF IInv, Wakers, Holds, ttwu_select
<1>3. state[p] = TASK_UNINTERRUPTIBLE
  BY <1>2, Zenon DEF IInv, TaskTypes, OffState
<1>4. CallsInFlight' = CallsInFlight
  BY CallGoesOn, Zenon DEF IInv, WakeTypes, ttwu_select
<1>5. CallsInFlight[p] > 0
  BY <1>2, CallCounted, Zenon DEF WakersOf
<1>6. Asleep' = Asleep \ {p} /\ p \in Asleep
  <2>1. state' = [state EXCEPT ![p] = TASK_WAKING] /\ on_rq' = on_rq
    BY Zenon DEF ttwu_select
  <2> QED BY <1>2, <1>3, <2>1, Zenon DEF Asleep, IInv, TaskTypes, TASK_WAKING,
     TASK_UNINTERRUPTIBLE
<1>7. Contract!Wake(p)
  BY <1>1, <1>4, <1>5, <1>6, Zenon DEF Contract!Wake
<1> QED BY <1>2, <1>7, Zenon DEF AbstractStep, Contract!Next

LEMMA Ref_ttwu_queue ==
    ASSUME IInv, NEW w \in Waker, ttwu_queue(w)
    PROVE  AbstractStep
<1> DEFINE p == ttwu[w].task
<1>1. StacksInUse' = StacksInUse /\ cond' = cond
  BY StacksKept, Zenon DEF ttwu_queue, waitVars
<1>2. p \in Task /\ state[p] = TASK_WAKING
  BY Zenon DEF IInv, Wakers, Holds, ttwu_queue
<1>3. p \notin Asleep
  BY <1>2, Zenon DEF Asleep, TASK_WAKING, TASK_UNINTERRUPTIBLE
<1>4. Asleep' = Asleep
  <2>1. /\ on_rq' = [q \in Task |-> IF q \in {p} THEN TASK_ON_RQ_QUEUED ELSE on_rq[q]]
        /\ state' = [q \in Task |-> IF q \in {p} THEN TASK_RUNNING ELSE state[q]]
    BY Zenon DEF ttwu_queue, ttwu_do_activate
  <2> QED BY <1>2, <2>1, AsleepKept, Zenon
          DEF TASK_RUNNING, TASK_UNINTERRUPTIBLE, TASK_WAKING, TASK_ON_RQ_QUEUED, OffRq
<1>5. ttwu' = [ttwu EXCEPT ![w] = NoCall]
  BY Zenon DEF ttwu_queue
<1> QED BY <1>1, <1>2, <1>3, <1>4, <1>5, ReturnsAwake, Zenon

LEMMA Ref_ttwu_queue_remote ==
    ASSUME IInv, NEW w \in Waker, ttwu_queue_remote(w)
    PROVE  AbstractStep
<1>1. StacksInUse' = StacksInUse /\ Asleep' = Asleep /\ cond' = cond
  BY StacksKept, Zenon DEF ttwu_queue_remote, taskVars, rqVars, waitVars, Asleep
<1>2. ttwu[w].task \in Task /\ ttwu[w].task \notin Asleep
  BY Zenon DEF IInv, Wakers, Holds, ttwu_queue_remote, Asleep, TASK_WAKING,
     TASK_UNINTERRUPTIBLE
<1>3. ttwu' = [ttwu EXCEPT ![w] = NoCall]
  BY Zenon DEF ttwu_queue_remote
<1> QED BY <1>1, <1>2, <1>3, ReturnsAwake, Zenon

-----------------------------------------------------------------------------
\* The first states of the scheduler are first states of the contract.
LEMMA InitRefines == Init => Contract!Init
<1> SUFFICES ASSUME Init PROVE Contract!Init
  OBVIOUS
<1>1. StacksInUse = [c \in CPU |-> {}]
  BY SmpAssumption, Zenon DEF Init, StacksInUse, SmpAssumption
<1>2. Asleep = {}
  BY Zenon DEF Init, Asleep, TASK_RUNNING, TASK_UNINTERRUPTIBLE
<1>3. \A p \in Task : WakersOf(p) = {}
  BY SmpAssumption, Zenon DEF Init, WakersOf, NoCall, At, SmpAssumption
<1>4. CallsInFlight = [p \in Task |-> 0]
  BY <1>3, FS_EmptySet, Zenon DEF CallsInFlight
<1> QED BY <1>1, <1>2, <1>4, Zenon DEF Contract!Init, Init

\* Every step is a step of the contract or is not seen by it.
LEMMA NextRefines == IInv /\ [Next]_vars => [Contract!Next]_(Contract!vars)
<1> SUFFICES ASSUME IInv, [Next]_vars PROVE AbstractStep
  BY Zenon DEF AbstractStep
<1>1. CASE UNCHANGED vars
  <2>1. StacksInUse' = StacksInUse /\ CallsInFlight' = CallsInFlight
    BY <1>1, StacksKept, CallsKept, Zenon DEF vars, rqVars
  <2>2. Asleep' = Asleep /\ cond' = cond
    BY <1>1, Zenon DEF vars, taskVars, waitVars, Asleep
  <2> QED BY <2>1, <2>2, Unseen, Zenon
<1>2. ASSUME NEW c \in CPU,
             \/ set_current_state(c) \/ test_condition(c) \/ schedule(c)
             \/ preempt_schedule(c) \/ finish_task(c) \/ scheduler_ipi(c)
             \/ StopperStep(c) \/ sched_cpu_deactivate(c) \/ sched_cpu_dying(c)
             \/ sched_cpu_activate(c)
      PROVE  AbstractStep
  BY <1>2, Ref_set_current_state, Ref_test_condition, Ref_schedule,
     Ref_preempt_schedule, Ref_finish_task, Ref_scheduler_ipi, Ref_stop_pending,
     Ref_migration_cpu_stop, Ref_migration_cpu_move, Ref_sched_cpu_deactivate,
     Ref_sched_cpu_dying, Ref_sched_cpu_activate, Zenon, Zenon DEF StopperStep
<1>3. ASSUME NEW w \in Waker, WakerStep(w)
      PROVE  AbstractStep
  BY <1>3, Ref_ttwu_lock, Ref_ttwu_on_rq, Ref_ttwu_remote, Ref_ttwu_select,
     Ref_ttwu_queue, Ref_ttwu_queue_remote, Zenon, Zenon DEF WakerStep
<1>4. ASSUME NEW w \in Waker, NEW p \in Task, wake_up_process(w, p)
      PROVE  AbstractStep
  BY <1>4, Ref_wake_up_process, Zenon
<1>5. ASSUME NEW p \in Task, set_cpus_allowed_move(p)
      PROVE  AbstractStep
  BY <1>5, Ref_set_cpus_allowed_move, Zenon
<1>6. ASSUME NEW p \in Task, NEW mask \in SUBSET CPU, NEW dest \in CPU,
             set_cpus_allowed(p, mask, dest)
      PROVE  AbstractStep
  BY <1>6, Ref_set_cpus_allowed, Zenon
<1> QED BY <1>1, <1>2, <1>3, <1>4, <1>5, <1>6, Zenon DEF Next

\* try_to_wake_up, __schedule, finish_task_switch, the migration thread and
\* hotplug together keep the sleeper's contract: one CPU per stack, no task runs
\* while asleep, and no wakeup is lost.
THEOREM KeepsContract == Spec => ImplementsContract
<1>1. Init => Contract!Init
  BY InitRefines, Zenon
<1>2. IInv /\ [Next]_vars => [Contract!Next]_(Contract!vars)
  BY NextRefines, Zenon
<1> QED BY <1>1, <1>2, Invariance, PTL DEF Spec, ImplementsContract, Contract!Spec
=============================================================================
