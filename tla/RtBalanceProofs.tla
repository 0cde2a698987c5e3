-------------------------- MODULE RtBalanceProofs --------------------------
(***************************************************************************)
(* Proof that push and pull balancing of real-time tasks never corrupts    *)
(* the run queues, for any number of CPUs and tasks and any affinities:    *)
(* push_rt_task and pull_rt_task drop the run queue lock, and what they    *)
(* check again once they have it is enough.  And that it does its work: no *)
(* task is left waiting for a CPU with less important work.  IInv is the   *)
(* inductive invariant of the first part, BalanceInv what the second adds. *)
(***************************************************************************)
EXTENDS RtBalance, FiniteSetTheorems, WellFoundedInduction, NaturalsInduction, TLAPS

\* The operations in which a CPU holds its own run queue lock: the parts of
\* schedule.
Switching == {"pull", "tell", "scan", "unlock", "pullnext", "pick"}

\* A CPU in operation o holds the lock of c.
Holds(o, a, c) ==
    /\ o # NULL
    /\ \/ o.pc = "push" /\ o.rq = c
       \/ o.pc \in Switching /\ a = c

\* ... is between dropping its current task and picking the next one.
Leaving(o) == o # NULL /\ (o.pc \in Switching \/ o.pc = "pulltake")

LockInv == \A c \in CPU : lock[c] # NULL => Holds(op[lock[c]], lock[c], c)

PlaceInv == \A p \in Task : cpu[p] \in Allowed(p)

\* The first conjunct of PushableAgrees.
PushInv ==
    \A c \in CPU : \A p \in pushable[c] :
        p \in queued /\ cpu[p] = c /\ curr[c] # p /\ Migratory(p)

\* A current task belongs to the CPU that runs it, and is queued there until
\* that CPU switches away from it.
CurrInv ==
    \A c \in CPU : curr[c] # IDLE =>
        cpu[curr[c]] = c /\ (curr[c] \in queued \/ Leaving(op[c]))

\* p->pi_lock: a task is woken by one CPU at a time, sleeps and runs nowhere.
\* The CPU chosen for it is one it may use.
Wakes(a, p) == At(a, "wake") /\ op[a].task = p
WakeInv ==
    \A a \in CPU : \A p \in Task : Wakes(a, p) =>
        /\ p \notin queued /\ op[a].rq \in Allowed(p)
        /\ \A c \in CPU : curr[c] # p
        /\ \A b \in CPU : Wakes(b, p) => b = a

IInv == TypeOK /\ LockInv /\ PlaceInv /\ PushInv /\ CurrInv /\ WakeInv

-----------------------------------------------------------------------------
\* The operators of the model.

\* Min of a nonempty set of naturals is one of its members.
LEMMA MinIn ==
    ASSUME NEW T \in SUBSET Nat, T # {}
    PROVE  Min(T) \in T
<1>1. PICK m \in T : \A n \in T : ~(<<n, m>> \in OpToRel(<, Nat))
  BY NatLessThanWellFounded, WFMin, Zenon
<1>2. \A n \in T : n < m => <<n, m>> \in OpToRel(<, Nat)
  BY SMT DEF OpToRel
<1>3. \A n \in T : ~(n < m)
  BY <1>1, <1>2, Zenon
<1>4. \A n \in T : m <= n
  BY <1>3, SMT
<1> QED BY <1>4, Zenon DEF Min

LEMMA Idle == IDLE \in Nat /\ IDLE \notin Task /\ Task \subseteq Nat
BY BalanceAssumption, SMT DEF BalanceAssumption, IDLE

LEMMA Cpus == CPU \subseteq Nat /\ \A c \in CPU : c \in -1 .. N - 1
BY BalanceAssumption, SMT DEF BalanceAssumption, CPU

LEMMA NullApart == NULL \notin CPU /\ NULL \notin Op
BY BalanceAssumption, Zenon DEF BalanceAssumption

LEMMA AllowedIsCPU == \A p \in Task : Allowed(p) \subseteq CPU
<1>1. \A p \in Task : p % N \in CPU
  BY BalanceAssumption, SMT DEF BalanceAssumption, CPU
<1> QED BY <1>1, Zenon DEF Allowed

\* highest_prio and find_lowest_rq.
LEMMA HighestPrio ==
    ASSUME TypeOK, NEW c \in CPU
    PROVE  highest_prio(c) \in OnRq(c) \cup {IDLE}
<1> DEFINE S == OnRq(c) \cup {IDLE}
<1>1. queued \subseteq Task
  BY Zenon DEF TypeOK
<1>2. S \in SUBSET Nat /\ S # {}
  BY <1>1, Idle, Zenon DEF OnRq
<1> HIDE DEF S
<1>3. Min(S) \in S
  BY <1>2, MinIn, Zenon
<1> QED BY <1>3, Zenon DEF S, highest_prio

LEMMA Lowest ==
    ASSUME NEW p \in Task
    PROVE  find_lowest_rq(p) \subseteq Allowed(p)
BY Zenon DEF find_lowest_rq

\* The fields an operation has.
LEMMA OpFields ==
    ASSUME NEW o \in Op
    PROVE  /\ o.pc = "wake" => o.task \in Task /\ o.rq \in CPU
           /\ o.pc = "callback" => o.rq \in CPU /\ o.after \in {"done", "rto"}
           /\ o.pc = "push" => o.rq \in CPU /\ o.retry \in BOOLEAN /\ o.after \in {"done", "rto"}
           /\ o.pc = "push2" => /\ o.rq \in CPU /\ o.task \in Task /\ o.target \in CPU
                                /\ o.tries \in 1 .. RT_MAX_TRIES /\ o.after \in {"done", "rto"}
           /\ o.pc = "pullnext" => o.at \in -1 .. N - 1
           /\ o.pc = "pulltake" => o.src \in CPU
           /\ o.pc = "unlock" => o.cpu \in -1 .. N - 1
BY SMT DEF Op

LEMMA OpAt ==
    ASSUME TypeOK, NEW a \in CPU, NEW pc, At(a, pc)
    PROVE  op[a] \in Op /\ op[a].pc = pc
BY Zenon DEF TypeOK, At

\* Every operation that a step begins.
LEMMA OpMade ==
    /\ \A pc \in {"pull", "pick", "tell", "scan", "rto"} : [pc |-> pc] \in Op
    /\ \A p \in Task, c \in CPU : [pc |-> "wake", task |-> p, rq |-> c] \in Op
    /\ \A c \in CPU, f \in {"done", "rto"} : [pc |-> "callback", rq |-> c, after |-> f] \in Op
    /\ \A c \in CPU, r \in BOOLEAN, f \in {"done", "rto"} :
          [pc |-> "push", rq |-> c, retry |-> r, after |-> f] \in Op
    /\ \A c \in CPU, p \in Task, t \in CPU, n \in 1 .. RT_MAX_TRIES, f \in {"done", "rto"} :
          [pc |-> "push2", rq |-> c, task |-> p, target |-> t, tries |-> n, after |-> f] \in Op
    /\ \A c \in -1 .. N - 1 : [pc |-> "pullnext", at |-> c] \in Op
    /\ \A c \in CPU : [pc |-> "pulltake", src |-> c] \in Op
    /\ \A c \in -1 .. N - 1 : [pc |-> "unlock", cpu |-> c] \in Op
BY SMT DEF Op

-----------------------------------------------------------------------------
\* What one step of CPU a does to op and lock: it goes to o, and takes or
\* releases locks.
Goes(a, o) ==
    /\ o \in Op \cup {NULL}
    /\ op' = [op EXCEPT ![a] = o]
    /\ lock' \in [CPU -> CPU \cup {NULL}]
    /\ \A c \in CPU : lock'[c] \in {lock[c], NULL, a}
    /\ \A c \in CPU : lock'[c] = a => Holds(o, a, c)
    /\ UNCHANGED setup

\* The variables of the IPI and need_resched carry no invariant but their type.
Typed ==
    /\ need_resched \subseteq CPU
    /\ rto \in [cpu : -1 .. N - 1, start : BOOLEAN, again : BOOLEAN]
    /\ irq_work \in CPU \cup {NULL} /\ lost \in BOOLEAN

LEMMA LocksKept ==
    ASSUME LockInv, TypeOK, NEW a \in CPU, NEW o, Goes(a, o)
    PROVE  LockInv'
<1> SUFFICES ASSUME NEW c \in CPU, lock'[c] # NULL
             PROVE  Holds(op'[lock'[c]], lock'[c], c)
  BY Zenon DEF LockInv, Holds
<1>1. lock'[c] \in CPU /\ lock'[c] \in {lock[c], NULL, a} /\ (lock'[c] = a => Holds(o, a, c))
  BY Zenon DEF Goes
<1>2. op' = [op EXCEPT ![a] = o] /\ op \in [CPU -> Op \cup {NULL}]
  BY Zenon DEF Goes, TypeOK
<1>3. CASE lock'[c] = a
  BY <1>1, <1>2, <1>3, Zenon
<1>4. CASE lock'[c] # a
  <2>1. lock'[c] = lock[c]
    BY <1>1, <1>4, Zenon
  <2>2. Holds(op[lock[c]], lock[c], c)
    BY <2>1, Zenon DEF LockInv
  <2>3. op'[lock[c]] = op[lock[c]]
    BY <1>1, <1>2, <1>4, <2>1, Zenon
  <2> QED BY <2>1, <2>2, <2>3, Zenon
<1> QED BY <1>3, <1>4, Zenon

LEMMA TypesKept ==
    ASSUME TypeOK, LockInv', NEW a \in CPU, NEW o, Goes(a, o), Typed',
           cpu' \in [Task -> CPU], queued' \subseteq Task,
           curr' \in [CPU -> Task \cup {IDLE}], pushable' \in [CPU -> SUBSET Task]
    PROVE  TypeOK'
<1>1. op' \in [CPU -> Op \cup {NULL}]
  BY Zenon DEF TypeOK, Goes
<1>2. lock' \in [CPU -> CPU \cup {NULL}]
  BY Zenon DEF Goes
<1>3. \A c \in CPU : lock'[c] # NULL => op'[lock'[c]] # NULL
  BY Zenon DEF LockInv, Holds
<1>4. RT_PUSH_IPI' \in BOOLEAN /\ pinned' \subseteq Task
  BY Zenon DEF TypeOK, Goes, setup
<1> QED BY <1>1, <1>2, <1>3, <1>4, Zenon DEF TypeOK, Typed

\* The affinities never change.
LEMMA SameAffinity ==
    ASSUME UNCHANGED setup
    PROVE  \A p : Allowed(p)' = Allowed(p) /\ Migratory(p)' = Migratory(p)
BY Zenon DEF setup, Allowed, Migratory

\* A step that begins no wakeup leaves the wakeups in progress alone, if it
\* queues or runs none of their tasks.
LEMMA WakesKept ==
    ASSUME TypeOK, WakeInv, NEW a \in CPU, NEW o, Goes(a, o), o # NULL => o.pc # "wake",
           \A b \in CPU : \A p \in Task : Wakes(b, p) /\ b # a =>
               p \notin queued' /\ \A c \in CPU : curr'[c] # p
    PROVE  WakeInv'
<1>1. op' = [op EXCEPT ![a] = o] /\ op \in [CPU -> Op \cup {NULL}]
  BY Zenon DEF Goes, TypeOK
<1>2. \A b \in CPU : \A p \in Task : Wakes(b, p)' => b # a /\ op'[b] = op[b] /\ Wakes(b, p)
  BY <1>1, Zenon DEF Wakes, At
<1>3. \A p : Allowed(p)' = Allowed(p)
  BY SameAffinity, Zenon DEF Goes
<1> QED BY <1>2, <1>3, Zenon DEF WakeInv

\* The steps that leave the run queues alone.
LEMMA OpStep ==
    ASSUME IInv, NEW a \in CPU, NEW o, Goes(a, o), Typed',
           UNCHANGED <<cpu, queued, curr, pushable>>,
           o # NULL => o.pc # "wake", Leaving(op[a]) => Leaving(o)
    PROVE  IInv'
<1>1. LockInv'
  BY LocksKept, Zenon DEF IInv
<1>2. TypeOK'
  BY <1>1, TypesKept, Zenon DEF IInv, TypeOK
<1>3. \A p : Allowed(p)' = Allowed(p) /\ Migratory(p)' = Migratory(p)
  BY SameAffinity, Zenon DEF Goes
<1>4. PlaceInv' /\ PushInv'
  BY <1>3, Zenon DEF IInv, PlaceInv, PushInv
<1>5. CurrInv'
  <2>1. op' = [op EXCEPT ![a] = o] /\ op \in [CPU -> Op \cup {NULL}]
    BY Zenon DEF Goes, IInv, TypeOK
  <2>2. \A c \in CPU : Leaving(op[c]) => Leaving(op'[c])
    BY <2>1, Zenon
  <2> QED BY <2>2, Zenon DEF IInv, CurrInv, Leaving
<1>6. WakeInv'
  <2>1. \A b \in CPU : \A p \in Task : Wakes(b, p) /\ b # a =>
               p \notin queued' /\ \A c \in CPU : curr'[c] # p
    BY Zenon DEF IInv, WakeInv
  <2> QED BY <2>1, WakesKept, Zenon DEF IInv
<1> QED BY <1>1, <1>2, <1>4, <1>5, <1>6, Zenon DEF IInv

\* A task that runs nowhere is moved to, or woken on, a CPU it may use:
\* dequeue_task_rt and enqueue_task_rt.
LEMMA MoveStep ==
    ASSUME IInv, NEW a \in CPU, NEW o, Goes(a, o), Typed',
           o # NULL => o.pc # "wake", Leaving(op[a]) => Leaving(o),
           NEW p \in Task, NEW t \in Allowed(p), MoveTo(p, t), curr' = curr,
           \A c \in CPU : curr[c] # p,
           \A b \in CPU : Wakes(b, p) => b = a
    PROVE  IInv'
<1>1. LockInv'
  BY LocksKept, Zenon DEF IInv
<1>2. t \in CPU
  BY AllowedIsCPU, Zenon
<1>3. cpu \in [Task -> CPU] /\ cpu' = [cpu EXCEPT ![p] = t] /\ queued' = queued \cup {p}
  BY Zenon DEF IInv, TypeOK, MoveTo
<1>4. pushable' = [d \in CPU |-> IF d = t /\ Migratory(p) /\ curr[t] # p
                                 THEN pushable[d] \cup {p} ELSE pushable[d] \ {p}]
  BY Zenon DEF MoveTo, enqueue_pushable_task
<1>5. pushable \in [CPU -> SUBSET Task]
  BY Zenon DEF IInv, TypeOK
<1>6. \A d \in CPU : pushable'[d] \subseteq pushable[d] \cup {p}
  BY <1>4, Zenon
<1>7. pushable' \in [CPU -> SUBSET Task]
  BY <1>4, <1>5, SMT
<1>8. TypeOK'
  <2>1. cpu' \in [Task -> CPU] /\ queued' \subseteq Task /\ curr' \in [CPU -> Task \cup {IDLE}]
    BY <1>2, <1>3, Zenon DEF IInv, TypeOK
  <2> QED BY <1>1, <1>7, <2>1, TypesKept, Zenon DEF IInv
<1>9. \A q : Allowed(q)' = Allowed(q) /\ Migratory(q)' = Migratory(q)
  BY SameAffinity, Zenon DEF Goes
<1>10. cpu'[p] = t /\ \A q \in Task : q # p => cpu'[q] = cpu[q]
  BY <1>3, Zenon
<1>11. PlaceInv'
  BY <1>9, <1>10, Zenon DEF IInv, PlaceInv
<1>12. PushInv'
  <2> SUFFICES ASSUME NEW d \in CPU, NEW q \in pushable'[d]
               PROVE  q \in queued' /\ cpu'[q] = d /\ curr'[d] # q /\ Migratory(q)'
    BY Zenon DEF PushInv
  <2>1. CASE q = p
    <3>1. d = t /\ Migratory(p)
      BY <1>4, <2>1, Zenon
    <3> QED BY <1>3, <1>9, <1>10, <2>1, <3>1, Zenon
  <2>2. CASE q # p
    <3>1. q \in pushable[d] /\ q \in Task
      BY <1>5, <1>6, <2>2, Zenon
    <3>2. q \in queued /\ cpu[q] = d /\ curr[d] # q /\ Migratory(q)
      BY <3>1, Zenon DEF IInv, PushInv
    <3> QED BY <1>3, <1>9, <1>10, <2>2, <3>1, <3>2, Zenon
  <2> QED BY <2>1, <2>2, Zenon
<1>13. CurrInv'
  <2>1. op' = [op EXCEPT ![a] = o] /\ op \in [CPU -> Op \cup {NULL}]
    BY Zenon DEF Goes, IInv, TypeOK
  <2>2. \A c \in CPU : Leaving(op[c]) => Leaving(op'[c])
    BY <2>1, Zenon
  <2>3. \A c \in CPU : curr[c] # IDLE => curr[c] \in Task /\ cpu'[curr[c]] = cpu[curr[c]]
    BY <1>10, Zenon DEF IInv, TypeOK
  <2> QED BY <1>3, <2>2, <2>3, Zenon DEF IInv, CurrInv, Leaving
<1>14. WakeInv'
  <2>1. \A b \in CPU : \A q \in Task : Wakes(b, q) /\ b # a =>
               q \notin queued' /\ \A c \in CPU : curr'[c] # q
    <3> SUFFICES ASSUME NEW b \in CPU, NEW q \in Task, Wakes(b, q), b # a
                 PROVE  q \notin queued' /\ \A c \in CPU : curr'[c] # q
      BY Zenon
    <3>1. q # p
      BY Zenon
    <3>2. q \notin queued /\ \A c \in CPU : curr[c] # q
      BY Zenon DEF IInv, WakeInv
    <3> QED BY <1>3, <3>1, <3>2, Zenon
  <2> QED BY <2>1, WakesKept, Zenon DEF IInv
<1> QED BY <1>1, <1>8, <1>11, <1>12, <1>13, <1>14, Zenon DEF IInv

-----------------------------------------------------------------------------
\* The four things a step does with the locks.

\* What LockInv says of the locks a holds.
LEMMA Held ==
    ASSUME IInv, NEW a \in CPU, NEW c \in CPU, lock[c] = a
    PROVE  Holds(op[a], a, c)
<1>1. lock[c] # NULL
  BY NullApart, Zenon
<1> QED BY <1>1, Zenon DEF IInv, LockInv

HoldsNone(a) == op[a] = NULL \/ op[a].pc \notin Switching \cup {"push"}

\* It holds none and takes none.
LEMMA GoesFree ==
    ASSUME IInv, NEW a \in CPU, HoldsNone(a), NEW o \in Op \cup {NULL},
           op' = [op EXCEPT ![a] = o], UNCHANGED <<lock, setup>>
    PROVE  Goes(a, o)
<1>1. \A c \in CPU : lock[c] # a
  BY Held, Zenon DEF HoldsNone, Holds
<1>2. lock \in [CPU -> CPU \cup {NULL}]
  BY Zenon DEF IInv, TypeOK
<1> QED BY <1>1, <1>2, Zenon DEF Goes

\* It holds none and takes that of r.
LEMMA GoesTaking ==
    ASSUME IInv, NEW a \in CPU, HoldsNone(a), NEW o \in Op \cup {NULL}, NEW r \in CPU,
           Holds(o, a, r), op' = [op EXCEPT ![a] = o], lock' = [lock EXCEPT ![r] = a], UNCHANGED setup
    PROVE  Goes(a, o)
<1>1. \A c \in CPU : lock[c] # a
  BY Held, Zenon DEF HoldsNone, Holds
<1>2. lock \in [CPU -> CPU \cup {NULL}]
  BY Zenon DEF IInv, TypeOK
<1>3. lock' \in [CPU -> CPU \cup {NULL}]
  BY <1>2, Zenon
<1>4. \A c \in CPU : lock'[c] = IF c = r THEN a ELSE lock[c]
  BY <1>2, Zenon
<1>5. \A c \in CPU : lock'[c] \in {lock[c], NULL, a} /\ (lock'[c] = a => c = r)
  BY <1>1, <1>4, Zenon
<1> QED BY <1>3, <1>5, Zenon DEF Goes

\* It holds that of r and releases it.
LEMMA GoesReleasing ==
    ASSUME IInv, NEW a \in CPU, NEW o \in Op \cup {NULL}, NEW r \in CPU,
           \A c \in CPU : Holds(op[a], a, c) => c = r,
           op' = [op EXCEPT ![a] = o], lock' = [lock EXCEPT ![r] = NULL], UNCHANGED setup
    PROVE  Goes(a, o)
<1>1. \A c \in CPU : lock[c] = a => c = r
  BY Held, Zenon
<1>2. lock \in [CPU -> CPU \cup {NULL}] /\ a # NULL
  BY NullApart, Zenon DEF IInv, TypeOK
<1>3. lock' \in [CPU -> CPU \cup {NULL}]
  BY <1>2, Zenon
<1>4. \A c \in CPU : lock'[c] = IF c = r THEN NULL ELSE lock[c]
  BY <1>2, Zenon
<1>5. \A c \in CPU : lock'[c] \in {lock[c], NULL, a} /\ lock'[c] # a
  BY <1>1, <1>2, <1>4, Zenon
<1> QED BY <1>3, <1>5, Zenon DEF Goes

\* It keeps its own run queue's.
LEMMA GoesOn ==
    ASSUME IInv, NEW a \in CPU, op[a].pc \in Switching, NEW o \in Op, o.pc \in Switching,
           op' = [op EXCEPT ![a] = o], UNCHANGED <<lock, setup>>
    PROVE  Goes(a, o)
<1>1. op[a].pc # "push"
  BY Zenon DEF Switching
<1>2. \A c \in CPU : lock[c] = a => c = a
  BY <1>1, Held, Zenon DEF Holds
<1>3. o # NULL
  BY NullApart, Zenon
<1>4. \A c \in CPU : lock[c] = a => Holds(o, a, c)
  BY <1>2, <1>3, Zenon DEF Holds
<1>5. lock \in [CPU -> CPU \cup {NULL}]
  BY Zenon DEF IInv, TypeOK
<1> QED BY <1>4, <1>5, Zenon DEF Goes

\* Typed, when the step writes none of its variables, or only need_resched.
LEMMA TypedKept ==
    ASSUME IInv, UNCHANGED rtoVars, need_resched' \subseteq CPU
    PROVE  Typed'
BY Zenon DEF IInv, TypeOK, Typed, rtoVars

LEMMA TypedMove ==
    ASSUME IInv, UNCHANGED <<rto, irq_work>>, lost' \in BOOLEAN, need_resched' \subseteq CPU
    PROVE  Typed'
BY Zenon DEF IInv, TypeOK, Typed

-----------------------------------------------------------------------------
\* Wakeups.

LEMMA WakeupInv ==
    ASSUME IInv, NEW a \in CPU, NEW p \in Task, try_to_wake_up(a, p)
    PROVE  IInv'
<1>1. op[a] = NULL /\ p \notin queued /\ curr[cpu[p]] # p /\ ~\E b \in CPU : Wakes(b, p)
  BY Zenon DEF try_to_wake_up, Wakes
<1>2. UNCHANGED <<cpu, queued, curr, pushable, need_resched>> /\ UNCHANGED <<lock, setup>> /\ UNCHANGED rtoVars
  BY Zenon DEF try_to_wake_up, rqVars, setup, rtoVars
<1>3. cpu[p] \in Allowed(p)
  BY Zenon DEF IInv, PlaceInv
<1>4. select_task_rq_rt(p) \subseteq Allowed(p)
  BY <1>3, Lowest, Zenon DEF select_task_rq_rt
<1>5. PICK c \in Allowed(p) : op' = [op EXCEPT ![a] = [pc |-> "wake", task |-> p, rq |-> c]]
  BY <1>4, Zenon DEF try_to_wake_up
<1> DEFINE o == [pc |-> "wake", task |-> p, rq |-> c]
<1>6. o \in Op
  BY OpMade, AllowedIsCPU, Zenon
<1>7. o.pc = "wake" /\ o.task = p /\ o.rq = c /\ op' = [op EXCEPT ![a] = o]
  BY <1>5, Zenon
<1> HIDE DEF o
<1>8. Goes(a, o)
  BY <1>1, <1>2, <1>6, <1>7, GoesFree, Zenon DEF HoldsNone
<1>9. LockInv'
  BY <1>8, LocksKept, Zenon DEF IInv
<1>10. Typed'
  BY <1>2, TypedKept, Zenon DEF IInv, TypeOK
<1>11. TypeOK'
  BY <1>2, <1>8, <1>9, <1>10, TypesKept, Zenon DEF IInv, TypeOK
<1>12. \A q : Allowed(q)' = Allowed(q) /\ Migratory(q)' = Migratory(q)
  BY <1>2, SameAffinity, Zenon
<1>13. PlaceInv' /\ PushInv'
  BY <1>2, <1>12, Zenon DEF IInv, PlaceInv, PushInv
<1>14. op \in [CPU -> Op \cup {NULL}]
  BY Zenon DEF IInv, TypeOK
<1>15. op'[a] = o /\ \A b \in CPU : b # a => op'[b] = op[b]
  BY <1>7, <1>14, Zenon
<1>16. CurrInv'
  <2>1. \A b \in CPU : Leaving(op[b]) => b # a
    BY <1>1, Zenon DEF Leaving
  <2>2. \A b \in CPU : Leaving(op[b]) => Leaving(op'[b])
    BY <1>15, <2>1, Zenon
  <2> QED BY <1>2, <2>2, Zenon DEF IInv, CurrInv, Leaving
<1>17. \A d \in CPU : curr[d] # p
  <2>1. \A d \in CPU : curr[d] = p => cpu[p] = d
    BY Idle, Zenon DEF IInv, CurrInv
  <2> QED BY <1>1, <2>1, Zenon
<1>18. \A b \in CPU, q \in Task : Wakes(b, q)' =>
          (b = a /\ q = p) \/ (b # a /\ q # p /\ Wakes(b, q))
  <2> SUFFICES ASSUME NEW b \in CPU, NEW q \in Task, Wakes(b, q)'
               PROVE  (b = a /\ q = p) \/ (b # a /\ q # p /\ Wakes(b, q))
    BY Zenon
  <2>1. op'[b] # NULL /\ op'[b].pc = "wake" /\ op'[b].task = q
    BY Zenon DEF Wakes, At
  <2>2. CASE b = a
    BY <1>7, <1>15, <2>1, <2>2, Zenon
  <2>3. CASE b # a
    <3>1. Wakes(b, q)
      BY <1>15, <2>1, <2>3, Zenon DEF Wakes, At
    <3> QED BY <1>1, <2>3, <3>1, Zenon
  <2> QED BY <2>2, <2>3, Zenon
<1>19. WakeInv'
  <2> SUFFICES ASSUME NEW b \in CPU, NEW q \in Task, Wakes(b, q)'
               PROVE  /\ q \notin queued' /\ op'[b].rq \in Allowed(q)'
                      /\ \A d \in CPU : curr'[d] # q
                      /\ \A d \in CPU : Wakes(d, q)' => d = b
    BY Zenon DEF WakeInv
  <2>1. CASE b = a /\ q = p
    <3>1. \A d \in CPU : Wakes(d, q)' => d = b
      BY <1>18, <2>1, Zenon
    <3> QED BY <1>1, <1>2, <1>7, <1>12, <1>15, <1>17, <2>1, <3>1, Zenon
  <2>2. CASE b # a /\ q # p /\ Wakes(b, q)
    <3>1. /\ q \notin queued /\ op[b].rq \in Allowed(q)
          /\ \A d \in CPU : curr[d] # q
          /\ \A d \in CPU : Wakes(d, q) => d = b
      BY <2>2, Zenon DEF IInv, WakeInv
    <3>2. \A d \in CPU : Wakes(d, q)' => Wakes(d, q)
      BY <1>18, <2>2, Zenon
    <3> QED BY <1>2, <1>12, <1>15, <2>2, <3>1, <3>2, Zenon
  <2> QED BY <1>18, <2>1, <2>2, Zenon
<1> QED BY <1>9, <1>11, <1>13, <1>16, <1>19, Zenon DEF IInv

LEMMA ActivateInv ==
    ASSUME IInv, NEW a \in CPU, ttwu_do_activate(a)
    PROVE  IInv'
<1> DEFINE p == op[a].task
           c == op[a].rq
           new == [pc |-> "push", rq |-> c, retry |-> FALSE, after |-> "done"]
<1>1. op[a] \in Op /\ op[a].pc = "wake" /\ At(a, "wake")
  BY OpAt, Zenon DEF ttwu_do_activate, IInv
<1>2. p \in Task /\ c \in CPU
  BY <1>1, OpFields, Zenon
<1>3. Wakes(a, p)
  BY <1>1, Zenon DEF Wakes
<1>4. c \in Allowed(p) /\ (\A d \in CPU : curr[d] # p) /\ (\A b \in CPU : Wakes(b, p) => b = a)
  BY <1>2, <1>3, Zenon DEF IInv, WakeInv
<1>5. HoldsNone(a) /\ ~Leaving(op[a])
  BY <1>1, Zenon DEF HoldsNone, Leaving, Switching
<1>6. MoveTo(p, c) /\ curr' = curr /\ UNCHANGED rtoVars /\ UNCHANGED setup
  BY Zenon DEF ttwu_do_activate
<1>7. need_resched' \subseteq CPU
  BY <1>2, Zenon DEF ttwu_do_activate, IInv, TypeOK
<1>8. Typed'
  BY <1>6, <1>7, TypedKept, Zenon
<1>9. \/ lock' = [lock EXCEPT ![c] = a] /\ op' = [op EXCEPT ![a] = new]
      \/ op' = [op EXCEPT ![a] = NULL] /\ lock' = lock
  BY Zenon DEF ttwu_do_activate, Done
<1>10. new \in Op /\ new.pc = "push" /\ new.rq = c
  BY <1>2, OpMade, Zenon
<1> HIDE DEF new, p, c
<1>11. CASE lock' = [lock EXCEPT ![c] = a] /\ op' = [op EXCEPT ![a] = new]
  <2>1. Holds(new, a, c) /\ new.pc # "wake"
    BY <1>10, NullApart, SMT DEF Holds
  <2>2. Goes(a, new)
    BY <1>2, <1>5, <1>6, <1>10, <1>11, <2>1, GoesTaking, Zenon
  <2> QED BY <1>2, <1>4, <1>5, <1>6, <1>8, <2>1, <2>2, MoveStep, Zenon
<1>12. CASE op' = [op EXCEPT ![a] = NULL] /\ lock' = lock
  <2>1. Goes(a, NULL)
    BY <1>5, <1>6, <1>12, GoesFree, Zenon
  <2> QED BY <1>2, <1>4, <1>5, <1>6, <1>8, <2>1, MoveStep, Zenon
<1> QED BY <1>9, <1>11, <1>12, Zenon

-----------------------------------------------------------------------------
\* push_rt_tasks.

LEMMA CallbackInv ==
    ASSUME IInv, NEW a \in CPU, push_rt_tasks(a)
    PROVE  IInv'
<1> DEFINE r == op[a].rq
           new == [pc |-> "push", rq |-> r, retry |-> FALSE, after |-> op[a].after]
<1>1. op[a] \in Op /\ op[a].pc = "callback"
  BY OpAt, Zenon DEF push_rt_tasks, IInv
<1>2. r \in CPU /\ op[a].after \in {"done", "rto"}
  BY <1>1, OpFields, Zenon
<1>3. HoldsNone(a) /\ ~Leaving(op[a])
  BY <1>1, Zenon DEF HoldsNone, Leaving, Switching
<1>4. UNCHANGED <<cpu, queued, curr, pushable>> /\ need_resched' = need_resched /\ UNCHANGED rtoVars
      /\ UNCHANGED setup
  BY Zenon DEF push_rt_tasks, rqVars
<1>5. Typed'
  BY <1>4, TypedKept, Zenon DEF IInv, TypeOK
<1>6. lock' = [lock EXCEPT ![r] = a] /\ op' = [op EXCEPT ![a] = new]
  BY Zenon DEF push_rt_tasks
<1>7. new \in Op /\ new.pc = "push" /\ new.rq = r
  BY <1>2, OpMade, Zenon
<1> HIDE DEF new, r
<1>8. Holds(new, a, r) /\ new.pc # "wake"
  BY <1>7, NullApart, SMT DEF Holds
<1>9. Goes(a, new)
  BY <1>2, <1>3, <1>4, <1>6, <1>7, <1>8, GoesTaking, Zenon
<1> QED BY <1>3, <1>4, <1>5, <1>8, <1>9, OpStep, Zenon

\* What AfterPush leaves.
After(o) == IF o.after = "rto" THEN [pc |-> "rto"] ELSE NULL
LEMMA AfterMade == \A o : After(o) \in Op \cup {NULL} /\ (After(o) # NULL => After(o).pc # "wake")
BY OpMade, Zenon DEF After

LEMMA PushInvStep ==
    ASSUME IInv, NEW a \in CPU, push_rt_task(a)
    PROVE  IInv'
<1> DEFINE r == op[a].rq
           p == Min(pushable[r])
           f == op[a].after
<1>1. op[a] \in Op /\ op[a].pc = "push"
  BY OpAt, Zenon DEF push_rt_task, IInv
<1>2. r \in CPU /\ f \in {"done", "rto"}
  BY <1>1, OpFields, Zenon
<1>3. (\A c \in CPU : Holds(op[a], a, c) => c = r) /\ ~Leaving(op[a])
  BY <1>1, Zenon DEF Holds, Leaving, Switching
<1>4. UNCHANGED <<cpu, queued, curr, pushable>> /\ UNCHANGED rtoVars /\ UNCHANGED setup
      /\ lock' = [lock EXCEPT ![r] = NULL]
  BY Zenon DEF push_rt_task
<1>5. need_resched' \subseteq CPU
  <2>1. need_resched' = need_resched \/ need_resched' = need_resched \cup {r}
    BY Zenon DEF push_rt_task
  <2> QED BY <1>2, <2>1, Zenon DEF IInv, TypeOK
<1>6. Typed'
  BY <1>4, <1>5, TypedKept, Zenon
<1>7. \/ op' = [op EXCEPT ![a] = After(op[a])]
      \/ /\ pushable[r] # {}
         /\ \E t \in find_lowest_rq(p) :
              op' = [op EXCEPT ![a] = [pc |-> "push2", rq |-> r, task |-> p, target |-> t,
                                       tries |-> 1, after |-> f]]
  BY Zenon DEF push_rt_task, AfterPush, After
<1>8. \E o \in Op \cup {NULL} : op' = [op EXCEPT ![a] = o] /\ (o # NULL => o.pc # "wake")
  <2>1. CASE op' = [op EXCEPT ![a] = After(op[a])]
    BY <2>1, AfterMade, Zenon
  <2>2. CASE pushable[r] # {} /\ \E t \in find_lowest_rq(p) :
              op' = [op EXCEPT ![a] = [pc |-> "push2", rq |-> r, task |-> p, target |-> t,
                                       tries |-> 1, after |-> f]]
    <3>1. pushable[r] \in SUBSET Task
      BY <1>2, Zenon DEF IInv, TypeOK
    <3>2. p \in Task
      BY <2>2, <3>1, MinIn, Idle, Zenon
    <3>3. PICK t \in find_lowest_rq(p) :
              op' = [op EXCEPT ![a] = [pc |-> "push2", rq |-> r, task |-> p, target |-> t,
                                       tries |-> 1, after |-> f]]
      BY <2>2, Zenon
    <3>4. t \in CPU
      BY <3>2, <3>3, Lowest, AllowedIsCPU, Zenon
    <3>5. 1 \in 1 .. RT_MAX_TRIES
      BY SMT DEF RT_MAX_TRIES
    <3> HIDE DEF r, p, f
    <3> DEFINE new == [pc |-> "push2", rq |-> r, task |-> p, target |-> t, tries |-> 1, after |-> f]
    <3>6. new \in Op
      BY <1>2, <3>2, <3>4, <3>5, OpMade, Zenon
    <3>7. new.pc # "wake" /\ op' = [op EXCEPT ![a] = new]
      BY <3>3, Zenon
    <3> QED BY <3>6, <3>7, Zenon
  <2> QED BY <1>7, <2>1, <2>2, Zenon
<1>9. PICK o \in Op \cup {NULL} : op' = [op EXCEPT ![a] = o] /\ (o # NULL => o.pc # "wake")
  BY <1>8, Zenon
<1> HIDE DEF r, p, f
<1>10. Goes(a, o)
  BY <1>2, <1>3, <1>4, <1>9, GoesReleasing, Zenon
<1> QED BY <1>3, <1>4, <1>6, <1>9, <1>10, OpStep, Zenon

\* The other places push_rt_task_locked goes to.
LEMMA RetryMade ==
    ASSUME NEW o \in Op, o.pc = "push2", o.tries < RT_MAX_TRIES, NEW t \in CPU
    PROVE  Retry(o, t) \in Op /\ Retry(o, t).pc = "push2"
<1> DEFINE P == [pc : {"push2"}, rq : CPU, task : Task, target : CPU, tries : 1 .. RT_MAX_TRIES,
                 after : {"done", "rto"}]
           m == [o EXCEPT !.target = t]
           n == [m EXCEPT !.tries = o.tries + 1]
<1>1. o \in P
  BY SMT DEF Op
<1>2. o.tries + 1 \in 1 .. RT_MAX_TRIES
  BY <1>1, SMT DEF RT_MAX_TRIES
<1>3. m \in P
  BY <1>1, SMT
<1> HIDE DEF m
<1>5. n \in P
  BY <1>2, <1>3, SMT
<1>6. n.pc = "push2"
  BY <1>5, SMT
<1>7. P \subseteq Op
  BY Zenon DEF Op
<1> HIDE DEF P, n
<1>8. n \in Op
  BY <1>5, <1>7, Zenon
<1> QED BY <1>6, <1>8, Zenon DEF n, m, Retry

LEMMA LockedInv ==
    ASSUME IInv, NEW a \in CPU, push_rt_task_locked(a)
    PROVE  IInv'
<1> DEFINE r == op[a].rq
           p == op[a].task
           t == op[a].target
           f == op[a].after
           ok == StillPushable(p, r, t)
           move == ok /\ highest_prio(t) > p
           again == IF ok /\ op[a].tries < RT_MAX_TRIES THEN find_lowest_rq(p) \ {r} ELSE {}
           back == [pc |-> "push", rq |-> r, retry |-> ~move, after |-> f]
<1>1. op[a] \in Op /\ op[a].pc = "push2"
  BY OpAt, Zenon DEF push_rt_task_locked, IInv
<1>2. r \in CPU /\ p \in Task /\ t \in CPU /\ op[a].tries \in 1 .. RT_MAX_TRIES /\ f \in {"done", "rto"}
  BY <1>1, OpFields, Zenon
<1>3. HoldsNone(a) /\ ~Leaving(op[a])
  BY <1>1, Zenon DEF HoldsNone, Leaving, Switching
<1>4. UNCHANGED <<rto, irq_work>> /\ UNCHANGED setup
  BY Zenon DEF push_rt_task_locked
<1>5. \/ move /\ MoveTo(p, t) /\ need_resched' = need_resched \cup {t} /\ curr' = curr
      \/ UNCHANGED <<cpu, queued, curr, pushable, need_resched>>
  BY Zenon DEF push_rt_task_locked, rqVars
<1>6. need_resched' \subseteq CPU
  BY <1>2, <1>5, Zenon DEF IInv, TypeOK
<1>7. Typed'
  <2>1. \E B \in BOOLEAN : lost' = (lost \/ B)
    BY Zenon DEF push_rt_task_locked
  <2>2. lost' \in BOOLEAN
    BY <2>1, SMT
  <2> QED BY <1>4, <1>6, <2>2, TypedMove, Zenon
<1>8. \/ /\ lock' = lock /\ again # {}
         /\ \E u \in again : op' = [op EXCEPT ![a] = Retry(op[a], u)]
      \/ lock' = [lock EXCEPT ![r] = a] /\ op' = [op EXCEPT ![a] = back]
      \/ lock' = lock /\ op' = [op EXCEPT ![a] = After(op[a])]
  BY Zenon DEF push_rt_task_locked, AfterPush, After
<1>9. \E o : Goes(a, o) /\ (o # NULL => o.pc # "wake")
  <2>1. CASE /\ lock' = lock /\ again # {}
             /\ \E u \in again : op' = [op EXCEPT ![a] = Retry(op[a], u)]
    <3>1. PICK u \in again : op' = [op EXCEPT ![a] = Retry(op[a], u)]
      BY <2>1, Zenon
    <3>2. u \in find_lowest_rq(p) /\ op[a].tries < RT_MAX_TRIES
      BY <3>1, Zenon
    <3>3. u \in CPU
      BY <1>2, <3>2, Lowest, AllowedIsCPU, Zenon
    <3> DEFINE new == Retry(op[a], u)
    <3>4. op' = [op EXCEPT ![a] = new]
      BY <3>1, Zenon
    <3>7. new \in Op /\ new.pc = "push2"
      BY <1>1, <3>2, <3>3, RetryMade, Zenon
    <3> HIDE DEF new
    <3>8. Goes(a, new)
      BY <1>3, <1>4, <2>1, <3>4, <3>7, GoesFree, Zenon
    <3> QED BY <3>7, <3>8, Zenon
  <2>2. CASE lock' = [lock EXCEPT ![r] = a] /\ op' = [op EXCEPT ![a] = back]
    <3>1. back \in Op /\ back.pc = "push" /\ back.rq = r
      <4>1. (~move) \in BOOLEAN
        OBVIOUS
      <4> HIDE DEF move, r, f
      <4> QED BY <1>2, <4>1, OpMade, Zenon
    <3> HIDE DEF back, r
    <3>2. Holds(back, a, r) /\ back.pc # "wake"
      BY <3>1, NullApart, Zenon DEF Holds
    <3>3. Goes(a, back)
      BY <1>2, <1>3, <1>4, <2>2, <3>1, <3>2, GoesTaking, Zenon
    <3> QED BY <3>2, <3>3, Zenon
  <2>3. CASE lock' = lock /\ op' = [op EXCEPT ![a] = After(op[a])]
    <3> DEFINE new == After(op[a])
    <3>1. new \in Op \cup {NULL} /\ (new # NULL => new.pc # "wake") /\ op' = [op EXCEPT ![a] = new]
      BY <2>3, AfterMade, Zenon
    <3> HIDE DEF new
    <3>2. Goes(a, new)
      BY <1>3, <1>4, <2>3, <3>1, GoesFree, Zenon
    <3> QED BY <3>1, <3>2, Zenon
  <2> QED BY <1>8, <2>1, <2>2, <2>3, Zenon
<1>10. PICK o : Goes(a, o) /\ (o # NULL => o.pc # "wake")
  BY <1>9, Zenon
<1>11. CASE UNCHANGED <<cpu, queued, curr, pushable, need_resched>>
  BY <1>3, <1>7, <1>10, <1>11, OpStep, Zenon
<1>12. CASE move /\ MoveTo(p, t) /\ need_resched' = need_resched \cup {t} /\ curr' = curr
  <2>1. cpu[p] = r /\ t \in Allowed(p) /\ curr[r] # p /\ p \in queued
    BY <1>12, Zenon DEF StillPushable
  <2>2. \A c \in CPU : curr[c] # p
    <3>1. \A c \in CPU : curr[c] = p => cpu[p] = c
      BY <1>2, Idle, Zenon DEF IInv, CurrInv
    <3> QED BY <2>1, <3>1, Zenon
  <2>3. \A b \in CPU : Wakes(b, p) => b = a
    BY <1>2, <2>1, Zenon DEF IInv, WakeInv
  <2> HIDE DEF r, p, t, f, ok, move, again, back
  <2> QED BY <1>2, <1>3, <1>7, <1>10, <1>12, <2>1, <2>2, <2>3, MoveStep, Zenon
<1> QED BY <1>5, <1>11, <1>12, Zenon

-----------------------------------------------------------------------------
\* schedule.

LEMMA ScheduleInv ==
    ASSUME IInv, NEW a \in CPU, NEW sleeps \in BOOLEAN, schedule(a, sleeps)
    PROVE  IInv'
<1> DEFINE prev == curr[a]
<1>1. op[a] = NULL /\ lock' = [lock EXCEPT ![a] = a]
      /\ UNCHANGED <<cpu, curr, pushable, need_resched>> /\ UNCHANGED rtoVars /\ UNCHANGED setup
  BY Zenon DEF schedule
<1>2. (queued' = queued \ {prev} /\ prev # IDLE) \/ queued' = queued
  BY Zenon DEF schedule
<1>3. \E o \in Op : o.pc \in Switching /\ op' = [op EXCEPT ![a] = o]
  <2>1. op' = [op EXCEPT ![a] = [pc |-> "pull"]] \/ op' = [op EXCEPT ![a] = [pc |-> "pick"]]
    BY Zenon DEF schedule
  <2>2. [pc |-> "pull"] \in Op /\ [pc |-> "pick"] \in Op
    BY OpMade, Zenon
  <2> QED BY <2>1, <2>2, Zenon DEF Switching
<1>4. PICK o \in Op : o.pc \in Switching /\ op' = [op EXCEPT ![a] = o]
  BY <1>3, Zenon
<1>5. Holds(o, a, a) /\ Leaving(o) /\ o.pc # "wake"
  BY <1>4, NullApart, Zenon DEF Holds, Leaving, Switching
<1>6. Goes(a, o)
  BY <1>1, <1>4, <1>5, GoesTaking, Zenon DEF HoldsNone
<1>7. LockInv'
  BY <1>6, LocksKept, Zenon DEF IInv
<1>8. Typed'
  BY <1>1, TypedKept, Zenon DEF IInv, TypeOK
<1>9. queued' \subseteq queued
  BY <1>2, Zenon
<1>10. TypeOK'
  BY <1>1, <1>6, <1>7, <1>8, <1>9, TypesKept, Zenon DEF IInv, TypeOK
<1>11. \A q : Allowed(q)' = Allowed(q) /\ Migratory(q)' = Migratory(q)
  BY <1>1, SameAffinity, Zenon
<1>12. PlaceInv'
  BY <1>1, <1>11, Zenon DEF IInv, PlaceInv
<1>13. \A q \in queued : q \notin queued' => q = prev /\ prev # IDLE /\ cpu[prev] = a
  BY <1>2, Zenon DEF IInv, CurrInv
<1>14. PushInv'
  <2> SUFFICES ASSUME NEW d \in CPU, NEW q \in pushable[d]
               PROVE  q \in queued' /\ cpu[q] = d /\ curr[d] # q /\ Migratory(q)
    BY <1>1, <1>11, Zenon DEF PushInv
  <2>1. q \in queued /\ cpu[q] = d /\ curr[d] # q /\ Migratory(q)
    BY Zenon DEF IInv, PushInv
  <2>2. q \in queued'
    BY <1>13, <2>1, Zenon
  <2> QED BY <2>1, <2>2, Zenon
<1>15. CurrInv'
  <2>1. op' = [op EXCEPT ![a] = o] /\ op \in [CPU -> Op \cup {NULL}]
    BY <1>4, Zenon DEF IInv, TypeOK
  <2> SUFFICES ASSUME NEW c \in CPU, curr[c] # IDLE
               PROVE  cpu[curr[c]] = c /\ (curr[c] \in queued' \/ Leaving(op'[c]))
    BY <1>1, Zenon DEF CurrInv, Leaving
  <2>2. cpu[curr[c]] = c /\ (curr[c] \in queued \/ Leaving(op[c]))
    BY Zenon DEF IInv, CurrInv
  <2>3. CASE c = a
    BY <1>5, <2>1, <2>2, <2>3, Zenon
  <2>4. CASE c # a
    <3>1. op'[c] = op[c]
      BY <2>1, <2>4, Zenon
    <3>2. curr[c] \in queued => curr[c] \in queued'
      BY <1>13, <2>2, <2>4, Zenon
    <3> QED BY <2>2, <3>1, <3>2, Zenon
  <2> QED BY <2>3, <2>4, Zenon
<1>16. WakeInv'
  <2>1. \A b \in CPU : \A q \in Task : Wakes(b, q) /\ b # a =>
               q \notin queued' /\ \A c \in CPU : curr'[c] # q
    BY <1>1, <1>9, Zenon DEF IInv, WakeInv
  <2> QED BY <1>5, <1>6, <2>1, WakesKept, Zenon DEF IInv
<1> QED BY <1>7, <1>10, <1>12, <1>14, <1>15, <1>16, Zenon DEF IInv

LEMMA PullInv ==
    ASSUME IInv, NEW a \in CPU, pull_rt_task(a)
    PROVE  IInv'
<1>1. op[a] \in Op /\ op[a].pc = "pull"
  BY OpAt, Zenon DEF pull_rt_task, IInv
<1>2. op[a].pc \in Switching
  BY <1>1, Zenon DEF Switching
<1>3. UNCHANGED <<cpu, queued, curr, pushable>> /\ need_resched' = need_resched /\ UNCHANGED rtoVars
      /\ UNCHANGED <<lock, setup>>
  BY Zenon DEF pull_rt_task, rqVars, setup
<1>4. Typed'
  BY <1>3, TypedKept, Zenon DEF IInv, TypeOK
<1>5. \E o \in Op : o.pc \in Switching /\ op' = [op EXCEPT ![a] = o]
  <2>1. \E o \in {[pc |-> "pick"], [pc |-> "tell"], [pc |-> "pullnext", at |-> -1]} :
           op' = [op EXCEPT ![a] = o]
    BY Zenon DEF pull_rt_task
  <2>2. -1 \in -1 .. N - 1
    BY BalanceAssumption, SMT DEF BalanceAssumption
  <2>3. [pc |-> "pick"] \in Op /\ [pc |-> "tell"] \in Op /\ [pc |-> "pullnext", at |-> -1] \in Op
    BY <2>2, OpMade, Zenon
  <2>4. \A o \in {[pc |-> "pick"], [pc |-> "tell"], [pc |-> "pullnext", at |-> -1]} :
           o \in Op /\ o.pc \in Switching
    BY <2>3, SMT DEF Switching
  <2> QED BY <2>1, <2>4, Zenon
<1>6. PICK o \in Op : o.pc \in Switching /\ op' = [op EXCEPT ![a] = o]
  BY <1>5, Zenon
<1>7. Goes(a, o)
  BY <1>2, <1>3, <1>6, GoesOn, Zenon
<1>8. Leaving(o) /\ o.pc # "wake"
  BY <1>6, NullApart, Zenon DEF Leaving, Switching
<1> QED BY <1>3, <1>4, <1>7, <1>8, OpStep, Zenon

\* The CPU that the loop of pull_rt_task, and that of the IPI, visits next.
LEMMA MinCpu ==
    ASSUME NEW S \in SUBSET CPU, S # {}
    PROVE  Min(S) \in CPU /\ Min(S) \in -1 .. N - 1
BY MinIn, Cpus, Zenon

LEMMA PullNextInv ==
    ASSUME IInv, NEW a \in CPU, pull_next(a)
    PROVE  IInv'
<1> DEFINE todo == {c \in rto_mask \ {a} : c > op[a].at}
           src == Min(todo)
<1>1. op[a] \in Op /\ op[a].pc = "pullnext"
  BY OpAt, Zenon DEF pull_next, IInv
<1>2. op[a].pc \in Switching /\ (\A c \in CPU : Holds(op[a], a, c) => c = a)
  BY <1>1, Zenon DEF Switching, Holds
<1>3. UNCHANGED <<cpu, queued, curr, pushable>> /\ need_resched' = need_resched /\ UNCHANGED rtoVars
      /\ UNCHANGED setup
  BY Zenon DEF pull_next, rqVars
<1>4. Typed'
  BY <1>3, TypedKept, Zenon DEF IInv, TypeOK
<1>5. \/ op' = [op EXCEPT ![a] = [pc |-> "pick"]] /\ lock' = lock
      \/ todo # {} /\ op' = [op EXCEPT ![a] = [pc |-> "pullnext", at |-> src]] /\ lock' = lock
      \/ /\ todo # {} /\ op' = [op EXCEPT ![a] = [pc |-> "pulltake", src |-> src]]
         /\ lock' = [lock EXCEPT ![a] = NULL]
  BY Zenon DEF pull_next
<1>6. todo # {} => src \in CPU /\ src \in -1 .. N - 1
  <2>1. todo \in SUBSET CPU
    BY Zenon DEF rto_mask
  <2> HIDE DEF todo
  <2> QED BY <2>1, MinCpu, Zenon
<1> HIDE DEF todo, src
<1>7. \E o \in Op : Goes(a, o) /\ Leaving(o) /\ o.pc # "wake"
  <2>1. CASE op' = [op EXCEPT ![a] = [pc |-> "pick"]] /\ lock' = lock
    <3> DEFINE o == [pc |-> "pick"]
    <3>1. o \in Op /\ o.pc \in Switching /\ o.pc # "wake" /\ op' = [op EXCEPT ![a] = o]
      BY <2>1, OpMade, Zenon DEF Switching
    <3> HIDE DEF o
    <3>2. Goes(a, o) /\ Leaving(o)
      BY <1>2, <1>3, <2>1, <3>1, GoesOn, NullApart, Zenon DEF Leaving
    <3> QED BY <3>1, <3>2, Zenon
  <2>2. CASE todo # {} /\ op' = [op EXCEPT ![a] = [pc |-> "pullnext", at |-> src]] /\ lock' = lock
    <3> DEFINE o == [pc |-> "pullnext", at |-> src]
    <3>1. o \in Op /\ o.pc \in Switching /\ o.pc # "wake" /\ op' = [op EXCEPT ![a] = o]
      BY <1>6, <2>2, OpMade, Zenon DEF Switching
    <3> HIDE DEF o
    <3>2. Goes(a, o) /\ Leaving(o)
      BY <1>2, <1>3, <2>2, <3>1, GoesOn, NullApart, Zenon DEF Leaving
    <3> QED BY <3>1, <3>2, Zenon
  <2>3. CASE /\ todo # {} /\ op' = [op EXCEPT ![a] = [pc |-> "pulltake", src |-> src]]
             /\ lock' = [lock EXCEPT ![a] = NULL]
    <3> DEFINE o == [pc |-> "pulltake", src |-> src]
    <3>1. o \in Op /\ o.pc = "pulltake" /\ o.pc # "wake" /\ op' = [op EXCEPT ![a] = o]
      BY <1>6, <2>3, OpMade, Zenon
    <3> HIDE DEF o
    <3>2. Goes(a, o)
      BY <1>2, <1>3, <2>3, <3>1, GoesReleasing, Zenon
    <3>3. Leaving(o)
      BY <3>1, NullApart, Zenon DEF Leaving
    <3> QED BY <3>1, <3>2, <3>3, Zenon
  <2> QED BY <1>5, <2>1, <2>2, <2>3, Zenon
<1> QED BY <1>3, <1>4, <1>7, OpStep, Zenon

LEMMA PullTakeInv ==
    ASSUME IInv, NEW a \in CPU, pull_take(a)
    PROVE  IInv'
<1> DEFINE s == op[a].src
           able == {p \in pushable[s] : a \in Allowed(p)}
           p == Min(able)
           o == [pc |-> "pullnext", at |-> s]
<1>1. op[a] \in Op /\ op[a].pc = "pulltake"
  BY OpAt, Zenon DEF pull_take, IInv
<1>2. s \in CPU /\ s \in -1 .. N - 1
  BY <1>1, OpFields, Cpus, Zenon
<1>3. HoldsNone(a)
  BY <1>1, Zenon DEF HoldsNone, Switching
<1>4. lock' = [lock EXCEPT ![a] = a] /\ op' = [op EXCEPT ![a] = o] /\ UNCHANGED <<rto, irq_work>>
      /\ UNCHANGED setup /\ curr' = curr /\ need_resched' = need_resched
  BY Zenon DEF pull_take, rqVars
<1>5. (able # {} /\ MoveTo(p, a)) \/ UNCHANGED <<cpu, queued, pushable>>
  BY Zenon DEF pull_take, rqVars
<1>6. Typed'
  <2>1. lost' \in BOOLEAN
    <3>1. lost' = lost \/ lost' = (lost \/ Uncovers(p, s, a))
      BY Zenon DEF pull_take
    <3>2. (lost \/ Uncovers(p, s, a)) \in BOOLEAN
      OBVIOUS
    <3> QED BY <3>1, <3>2, Zenon DEF IInv, TypeOK
  <2> QED BY <1>4, <2>1, TypedMove, Zenon DEF IInv, TypeOK
<1>7. o \in Op /\ o.pc = "pullnext" /\ o.pc \in Switching /\ o.pc # "wake"
  BY <1>2, OpMade, Zenon DEF Switching
<1>8. able # {} => p \in able /\ p \in Task
  <2>1. able \subseteq Task
    BY <1>2, Zenon DEF IInv, TypeOK
  <2>2. able \in SUBSET Nat
    BY <2>1, Idle, Zenon
  <2> HIDE DEF able
  <2> QED BY <2>1, <2>2, MinIn, Zenon
<1>9. able # {} => p \in pushable[s] /\ a \in Allowed(p)
  BY <1>8, Zenon
<1> HIDE DEF o, able, p
<1>10. Holds(o, a, a) /\ Leaving(o)
  BY <1>7, NullApart, Zenon DEF Holds, Leaving
<1>11. Goes(a, o)
  BY <1>3, <1>4, <1>7, <1>10, GoesTaking, Zenon
<1>12. CASE UNCHANGED <<cpu, queued, pushable>>
  BY <1>4, <1>6, <1>7, <1>10, <1>11, <1>12, OpStep, Zenon
<1>13. CASE able # {} /\ MoveTo(p, a)
  <2>1. p \in queued /\ cpu[p] = s /\ curr[s] # p
    BY <1>2, <1>9, <1>13, Zenon DEF IInv, PushInv
  <2>2. \A c \in CPU : curr[c] # p
    <3>1. \A c \in CPU : curr[c] = p => cpu[p] = c
      BY <1>8, <1>13, Idle, Zenon DEF IInv, CurrInv
    <3> QED BY <2>1, <3>1, Zenon
  <2>3. \A b \in CPU : Wakes(b, p) => b = a
    BY <1>8, <1>13, <2>1, Zenon DEF IInv, WakeInv
  <2> QED BY <1>4, <1>6, <1>7, <1>8, <1>9, <1>10, <1>11, <1>13, <2>2, <2>3, MoveStep, Zenon
<1> QED BY <1>5, <1>12, <1>13, Zenon

LEMMA PickInv ==
    ASSUME IInv, NEW a \in CPU, pick_next_task_rt(a)
    PROVE  IInv'
<1> DEFINE prev == curr[a]
           next == highest_prio(a)
           waiting == (pushable[a] \cup {p \in OnRq(a) : p = prev /\ Migratory(p)}) \ {next}
<1>1. op[a] \in Op /\ op[a].pc = "pick"
  BY OpAt, Zenon DEF pick_next_task_rt, IInv
<1>2. \A c \in CPU : Holds(op[a], a, c) => c = a
  BY <1>1, Zenon DEF Holds
<1>3. curr' = [curr EXCEPT ![a] = next] /\ pushable' = [pushable EXCEPT ![a] = waiting]
      /\ need_resched' = need_resched \ {a} /\ lock' = [lock EXCEPT ![a] = NULL]
      /\ UNCHANGED <<cpu, queued>> /\ UNCHANGED rtoVars /\ UNCHANGED setup
  BY Zenon DEF pick_next_task_rt, finish_lock_switch
<1>4. \E o \in Op \cup {NULL} : op' = [op EXCEPT ![a] = o] /\ (o # NULL => o.pc # "wake")
  <2>1. \/ op' = [op EXCEPT ![a] = [pc |-> "callback", rq |-> a, after |-> "done"]]
        \/ op' = [op EXCEPT ![a] = NULL]
    BY Zenon DEF pick_next_task_rt
  <2> DEFINE back == [pc |-> "callback", rq |-> a, after |-> "done"]
  <2>2. back \in Op /\ back.pc # "wake"
    BY OpMade, Zenon
  <2> HIDE DEF back
  <2>3. op' = [op EXCEPT ![a] = back] \/ op' = [op EXCEPT ![a] = NULL]
    BY <2>1, Zenon DEF back
  <2> QED BY <2>2, <2>3, Zenon
<1>5. PICK o \in Op \cup {NULL} : op' = [op EXCEPT ![a] = o] /\ (o # NULL => o.pc # "wake")
  BY <1>4, Zenon
<1>6. Goes(a, o)
  BY <1>2, <1>3, <1>5, GoesReleasing, Zenon
<1>7. LockInv'
  BY <1>6, LocksKept, Zenon DEF IInv
<1>8. Typed'
  <2>1. need_resched' \subseteq CPU
    BY <1>3, Zenon DEF IInv, TypeOK
  <2> QED BY <1>3, <2>1, TypedKept, Zenon
<1>9. next \in OnRq(a) \cup {IDLE}
  BY HighestPrio, Zenon DEF IInv
<1>10. \A q \in OnRq(a) : q \in queued /\ q \in Task /\ cpu[q] = a
  BY Zenon DEF OnRq, IInv, TypeOK
<1>11. \A q \in waiting : q # next /\ q \in Task /\ q \in queued /\ cpu[q] = a /\ Migratory(q)
  BY <1>10, Zenon DEF IInv, PushInv, TypeOK
<1>12. curr \in [CPU -> Task \cup {IDLE}] /\ pushable \in [CPU -> SUBSET Task]
  BY Zenon DEF IInv, TypeOK
<1> HIDE DEF next, waiting, prev
<1>13. curr' \in [CPU -> Task \cup {IDLE}]
  BY <1>3, <1>9, <1>10, <1>12, Zenon
<1>14. pushable' \in [CPU -> SUBSET Task]
  <2>1. waiting \in SUBSET Task
    BY <1>11, Zenon
  <2> QED BY <1>3, <1>12, <2>1, Zenon
<1>15. TypeOK'
  BY <1>3, <1>6, <1>7, <1>8, <1>13, <1>14, TypesKept, Zenon DEF IInv, TypeOK
<1>16. \A q : Allowed(q)' = Allowed(q) /\ Migratory(q)' = Migratory(q)
  BY <1>3, SameAffinity, Zenon
<1>17. PlaceInv'
  BY <1>3, <1>16, Zenon DEF IInv, PlaceInv
<1>18. /\ curr'[a] = next /\ pushable'[a] = waiting
       /\ \A c \in CPU : c # a => curr'[c] = curr[c] /\ pushable'[c] = pushable[c] /\ op'[c] = op[c]
  BY <1>3, <1>5, <1>12, Zenon DEF IInv, TypeOK
<1>19. PushInv'
  <2> SUFFICES ASSUME NEW d \in CPU, NEW q \in pushable'[d]
               PROVE  q \in queued' /\ cpu'[q] = d /\ curr'[d] # q /\ Migratory(q)'
    BY Zenon DEF PushInv
  <2>1. CASE d = a
    BY <1>3, <1>11, <1>16, <1>18, <2>1, Zenon
  <2>2. CASE d # a
    <3>1. q \in pushable[d]
      BY <1>18, <2>2, Zenon
    <3>2. q \in queued /\ cpu[q] = d /\ curr[d] # q /\ Migratory(q)
      BY <3>1, Zenon DEF IInv, PushInv
    <3> QED BY <1>3, <1>16, <1>18, <2>2, <3>2, Zenon
  <2> QED BY <2>1, <2>2, Zenon
<1>20. CurrInv'
  <2> SUFFICES ASSUME NEW c \in CPU, curr'[c] # IDLE
               PROVE  cpu'[curr'[c]] = c /\ (curr'[c] \in queued' \/ Leaving(op'[c]))
    BY Zenon DEF CurrInv, Leaving
  <2>1. CASE c = a
    BY <1>3, <1>9, <1>10, <1>18, <2>1, Zenon
  <2>2. CASE c # a
    <3>1. cpu[curr[c]] = c /\ (curr[c] \in queued \/ Leaving(op[c]))
      BY <1>18, <2>2, Zenon DEF IInv, CurrInv
    <3>2. curr'[c] = curr[c] /\ op'[c] = op[c] /\ cpu' = cpu /\ queued' = queued
      BY <1>3, <1>18, <2>2, Zenon
    <3> QED BY <3>1, <3>2, Zenon
  <2> QED BY <2>1, <2>2, Zenon
<1>21. WakeInv'
  <2>1. \A b \in CPU : \A q \in Task : Wakes(b, q) /\ b # a =>
               q \notin queued' /\ \A c \in CPU : curr'[c] # q
    <3> SUFFICES ASSUME NEW b \in CPU, NEW q \in Task, Wakes(b, q)
                 PROVE  q \notin queued' /\ \A c \in CPU : curr'[c] # q
      BY Zenon
    <3>1. q \notin queued /\ \A c \in CPU : curr[c] # q
      BY Zenon DEF IInv, WakeInv
    <3>2. q # next
      BY <1>9, <1>10, <3>1, Idle, Zenon
    <3> QED BY <1>3, <1>18, <3>1, <3>2, Zenon
  <2> QED BY <1>5, <1>6, <2>1, WakesKept, Zenon DEF IInv
<1> QED BY <1>7, <1>15, <1>17, <1>19, <1>20, <1>21, Zenon DEF IInv

-----------------------------------------------------------------------------
\* The push IPI.

RtoRec == [cpu : -1 .. N - 1, start : BOOLEAN, again : BOOLEAN]

LEMMA RtoMade ==
    ASSUME NEW r \in RtoRec, NEW b \in BOOLEAN
    PROVE  /\ r.cpu \in -1 .. N - 1 /\ r.start \in BOOLEAN /\ r.again \in BOOLEAN
           /\ [r EXCEPT !.start = b] \in RtoRec
           /\ \A c \in -1 .. N - 1 : \A d \in BOOLEAN : [cpu |-> c, start |-> b, again |-> d] \in RtoRec
BY SMT DEF RtoRec

LEMMA NextCpu ==
    ASSUME TypeOK
    PROVE  rto_next_cpu.cpu \in -1 .. N - 1 /\ rto_next_cpu.again \in BOOLEAN
<1> DEFINE rest == {c \in rto_mask : c > rto.cpu}
<1>1. rto_mask \in SUBSET CPU /\ rest \in SUBSET CPU
  BY Zenon DEF rto_mask
<1>2. rto.again \in BOOLEAN
  BY SMT DEF TypeOK
<1>3. -1 \in -1 .. N - 1
  BY BalanceAssumption, SMT DEF BalanceAssumption
<1>4. rto_next_cpu = IF rest # {} THEN [cpu |-> Min(rest), again |-> rto.again]
                     ELSE IF rto.again /\ rto_mask # {} THEN [cpu |-> Min(rto_mask), again |-> FALSE]
                     ELSE [cpu |-> -1, again |-> FALSE]
  BY Zenon DEF rto_next_cpu
<1> HIDE DEF rest
<1>5. CASE rest # {}
  <2>1. rto_next_cpu = [cpu |-> Min(rest), again |-> rto.again]
    BY <1>4, <1>5, Zenon
  <2>2. Min(rest) \in -1 .. N - 1
    BY <1>1, <1>5, MinCpu, Zenon
  <2> QED BY <1>2, <2>1, <2>2, SMT
<1>6. CASE rest = {} /\ rto.again /\ rto_mask # {}
  <2>1. rto_next_cpu = [cpu |-> Min(rto_mask), again |-> FALSE]
    BY <1>4, <1>6, Zenon
  <2>2. Min(rto_mask) \in -1 .. N - 1
    BY <1>1, <1>6, MinCpu, Zenon
  <2> QED BY <2>1, <2>2, SMT
<1>7. CASE rest = {} /\ ~(rto.again /\ rto_mask # {})
  <2>1. rto_next_cpu = [cpu |-> -1, again |-> FALSE]
    BY <1>4, <1>7, Zenon
  <2> QED BY <1>3, <2>1, SMT
<1> QED BY <1>5, <1>6, <1>7, Zenon

\* The CPUs an IPI can be sent to.
LEMMA IpiCpu == \A c \in -1 .. N - 1 : c >= 0 => c \in CPU
BY BalanceAssumption, SMT DEF BalanceAssumption, CPU

LEMMA TellInv ==
    ASSUME IInv, NEW a \in CPU, tell_cpu_to_push(a)
    PROVE  IInv'
<1> DEFINE o == [pc |-> IF rto.start THEN "pick" ELSE "scan"]
<1>1. op[a] \in Op /\ op[a].pc = "tell"
  BY OpAt, Zenon DEF tell_cpu_to_push, IInv
<1>2. op[a].pc \in Switching
  BY <1>1, Zenon DEF Switching
<1>3. UNCHANGED <<cpu, queued, curr, pushable>> /\ need_resched' = need_resched /\ irq_work' = irq_work
      /\ UNCHANGED <<lock, setup>> /\ op' = [op EXCEPT ![a] = o]
  BY Zenon DEF tell_cpu_to_push, rqVars, setup
<1>4. rto' \in RtoRec /\ lost' \in BOOLEAN
  <2>1. rto' = [cpu |-> rto.cpu, start |-> TRUE, again |-> TRUE] /\ lost' \in BOOLEAN
    BY SMT DEF tell_cpu_to_push
  <2>2. rto \in RtoRec
    BY Zenon DEF IInv, TypeOK, RtoRec
  <2> QED BY <2>1, <2>2, RtoMade, Zenon
<1>5. Typed'
  BY <1>3, <1>4, Zenon DEF Typed, IInv, TypeOK, RtoRec
<1>6. o \in Op /\ o.pc \in Switching
  BY OpMade, Zenon DEF Switching
<1> HIDE DEF o
<1>7. Goes(a, o)
  BY <1>2, <1>3, <1>6, GoesOn, Zenon
<1>8. Leaving(o) /\ o.pc # "wake"
  BY <1>6, NullApart, Zenon DEF Leaving, Switching
<1> QED BY <1>3, <1>5, <1>7, <1>8, OpStep, Zenon

LEMMA ScanInv ==
    ASSUME IInv, NEW a \in CPU, tell_scan(a)
    PROVE  IInv'
<1> DEFINE n == IF rto.cpu < 0 THEN rto_next_cpu ELSE [cpu |-> -1, again |-> rto.again]
           o == [pc |-> "unlock", cpu |-> n.cpu]
<1>1. op[a] \in Op /\ op[a].pc = "scan"
  BY OpAt, Zenon DEF tell_scan, IInv
<1>2. op[a].pc \in Switching
  BY <1>1, Zenon DEF Switching
<1>3. UNCHANGED <<cpu, queued, curr, pushable>> /\ need_resched' = need_resched /\ irq_work' = irq_work
      /\ lost' = lost /\ UNCHANGED <<lock, setup>> /\ op' = [op EXCEPT ![a] = o]
      /\ rto' = [cpu |-> IF rto.cpu < 0 THEN n.cpu ELSE rto.cpu, start |-> rto.start, again |-> n.again]
  BY Zenon DEF tell_scan, rqVars, setup
<1>4. rto \in RtoRec
  BY Zenon DEF IInv, TypeOK, RtoRec
<1>5. n.cpu \in -1 .. N - 1 /\ n.again \in BOOLEAN
  <2>1. rto_next_cpu.cpu \in -1 .. N - 1 /\ rto_next_cpu.again \in BOOLEAN
    BY NextCpu, Zenon DEF IInv
  <2>2. -1 \in -1 .. N - 1
    BY BalanceAssumption, SMT DEF BalanceAssumption
  <2>3. rto.again \in BOOLEAN
    BY <1>4, SMT DEF RtoRec
  <2> QED BY <2>1, <2>2, <2>3, Zenon
<1> HIDE DEF n
<1>6. rto' \in RtoRec
  <2>1. rto.cpu \in -1 .. N - 1 /\ rto.start \in BOOLEAN
    BY <1>4, RtoMade, Zenon
  <2> DEFINE m == IF rto.cpu < 0 THEN n.cpu ELSE rto.cpu
  <2>2. m \in -1 .. N - 1 /\ rto' = [cpu |-> m, start |-> rto.start, again |-> n.again]
    BY <1>3, <1>5, <2>1, Zenon
  <2> HIDE DEF m
  <2> QED BY <1>4, <1>5, <2>1, <2>2, RtoMade, Zenon
<1>7. Typed'
  BY <1>3, <1>6, Zenon DEF Typed, IInv, TypeOK, RtoRec
<1>8. o \in Op /\ o.pc \in Switching
  BY <1>5, OpMade, Zenon DEF Switching
<1> HIDE DEF o
<1>9. Goes(a, o)
  BY <1>2, <1>3, <1>8, GoesOn, Zenon
<1>10. Leaving(o) /\ o.pc # "wake"
  BY <1>8, NullApart, Zenon DEF Leaving, Switching
<1> QED BY <1>3, <1>7, <1>9, <1>10, OpStep, Zenon

LEMMA UnlockInv ==
    ASSUME IInv, NEW a \in CPU, tell_unlock(a)
    PROVE  IInv'
<1> DEFINE o == [pc |-> "pick"]
<1>1. op[a] \in Op /\ op[a].pc = "unlock"
  BY OpAt, Zenon DEF tell_unlock, IInv
<1>2. op[a].pc \in Switching
  BY <1>1, Zenon DEF Switching
<1>3. UNCHANGED <<cpu, queued, curr, pushable>> /\ need_resched' = need_resched
      /\ lost' = lost /\ UNCHANGED <<lock, setup>> /\ op' = [op EXCEPT ![a] = o]
      /\ rto' = [rto EXCEPT !.start = FALSE]
      /\ irq_work' = IF op[a].cpu >= 0 THEN op[a].cpu ELSE irq_work
  BY Zenon DEF tell_unlock, rqVars, setup
<1>4. op[a].cpu \in -1 .. N - 1
  BY <1>1, OpFields, Zenon
<1>5. irq_work' \in CPU \cup {NULL}
  <2>1. op[a].cpu >= 0 => op[a].cpu \in CPU
    BY <1>4, IpiCpu, Zenon
  <2> QED BY <1>3, <2>1, Zenon DEF IInv, TypeOK
<1>6. rto' \in RtoRec
  <2>1. rto \in RtoRec
    BY Zenon DEF IInv, TypeOK, RtoRec
  <2> QED BY <1>3, <2>1, RtoMade, Zenon
<1>7. Typed'
  BY <1>3, <1>5, <1>6, Zenon DEF Typed, IInv, TypeOK, RtoRec
<1>8. o \in Op /\ o.pc \in Switching
  BY OpMade, Zenon DEF Switching
<1> HIDE DEF o
<1>9. Goes(a, o)
  BY <1>2, <1>3, <1>8, GoesOn, Zenon
<1>10. Leaving(o) /\ o.pc # "wake"
  BY <1>8, NullApart, Zenon DEF Leaving, Switching
<1> QED BY <1>3, <1>7, <1>9, <1>10, OpStep, Zenon

LEMMA IrqInv ==
    ASSUME IInv, NEW a \in CPU, rto_push_irq_work_func(a)
    PROVE  IInv'
<1>1. op[a] = NULL
  BY Zenon DEF rto_push_irq_work_func
<1>2. UNCHANGED <<cpu, queued, curr, pushable>> /\ need_resched' = need_resched /\ irq_work' = NULL
      /\ rto' = rto /\ lost' = lost /\ UNCHANGED <<lock, setup>>
  BY Zenon DEF rto_push_irq_work_func, rqVars, setup
<1>3. Typed'
  BY <1>2, Zenon DEF Typed, IInv, TypeOK
<1> DEFINE o == IF pushable[a] # {} THEN [pc |-> "callback", rq |-> a, after |-> "rto"] ELSE [pc |-> "rto"]
<1>4. op' = [op EXCEPT ![a] = o]
  BY Zenon DEF rto_push_irq_work_func
<1>5. o \in Op /\ o.pc # "wake"
  BY OpMade, Zenon
<1> HIDE DEF o
<1>6. Goes(a, o)
  BY <1>1, <1>2, <1>4, <1>5, GoesFree, Zenon DEF HoldsNone
<1>7. ~Leaving(op[a])
  BY <1>1, Zenon DEF Leaving
<1> QED BY <1>2, <1>3, <1>5, <1>6, <1>7, OpStep, Zenon

LEMMA PassOnInv ==
    ASSUME IInv, NEW a \in CPU, rto_pass_on(a)
    PROVE  IInv'
<1> DEFINE n == rto_next_cpu
<1>1. op[a] \in Op /\ op[a].pc = "rto"
  BY OpAt, Zenon DEF rto_pass_on, IInv
<1>2. HoldsNone(a) /\ ~Leaving(op[a])
  BY <1>1, Zenon DEF HoldsNone, Leaving, Switching
<1>3. UNCHANGED <<cpu, queued, curr, pushable>> /\ need_resched' = need_resched
      /\ lost' = lost /\ UNCHANGED <<lock, setup>> /\ op' = [op EXCEPT ![a] = NULL]
      /\ rto' = [cpu |-> n.cpu, start |-> rto.start, again |-> n.again]
      /\ irq_work' = IF n.cpu >= 0 THEN n.cpu ELSE irq_work
  BY Zenon DEF rto_pass_on, Done, rqVars, setup
<1>4. n.cpu \in -1 .. N - 1 /\ n.again \in BOOLEAN
  BY NextCpu, Zenon DEF IInv
<1>5. irq_work' \in CPU \cup {NULL}
  <2>1. n.cpu >= 0 => n.cpu \in CPU
    BY <1>4, IpiCpu, Zenon
  <2> QED BY <1>3, <2>1, Zenon DEF IInv, TypeOK
<1> HIDE DEF n
<1>6. rto' \in RtoRec
  <2>1. rto \in RtoRec
    BY Zenon DEF IInv, TypeOK, RtoRec
  <2>2. rto.start \in BOOLEAN
    BY <2>1, RtoMade, Zenon
  <2> QED BY <1>3, <1>4, <2>1, <2>2, RtoMade, Zenon
<1>7. Typed'
  BY <1>3, <1>5, <1>6, Zenon DEF Typed, IInv, TypeOK, RtoRec
<1>8. Goes(a, NULL)
  BY <1>2, <1>3, GoesFree, Zenon
<1> QED BY <1>2, <1>3, <1>7, <1>8, OpStep, Zenon

-----------------------------------------------------------------------------
LEMMA InitInv == Init => IInv
<1> SUFFICES ASSUME Init PROVE IInv
  OBVIOUS
<1>1. TypeOK
  <2>1. RT_PUSH_IPI \in BOOLEAN /\ pinned \subseteq Task
    BY BalanceAssumption, Zenon DEF BalanceAssumption, Init
  <2>2. rto \in [cpu : -1 .. N - 1, start : BOOLEAN, again : BOOLEAN]
    BY BalanceAssumption, SMT DEF BalanceAssumption, Init
  <2> QED BY <2>1, <2>2, Zenon DEF Init, TypeOK
<1>2. LockInv /\ PlaceInv /\ PushInv /\ CurrInv
  BY Zenon DEF Init, LockInv, PlaceInv, PushInv, CurrInv
<1>3. WakeInv
  BY Zenon DEF Init, WakeInv, Wakes, At
<1> QED BY <1>1, <1>2, <1>3, Zenon DEF IInv

LEMMA StepInv ==
    ASSUME IInv, [Next]_vars
    PROVE  IInv'
<1>1. CASE UNCHANGED vars
  <2>1. /\ UNCHANGED <<cpu, queued, curr, pushable, need_resched, lock, op, rto, irq_work, lost>>
        /\ UNCHANGED <<RT_PUSH_IPI, pinned>>
    BY <1>1, Zenon DEF vars, rqVars, rtoVars, setup
  <2>2. TypeOK' /\ LockInv'
    BY <2>1, Zenon DEF IInv, TypeOK, LockInv, Holds
  <2>3. PlaceInv' /\ PushInv' /\ CurrInv'
    BY <2>1, Zenon DEF IInv, PlaceInv, PushInv, CurrInv, Allowed, Migratory, Leaving
  <2>4. WakeInv'
    BY <2>1, Zenon DEF IInv, WakeInv, Wakes, At, Allowed
  <2> QED BY <2>2, <2>3, <2>4, Zenon DEF IInv
<1>2. CASE Next
  <2>1. PICK a \in CPU :
            \/ \E p \in Task : try_to_wake_up(a, p)
            \/ ttwu_do_activate(a)
            \/ push_rt_tasks(a) \/ push_rt_task(a) \/ push_rt_task_locked(a)
            \/ \E sleeps \in BOOLEAN : schedule(a, sleeps)
            \/ pull_rt_task(a) \/ pull_next(a) \/ pull_take(a)
            \/ pick_next_task_rt(a)
            \/ tell_cpu_to_push(a) \/ tell_scan(a) \/ tell_unlock(a)
            \/ rto_push_irq_work_func(a) \/ rto_pass_on(a)
    BY <1>2, Zenon DEF Next
  <2> QED BY <2>1, WakeupInv, ActivateInv, CallbackInv, PushInvStep, LockedInv, ScheduleInv, PullInv,
             PullNextInv, PullTakeInv, PickInv, TellInv, ScanInv, UnlockInv, IrqInv, PassOnInv, Zenon
<1> QED BY <1>1, <1>2, Zenon

LEMMA Inductive == Spec => []IInv
BY InitInv, StepInv, PTL DEF Spec

\* Type correctness of the balancing code, and a run queue lock is only held
\* by a CPU that is in an operation: no path through schedule, push_rt_task or
\* pull_rt_task returns with the lock.
THEOREM BalanceTypeOK == Spec => []TypeOK
<1>1. IInv => TypeOK
  BY Zenon DEF IInv
<1> QED BY <1>1, Inductive, PTL

\* The BUG_ONs of pick_next_pushable_task never fire and no task is lost or
\* misplaced by balancing, however wakeups, pushes, pulls and IPIs of any
\* number of CPUs interleave while run queue locks are dropped.
THEOREM PushableAlwaysAgrees == Spec => []PushableAgrees
<1>1. IInv => PushableAgrees
  <2> SUFFICES ASSUME IInv PROVE PushableAgrees
    OBVIOUS
  <2>1. \A p \in queued : cpu[p] \in Allowed(p)
    BY Zenon DEF IInv, TypeOK, PlaceInv
  <2>2. \A c \in CPU : curr[c] # IDLE => \/ curr[c] \in OnRq(c)
                                         \/ (curr[c] \notin queued /\ op[c] # NULL)
    BY Zenon DEF IInv, CurrInv, OnRq, Leaving
  <2> QED BY <2>1, <2>2, Zenon DEF IInv, PushInv, PushableAgrees
<1> QED BY <1>1, Inductive, PTL
-----------------------------------------------------------------------------
\* Nobody waits in vain.  As long as a task waits on d that c should run,
\* somebody is still going to look: d itself (Looks), c (WillAsk) or the IPI
\* (WillBeTold).

Pushing == {"callback", "push", "push2"}
Pushes(a, d) == op[a] # NULL /\ op[a].pc \in Pushing /\ op[a].rq = d
Away(d) == Leaving(op[d])

\* The IPI is on its way through CPU a.
Carries(a) ==
    /\ op[a] # NULL
    /\ \/ op[a].pc = "rto"
       \/ op[a].pc \in Pushing /\ op[a].after = "rto"
       \/ op[a].pc = "unlock" /\ op[a].cpu >= 0

\* Whoever holds rto_loop_start.
Starts(b) == At(b, "scan") \/ At(b, "unlock")

\* rto_cpu is where the IPI is, and there is at most one.
RtoInv ==
    /\ irq_work # NULL => irq_work = rto.cpu /\ \A a \in CPU : ~Carries(a)
    /\ \A a \in CPU : Carries(a) =>
          /\ rto.cpu >= 0 /\ (At(a, "unlock") => op[a].cpu = rto.cpu)
          /\ \A b \in CPU : Carries(b) => b = a
    /\ rto.cpu >= 0 => irq_work # NULL \/ \E a \in CPU : Carries(a)
    /\ rto.start => \E b \in CPU : Starts(b)

\* A CPU runs its best task, or is about to.
BestInv == \A c \in CPU : c \in need_resched \/ Away(c) \/ \A q \in OnRq(c) : curr[c] <= q

\* c has nothing as important as p; something waits on d that c should run.
Room(p, c) == \A q \in OnRq(c) : p < q
Waits(d, c) == \E p \in pushable[d] : Room(p, c)

Looks(d) == d \in need_resched \/ Away(d) \/ \E a \in CPU : Pushes(a, d)
Pending(d, c) == Looks(d) \/ WillAsk(c, d) \/ WillBeTold(d)
PendInv == ~lost => \A d, c \in CPU : Waits(d, c) => Pending(d, c)

BalanceInv == RtoInv /\ BestInv /\ PendInv

-----------------------------------------------------------------------------
\* Priorities.

LEMMA MinLeq ==
    ASSUME NEW T \in SUBSET Nat, NEW n \in T
    PROVE  Min(T) \in T /\ Min(T) <= n
<1>1. PICK m \in T : \A k \in T : ~(<<k, m>> \in OpToRel(<, Nat))
  BY NatLessThanWellFounded, WFMin, Zenon
<1>2. \A k \in T : k < m => <<k, m>> \in OpToRel(<, Nat)
  BY SMT DEF OpToRel
<1>3. \A k \in T : ~(k < m)
  BY <1>1, <1>2, Zenon
<1>4. \A k \in T : m <= k
  BY <1>3, SMT
<1>5. Min(T) \in T /\ \A k \in T : Min(T) <= k
  BY <1>4, Zenon DEF Min
<1> QED BY <1>5, Zenon

LEMMA MaxGeq ==
    ASSUME NEW T \in SUBSET (0 .. IDLE), NEW n \in T
    PROVE  Max(T) \in T /\ Max(T) >= n
<1> DEFINE S == {IDLE - k : k \in T}
<1>1. S \in SUBSET Nat
  BY SMT DEF IDLE
<1>2. \A k \in T : IDLE - k \in S
  BY Zenon
<1> DEFINE m == Min(S)
<1> HIDE DEF S
<1>3. m \in S /\ \A k \in T : m <= IDLE - k
  BY <1>1, <1>2, MinLeq, Zenon
<1> HIDE DEF m
<1>4. PICK x \in T : m = IDLE - x
  BY <1>3, Zenon DEF S
<1>5. \A k \in T : x >= k
  BY <1>3, <1>4, SMT DEF IDLE
<1>6. Max(T) \in T /\ \A k \in T : Max(T) >= k
  BY <1>5, Zenon DEF Max
<1> QED BY <1>6, Zenon

\* What is on a run queue.
LEMMA Queued ==
    ASSUME TypeOK, NEW c \in CPU
    PROVE  /\ OnRq(c) \subseteq Task
           /\ \A q : q \in OnRq(c) <=> q \in queued /\ cpu[q] = c
           /\ OnRq(c) \cup {IDLE} \in SUBSET Nat
           /\ OnRq(c) \cup {IDLE} \in SUBSET (0 .. IDLE)
<1>1. OnRq(c) \subseteq Task
  BY Zenon DEF TypeOK, OnRq
<1>2. Task \cup {IDLE} \subseteq 0 .. IDLE
  BY BalanceAssumption, SMT DEF BalanceAssumption, IDLE
<1> QED BY <1>1, <1>2, Idle, Zenon DEF OnRq

\* A task has room on c exactly if highest_prio of c is worse.
LEMMA RoomIs ==
    ASSUME TypeOK, NEW c \in CPU, NEW p \in Task
    PROVE  /\ Room(p, c) <=> p < highest_prio(c)
           /\ highest_prio(c) \in 0 .. IDLE
           /\ \A q \in OnRq(c) : highest_prio(c) <= q
<1> DEFINE S == OnRq(c) \cup {IDLE}
<1>1. S \in SUBSET Nat /\ S \in SUBSET (0 .. IDLE) /\ IDLE \in S
  BY Queued, Zenon
<1>2. \A q \in OnRq(c) : q \in S
  BY Zenon
<1>3. highest_prio(c) = Min(S)
  BY Zenon DEF highest_prio
<1>4. \A q \in S : q \in OnRq(c) \/ q = IDLE
  BY Zenon
<1> HIDE DEF S
<1>5. highest_prio(c) \in S /\ \A q \in S : highest_prio(c) <= q
  BY <1>1, <1>3, MinLeq, Zenon
<1>6. p \in 0 .. 99
  BY BalanceAssumption, Zenon DEF BalanceAssumption
<1>7. ASSUME Room(p, c) PROVE p < highest_prio(c)
  BY <1>4, <1>5, <1>6, <1>7, SMT DEF Room, IDLE
<1>8. ASSUME p < highest_prio(c) PROVE Room(p, c)
  <2> SUFFICES ASSUME NEW q \in OnRq(c) PROVE p < q
    BY Zenon DEF Room
  <2>1. highest_prio(c) \in Nat /\ q \in Nat /\ highest_prio(c) <= q
    BY <1>1, <1>2, <1>5, Zenon
  <2> QED BY <1>6, <1>8, <2>1, SMT
<1> QED BY <1>1, <1>2, <1>5, <1>7, <1>8, Zenon

\* A task that waits on d has no room on d.
LEMMA NotAtHome ==
    ASSUME IInv, NEW d \in CPU
    PROVE  ~Waits(d, d)
<1> SUFFICES ASSUME NEW p \in pushable[d], Room(p, d) PROVE FALSE
  BY Zenon DEF Waits
<1>1. p \in OnRq(d)
  BY Zenon DEF IInv, PushInv, OnRq
<1>2. p \in Nat /\ p < p
  BY <1>1, Queued, Idle, Zenon DEF Room, IInv
<1> QED BY <1>2, SMT

\* A task that may be pushed may run on every CPU.
LEMMA AllowedAll ==
    ASSUME IInv, NEW d \in CPU, NEW p \in pushable[d]
    PROVE  /\ p \in Task /\ p \in queued /\ cpu[p] = d /\ curr[d] # p /\ Migratory(p)
           /\ p \in OnRq(d) /\ Allowed(p) = CPU
<1>1. p \in Task /\ p \in queued /\ cpu[p] = d /\ curr[d] # p /\ Migratory(p)
  BY Zenon DEF IInv, PushInv, TypeOK
<1>2. Allowed(p) # {p % N}
  <2>1. Cardinality({p % N}) = 1
    BY FS_Singleton, Zenon
  <2>2. Cardinality(Allowed(p)) > 1
    BY <1>1, Zenon DEF Migratory
  <2>3. ~(1 > 1)
    BY SMT
  <2> QED BY <2>1, <2>2, <2>3, Zenon
<1>3. Allowed(p) = CPU
  BY <1>2, Zenon DEF Allowed
<1> QED BY <1>1, <1>3, Zenon DEF OnRq

\* What waits on a CPU that is not about to reschedule waits behind a more
\* important task, and the CPU is marked overloaded.
LEMMA Ready ==
    ASSUME IInv, BestInv, NEW d \in CPU, NEW p \in pushable[d], d \notin need_resched, ~Away(d)
    PROVE  overloaded(d) /\ d \in rto_mask /\ curr[d] < p
<1>1. p \in Task /\ curr[d] # p /\ Migratory(p) /\ p \in OnRq(d)
  BY AllowedAll, Zenon
<1>2. curr[d] <= p
  BY <1>1, Zenon DEF BestInv
<1>3. curr[d] \in Nat /\ p \in 0 .. 99
  BY <1>1, BalanceAssumption, Idle, Zenon DEF BalanceAssumption, IInv, TypeOK
<1>4. curr[d] < p /\ curr[d] # IDLE
  BY <1>1, <1>2, <1>3, SMT DEF IDLE
<1>5. curr[d] \in OnRq(d)
  BY <1>4, Zenon DEF IInv, CurrInv, OnRq, Away
<1>6. Cardinality(OnRq(d)) > 1
  <2>1. IsFiniteSet(OnRq(d))
    <3>1. IsFiniteSet(0 .. 99)
      <4>1. 0 \in Int /\ 99 \in Int
        BY SMT
      <4> QED BY <4>1, FS_Interval, Zenon
    <3>2. OnRq(d) \subseteq 0 .. 99
      BY BalanceAssumption, Queued, Zenon DEF BalanceAssumption, IInv
    <3> QED BY <3>1, <3>2, FS_Subset, Zenon
  <2>2. {curr[d], p} \subseteq OnRq(d)
    BY <1>1, <1>5, Zenon
  <2>3. IsFiniteSet({p}) /\ Cardinality({p}) = 1
    BY FS_Singleton, Zenon
  <2>4. curr[d] \notin {p} /\ {p} \cup {curr[d]} = {curr[d], p}
    BY <1>1, Zenon
  <2>5. Cardinality({curr[d], p}) = 2
    <3>1. Cardinality({p} \cup {curr[d]}) = Cardinality({p}) + 1
      BY <2>3, <2>4, FS_AddElement, Zenon
    <3> QED BY <2>3, <2>4, <3>1, SMT
  <2>6. Cardinality({curr[d], p}) <= Cardinality(OnRq(d)) /\ Cardinality(OnRq(d)) \in Nat
    BY <2>1, <2>2, FS_Subset, FS_CardinalityType, Zenon
  <2> QED BY <2>5, <2>6, SMT
<1> QED BY <1>1, <1>4, <1>6, Zenon DEF overloaded, rto_mask

\* find_lowest_rq finds another CPU for a task that has room somewhere.
LEMMA Targets ==
    ASSUME IInv, NEW r \in CPU, NEW p \in pushable[r], NEW c \in CPU, Room(p, c)
    PROVE  find_lowest_rq(p) \ {r} # {}
<1> DEFINE prios == {highest_prio(d) : d \in CPU}
           lowest == {d \in CPU : highest_prio(d) = Max(prios)}
<1>1. p \in Task /\ cpu[p] = r /\ Migratory(p) /\ p \in OnRq(r) /\ Allowed(p) = CPU
  BY AllowedAll, Zenon
<1>2. \A d \in CPU : highest_prio(d) \in 0 .. IDLE
  BY <1>1, RoomIs, Zenon DEF IInv
<1>3. prios \in SUBSET (0 .. IDLE) /\ \A d \in CPU : highest_prio(d) \in prios
  BY <1>2, Zenon
<1>4. find_lowest_rq(p) = IF ~Migratory(p) \/ Max(prios) <= p THEN {}
                          ELSE IF cpu[p] \in lowest THEN {cpu[p]} ELSE lowest
  BY <1>1, Zenon DEF find_lowest_rq
<1>5. Max(prios) \in prios /\ Max(prios) >= highest_prio(c)
  <2> HIDE DEF prios
  <2> QED BY <1>3, MaxGeq, Zenon
<1>6. PICK e \in CPU : highest_prio(e) = Max(prios)
  BY <1>5, Zenon
<1> DEFINE m == Max(prios)
<1>7. p < highest_prio(c) /\ highest_prio(r) <= p
  BY <1>1, RoomIs, Zenon DEF IInv
<1>8. p \in Nat /\ highest_prio(c) \in 0 .. IDLE /\ highest_prio(r) \in 0 .. IDLE /\ m \in 0 .. IDLE
      /\ m >= highest_prio(c)
  BY <1>1, <1>2, <1>5, <1>6, Idle, Zenon
<1> HIDE DEF m
<1>9. ~(m <= p) /\ m # highest_prio(r)
  BY <1>7, <1>8, SMT DEF IDLE
<1>10. r \notin lowest /\ e \in lowest
  BY <1>6, <1>9, Zenon DEF m
<1>11. find_lowest_rq(p) = lowest
  BY <1>1, <1>4, <1>9, <1>10, Zenon DEF m
<1> QED BY <1>10, <1>11, Zenon

-----------------------------------------------------------------------------
\* What a step of CPU a leaves alone.

\* Only a changes its operation.
Alone(a) == \A b \in CPU : b # a => op'[b] = op[b]

LEMMA GoesAlone ==
    ASSUME TypeOK, NEW a \in CPU, NEW o, op' = [op EXCEPT ![a] = o]
    PROVE  Alone(a) /\ op'[a] = o
BY Zenon DEF TypeOK, Alone

LEMMA OthersKept ==
    ASSUME NEW a \in CPU, Alone(a), NEW b \in CPU, b # a
    PROVE  /\ Carries(b)' <=> Carries(b)
           /\ Away(b)' <=> Away(b)
           /\ Starts(b)' <=> Starts(b)
           /\ At(b, "scan")' <=> At(b, "scan")
           /\ At(b, "unlock")' <=> At(b, "unlock")
           /\ op'[b] = op[b]
           /\ \A d \in CPU : (Pushes(b, d)' <=> Pushes(b, d)) /\ (WillAsk(b, d)' <=> WillAsk(b, d))
<1>1. op'[b] = op[b]
  BY Zenon DEF Alone
<1>2. (Carries(b)' <=> Carries(b)) /\ (Away(b)' <=> Away(b))
  BY <1>1, Zenon DEF Carries, Away, Leaving
<1>3. (At(b, "scan")' <=> At(b, "scan")) /\ (At(b, "unlock")' <=> At(b, "unlock"))
  BY <1>1, Zenon DEF At
<1>4. Starts(b)' <=> Starts(b)
  BY <1>3, Zenon DEF Starts
<1>5. \A d \in CPU : (Pushes(b, d)' <=> Pushes(b, d)) /\ (WillAsk(b, d)' <=> WillAsk(b, d))
  BY <1>1, Zenon DEF Pushes, WillAsk
<1> QED BY <1>1, <1>2, <1>3, <1>4, <1>5, Zenon

\* A CPU that does nothing.
LEMMA Nothing ==
    ASSUME NEW a, op[a] = NULL
    PROVE  ~Carries(a) /\ ~Away(a) /\ ~Starts(a) /\ \A d : ~Pushes(a, d) /\ ~WillAsk(a, d)
BY Zenon DEF Carries, Away, Leaving, Starts, At, Pushes, WillAsk

\* Steps that have nothing to do with the IPI.
LEMMA IpiKept ==
    ASSUME NEW a \in CPU, Alone(a), UNCHANGED <<rto, irq_work>>,
           Carries(a)' <=> Carries(a), ~Starts(a), ~Starts(a)'
    PROVE  /\ RtoInv => RtoInv'
           /\ \A d \in CPU : WillBeTold(d)' <=> WillBeTold(d)
<1>1. \A b \in CPU : Carries(b)' <=> Carries(b)
  BY OthersKept, Zenon
<1>2. \A b \in CPU : /\ At(b, "scan")' <=> At(b, "scan")
                     /\ At(b, "unlock")' <=> At(b, "unlock")
                     /\ Starts(b)' <=> Starts(b)
                     /\ At(b, "unlock") => op'[b] = op[b]
  <2> SUFFICES ASSUME NEW b \in CPU
               PROVE  /\ At(b, "scan")' <=> At(b, "scan")
                      /\ At(b, "unlock")' <=> At(b, "unlock")
                      /\ Starts(b)' <=> Starts(b)
                      /\ At(b, "unlock") => op'[b] = op[b]
    BY Zenon
  <2>1. CASE b # a
    BY <2>1, OthersKept, Zenon
  <2>2. CASE b = a
    <3>1. ~At(a, "scan") /\ ~At(a, "unlock")
      BY Zenon DEF Starts
    <3>2. ~At(a, "scan")' /\ ~At(a, "unlock")'
      BY Zenon DEF Starts
    <3> QED BY <2>2, <3>1, <3>2, Zenon
  <2> QED BY <2>1, <2>2, Zenon
<1>3. RtoInv => RtoInv'
  <2> SUFFICES ASSUME RtoInv PROVE RtoInv'
    BY Zenon
  <2>1. (irq_work # NULL => irq_work = rto.cpu /\ \A b \in CPU : ~Carries(b))'
    BY <1>1, Zenon DEF RtoInv
  <2>2. \A c \in CPU : Carries(c)' =>
          /\ rto'.cpu >= 0 /\ (At(c, "unlock")' => op'[c].cpu = rto'.cpu)
          /\ \A b \in CPU : Carries(b)' => b = c
    <3> SUFFICES ASSUME NEW c \in CPU, Carries(c)'
                 PROVE  /\ rto'.cpu >= 0 /\ (At(c, "unlock")' => op'[c].cpu = rto'.cpu)
                        /\ \A b \in CPU : Carries(b)' => b = c
      BY Zenon
    <3>1. Carries(c)
      BY <1>1, Zenon
    <3>2. /\ rto.cpu >= 0 /\ (At(c, "unlock") => op[c].cpu = rto.cpu)
          /\ \A b \in CPU : Carries(b) => b = c
      BY <3>1, Zenon DEF RtoInv
    <3>3. At(c, "unlock")' => At(c, "unlock") /\ op'[c] = op[c]
      BY <1>2, Zenon
    <3> QED BY <1>1, <3>2, <3>3, Zenon
  <2>3. rto'.cpu >= 0 => irq_work' # NULL \/ \E b \in CPU : Carries(b)'
    BY <1>1, Zenon DEF RtoInv
  <2>4. rto'.start => \E b \in CPU : Starts(b)'
    BY <1>2, Zenon DEF RtoInv
  <2> QED BY <2>1, <2>2, <2>3, <2>4, Zenon DEF RtoInv
<1>4. \A d \in CPU : WillBeTold(d)' <=> WillBeTold(d)
  <2> SUFFICES ASSUME NEW d \in CPU PROVE WillBeTold(d)' <=> WillBeTold(d)
    BY Zenon
  <2>1. (\E b \in CPU : At(b, "scan")') <=> (\E b \in CPU : At(b, "scan"))
    BY <1>2, Zenon
  <2>2. (\E b \in CPU : At(b, "unlock")' /\ op'[b].cpu = d) <=> (\E b \in CPU : At(b, "unlock") /\ op[b].cpu = d)
    BY <1>2, Zenon
  <2> QED BY <2>1, <2>2, Zenon DEF WillBeTold
<1> QED BY <1>3, <1>4, Zenon

\* Who was going to look still is, unless it was a.
LEMMA StillPending ==
    ASSUME NEW a \in CPU, Alone(a), NEW d \in CPU, NEW c \in CPU, Pending(d, c),
           d \in need_resched => d \in need_resched', d = a /\ Away(a) => Away(a)',
           Pushes(a, d) => Pending(d, c)', c = a /\ WillAsk(a, d) => Pending(d, c)',
           WillBeTold(d) => Pending(d, c)'
    PROVE  Pending(d, c)'
<1>1. CASE d \in need_resched
  BY <1>1, Zenon DEF Pending, Looks
<1>2. CASE Away(d)
  <2>1. Away(d)'
    BY <1>2, OthersKept, Zenon
  <2> QED BY <2>1, Zenon DEF Pending, Looks
<1>3. CASE \E b \in CPU : Pushes(b, d)
  <2>1. PICK b \in CPU : Pushes(b, d)
    BY <1>3, Zenon
  <2>2. CASE b # a
    <3>1. Pushes(b, d)'
      BY <2>1, <2>2, OthersKept, Zenon
    <3> QED BY <3>1, Zenon DEF Pending, Looks
  <2> QED BY <2>1, <2>2, Zenon
<1>4. CASE WillAsk(c, d)
  <2>1. CASE c # a
    <3>1. WillAsk(c, d)'
      BY <1>4, <2>1, OthersKept, Zenon
    <3> QED BY <3>1, Zenon DEF Pending
  <2> QED BY <1>4, <2>1, Zenon
<1> QED BY <1>1, <1>2, <1>3, <1>4, Zenon DEF Pending, Looks

\* The steps that leave the run queues alone.
LEMMA QueuesStay ==
    ASSUME BalanceInv, NEW a \in CPU, Alone(a), UNCHANGED <<cpu, queued, curr, pushable>>,
           need_resched \subseteq need_resched', Away(a) => Away(a)', RtoInv', lost => lost',
           \A d, c \in CPU : ~lost' /\ Waits(d, c) =>
               /\ Pushes(a, d) => Pending(d, c)'
               /\ c = a /\ WillAsk(a, d) => Pending(d, c)'
               /\ WillBeTold(d) => Pending(d, c)'
    PROVE  BalanceInv'
<1>1. \A c \in CPU : OnRq(c)' = OnRq(c)
  BY Zenon DEF OnRq
<1>2. BestInv'
  <2> SUFFICES ASSUME NEW c \in CPU
               PROVE  c \in need_resched' \/ Away(c)' \/ \A q \in OnRq(c)' : curr'[c] <= q
    BY Zenon DEF BestInv
  <2>1. c \in need_resched \/ Away(c) \/ \A q \in OnRq(c) : curr[c] <= q
    BY Zenon DEF BalanceInv, BestInv
  <2>2. Away(c) => Away(c)'
    BY OthersKept, Zenon
  <2> QED BY <1>1, <2>1, <2>2, Zenon
<1>3. PendInv'
  <2> SUFFICES ASSUME ~lost', NEW d \in CPU, NEW c \in CPU, Waits(d, c)'
               PROVE  Pending(d, c)'
    BY Zenon DEF PendInv
  <2>1. Waits(d, c)
    BY <1>1, Zenon DEF Waits, Room
  <2>2. Pending(d, c)
    BY <2>1, Zenon DEF BalanceInv, PendInv
  <2> QED BY <2>1, <2>2, StillPending, Zenon
<1> QED BY <1>2, <1>3, Zenon DEF BalanceInv

\* What MoveTo does to the run queues.
LEMMA Moved ==
    ASSUME IInv, NEW p \in Task, NEW t \in CPU, MoveTo(p, t)
    PROVE  /\ OnRq(t)' = OnRq(t) \cup {p}
           /\ \A c \in CPU : c # t => OnRq(c)' = OnRq(c) \ {p}
           /\ \A d \in CPU : d # t => pushable'[d] = pushable[d] \ {p}
           /\ pushable'[t] \subseteq pushable[t] \cup {p}
           /\ ~Migratory(p) => pushable'[t] \subseteq pushable[t]
<1>1. cpu \in [Task -> CPU] /\ cpu' = [cpu EXCEPT ![p] = t] /\ queued' = queued \cup {p} /\ queued \subseteq Task
  BY Zenon DEF IInv, TypeOK, MoveTo
<1>2. pushable' = [d \in CPU |-> IF d = t /\ Migratory(p) /\ curr[t] # p
                                 THEN pushable[d] \cup {p} ELSE pushable[d] \ {p}]
  BY Zenon DEF MoveTo, enqueue_pushable_task
<1>3. cpu'[p] = t /\ \A q \in Task : q # p => cpu'[q] = cpu[q]
  BY <1>1, Zenon
<1>4. \A c \in CPU : \A q : q \in OnRq(c)' <=> q \in queued' /\ cpu'[q] = c
  BY Zenon DEF OnRq
<1>5. \A c \in CPU : \A q : q \in OnRq(c) <=> q \in queued /\ cpu[q] = c
  BY Zenon DEF OnRq
<1>6. OnRq(t)' = OnRq(t) \cup {p}
  <2>1. \A q : q \in OnRq(t)' <=> q \in OnRq(t) \/ q = p
    BY <1>1, <1>3, <1>4, <1>5, Zenon
  <2> QED BY <2>1, Zenon
<1>7. ASSUME NEW c \in CPU, c # t PROVE OnRq(c)' = OnRq(c) \ {p}
  <2>1. p \notin OnRq(c)'
    BY <1>3, <1>4, <1>7, Zenon
  <2>2. ASSUME NEW q, q # p PROVE q \in OnRq(c)' <=> q \in OnRq(c)
    BY <1>1, <1>3, <1>4, <1>5, <2>2, Zenon
  <2> QED BY <2>1, <2>2, Zenon
<1> QED BY <1>2, <1>6, <1>7, Zenon

-----------------------------------------------------------------------------
\* Wakeups.

LEMMA WakeupPend ==
    ASSUME IInv, BalanceInv, NEW a \in CPU, NEW p \in Task, try_to_wake_up(a, p)
    PROVE  BalanceInv'
<1>1. op[a] = NULL /\ UNCHANGED <<cpu, queued, curr, pushable, need_resched>> /\ UNCHANGED <<rto, irq_work, lost>>
  BY Zenon DEF try_to_wake_up, rqVars, rtoVars
<1>2. PICK c : op' = [op EXCEPT ![a] = [pc |-> "wake", task |-> p, rq |-> c]]
  BY Zenon DEF try_to_wake_up
<1> DEFINE o == [pc |-> "wake", task |-> p, rq |-> c]
<1>a. o.pc = "wake" /\ op' = [op EXCEPT ![a] = o]
  BY <1>2, Zenon
<1> HIDE DEF o
<1>3. Alone(a) /\ op'[a] = o
  BY <1>a, GoesAlone, Zenon DEF IInv
<1>4. op'[a].pc = "wake"
  BY <1>a, <1>3, Zenon
<1>5. ~Carries(a)' /\ ~Starts(a)'
  BY <1>4, Zenon DEF Carries, Starts, At, Pushing
<1>6. ~Carries(a) /\ ~Starts(a) /\ ~Away(a) /\ \A d \in CPU : ~Pushes(a, d) /\ ~WillAsk(a, d)
  BY <1>1, Nothing, Zenon
<1>7. RtoInv' /\ \A d \in CPU : WillBeTold(d)' <=> WillBeTold(d)
  BY <1>1, <1>3, <1>5, <1>6, IpiKept, Zenon DEF BalanceInv
<1> QED BY <1>1, <1>3, <1>6, <1>7, QueuesStay, Zenon DEF Pending

LEMMA ActivatePend ==
    ASSUME IInv, BalanceInv, NEW a \in CPU, ttwu_do_activate(a)
    PROVE  BalanceInv'
<1>1. op[a] \in Op /\ op[a].pc = "wake" /\ At(a, "wake")
  BY OpAt, Zenon DEF ttwu_do_activate, IInv
<1>2. PICK p \in Task, t \in CPU : p = op[a].task /\ t = op[a].rq
  BY <1>1, OpFields, Zenon
<1>b. p \in Task /\ t \in CPU
  BY <1>2, Zenon
<1> DEFINE new == [pc |-> "push", rq |-> t, retry |-> FALSE, after |-> "done"]
<1>3. p \notin queued
  BY <1>1, <1>2, Zenon DEF IInv, WakeInv, Wakes
<1>4. MoveTo(p, t) /\ curr' = curr /\ UNCHANGED <<rto, irq_work, lost>>
  BY <1>2, Zenon DEF ttwu_do_activate, rtoVars
<1>5. need_resched \subseteq need_resched' /\ (p < curr[t] => t \in need_resched')
  BY <1>2, Zenon DEF ttwu_do_activate, check_preempt_curr_rt
<1>6. \/ op' = [op EXCEPT ![a] = new]
      \/ op' = [op EXCEPT ![a] = NULL] /\ (p < curr[t] \/ ~task_woken_rt(p, t))
  BY <1>2, Zenon DEF ttwu_do_activate, Done, check_preempt_curr_rt
<1>7. new.pc = "push" /\ new.rq = t /\ new.after = "done" /\ new \in Op
  BY <1>2, OpMade, Zenon
<1>8. ~Carries(a) /\ ~Starts(a) /\ ~Away(a) /\ \A d \in CPU : ~Pushes(a, d) /\ ~WillAsk(a, d)
  BY <1>1, Zenon DEF Carries, Starts, At, Away, Leaving, Pushes, WillAsk, Pushing, Switching
<1> HIDE DEF new
<1>9. /\ Alone(a) /\ ~Carries(a)' /\ ~Starts(a)'
      /\ Pushes(a, t)' \/ p < curr[t] \/ ~task_woken_rt(p, t)
  <2>1. CASE op' = [op EXCEPT ![a] = new]
    <3>1. Alone(a) /\ op'[a] = new
      BY <2>1, GoesAlone, Zenon DEF IInv
    <3>2. ~Carries(a)' /\ ~Starts(a)'
      BY <1>7, <3>1, Zenon DEF Carries, Starts, At
    <3>3. Pushes(a, t)'
      BY <1>7, <3>1, NullApart, Zenon DEF Pushes, Pushing
    <3> QED BY <3>1, <3>2, <3>3, Zenon
  <2>2. CASE op' = [op EXCEPT ![a] = NULL] /\ (p < curr[t] \/ ~task_woken_rt(p, t))
    <3>1. Alone(a) /\ op'[a] = NULL
      BY <2>2, GoesAlone, Zenon DEF IInv
    <3>2. ~Carries(a)' /\ ~Starts(a)'
      BY <3>1, Zenon DEF Carries, Starts, At
    <3> QED BY <2>2, <3>1, <3>2, Zenon
  <2> QED BY <1>6, <2>1, <2>2, Zenon
<1>10. RtoInv' /\ \A d \in CPU : WillBeTold(d)' <=> WillBeTold(d)
  BY <1>4, <1>8, <1>9, IpiKept, Zenon DEF BalanceInv
<1>11. /\ OnRq(t)' = OnRq(t) \cup {p}
       /\ \A c \in CPU : c # t => OnRq(c)' = OnRq(c) \ {p}
       /\ \A d \in CPU : d # t => pushable'[d] = pushable[d] \ {p}
       /\ pushable'[t] \subseteq pushable[t] \cup {p}
       /\ ~Migratory(p) => pushable'[t] \subseteq pushable[t]
  BY <1>b, <1>4, Moved, Zenon
<1>12. \A c \in CPU : p \notin OnRq(c) /\ OnRq(c) \subseteq OnRq(c)'
  BY <1>3, <1>11, Zenon DEF OnRq
<1>13. curr[t] \in Nat /\ p \in 0 .. 99
  BY <1>b, BalanceAssumption, Idle, Zenon DEF BalanceAssumption, IInv, TypeOK
<1>14. ~(p < curr[t]) => curr[t] <= p /\ curr[t] # IDLE
  BY <1>13, SMT DEF IDLE
<1>15. BestInv'
  <2> SUFFICES ASSUME NEW c \in CPU
               PROVE  c \in need_resched' \/ Away(c)' \/ \A q \in OnRq(c)' : curr'[c] <= q
    BY Zenon DEF BestInv
  <2>1. c \in need_resched \/ Away(c) \/ \A q \in OnRq(c) : curr[c] <= q
    BY Zenon DEF BalanceInv, BestInv
  <2>2. Away(c) => Away(c)'
    BY <1>8, <1>9, OthersKept, Zenon
  <2> QED BY <1>4, <1>5, <1>11, <1>14, <2>1, <2>2, Zenon
<1>16. ASSUME NEW d \in CPU, NEW c \in CPU, ~lost', Waits(d, c)' PROVE Pending(d, c)'
  <2>1. PICK q \in pushable'[d] : \A x \in OnRq(c)' : q < x
    BY <1>16, Zenon DEF Waits, Room
  <2>2. Room(q, c)
    BY <1>12, <2>1, Zenon DEF Room
  <2>3. CASE q \in pushable[d]
    <3>1. Pending(d, c)
      BY <1>4, <1>16, <2>2, <2>3, Zenon DEF BalanceInv, PendInv, Waits
    <3> QED BY <1>5, <1>8, <1>9, <1>10, <3>1, StillPending, Zenon DEF Pending
  <2>4. CASE q \notin pushable[d]
    <3>1. d = t /\ Migratory(p)
      BY <1>11, <2>1, <2>4, Zenon
    <3>2. p < curr[t] \/ Pushes(a, t)' \/ t \in need_resched
      <4>1. ~(p < curr[t]) => (~Migratory(curr[t]) \/ curr[t] <= p) /\ curr[t] # IDLE
        BY <1>14, Zenon
      <4> QED BY <1>9, <3>1, <4>1, Zenon DEF task_woken_rt
    <3> QED BY <1>5, <3>1, <3>2, Zenon DEF Pending, Looks
  <2> QED BY <2>3, <2>4, Zenon
<1> QED BY <1>10, <1>15, <1>16, Zenon DEF BalanceInv, PendInv

-----------------------------------------------------------------------------
\* push_rt_tasks.

LEMMA CallbackPend ==
    ASSUME IInv, BalanceInv, NEW a \in CPU, push_rt_tasks(a)
    PROVE  BalanceInv'
<1> DEFINE r == op[a].rq
           new == [pc |-> "push", rq |-> r, retry |-> FALSE, after |-> op[a].after]
<1>1. op[a] \in Op /\ op[a].pc = "callback" /\ op[a] # NULL
  BY OpAt, NullApart, Zenon DEF push_rt_tasks, IInv
<1>2. r \in CPU /\ op[a].after \in {"done", "rto"}
  BY <1>1, OpFields, Zenon
<1>3. UNCHANGED <<cpu, queued, curr, pushable>> /\ need_resched' = need_resched
      /\ UNCHANGED <<rto, irq_work, lost>> /\ op' = [op EXCEPT ![a] = new]
  BY Zenon DEF push_rt_tasks, rqVars, rtoVars
<1>4. new \in Op /\ new.pc = "push" /\ new.rq = r /\ new.after = op[a].after
  BY <1>2, OpMade, Zenon
<1> HIDE DEF new
<1>5. Alone(a) /\ op'[a] = new /\ new # NULL
  BY <1>3, <1>4, GoesAlone, NullApart, Zenon DEF IInv
<1>6. (Carries(a)' <=> Carries(a)) /\ ~Starts(a) /\ ~Starts(a)'
  BY <1>1, <1>4, <1>5, Zenon DEF Carries, Starts, At, Pushing
<1>7. \A d \in CPU : (Pushes(a, d) => Pushes(a, d)') /\ ~WillAsk(a, d)
  BY <1>1, <1>4, <1>5, Zenon DEF Pushes, WillAsk, Pushing
<1>8. ~Away(a)
  BY <1>1, Zenon DEF Away, Leaving, Switching
<1>9. RtoInv' /\ \A d \in CPU : WillBeTold(d)' <=> WillBeTold(d)
  BY <1>3, <1>5, <1>6, IpiKept, Zenon DEF BalanceInv
<1>10. \A d, c \in CPU : /\ Pushes(a, d) => Pending(d, c)'
                         /\ ~WillAsk(a, d)
                         /\ WillBeTold(d) => Pending(d, c)'
  BY <1>7, <1>9, Zenon DEF Pending, Looks
<1> QED BY <1>3, <1>5, <1>8, <1>9, <1>10, QueuesStay, Zenon

\* The task that push_rt_task chooses has room wherever another one has.
LEMMA FirstHasRoom ==
    ASSUME IInv, NEW r \in CPU, NEW c \in CPU, Waits(r, c)
    PROVE  /\ Min(pushable[r]) \in pushable[r] /\ Room(Min(pushable[r]), c)
           /\ find_lowest_rq(Min(pushable[r])) \ {r} # {}
<1>1. PICK q \in pushable[r] : Room(q, c)
  BY Zenon DEF Waits
<1>2. pushable[r] \in SUBSET Nat /\ q \in pushable[r]
  BY Idle, Zenon DEF IInv, TypeOK
<1>3. Min(pushable[r]) \in pushable[r] /\ Min(pushable[r]) <= q
  BY <1>2, MinLeq, Zenon
<1> DEFINE p == Min(pushable[r])
<1>4. p \in Nat /\ q \in Nat /\ p <= q
  BY <1>2, <1>3, Zenon
<1> HIDE DEF p
<1>5. \A x \in OnRq(c) : x \in Nat /\ q < x
  BY <1>1, Queued, Idle, Zenon DEF Room, IInv
<1>6. \A x \in OnRq(c) : p < x
  BY <1>4, <1>5, SMT
<1>7. p \in pushable[r] /\ Room(p, c)
  BY <1>3, <1>6, Zenon DEF Room, p
<1>8. find_lowest_rq(p) \ {r} # {}
  BY <1>7, Targets, Zenon
<1> QED BY <1>7, <1>8, Zenon DEF p

\* What AfterPush does to the IPI.
LEMMA AfterCarries ==
    ASSUME IInv, NEW a \in CPU, op[a] # NULL, op[a].pc \in Pushing, op' = [op EXCEPT ![a] = After(op[a])]
    PROVE  Alone(a) /\ (Carries(a)' <=> Carries(a)) /\ ~Starts(a)'
<1>1. Alone(a) /\ op'[a] = After(op[a])
  BY GoesAlone, Zenon DEF IInv
<1>2. CASE op[a].after = "rto"
  <2>1. Carries(a)
    BY <1>2, Zenon DEF Carries
  <2> DEFINE o == [pc |-> "rto"]
  <2>2. o.pc = "rto" /\ o \in Op /\ op'[a] = o
    BY <1>1, <1>2, OpMade, Zenon DEF After
  <2> HIDE DEF o
  <2>3. Carries(a)' /\ ~Starts(a)'
    BY <2>2, NullApart, Zenon DEF Carries, Starts, At
  <2> QED BY <1>1, <2>1, <2>3, Zenon
<1>3. CASE op[a].after # "rto"
  <2>1. ~Carries(a)
    BY <1>3, Zenon DEF Carries, Pushing
  <2>2. op'[a] = NULL
    BY <1>1, <1>3, Zenon DEF After
  <2>3. ~Carries(a)' /\ ~Starts(a)'
    BY <2>2, Zenon DEF Carries, Starts, At
  <2> QED BY <1>1, <2>1, <2>3, Zenon
<1> QED BY <1>2, <1>3, Zenon

\* ... and what another turn of push_rt_task does.
LEMMA GoesOnPushing ==
    ASSUME IInv, NEW a \in CPU, op[a] # NULL, op[a].pc \in Pushing, NEW o \in Op, op' = [op EXCEPT ![a] = o],
           o.pc \in {"push", "push2"}, o.rq = op[a].rq, o.after = op[a].after
    PROVE  /\ Alone(a) /\ (Carries(a)' <=> Carries(a)) /\ ~Starts(a)'
           /\ \A d \in CPU : Pushes(a, d) => Pushes(a, d)'
<1>1. Alone(a) /\ op'[a] = o /\ o # NULL
  BY GoesAlone, NullApart, Zenon DEF IInv
<1>2. o.pc \in Pushing
  BY Zenon DEF Pushing
<1>3. (Carries(a)' <=> Carries(a)) /\ ~Starts(a)'
  BY <1>1, <1>2, Zenon DEF Carries, Starts, At, Pushing
<1>4. \A d \in CPU : Pushes(a, d) => Pushes(a, d)'
  BY <1>1, <1>2, Zenon DEF Pushes
<1> QED BY <1>1, <1>3, <1>4, Zenon

\* A CPU that pushes does nothing else.
LEMMA OnlyPushes ==
    ASSUME NEW a, op[a].pc \in Pushing
    PROVE  ~Starts(a) /\ ~Away(a) /\ \A d \in CPU : ~WillAsk(a, d)
BY Zenon DEF Pushing, Starts, At, Away, Leaving, Switching, WillAsk

LEMMA PushPend ==
    ASSUME IInv, BalanceInv, NEW a \in CPU, push_rt_task(a)
    PROVE  BalanceInv'
<1>1. op[a] \in Op /\ op[a].pc = "push" /\ op[a] # NULL /\ op[a].pc \in Pushing
  BY OpAt, NullApart, Zenon DEF push_rt_task, IInv, Pushing
<1>2. PICK r \in CPU : r = op[a].rq
  BY <1>1, OpFields, Zenon
<1>3. PICK f \in {"done", "rto"} : f = op[a].after
  BY <1>1, OpFields, Zenon
<1>4. UNCHANGED <<cpu, queued, curr, pushable>> /\ UNCHANGED <<rto, irq_work, lost>>
      /\ need_resched \subseteq need_resched'
  BY Zenon DEF push_rt_task, rtoVars
<1>5. PICK p : p = Min(pushable[r])
  BY Zenon
<1>6. \/ /\ op' = [op EXCEPT ![a] = After(op[a])]
         /\ \/ ~overloaded(r) \/ pushable[r] = {} \/ p = curr[r]
            \/ p < curr[r] /\ r \in need_resched'
            \/ find_lowest_rq(p) \subseteq {r}
      \/ /\ pushable[r] # {}
         /\ \E t \in find_lowest_rq(p) :
              op' = [op EXCEPT ![a] = [pc |-> "push2", rq |-> r, task |-> p, target |-> t,
                                       tries |-> 1, after |-> f]]
  BY <1>2, <1>3, <1>5, Zenon DEF push_rt_task, AfterPush, After
<1>7. ~Starts(a) /\ ~Away(a) /\ \A d \in CPU : ~WillAsk(a, d)
  BY <1>1, OnlyPushes, Zenon
<1>8. \A d \in CPU : Pushes(a, d) => d = r
  BY <1>2, Zenon DEF Pushes
<1>9. ASSUME Alone(a), Carries(a)' <=> Carries(a), ~Starts(a)',
             \A c \in CPU : Waits(r, c) => Looks(r)'
      PROVE  BalanceInv'
  <2>1. RtoInv' /\ \A d \in CPU : WillBeTold(d)' <=> WillBeTold(d)
    BY <1>4, <1>7, <1>9, IpiKept, Zenon DEF BalanceInv
  <2>2. \A d, c \in CPU : Waits(d, c) => (Pushes(a, d) => Pending(d, c)') /\ (WillBeTold(d) => Pending(d, c)')
    BY <1>8, <1>9, <2>1, Zenon DEF Pending
  <2> QED BY <1>4, <1>7, <1>9, <2>1, <2>2, QueuesStay, Zenon
<1>10. CASE /\ op' = [op EXCEPT ![a] = After(op[a])]
            /\ \/ ~overloaded(r) \/ pushable[r] = {} \/ p = curr[r]
               \/ p < curr[r] /\ r \in need_resched'
               \/ find_lowest_rq(p) \subseteq {r}
  <2>1. Alone(a) /\ (Carries(a)' <=> Carries(a)) /\ ~Starts(a)'
    BY <1>1, <1>10, AfterCarries, Zenon
  <2>2. ASSUME NEW c \in CPU, Waits(r, c) PROVE Looks(r)'
    <3>1. CASE r \in need_resched
      BY <1>4, <3>1, Zenon DEF Looks
    <3>2. CASE Away(r)
      <4>1. Away(r)'
        BY <1>7, <2>1, <3>2, OthersKept, Zenon
      <4> QED BY <4>1, Zenon DEF Looks
    <3>3. CASE r \notin need_resched /\ ~Away(r)
      <4>1. p \in pushable[r] /\ find_lowest_rq(p) \ {r} # {}
        BY <1>5, <2>2, FirstHasRoom, Zenon
      <4>2. overloaded(r) /\ curr[r] < p
        BY <3>3, <4>1, Ready, Zenon DEF BalanceInv
      <4>3. p # curr[r]
        BY <4>1, AllowedAll, Zenon
      <4>4. r \in need_resched'
        BY <1>10, <4>1, <4>2, <4>3, Zenon
      <4> QED BY <4>4, Zenon DEF Looks
    <3> QED BY <3>1, <3>2, <3>3, Zenon
  <2> QED BY <1>9, <2>1, <2>2, Zenon
<1>11. CASE /\ pushable[r] # {}
            /\ \E t \in find_lowest_rq(p) :
                 op' = [op EXCEPT ![a] = [pc |-> "push2", rq |-> r, task |-> p, target |-> t,
                                          tries |-> 1, after |-> f]]
  <2>1. PICK t \in find_lowest_rq(p) :
                 op' = [op EXCEPT ![a] = [pc |-> "push2", rq |-> r, task |-> p, target |-> t,
                                          tries |-> 1, after |-> f]]
    BY <1>11, Zenon
  <2>2. p \in Task
    BY <1>5, <1>11, MinIn, Idle, Zenon DEF IInv, TypeOK
  <2>3. t \in CPU /\ 1 \in 1 .. RT_MAX_TRIES
    BY <2>2, Lowest, AllowedIsCPU, SMT DEF RT_MAX_TRIES
  <2> DEFINE o == [pc |-> "push2", rq |-> r, task |-> p, target |-> t, tries |-> 1, after |-> f]
  <2>4. o \in Op /\ o.pc = "push2" /\ o.rq = r /\ o.after = f /\ op' = [op EXCEPT ![a] = o]
    BY <2>1, <2>2, <2>3, OpMade, Zenon
  <2> HIDE DEF o
  <2>5. /\ Alone(a) /\ (Carries(a)' <=> Carries(a)) /\ ~Starts(a)'
        /\ \A d \in CPU : Pushes(a, d) => Pushes(a, d)'
    BY <1>1, <1>2, <1>3, <2>4, GoesOnPushing, Zenon
  <2>6. Pushes(a, r)
    BY <1>1, <1>2, Zenon DEF Pushes
  <2>7. Looks(r)'
    BY <2>5, <2>6, Zenon DEF Looks
  <2> QED BY <1>9, <2>5, <2>7, Zenon
<1> QED BY <1>6, <1>10, <1>11, Zenon

-----------------------------------------------------------------------------
\* A queued task is moved to another run queue.

LEMMA MoveBest ==
    ASSUME IInv, BestInv, NEW a \in CPU, Alone(a), NEW p \in Task, NEW t \in CPU, MoveTo(p, t), curr' = curr,
           need_resched \subseteq need_resched', Away(a) => Away(a)', t \in need_resched' \/ Away(t)'
    PROVE  BestInv'
<1> SUFFICES ASSUME NEW c \in CPU, c # t
             PROVE  c \in need_resched' \/ Away(c)' \/ \A q \in OnRq(c)' : curr'[c] <= q
  BY Zenon DEF BestInv
<1>1. c \in need_resched \/ Away(c) \/ \A q \in OnRq(c) : curr[c] <= q
  BY Zenon DEF BestInv
<1>2. Away(c) => Away(c)'
  BY OthersKept, Zenon
<1>3. OnRq(c)' = OnRq(c) \ {p}
  BY Moved, Zenon
<1>4. \A q \in OnRq(c)' : q \in OnRq(c)
  BY <1>3, Zenon
<1> QED BY <1>1, <1>2, <1>4, Zenon

\* If that makes room on the CPU it leaves, Uncovers says whether somebody
\* will notice.
LEMMA Noticed ==
    ASSUME IInv, NEW p \in Task, NEW r \in CPU, NEW t \in CPU, r # t, p \in OnRq(r), MoveTo(p, t),
           ~Uncovers(p, r, t), NEW d \in CPU, d # r, d # t, NEW q \in pushable[d], Room(q, r)'
    PROVE  Waits(d, r) \/ d \in need_resched \/ WillAsk(r, d) \/ WillBeTold(d)
<1> SUFFICES ASSUME ~Room(q, r)
             PROVE  d \in need_resched \/ WillAsk(r, d) \/ WillBeTold(d)
  BY Zenon DEF Waits
<1> DEFINE rest == (OnRq(r) \ {p}) \cup {IDLE}
           left == Min(rest)
<1>1. OnRq(r)' = OnRq(r) \ {p}
  BY Moved, Zenon
<1>2. \A x \in OnRq(r) : x # p => q < x
  BY <1>1, Zenon DEF Room
<1>3. ~(q < p)
  BY <1>2, Zenon DEF Room
<1>4. q \in Task /\ cpu[q] = d /\ cpu[p] = r
  BY AllowedAll, Zenon DEF OnRq
<1>5. q # p /\ q \in 0 .. 99 /\ p \in 0 .. 99
  BY <1>4, BalanceAssumption, Zenon DEF BalanceAssumption
<1>6. p < q
  BY <1>3, <1>5, SMT
<1>7. OnRq(r) \subseteq Nat /\ IDLE \in Nat /\ q < IDLE
  <2>1. OnRq(r) \subseteq Nat
    BY Queued, Idle, Zenon DEF IInv
  <2>2. IDLE \in Nat /\ q < IDLE
    BY <1>5, SMT DEF IDLE
  <2> QED BY <2>1, <2>2, Zenon
<1>8. rest \in SUBSET Nat /\ IDLE \in rest /\ \A x \in rest : q < x
  BY <1>2, <1>7, Zenon
<1>9. q < left
  <2> HIDE DEF rest
  <2>1. left \in rest
    BY <1>8, MinLeq, Zenon
  <2> QED BY <1>8, <2>1, Zenon
<1>10. p = highest_prio(r)
  <2>1. highest_prio(r) \in OnRq(r) \cup {IDLE} /\ highest_prio(r) <= p
    BY HighestPrio, RoomIs, Zenon DEF IInv
  <2> DEFINE h == highest_prio(r)
  <2> HIDE DEF h
  <2>2. h # p => h \in Nat /\ q < h
    BY <1>2, <1>7, <2>1, Zenon DEF h
  <2>3. h <= p
    BY <2>1, Zenon DEF h
  <2>4. h = p
    BY <1>5, <1>6, <2>2, <2>3, SMT
  <2> QED BY <2>4, Zenon DEF h
<1>11. pushable[d] # {} /\ Min(pushable[d]) < left
  <2>1. pushable[d] \in SUBSET Nat
    BY Idle, Zenon DEF IInv, TypeOK
  <2>2. Min(pushable[d]) \in Nat /\ Min(pushable[d]) <= q
    BY <2>1, MinLeq, Zenon
  <2>3. left \in Nat
    <3> HIDE DEF rest
    <3> QED BY <1>8, MinLeq, Zenon
  <2> HIDE DEF left
  <2> DEFINE m == Min(pushable[d])
  <2>4. m \in Nat /\ m <= q
    BY <2>2, Zenon
  <2> HIDE DEF m
  <2>5. m < left
    BY <1>5, <1>9, <2>3, <2>4, SMT
  <2> QED BY <2>5, Zenon DEF m
<1> QED BY <1>10, <1>11, Zenon DEF Uncovers

\* The tasks that wait on the other CPUs.
LEMMA MovePend ==
    ASSUME IInv, BalanceInv, NEW a \in CPU, Alone(a),
           NEW p \in Task, NEW r \in CPU, NEW t \in CPU, r # t, p \in OnRq(r), MoveTo(p, t),
           ~lost, ~Uncovers(p, r, t), need_resched \subseteq need_resched', Away(a) => Away(a)',
           NEW d \in CPU, NEW c \in CPU, d # r, d # t, Waits(d, c)',
           ~Pushes(a, d), WillAsk(a, d) => WillAsk(a, d)', WillBeTold(d) => WillBeTold(d)'
    PROVE  Pending(d, c)'
<1>m. /\ OnRq(t)' = OnRq(t) \cup {p}
      /\ \A e \in CPU : e # t => OnRq(e)' = OnRq(e) \ {p}
      /\ pushable'[d] = pushable[d] \ {p}
  BY Moved, Zenon
<1>1. PICK q \in pushable'[d] : Room(q, c)'
  BY Zenon DEF Waits
<1>2. q \in pushable[d]
  BY <1>1, <1>m, Zenon
<1>3. Pending(d, c)
  <2>1. CASE c = t
    <3>1. OnRq(c) \subseteq OnRq(c)'
      BY <2>1, <1>m, Zenon
    <3>2. Waits(d, c)
      BY <1>1, <1>2, <3>1, Zenon DEF Waits, Room
    <3> QED BY <3>2, Zenon DEF BalanceInv, PendInv
  <2>2. CASE c # t /\ c # r
    <3>1. OnRq(c)' = OnRq(c)
      <4>1. p \notin OnRq(c) /\ OnRq(c)' = OnRq(c) \ {p}
        BY <2>2, <1>m, Zenon DEF OnRq
      <4> QED BY <4>1, Zenon
    <3>2. Waits(d, c)
      BY <1>1, <1>2, <3>1, Zenon DEF Waits, Room
    <3> QED BY <3>2, Zenon DEF BalanceInv, PendInv
  <2>3. CASE c = r
    <3>1. Waits(d, r) \/ d \in need_resched \/ WillAsk(r, d) \/ WillBeTold(d)
      BY <1>1, <1>2, <2>3, Noticed, Zenon
    <3>2. Waits(d, r) => Pending(d, r)
      BY Zenon DEF BalanceInv, PendInv
    <3> QED BY <2>3, <3>1, <3>2, Zenon DEF Pending, Looks
  <2> QED BY <2>1, <2>2, <2>3, Zenon
<1>4. (WillBeTold(d) => Pending(d, c)') /\ (c = a /\ WillAsk(a, d) => Pending(d, c)')
  BY Zenon DEF Pending
<1> QED BY <1>3, <1>4, StillPending, Zenon

LEMMA RetryFields ==
    ASSUME NEW o \in Op, o.pc = "push2", o.tries < RT_MAX_TRIES, NEW t \in CPU
    PROVE  Retry(o, t).rq = o.rq /\ Retry(o, t).after = o.after
<1> DEFINE P == [pc : {"push2"}, rq : CPU, task : Task, target : CPU, tries : 1 .. RT_MAX_TRIES,
                 after : {"done", "rto"}]
           m == [o EXCEPT !.target = t]
           n == [m EXCEPT !.tries = o.tries + 1]
<1>1. o \in P
  BY SMT DEF Op
<1>2. m \in P /\ m.rq = o.rq /\ m.after = o.after
  BY <1>1, SMT
<1> HIDE DEF m
<1>3. n.rq = m.rq /\ n.after = m.after
  BY <1>2, SMT
<1> QED BY <1>2, <1>3, Zenon DEF n, m, Retry

LEMMA LockedPend ==
    ASSUME IInv, BalanceInv, NEW a \in CPU, push_rt_task_locked(a)
    PROVE  BalanceInv'
<1>1. op[a] \in Op /\ op[a].pc = "push2" /\ op[a] # NULL /\ op[a].pc \in Pushing
  BY OpAt, NullApart, Zenon DEF push_rt_task_locked, IInv, Pushing
<1>2. /\ op[a].rq \in CPU /\ op[a].task \in Task /\ op[a].target \in CPU
      /\ op[a].tries \in 1 .. RT_MAX_TRIES /\ op[a].after \in {"done", "rto"}
  BY <1>1, OpFields, Zenon
<1>3. PICK r \in CPU, p \in Task, t \in CPU : r = op[a].rq /\ p = op[a].task /\ t = op[a].target
  BY <1>2, Zenon
<1>4. PICK f \in {"done", "rto"} : f = op[a].after
  BY <1>2, Zenon
<1> DEFINE ok == StillPushable(p, r, t)
           move == ok /\ highest_prio(t) > p
           again == IF ok /\ op[a].tries < RT_MAX_TRIES THEN find_lowest_rq(p) \ {r} ELSE {}
           back(x) == [pc |-> "push", rq |-> r, retry |-> x, after |-> f]
<1>5. UNCHANGED <<rto, irq_work>> /\ (lost => lost')
  BY Zenon DEF push_rt_task_locked
<1>6. \/ /\ move /\ MoveTo(p, t) /\ need_resched' = need_resched \cup {t} /\ curr' = curr
         /\ op' = [op EXCEPT ![a] = back(~move)] /\ (Uncovers(p, r, t) => lost')
      \/ /\ ~move /\ UNCHANGED <<cpu, queued, curr, pushable, need_resched>>
         /\ \/ \E u \in again : op' = [op EXCEPT ![a] = Retry(op[a], u)]
            \/ op' = [op EXCEPT ![a] = back(~move)]
            \/ /\ op' = [op EXCEPT ![a] = After(op[a])]
               /\ again = {} /\ (GivesUp(op[a]) => lost')
               /\ pushable[r] = {} \/ Min(pushable[r]) = p
  BY <1>3, <1>4, Zenon DEF push_rt_task_locked, AfterPush, After, rqVars
<1>7. ~Starts(a) /\ ~Away(a) /\ \A d \in CPU : ~WillAsk(a, d)
  BY <1>1, OnlyPushes, Zenon
<1>8. (\A d \in CPU : Pushes(a, d) => d = r) /\ Pushes(a, r)
  BY <1>1, <1>3, Zenon DEF Pushes
<1>9. \A x \in BOOLEAN : back(x) \in Op /\ back(x).pc = "push" /\ back(x).rq = r /\ back(x).after = f
  BY OpMade, Zenon
<1>10. (~move) \in BOOLEAN
  OBVIOUS
<1>11. ASSUME op' = [op EXCEPT ![a] = back(~move)]
       PROVE  Alone(a) /\ (Carries(a)' <=> Carries(a)) /\ ~Starts(a)' /\ Pushes(a, r)'
  <2> DEFINE o == back(~move)
  <2>1. o \in Op /\ o.pc \in {"push", "push2"} /\ o.rq = op[a].rq /\ o.after = op[a].after
    BY <1>3, <1>4, <1>9, <1>10, Zenon
  <2>2. op' = [op EXCEPT ![a] = o]
    BY <1>11, Zenon
  <2> HIDE DEF o
  <2> QED BY <1>1, <1>8, <2>1, <2>2, GoesOnPushing, Zenon
<1> HIDE DEF back
<1>12. CASE /\ move /\ MoveTo(p, t) /\ need_resched' = need_resched \cup {t} /\ curr' = curr
            /\ op' = [op EXCEPT ![a] = back(~move)] /\ (Uncovers(p, r, t) => lost')
  <2>1. Alone(a) /\ (Carries(a)' <=> Carries(a)) /\ ~Starts(a)' /\ Pushes(a, r)'
    BY <1>11, <1>12, Zenon
  <2>2. RtoInv' /\ \A d \in CPU : WillBeTold(d)' <=> WillBeTold(d)
    BY <1>5, <1>7, <2>1, IpiKept, Zenon DEF BalanceInv
  <2>3. p \in OnRq(r) /\ highest_prio(t) > p
    BY <1>12, Zenon DEF StillPushable, OnRq
  <2>4. r # t
    <3>1. highest_prio(r) <= p /\ highest_prio(r) \in 0 .. IDLE /\ p \in Nat
      BY <2>3, RoomIs, Idle, Zenon DEF IInv
    <3>2. ~(highest_prio(r) > p)
      BY <3>1, SMT DEF IDLE
    <3> QED BY <2>3, <3>2, Zenon
  <2>5. p \in Task /\ t \in CPU /\ MoveTo(p, t) /\ need_resched \subseteq need_resched' /\ t \in need_resched'
        /\ curr' = curr
    BY <1>12, Zenon
  <2> HIDE DEF move, ok, again
  <2>6. BestInv'
    BY <1>7, <2>1, <2>5, MoveBest, Zenon DEF BalanceInv
  <2>7. ASSUME ~lost', NEW d \in CPU, NEW c \in CPU, Waits(d, c)' PROVE Pending(d, c)'
    <3>1. CASE d = r
      BY <2>1, <3>1, Zenon DEF Pending, Looks
    <3>2. CASE d = t
      BY <2>5, <3>2, Zenon DEF Pending, Looks
    <3>3. CASE d # r /\ d # t
      <4>1. ~lost /\ ~Uncovers(p, r, t)
        BY <1>5, <1>12, <2>7, Zenon
      <4>2. ~Pushes(a, d) /\ ~WillAsk(a, d) /\ ~Away(a) /\ (WillBeTold(d) => WillBeTold(d)')
        BY <1>7, <1>8, <2>2, <3>3, Zenon
      <4> QED BY <2>1, <2>3, <2>4, <2>5, <2>7, <3>3, <4>1, <4>2, MovePend, Zenon
    <3> QED BY <3>1, <3>2, <3>3, Zenon
  <2> QED BY <2>2, <2>6, <2>7, Zenon DEF BalanceInv, PendInv
<1>13. ASSUME UNCHANGED <<cpu, queued, curr, pushable, need_resched>>,
              Alone(a), Carries(a)' <=> Carries(a), ~Starts(a)',
              \A c \in CPU : ~lost' /\ Waits(r, c) => Pending(r, c)'
       PROVE  BalanceInv'
  <2>1. RtoInv' /\ \A d \in CPU : WillBeTold(d)' <=> WillBeTold(d)
    BY <1>5, <1>7, <1>13, IpiKept, Zenon DEF BalanceInv
  <2>2. \A d, c \in CPU : ~lost' /\ Waits(d, c) =>
            (Pushes(a, d) => Pending(d, c)') /\ (WillBeTold(d) => Pending(d, c)')
    BY <1>8, <1>13, <2>1, Zenon DEF Pending
  <2> QED BY <1>5, <1>7, <1>13, <2>1, <2>2, QueuesStay, Zenon
<1>14. CASE ~move /\ UNCHANGED <<cpu, queued, curr, pushable, need_resched>>
            /\ op' = [op EXCEPT ![a] = back(~move)]
  <2>1. Alone(a) /\ (Carries(a)' <=> Carries(a)) /\ ~Starts(a)' /\ Pushes(a, r)'
    BY <1>11, <1>14, Zenon
  <2>2. \A c \in CPU : Pending(r, c)'
    BY <2>1, Zenon DEF Pending, Looks
  <2> QED BY <1>13, <1>14, <2>1, <2>2, Zenon
<1>15. CASE ~move /\ UNCHANGED <<cpu, queued, curr, pushable, need_resched>>
            /\ \E u \in again : op' = [op EXCEPT ![a] = Retry(op[a], u)]
  <2>1. PICK u \in again : op' = [op EXCEPT ![a] = Retry(op[a], u)]
    BY <1>15, Zenon
  <2>2. u \in find_lowest_rq(p) /\ op[a].tries < RT_MAX_TRIES
    BY <2>1, Zenon
  <2>3. u \in CPU
    BY <2>2, Lowest, AllowedIsCPU, Zenon
  <2> DEFINE o == Retry(op[a], u)
  <2>4. o \in Op /\ o.pc = "push2"
    BY <1>1, <2>2, <2>3, RetryMade, Zenon
  <2>5. o.rq = op[a].rq /\ o.after = op[a].after
    BY <1>1, <2>2, <2>3, RetryFields, Zenon
  <2>6. op' = [op EXCEPT ![a] = o]
    BY <2>1, Zenon
  <2> HIDE DEF o
  <2>7. Alone(a) /\ (Carries(a)' <=> Carries(a)) /\ ~Starts(a)' /\ Pushes(a, r)'
    BY <1>1, <1>8, <2>4, <2>5, <2>6, GoesOnPushing, Zenon
  <2>8. \A c \in CPU : Pending(r, c)'
    BY <2>7, Zenon DEF Pending, Looks
  <2> QED BY <1>13, <1>15, <2>7, <2>8, Zenon
<1>16. CASE /\ ~move /\ UNCHANGED <<cpu, queued, curr, pushable, need_resched>>
            /\ op' = [op EXCEPT ![a] = After(op[a])]
            /\ again = {} /\ (GivesUp(op[a]) => lost')
            /\ pushable[r] = {} \/ Min(pushable[r]) = p
  <2>1. Alone(a) /\ (Carries(a)' <=> Carries(a)) /\ ~Starts(a)'
    BY <1>1, <1>16, AfterCarries, Zenon
  <2>2. \A d \in CPU : WillBeTold(d)' <=> WillBeTold(d)
    BY <1>5, <1>7, <2>1, IpiKept, Zenon DEF BalanceInv
  <2>3. ASSUME NEW c \in CPU, ~lost', Waits(r, c) PROVE Pending(r, c)'
    <3>1. p \in pushable[r] /\ Room(p, c) /\ find_lowest_rq(p) \ {r} # {}
      BY <1>16, <2>3, FirstHasRoom, Zenon
    <3>2. ok
      <4>1. cpu[p] = r /\ p \in queued /\ curr[r] # p /\ Allowed(p) = CPU
        BY <3>1, AllowedAll, Zenon
      <4> QED BY <4>1, Zenon DEF StillPushable
    <3>3. op[a].tries = RT_MAX_TRIES
      <4>1. ~(op[a].tries < RT_MAX_TRIES)
        BY <1>16, <3>1, <3>2, Zenon
      <4>2. RT_MAX_TRIES \in Nat
        BY SMT DEF RT_MAX_TRIES
      <4> QED BY <1>2, <4>1, <4>2, SMT
    <3>4. p < highest_prio(c) /\ highest_prio(c) \in 0 .. IDLE /\ p \in Nat
      BY <3>1, RoomIs, Idle, Zenon DEF IInv
    <3>5. highest_prio(c) > p
      BY <3>4, SMT DEF IDLE
    <3>6. WillBeTold(r) \/ WillAsk(c, r)
      BY <1>3, <1>16, <2>3, <3>1, <3>3, <3>5, Zenon DEF GivesUp
    <3>7. WillAsk(c, r) => WillAsk(c, r)'
      BY <1>7, <2>1, OthersKept, Zenon
    <3> QED BY <2>2, <3>6, <3>7, Zenon DEF Pending
  <2> QED BY <1>13, <1>16, <2>1, <2>3, Zenon
<1> QED BY <1>6, <1>12, <1>14, <1>15, <1>16, Zenon

-----------------------------------------------------------------------------
\* schedule and pull_rt_task.

LEMMA LooksKept ==
    ASSUME NEW a \in CPU, Alone(a), need_resched \subseteq need_resched', Away(a) => Away(a)',
           NEW d \in CPU, ~Pushes(a, d), Looks(d)
    PROVE  Looks(d)'
<1>1. CASE d \in need_resched \/ (d = a /\ Away(d))
  BY <1>1, Zenon DEF Looks
<1>2. CASE d # a /\ Away(d)
  BY <1>2, OthersKept, Zenon DEF Looks
<1>3. CASE \E b \in CPU : Pushes(b, d)
  <2>1. PICK b \in CPU : Pushes(b, d)
    BY <1>3, Zenon
  <2>2. b # a
    BY <2>1, Zenon
  <2>3. Pushes(b, d)'
    BY <2>1, <2>2, OthersKept, Zenon
  <2> QED BY <2>3, Zenon DEF Looks
<1> QED BY <1>1, <1>2, <1>3, Zenon DEF Looks

\* A CPU with something for another one looks itself, or is to be found in
\* rto_mask.
LEMMA Findable ==
    ASSUME IInv, BestInv, NEW d \in CPU, NEW c \in CPU, Waits(d, c)
    PROVE  d # c /\ (Looks(d) \/ d \in rto_mask)
<1>1. d # c
  BY NotAtHome, Zenon
<1>2. PICK p \in pushable[d] : Room(p, c)
  BY Zenon DEF Waits
<1>3. d \notin need_resched /\ ~Away(d) => d \in rto_mask
  BY <1>2, Ready, Zenon
<1> QED BY <1>1, <1>3, Zenon DEF Looks

\* A step from one part of schedule to another.
Scheduling == Switching \cup {"pulltake"}
LEMMA StaysAway ==
    ASSUME IInv, NEW a \in CPU, op[a] \in Op, op[a].pc \in Scheduling,
           NEW o \in Op, o.pc \in Scheduling, op' = [op EXCEPT ![a] = o]
    PROVE  /\ Alone(a) /\ op'[a] = o /\ op[a] # NULL /\ op'[a] # NULL /\ Away(a) /\ Away(a)'
           /\ \A d \in CPU : ~Pushes(a, d)
           /\ op[a].pc \notin {"scan", "unlock"} => ~Carries(a) /\ ~Starts(a)
           /\ o.pc \notin {"scan", "unlock"} => ~Carries(a)' /\ ~Starts(a)'
<1>1. Alone(a) /\ op'[a] = o
  BY GoesAlone, Zenon DEF IInv
<1>2. op[a] # NULL /\ o # NULL
  BY NullApart, Zenon
<1>3. Away(a) /\ Away(a)'
  BY <1>1, <1>2, Zenon DEF Away, Leaving, Scheduling
<1>4. \A d \in CPU : ~Pushes(a, d)
  BY Zenon DEF Pushes, Pushing, Scheduling, Switching
<1>5. op[a].pc \notin {"scan", "unlock"} => ~Carries(a) /\ ~Starts(a)
  BY Zenon DEF Carries, Starts, At, Pushing, Scheduling, Switching
<1>6. o.pc \notin {"scan", "unlock"} => ~Carries(a)' /\ ~Starts(a)'
  BY <1>1, Zenon DEF Carries, Starts, At, Pushing, Scheduling, Switching
<1> QED BY <1>1, <1>2, <1>3, <1>4, <1>5, <1>6, Zenon

LEMMA SchedulePend ==
    ASSUME IInv, BalanceInv, NEW a \in CPU, NEW sleeps \in BOOLEAN, schedule(a, sleeps)
    PROVE  BalanceInv'
<1>1. op[a] = NULL /\ UNCHANGED <<cpu, curr, pushable, need_resched>> /\ UNCHANGED <<rto, irq_work, lost>>
  BY Zenon DEF schedule, rtoVars
<1>2. ~Carries(a) /\ ~Away(a) /\ ~Starts(a) /\ \A d \in CPU : ~Pushes(a, d) /\ ~WillAsk(a, d)
  BY <1>1, Nothing, Zenon
<1> DEFINE prev == curr[a]
           left == IF sleeps THEN Min((OnRq(a) \ {prev}) \cup {IDLE}) ELSE highest_prio(a)
           o == IF left > prev THEN [pc |-> "pull"] ELSE [pc |-> "pick"]
<1>3. op' = [op EXCEPT ![a] = o] /\ queued' = (IF sleeps THEN queued \ {prev} ELSE queued)
      /\ (sleeps => prev # IDLE)
  BY Zenon DEF schedule
<1>4. o \in Op /\ o.pc \in {"pull", "pick"} /\ (left > prev => o.pc = "pull")
  BY OpMade, Zenon
<1> HIDE DEF o, left
<1>5. Alone(a) /\ op'[a] = o /\ o # NULL
  BY <1>3, <1>4, GoesAlone, NullApart, Zenon DEF IInv
<1>6. Away(a)' /\ ~Carries(a)' /\ ~Starts(a)'
  BY <1>4, <1>5, Zenon DEF Away, Leaving, Switching, Carries, Starts, At, Pushing
<1>7. left > prev => \A d \in CPU : WillAsk(a, d)'
  BY <1>4, <1>5, Zenon DEF WillAsk
<1>8. RtoInv' /\ \A d \in CPU : WillBeTold(d)' <=> WillBeTold(d)
  BY <1>1, <1>2, <1>5, <1>6, IpiKept, Zenon DEF BalanceInv
<1>9. sleeps => prev \in Task /\ cpu[prev] = a
  BY <1>3, Zenon DEF IInv, CurrInv, TypeOK
<1>10. \A c \in CPU : c # a => OnRq(c)' = OnRq(c)
  BY <1>1, <1>3, <1>9, Zenon DEF OnRq
<1>11. OnRq(a)' = IF sleeps THEN OnRq(a) \ {prev} ELSE OnRq(a)
  BY <1>1, <1>3, Zenon DEF OnRq
<1>12. BestInv'
  <2> SUFFICES ASSUME NEW c \in CPU, c # a
               PROVE  c \in need_resched' \/ Away(c)' \/ \A q \in OnRq(c)' : curr'[c] <= q
    BY <1>6, Zenon DEF BestInv
  <2>1. c \in need_resched \/ Away(c) \/ \A q \in OnRq(c) : curr[c] <= q
    BY Zenon DEF BalanceInv, BestInv
  <2>2. Away(c) => Away(c)'
    BY <1>5, OthersKept, Zenon
  <2> QED BY <1>1, <1>10, <2>1, <2>2, Zenon
<1>13. ASSUME NEW q \in Task, Room(q, a)', ~(left > prev) PROVE Room(q, a)
  <2>1. \A x \in OnRq(a)' : q < x
    BY <1>13, Zenon DEF Room
  <2>2. CASE ~sleeps
    BY <1>11, <2>1, <2>2, Zenon DEF Room
  <2>3. CASE sleeps
    <3> DEFINE S == (OnRq(a) \ {prev}) \cup {IDLE}
    <3>1. S \in SUBSET Nat /\ IDLE \in S
      BY Queued, Zenon DEF IInv
    <3>2. \A x \in S : x = IDLE \/ x \in OnRq(a)'
      BY <1>11, <2>3, Zenon
    <3>3. left = Min(S)
      BY <2>3, Zenon DEF left
    <3> HIDE DEF S
    <3>4. left \in S /\ left \in Nat
      BY <3>1, <3>3, MinLeq, Zenon
    <3>5. prev \in 0 .. 99 /\ q \in Nat
      BY <1>9, <2>3, BalanceAssumption, Idle, Zenon DEF BalanceAssumption
    <3> HIDE DEF prev
    <3>6. left # IDLE /\ left <= prev
      BY <1>13, <3>4, <3>5, SMT DEF IDLE
    <3>7. q < left
      BY <2>1, <3>2, <3>4, <3>6, Zenon
    <3>8. q < prev
      BY <3>4, <3>5, <3>6, <3>7, SMT
    <3>9. OnRq(a) \subseteq OnRq(a)' \cup {prev}
      BY <1>11, <2>3, Zenon
    <3> QED BY <2>1, <3>8, <3>9, Zenon DEF Room
  <2> QED BY <2>2, <2>3, Zenon
<1>14. ASSUME ~lost', NEW d \in CPU, NEW c \in CPU, Waits(d, c)' PROVE Pending(d, c)'
  <2>1. CASE d = a
    BY <1>6, <2>1, Zenon DEF Pending, Looks
  <2>2. CASE c = a /\ left > prev
    BY <1>7, <2>2, Zenon DEF Pending
  <2>3. CASE d # a /\ ~(c = a /\ left > prev)
    <3>1. PICK q \in pushable'[d] : Room(q, c)'
      BY <1>14, Zenon DEF Waits
    <3>2. q \in pushable[d] /\ q \in Task
      BY <1>1, <3>1, Zenon DEF IInv, TypeOK
    <3>3. c # a => Room(q, c)
      BY <1>10, <3>1, Zenon DEF Room
    <3>4. Room(q, c)
      BY <1>13, <2>3, <3>1, <3>2, <3>3, Zenon
    <3>5. Pending(d, c)
      BY <1>1, <1>14, <3>2, <3>4, Zenon DEF BalanceInv, PendInv, Waits
    <3>6. WillBeTold(d) => Pending(d, c)'
      BY <1>8, Zenon DEF Pending
    <3> QED BY <1>1, <1>2, <1>5, <2>3, <3>5, <3>6, StillPending, Zenon
  <2> QED BY <2>1, <2>2, <2>3, Zenon
<1> QED BY <1>8, <1>12, <1>14, Zenon DEF BalanceInv, PendInv

LEMMA PullPend ==
    ASSUME IInv, BalanceInv, NEW a \in CPU, pull_rt_task(a)
    PROVE  BalanceInv'
<1>1. op[a] \in Op /\ op[a].pc = "pull" /\ op[a].pc \in Scheduling
  BY OpAt, Zenon DEF pull_rt_task, IInv, Scheduling, Switching
<1>2. UNCHANGED <<cpu, queued, curr, pushable>> /\ need_resched' = need_resched
      /\ UNCHANGED <<rto, irq_work, lost>>
  BY Zenon DEF pull_rt_task, rqVars, rtoVars
<1> DEFINE n == [pc |-> "pullnext", at |-> -1]
           o == IF rto_mask \subseteq {a} THEN [pc |-> "pick"]
                ELSE IF RT_PUSH_IPI THEN [pc |-> "tell"] ELSE n
<1>3. op' = [op EXCEPT ![a] = o]
  BY Zenon DEF pull_rt_task
<1>4. n \in Op /\ n.pc = "pullnext" /\ n.at = -1
  <2>1. -1 \in -1 .. N - 1
    BY BalanceAssumption, SMT DEF BalanceAssumption
  <2> QED BY <2>1, OpMade, Zenon
<1>5. /\ o \in Op /\ o.pc \in {"pick", "tell", "pullnext"}
      /\ o.pc = "pick" => rto_mask \subseteq {a}
      /\ o.pc = "pullnext" => o.at = -1
  <2> HIDE DEF n
  <2> QED BY <1>4, OpMade, Zenon
<1> HIDE DEF o
<1>6. o.pc \in Scheduling /\ o.pc \notin {"scan", "unlock"} /\ op[a].pc \notin {"scan", "unlock"}
  BY <1>1, <1>5, Zenon DEF Scheduling, Switching
<1>7. /\ Alone(a) /\ op'[a] = o /\ op'[a] # NULL /\ Away(a)' /\ \A d \in CPU : ~Pushes(a, d)
      /\ ~Carries(a) /\ ~Starts(a) /\ ~Carries(a)' /\ ~Starts(a)'
  BY <1>1, <1>3, <1>5, <1>6, StaysAway, Zenon
<1>8. RtoInv' /\ \A d \in CPU : WillBeTold(d)' <=> WillBeTold(d)
  BY <1>2, <1>7, IpiKept, Zenon DEF BalanceInv
<1>9. ASSUME NEW d \in CPU, Waits(d, a) PROVE Pending(d, a)'
  <2>1. d # a /\ (Looks(d) \/ d \in rto_mask)
    BY <1>9, Findable, Zenon DEF BalanceInv
  <2>2. CASE o.pc = "pick"
    <3>1. Looks(d)
      BY <1>5, <2>1, <2>2, Zenon
    <3>2. Looks(d)'
      BY <1>2, <1>7, <3>1, LooksKept, Zenon
    <3> QED BY <3>2, Zenon DEF Pending
  <2>3. CASE o.pc = "tell"
    BY <1>7, <2>3, Zenon DEF Pending, WillAsk
  <2>4. CASE o.pc = "pullnext"
    <3>1. -1 < d
      BY Cpus, SMT
    <3> QED BY <1>5, <1>7, <2>4, <3>1, Zenon DEF Pending, WillAsk
  <2> QED BY <1>5, <2>2, <2>3, <2>4, Zenon
<1>10. \A d, c \in CPU : ~lost' /\ Waits(d, c) =>
            /\ Pushes(a, d) => Pending(d, c)'
            /\ c = a /\ WillAsk(a, d) => Pending(d, c)'
            /\ WillBeTold(d) => Pending(d, c)'
  BY <1>7, <1>8, <1>9, Zenon DEF Pending
<1> QED BY <1>2, <1>7, <1>8, <1>10, QueuesStay, Zenon

LEMMA PullNextPend ==
    ASSUME IInv, BalanceInv, NEW a \in CPU, pull_next(a)
    PROVE  BalanceInv'
<1>1. op[a] \in Op /\ op[a].pc = "pullnext" /\ op[a].pc \in Scheduling
  BY OpAt, Zenon DEF pull_next, IInv, Scheduling, Switching
<1>2. UNCHANGED <<cpu, queued, curr, pushable>> /\ need_resched' = need_resched
      /\ UNCHANGED <<rto, irq_work, lost>>
  BY Zenon DEF pull_next, rqVars, rtoVars
<1> DEFINE todo == {c \in rto_mask \ {a} : c > op[a].at}
           src == Min(todo)
           next == Min(pushable[src] \cup {IDLE})
           skip == [pc |-> "pullnext", at |-> src]
           take == [pc |-> "pulltake", src |-> src]
           pick == [pc |-> "pick"]
<1>3. \/ todo = {} /\ op' = [op EXCEPT ![a] = pick]
      \/ todo # {} /\ next >= highest_prio(a) /\ op' = [op EXCEPT ![a] = skip]
      \/ todo # {} /\ op' = [op EXCEPT ![a] = take]
  BY Zenon DEF pull_next
<1>4. todo \in SUBSET CPU /\ todo \in SUBSET Nat
  BY Cpus, Zenon DEF rto_mask
<1>5. pick \in Op /\ pick.pc = "pick"
  BY OpMade, Zenon
<1>6. \A d \in CPU : d \in rto_mask /\ d # a /\ op[a].at < d => d \in todo
  <2>1. op[a].at \in -1 .. N - 1
    BY <1>1, OpFields, Zenon
  <2>2. \A d \in CPU : op[a].at < d => d > op[a].at
    BY <2>1, Cpus, BalanceAssumption, SMT DEF BalanceAssumption
  <2> QED BY <2>2, Zenon
<1> HIDE DEF todo, next
<1>7. todo # {} => src \in CPU /\ src \in -1 .. N - 1 /\ src \in todo
  BY <1>4, MinCpu, MinIn, Zenon
<1>8. \A d \in todo : src <= d /\ src \in Nat /\ d \in Nat
  BY <1>4, MinLeq, Zenon
<1>9. todo # {} => skip \in Op /\ skip.pc = "pullnext" /\ skip.at = src
  BY <1>7, OpMade, Zenon
<1>10. todo # {} => take \in Op /\ take.pc = "pulltake" /\ take.src = src
  BY <1>7, OpMade, Zenon
<1> HIDE DEF skip, take, pick, src
<1>11. PICK o \in Op : /\ op' = [op EXCEPT ![a] = o] /\ o.pc \in {"pick", "pullnext", "pulltake"}
                       /\ o.pc = "pick" => todo = {}
                       /\ o.pc = "pullnext" => o.at = src /\ next >= highest_prio(a)
                       /\ o.pc = "pulltake" => o.src = src
  BY <1>3, <1>5, <1>9, <1>10, Zenon
<1>12. o.pc \in Scheduling /\ o.pc \notin {"scan", "unlock"} /\ op[a].pc \notin {"scan", "unlock"} /\ o \in Op
  BY <1>1, <1>11, Zenon DEF Scheduling, Switching
<1>13. /\ Alone(a) /\ op'[a] = o /\ op[a] # NULL /\ op'[a] # NULL /\ Away(a)' /\ \A d \in CPU : ~Pushes(a, d)
       /\ ~Carries(a) /\ ~Starts(a) /\ ~Carries(a)' /\ ~Starts(a)'
  BY <1>1, <1>11, <1>12, StaysAway, Zenon
<1>14. RtoInv' /\ \A d \in CPU : WillBeTold(d)' <=> WillBeTold(d)
  BY <1>2, <1>13, IpiKept, Zenon DEF BalanceInv
<1>15. ASSUME NEW d \in CPU, Waits(d, a), WillAsk(a, d) PROVE Pending(d, a)'
  <2>1. d # a /\ (Looks(d) \/ d \in rto_mask)
    BY <1>15, Findable, Zenon DEF BalanceInv
  <2>2. CASE Looks(d)
    <3>1. Looks(d)'
      BY <1>2, <1>13, <2>2, LooksKept, Zenon
    <3> QED BY <3>1, Zenon DEF Pending
  <2>3. CASE d \in rto_mask
    <3>1. op[a].at < d
      BY <1>1, <1>15, Zenon DEF WillAsk
    <3>2. d \in todo /\ src <= d /\ src \in Nat /\ d \in Nat
      BY <1>6, <1>8, <2>1, <2>3, <3>1, Zenon
    <3>3. CASE o.pc = "pulltake"
      BY <1>11, <1>13, <3>2, <3>3, Zenon DEF Pending, WillAsk
    <3>4. CASE o.pc = "pullnext"
      <4>1. src # d
        <5> SUFFICES ASSUME src = d PROVE FALSE
          OBVIOUS
        <5>1. PICK q \in pushable[d] : Room(q, a)
          BY <1>15, Zenon DEF Waits
        <5>2. q \in Task /\ pushable[d] \subseteq Task
          BY <5>1, Zenon DEF IInv, TypeOK
        <5> DEFINE S == pushable[d] \cup {IDLE}
        <5>3. S \in SUBSET Nat /\ q \in S /\ next = Min(S)
          BY <5>1, <5>2, Idle, Zenon DEF next
        <5> HIDE DEF S
        <5>4. next <= q /\ next \in Nat /\ q \in Nat
          BY <5>3, MinLeq, Zenon
        <5>5. q < highest_prio(a) /\ highest_prio(a) \in 0 .. IDLE /\ next >= highest_prio(a)
          BY <1>11, <3>4, <5>1, <5>2, RoomIs, Zenon DEF IInv
        <5> QED BY <5>4, <5>5, SMT DEF IDLE
      <4>2. src < d
        BY <3>2, <4>1, SMT
      <4> QED BY <1>11, <1>13, <3>4, <4>2, Zenon DEF Pending, WillAsk
    <3>5. CASE o.pc = "pick"
      BY <1>11, <3>2, <3>5, Zenon
    <3> QED BY <1>11, <3>3, <3>4, <3>5, Zenon
  <2> QED BY <2>1, <2>2, <2>3, Zenon
<1>16. \A d, c \in CPU : ~lost' /\ Waits(d, c) =>
            /\ Pushes(a, d) => Pending(d, c)'
            /\ c = a /\ WillAsk(a, d) => Pending(d, c)'
            /\ WillBeTold(d) => Pending(d, c)'
  BY <1>13, <1>14, <1>15, Zenon DEF Pending
<1> QED BY <1>2, <1>13, <1>14, <1>16, QueuesStay, Zenon

LEMMA PullTakePend ==
    ASSUME IInv, BalanceInv, NEW a \in CPU, pull_take(a)
    PROVE  BalanceInv'
<1>1. op[a] \in Op /\ op[a].pc = "pulltake" /\ op[a].pc \in Scheduling
  BY OpAt, Zenon DEF pull_take, IInv, Scheduling
<1>2. PICK s \in CPU : s = op[a].src
  BY <1>1, OpFields, Zenon
<1>b. s \in CPU /\ s \in Nat /\ s \in -1 .. N - 1
  BY <1>2, Cpus, Zenon
<1> DEFINE o == [pc |-> "pullnext", at |-> s]
           able == {q \in pushable[s] : a \in Allowed(q)}
<1>3. PICK p : p = Min(able)
  BY Zenon
<1>4. /\ op' = [op EXCEPT ![a] = o] /\ UNCHANGED <<rto, irq_work>>
      /\ \/ /\ able # {} /\ p < highest_prio(a) /\ MoveTo(p, a)
            /\ lost' = (lost \/ Uncovers(p, s, a)) /\ UNCHANGED <<curr, need_resched>>
         \/ /\ able = {} \/ ~(p < highest_prio(a)) \/ ~(p >= curr[s])
            /\ UNCHANGED <<cpu, queued, curr, pushable, need_resched, lost>>
  BY <1>2, <1>3, Zenon DEF pull_take, rqVars
<1>5. o \in Op /\ o.pc = "pullnext" /\ o.at = s
  BY <1>b, OpMade, Zenon
<1>6. able \in SUBSET Nat /\ able \subseteq pushable[s] /\ pushable[s] \subseteq Task
      /\ \A q \in pushable[s] : q \in able
  <2>1. pushable[s] \subseteq Task
    BY <1>b, Zenon DEF IInv, TypeOK
  <2>2. \A q \in pushable[s] : Allowed(q) = CPU
    BY <1>b, AllowedAll, Zenon
  <2> QED BY <2>1, <2>2, Idle, Zenon
<1> HIDE DEF o, able
<1>7. o.pc \in Scheduling /\ o.pc \notin {"scan", "unlock"} /\ op[a].pc \notin {"scan", "unlock"}
  BY <1>1, <1>5, Zenon DEF Scheduling, Switching
<1>8. /\ Alone(a) /\ op'[a] = o /\ op[a] # NULL /\ op'[a] # NULL /\ Away(a)' /\ \A d \in CPU : ~Pushes(a, d)
      /\ ~Carries(a) /\ ~Starts(a) /\ ~Carries(a)' /\ ~Starts(a)'
  BY <1>1, <1>4, <1>5, <1>7, StaysAway, Zenon
<1>9. RtoInv' /\ \A d \in CPU : WillBeTold(d)' <=> WillBeTold(d)
  BY <1>4, <1>8, IpiKept, Zenon DEF BalanceInv
<1>10. \A d \in CPU : WillAsk(a, d) /\ d # s => WillAsk(a, d)'
  <2> SUFFICES ASSUME NEW d \in CPU, WillAsk(a, d), d # s PROVE WillAsk(a, d)'
    BY Zenon
  <2>1. s <= d
    BY <1>1, <1>2, Zenon DEF WillAsk
  <2>2. s < d
    BY <1>b, <2>1, Cpus, SMT
  <2> QED BY <1>5, <1>8, <2>2, Zenon DEF WillAsk
<1>11. able # {} => p \in able /\ \A q \in pushable[s] : p <= q
  <2>1. \A q \in able : Min(able) \in able /\ Min(able) <= q
    BY <1>6, MinLeq, Zenon
  <2> QED BY <1>3, <1>6, <2>1, Zenon
<1>12. CASE /\ able = {} \/ ~(p < highest_prio(a)) \/ ~(p >= curr[s])
            /\ UNCHANGED <<cpu, queued, curr, pushable, need_resched, lost>>
  <2>1. ASSUME Waits(s, a) PROVE Pending(s, a)'
    <3>1. PICK q \in pushable[s] : Room(q, a)
      BY <2>1, Zenon DEF Waits
    <3>2. p \in able /\ p <= q /\ p \in pushable[s] /\ q \in Task /\ p \in Task
      BY <1>6, <1>11, <3>1, Zenon
    <3>3. p \in Nat /\ q \in Nat /\ q < highest_prio(a) /\ highest_prio(a) \in 0 .. IDLE
      BY <3>1, <3>2, Idle, RoomIs, Zenon DEF IInv
    <3>4. p < highest_prio(a)
      BY <3>2, <3>3, SMT DEF IDLE
    <3>5. ~(p >= curr[s])
      BY <1>12, <3>2, <3>4, Zenon
    <3>6. curr[s] \in Nat
      BY <1>b, Idle, Zenon DEF IInv, TypeOK
    <3>7. ~(curr[s] <= p)
      BY <3>3, <3>5, <3>6, SMT
    <3>8. p \in OnRq(s)
      BY <1>b, <3>2, AllowedAll, Zenon
    <3>9. Looks(s)
      BY <1>b, <3>7, <3>8, Zenon DEF BalanceInv, BestInv, Looks
    <3>10. Looks(s)'
      BY <1>b, <1>8, <1>12, <3>9, LooksKept, Zenon
    <3> QED BY <3>10, Zenon DEF Pending
  <2>2. \A d, c \in CPU : ~lost' /\ Waits(d, c) =>
            /\ Pushes(a, d) => Pending(d, c)'
            /\ c = a /\ WillAsk(a, d) => Pending(d, c)'
            /\ WillBeTold(d) => Pending(d, c)'
    BY <1>8, <1>9, <1>10, <2>1, Zenon DEF Pending
  <2> QED BY <1>8, <1>9, <1>12, <2>2, QueuesStay, Zenon
<1>13. CASE /\ able # {} /\ p < highest_prio(a) /\ MoveTo(p, a)
            /\ lost' = (lost \/ Uncovers(p, s, a)) /\ UNCHANGED <<curr, need_resched>>
  <2>1. p \in Task /\ p \in pushable[s] /\ p \in OnRq(s) /\ cpu[p] = s
    BY <1>b, <1>6, <1>11, <1>13, AllowedAll, Zenon
  <2>2. s # a
    <3> SUFFICES ASSUME s = a PROVE FALSE
      OBVIOUS
    <3>1. highest_prio(a) <= p /\ highest_prio(a) \in 0 .. IDLE /\ p \in Nat
      BY <2>1, RoomIs, Idle, Zenon DEF IInv
    <3> QED BY <1>13, <3>1, SMT DEF IDLE
  <2>3. BestInv'
    BY <1>8, <1>13, <2>1, MoveBest, Zenon DEF BalanceInv
  <2>4. /\ OnRq(a)' = OnRq(a) \cup {p}
        /\ \A c \in CPU : c # a => OnRq(c)' = OnRq(c) \ {p}
        /\ \A d \in CPU : d # a => pushable'[d] = pushable[d] \ {p}
    BY <1>13, <2>1, Moved, Zenon
  <2>5. ASSUME ~lost', NEW d \in CPU, NEW c \in CPU, Waits(d, c)' PROVE Pending(d, c)'
    <3>1. CASE d = a
      BY <1>8, <3>1, Zenon DEF Pending, Looks
    <3>2. CASE d = s
      <4>1. PICK q \in pushable'[s] : \A x \in OnRq(c)' : q < x
        BY <2>5, <3>2, Zenon DEF Waits, Room
      <4>2. q \in pushable[s] /\ q # p /\ p <= q /\ q \in Task
        BY <1>b, <1>6, <1>11, <1>13, <2>2, <2>4, <4>1, Zenon
      <4>3. q \in Nat /\ p \in Nat
        BY <2>1, <4>2, Idle, Zenon
      <4>4. ~(q < p) /\ ~(q < q)
        BY <4>2, <4>3, SMT
      <4>5. c # a
        BY <2>4, <4>1, <4>4, Zenon
      <4>6. c # s
        <5>1. q \in OnRq(s)
          BY <1>b, <4>2, AllowedAll, Zenon
        <5>2. q \in OnRq(s)'
          BY <1>b, <2>2, <2>4, <4>2, <5>1, Zenon
        <5> QED BY <4>1, <4>4, <5>2, Zenon
      <4>7. OnRq(c)' = OnRq(c)
        <5>1. p \notin OnRq(c)
          BY <2>1, <4>6, Zenon DEF OnRq
        <5>2. OnRq(c)' = OnRq(c) \ {p}
          BY <2>4, <4>5, Zenon
        <5> QED BY <5>1, <5>2, Zenon
      <4>8. Waits(s, c)
        BY <4>1, <4>2, <4>7, Zenon DEF Waits, Room
      <4>9. Pending(s, c)
        BY <1>b, <1>13, <2>5, <4>8, Zenon DEF BalanceInv, PendInv
      <4>10. WillBeTold(s) => Pending(s, c)'
        BY <1>b, <1>9, Zenon DEF Pending
      <4> QED BY <1>b, <1>8, <1>13, <2>2, <3>2, <4>5, <4>9, <4>10, StillPending, Zenon
    <3>3. CASE d # a /\ d # s
      <4>1. ~lost /\ ~Uncovers(p, s, a)
        BY <1>13, <2>5, Zenon
      <4>2. ~Pushes(a, d) /\ (WillAsk(a, d) => WillAsk(a, d)') /\ (WillBeTold(d) => WillBeTold(d)')
        BY <1>8, <1>9, <1>10, <3>3, Zenon
      <4> QED BY <1>b, <1>8, <1>13, <2>1, <2>2, <2>5, <3>3, <4>1, <4>2, MovePend, Zenon
    <3> QED BY <3>1, <3>2, <3>3, Zenon
  <2> QED BY <1>9, <2>3, <2>5, Zenon DEF BalanceInv, PendInv
<1> QED BY <1>4, <1>12, <1>13, Zenon

LEMMA PickPend ==
    ASSUME IInv, BalanceInv, NEW a \in CPU, pick_next_task_rt(a)
    PROVE  BalanceInv'
<1>1. op[a] \in Op /\ op[a].pc = "pick"
  BY OpAt, Zenon DEF pick_next_task_rt, IInv
<1>2. ~Carries(a) /\ ~Starts(a) /\ \A d \in CPU : ~Pushes(a, d) /\ ~WillAsk(a, d)
  BY <1>1, Zenon DEF Carries, Starts, At, Pushes, WillAsk, Pushing
<1> DEFINE next == highest_prio(a)
           waiting == (pushable[a] \cup {p \in OnRq(a) : p = curr[a] /\ Migratory(p)}) \ {next}
           o == [pc |-> "callback", rq |-> a, after |-> "done"]
<1>3. /\ UNCHANGED <<cpu, queued>> /\ UNCHANGED <<rto, irq_work, lost>>
      /\ curr' = [curr EXCEPT ![a] = next] /\ pushable' = [pushable EXCEPT ![a] = waiting]
      /\ need_resched' = need_resched \ {a}
      /\ \/ waiting # {} /\ next # IDLE /\ op' = [op EXCEPT ![a] = o]
         \/ ~(waiting # {} /\ next # IDLE) /\ op' = [op EXCEPT ![a] = NULL]
  BY Zenon DEF pick_next_task_rt, rtoVars
<1>4. o \in Op /\ o.pc = "callback" /\ o.rq = a /\ o.after = "done"
  BY OpMade, Zenon
<1>5. waiting \subseteq OnRq(a)
  <2>1. pushable[a] \subseteq OnRq(a)
    BY AllowedAll, Zenon
  <2> QED BY <2>1, Zenon
<1> HIDE DEF o, waiting
<1>6. Alone(a) /\ (op'[a] = NULL \/ (op'[a] = o /\ waiting # {} /\ next # IDLE))
  BY <1>3, GoesAlone, Zenon DEF IInv
<1>7. ~Carries(a)' /\ ~Starts(a)'
  BY <1>4, <1>6, Zenon DEF Carries, Starts, At
<1>8. RtoInv' /\ \A d \in CPU : WillBeTold(d)' <=> WillBeTold(d)
  BY <1>2, <1>3, <1>6, <1>7, IpiKept, Zenon DEF BalanceInv
<1>9. \A c \in CPU : OnRq(c)' = OnRq(c)
  BY <1>3, Zenon DEF OnRq
<1>10. \A q \in OnRq(a) : q \in Task /\ next <= q
  BY Queued, RoomIs, Zenon DEF IInv
<1>11. curr'[a] = next /\ pushable'[a] = waiting
       /\ \A c \in CPU : c # a => curr'[c] = curr[c] /\ pushable'[c] = pushable[c]
  BY <1>3, Zenon DEF IInv, TypeOK
<1>12. waiting # {} => next # IDLE
  <2> SUFFICES ASSUME waiting # {}, next = IDLE PROVE FALSE
    BY Zenon
  <2>1. PICK q \in OnRq(a) : q \in Task /\ IDLE <= q
    BY <1>5, <1>10, Zenon
  <2>2. q \in 0 .. 99
    BY <2>1, BalanceAssumption, Zenon DEF BalanceAssumption
  <2> QED BY <2>1, <2>2, SMT DEF IDLE
<1>13. BestInv'
  <2> SUFFICES ASSUME NEW c \in CPU
               PROVE  c \in need_resched' \/ Away(c)' \/ \A q \in OnRq(c)' : curr'[c] <= q
    BY Zenon DEF BestInv
  <2>1. CASE c = a
    BY <1>9, <1>10, <1>11, <2>1, Zenon
  <2>2. CASE c # a
    <3>1. c \in need_resched \/ Away(c) \/ \A q \in OnRq(c) : curr[c] <= q
      BY Zenon DEF BalanceInv, BestInv
    <3>2. Away(c) => Away(c)'
      BY <1>6, <2>2, OthersKept, Zenon
    <3> QED BY <1>3, <1>9, <1>11, <2>2, <3>1, <3>2, Zenon
  <2> QED BY <2>1, <2>2, Zenon
<1>14. ASSUME ~lost', NEW d \in CPU, NEW c \in CPU, Waits(d, c)' PROVE Pending(d, c)'
  <2>1. CASE d = a
    <3>1. waiting # {}
      BY <1>11, <1>14, <2>1, Zenon DEF Waits
    <3>2. op'[a] = o /\ o # NULL
      BY <1>3, <1>4, <1>6, <1>12, <3>1, GoesAlone, NullApart, Zenon DEF IInv
    <3>3. Pushes(a, a)'
      BY <1>4, <3>2, Zenon DEF Pushes, Pushing
    <3> QED BY <2>1, <3>3, Zenon DEF Pending, Looks
  <2>2. CASE d # a
    <3>1. Waits(d, c)
      BY <1>9, <1>11, <1>14, <2>2, Zenon DEF Waits, Room
    <3>2. Pending(d, c)
      BY <1>3, <1>14, <3>1, Zenon DEF BalanceInv, PendInv
    <3>3. WillBeTold(d) => Pending(d, c)'
      BY <1>8, Zenon DEF Pending
    <3>4. d \in need_resched => d \in need_resched'
      BY <1>3, <2>2, Zenon
    <3> QED BY <1>2, <1>6, <2>2, <3>2, <3>3, <3>4, StillPending, Zenon
  <2> QED BY <2>1, <2>2, Zenon
<1> QED BY <1>8, <1>13, <1>14, Zenon DEF BalanceInv, PendInv

-----------------------------------------------------------------------------
\* The push IPI.

\* What every step of it leaves alone, and what is left to show.
LEMMA IpiStep ==
    ASSUME IInv, BalanceInv, NEW a \in CPU, Alone(a), UNCHANGED <<cpu, queued, curr, pushable>>,
           need_resched' = need_resched, Away(a) => Away(a)', \A d \in CPU : ~Pushes(a, d),
           lost => lost', RtoInv',
           \A d \in CPU : ~lost' /\ WillAsk(a, d) => WillBeTold(d)' \/ WillAsk(a, d)',
           \A d \in CPU, c \in CPU : Waits(d, c) /\ d \in rto_mask /\ WillBeTold(d) => Pending(d, c)'
    PROVE  BalanceInv'
<1>1. ASSUME ~lost', NEW d \in CPU, NEW c \in CPU, Waits(d, c)
      PROVE  /\ c = a /\ WillAsk(a, d) => Pending(d, c)'
             /\ WillBeTold(d) => Pending(d, c)'
  <2>1. c = a /\ WillAsk(a, d) => Pending(d, c)'
    BY <1>1, Zenon DEF Pending
  <2>2. Looks(d) \/ d \in rto_mask
    BY <1>1, Findable, Zenon DEF BalanceInv
  <2>3. ~Pushes(a, d) /\ need_resched \subseteq need_resched'
    BY Zenon
  <2>4. Looks(d) => Looks(d)'
    BY <2>3, LooksKept, Zenon
  <2>5. WillBeTold(d) => Pending(d, c)'
    BY <1>1, <2>2, <2>4, Zenon DEF Pending
  <2> QED BY <2>1, <2>5, Zenon
<1> QED BY <1>1, QueuesStay, Zenon

\* rto_cpu and rto_loop_next have their types.
LEMMA RtoTyped ==
    ASSUME TypeOK
    PROVE  /\ rto.cpu \in -1 .. N - 1 /\ rto.cpu \in Int /\ rto.again \in BOOLEAN
           /\ \A d \in CPU : d \in Int /\ d >= 0 /\ ~(d < 0)
           /\ rto.cpu < 0 <=> ~(rto.cpu >= 0)
           /\ rto.cpu < 0 => rto.cpu = -1
<1>1. rto.cpu \in -1 .. N - 1 /\ rto.again \in BOOLEAN
  BY SMT DEF TypeOK
<1>2. rto.cpu \in Int /\ (rto.cpu < 0 <=> ~(rto.cpu >= 0)) /\ (rto.cpu < 0 => rto.cpu = -1)
  BY <1>1, BalanceAssumption, SMT DEF BalanceAssumption
<1>3. \A d \in CPU : d \in Int /\ d >= 0 /\ ~(d < 0)
  BY Cpus, SMT
<1> QED BY <1>1, <1>2, <1>3, Zenon

\* The three outcomes of rto_next_cpu.
LEMMA NextIs ==
    ASSUME TypeOK, NEW n, n = rto_next_cpu
    PROVE  /\ n.cpu \in -1 .. N - 1 /\ n.again \in BOOLEAN
           /\ \A d \in rto_mask : rto.cpu < d => n.cpu >= 0 /\ (n.again <=> rto.again) /\ n.cpu <= d
           /\ \A d \in rto_mask : rto.again => n.cpu >= 0 /\ (n.again \/ n.cpu <= d)
<1> DEFINE rest == {c \in rto_mask : c > rto.cpu}
<1>1. n.cpu \in -1 .. N - 1 /\ n.again \in BOOLEAN
  BY NextCpu, Zenon
<1>2. n = IF rest # {} THEN [cpu |-> Min(rest), again |-> rto.again]
          ELSE IF rto.again /\ rto_mask # {} THEN [cpu |-> Min(rto_mask), again |-> FALSE]
          ELSE [cpu |-> -1, again |-> FALSE]
  BY Zenon DEF rto_next_cpu
<1>3. rto_mask \in SUBSET CPU /\ rto_mask \in SUBSET Nat /\ rest \in SUBSET CPU /\ rest \in SUBSET Nat
  BY Cpus, Zenon DEF rto_mask
<1>4. \A d \in rto_mask : rto.cpu < d => d \in rest
  <2>1. \A d \in CPU : rto.cpu < d => d > rto.cpu
    BY RtoTyped, SMT
  <2> QED BY <1>3, <2>1, Zenon
<1>a. \A c \in CPU : c >= 0
  BY RtoTyped, Zenon
<1> HIDE DEF rest
<1>5. ASSUME rest # {}
      PROVE  n.cpu >= 0 /\ n.again = rto.again /\ \A d \in rest : n.cpu <= d
  <2>1. n = [cpu |-> Min(rest), again |-> rto.again]
    BY <1>2, <1>5, Zenon
  <2>2. n.cpu = Min(rest) /\ n.again = rto.again
    BY <2>1, SMT
  <2>3. Min(rest) \in CPU /\ \A d \in rest : Min(rest) <= d
    BY <1>3, <1>5, MinCpu, MinLeq, Zenon
  <2> QED BY <1>a, <2>2, <2>3, Zenon
<1>6. ASSUME rest = {}, rto.again, NEW d \in rto_mask
      PROVE  n.cpu >= 0 /\ n.cpu <= d
  <2>1. rto_mask # {}
    BY <1>6, Zenon
  <2>2. n = [cpu |-> Min(rto_mask), again |-> FALSE]
    BY <1>2, <1>6, <2>1, Zenon
  <2>3. n.cpu = Min(rto_mask)
    BY <2>2, SMT
  <2>4. Min(rto_mask) \in CPU /\ Min(rto_mask) <= d
    BY <1>3, <1>6, <2>1, MinCpu, MinLeq, Zenon
  <2> QED BY <1>a, <2>3, <2>4, Zenon
<1> QED BY <1>1, <1>4, <1>5, <1>6, Zenon

LEMMA TellPend ==
    ASSUME IInv, BalanceInv, NEW a \in CPU, tell_cpu_to_push(a)
    PROVE  BalanceInv'
<1> DEFINE o == [pc |-> IF rto.start THEN "pick" ELSE "scan"]
<1>1. op[a] \in Op /\ op[a].pc = "tell" /\ op[a].pc \in Scheduling
  BY OpAt, Zenon DEF tell_cpu_to_push, IInv, Scheduling, Switching
<1>2. /\ UNCHANGED <<cpu, queued, curr, pushable>> /\ need_resched' = need_resched /\ irq_work' = irq_work
      /\ op' = [op EXCEPT ![a] = o] /\ rto' = [cpu |-> rto.cpu, start |-> TRUE, again |-> TRUE]
      /\ lost' = (lost \/ \E b \in CPU : At(b, "unlock") /\ op[b].cpu = -1 /\ rto.cpu = -1)
  BY Zenon DEF tell_cpu_to_push, rqVars
<1>3. o \in Op /\ o.pc = (IF rto.start THEN "pick" ELSE "scan")
  BY OpMade, Zenon
<1> HIDE DEF o
<1>4. o.pc \in Scheduling
  BY <1>3, Zenon DEF Scheduling, Switching
<1>5. /\ Alone(a) /\ op'[a] = o /\ op'[a] # NULL /\ Away(a)' /\ \A d \in CPU : ~Pushes(a, d)
      /\ ~Carries(a) /\ ~Starts(a)
  BY <1>1, <1>2, <1>3, <1>4, StaysAway, Zenon
<1>6. ~Carries(a)' /\ (At(a, "scan")' <=> ~rto.start)
  BY <1>3, <1>5, Zenon DEF Carries, At, Pushing
<1>7. \A b \in CPU : b # a => /\ Carries(b)' <=> Carries(b)
                              /\ Starts(b)' <=> Starts(b)
                              /\ At(b, "scan")' <=> At(b, "scan")
                              /\ At(b, "unlock")' <=> At(b, "unlock")
                              /\ op'[b] = op[b]
  BY <1>5, OthersKept, Zenon
<1>8. rto'.cpu = rto.cpu /\ rto'.again
  BY <1>2, SMT
<1>9. ~At(a, "scan") /\ ~At(a, "unlock")
  BY <1>1, Zenon DEF At
<1>10. RtoInv'
  <2>1. irq_work' # NULL => irq_work' = rto'.cpu /\ \A b \in CPU : ~Carries(b)'
    BY <1>2, <1>5, <1>6, <1>7, <1>8, Zenon DEF BalanceInv, RtoInv
  <2>2. \A b \in CPU : Carries(b)' =>
          /\ rto'.cpu >= 0 /\ (At(b, "unlock")' => op'[b].cpu = rto'.cpu)
          /\ \A c \in CPU : Carries(c)' => c = b
    BY <1>6, <1>7, <1>8, Zenon DEF BalanceInv, RtoInv
  <2>3. rto'.cpu >= 0 => irq_work' # NULL \/ \E b \in CPU : Carries(b)'
    BY <1>2, <1>5, <1>7, <1>8, Zenon DEF BalanceInv, RtoInv
  <2>4. \E b \in CPU : Starts(b)'
    BY <1>5, <1>6, <1>7, Zenon DEF BalanceInv, RtoInv, Starts
  <2> QED BY <2>1, <2>2, <2>3, <2>4, Zenon DEF RtoInv
<1>11. \A d \in CPU : WillBeTold(d) => WillBeTold(d)'
  BY <1>2, <1>7, <1>8, <1>9, Zenon DEF WillBeTold
<1>12. ASSUME ~lost', NEW d \in CPU PROVE WillBeTold(d)'
  <2>1. rto.cpu >= 0 \/ \E b \in CPU : At(b, "scan")'
    <3>1. CASE ~rto.start
      BY <1>6, <3>1, Zenon
    <3>2. CASE rto.start
      <4>1. PICK b \in CPU : Starts(b)
        BY <3>2, Zenon DEF BalanceInv, RtoInv
      <4>2. CASE At(b, "scan")
        BY <1>7, <1>9, <4>2, Zenon
      <4>3. CASE At(b, "unlock")
        <5>1. op[b] \in Op /\ op[b].pc = "unlock" /\ op[b] # NULL
          BY <4>3, OpAt, NullApart, Zenon DEF IInv
        <5>2. op[b].cpu \in -1 .. N - 1
          BY <5>1, OpFields, Zenon
        <5>3. op[b].cpu >= 0 => rto.cpu >= 0
          BY <5>1, Zenon DEF BalanceInv, RtoInv, Carries
        <5>4. op[b].cpu >= 0 \/ op[b].cpu = -1
          BY <5>2, BalanceAssumption, SMT DEF BalanceAssumption
        <5>5. rto.cpu >= 0 \/ rto.cpu = -1
          BY RtoTyped, Zenon DEF IInv
        <5> QED BY <1>2, <1>12, <4>3, <5>3, <5>4, <5>5, Zenon
      <4> QED BY <4>1, <4>2, <4>3, Zenon DEF Starts
    <3> QED BY <3>1, <3>2, Zenon
  <2> QED BY <1>8, <2>1, Zenon DEF WillBeTold
<1>13. lost => lost'
  BY <1>2, Zenon
<1>14. \A d \in CPU, c \in CPU : WillBeTold(d) => Pending(d, c)'
  BY <1>11, Zenon DEF Pending
<1> QED BY <1>2, <1>5, <1>10, <1>12, <1>13, <1>14, IpiStep, Zenon

LEMMA ScanPend ==
    ASSUME IInv, BalanceInv, NEW a \in CPU, tell_scan(a)
    PROVE  BalanceInv'
<1>1. op[a] \in Op /\ op[a].pc = "scan" /\ op[a].pc \in Scheduling
  BY OpAt, Zenon DEF tell_scan, IInv, Scheduling, Switching
<1>2. PICK n : n = IF rto.cpu < 0 THEN rto_next_cpu ELSE [cpu |-> -1, again |-> rto.again]
  BY Zenon
<1>3. PICK m : m = n.cpu
  BY Zenon
<1> DEFINE o == [pc |-> "unlock", cpu |-> m]
<1>4. /\ UNCHANGED <<cpu, queued, curr, pushable>> /\ need_resched' = need_resched /\ irq_work' = irq_work
      /\ lost' = lost /\ op' = [op EXCEPT ![a] = o]
      /\ rto' = [cpu |-> IF rto.cpu < 0 THEN n.cpu ELSE rto.cpu, start |-> rto.start, again |-> n.again]
  BY <1>2, <1>3, Zenon DEF tell_scan, rqVars
<1>5. rto'.cpu = (IF rto.cpu < 0 THEN m ELSE rto.cpu) /\ rto'.again = n.again
  BY <1>3, <1>4, SMT
<1>6. ~(rto.cpu < 0) => m = -1 /\ n.again = rto.again
  <2> SUFFICES ASSUME ~(rto.cpu < 0) PROVE m = -1 /\ n.again = rto.again
    BY Zenon
  <2>1. n = [cpu |-> -1, again |-> rto.again]
    BY <1>2, Zenon
  <2> QED BY <1>3, <2>1, SMT
<1>7. m \in -1 .. N - 1
  <2>1. -1 \in -1 .. N - 1
    BY BalanceAssumption, SMT DEF BalanceAssumption
  <2>2. rto.cpu < 0 => m \in -1 .. N - 1
    BY <1>2, <1>3, NextCpu, Zenon DEF IInv
  <2> QED BY <1>6, <2>1, <2>2, Zenon
<1>8. o \in Op /\ o.pc = "unlock" /\ o.cpu = m
  BY <1>7, OpMade, Zenon
<1> HIDE DEF o
<1>9. o.pc \in Scheduling
  BY <1>8, Zenon DEF Scheduling, Switching
<1>10. Alone(a) /\ op'[a] = o /\ op'[a] # NULL /\ Away(a)' /\ \A d \in CPU : ~Pushes(a, d)
  BY <1>1, <1>4, <1>8, <1>9, StaysAway, Zenon
<1>11. /\ ~Carries(a) /\ ~At(a, "unlock") /\ At(a, "unlock")' /\ op'[a].cpu = m /\ (Carries(a)' <=> m >= 0)
       /\ \A d \in CPU : ~WillAsk(a, d)
  BY <1>1, <1>8, <1>10, Zenon DEF Carries, At, Pushing, WillAsk
<1>12. \A b \in CPU : b # a => /\ Carries(b)' <=> Carries(b)
                               /\ At(b, "scan")' <=> At(b, "scan")
                               /\ At(b, "unlock")' <=> At(b, "unlock")
                               /\ op'[b] = op[b]
  BY <1>10, OthersKept, Zenon
<1>13. rto.cpu < 0 => irq_work = NULL /\ \A b \in CPU : ~Carries(b)
  <2>1. rto.cpu < 0 => rto.cpu \notin CPU /\ ~(rto.cpu >= 0)
    BY RtoTyped, Zenon DEF IInv
  <2> QED BY <2>1, Zenon DEF BalanceInv, RtoInv, IInv, TypeOK
<1>14. ~(-1 >= 0) /\ (rto.cpu < 0 <=> ~(rto.cpu >= 0))
  <2>1. ~(-1 >= 0)
    BY SMT
  <2> QED BY <2>1, RtoTyped, Zenon DEF IInv
<1>15. RtoInv'
  <2>1. irq_work' # NULL => irq_work' = rto'.cpu /\ \A b \in CPU : ~Carries(b)'
    BY <1>4, <1>5, <1>6, <1>11, <1>12, <1>13, <1>14, Zenon DEF BalanceInv, RtoInv
  <2>2. \A b \in CPU : Carries(b)' =>
          /\ rto'.cpu >= 0 /\ (At(b, "unlock")' => op'[b].cpu = rto'.cpu)
          /\ \A c \in CPU : Carries(c)' => c = b
    <3>1. CASE rto.cpu < 0
      <4>1. \A b \in CPU : Carries(b)' => b = a
        BY <1>12, <1>13, <3>1, Zenon
      <4> QED BY <1>5, <1>11, <3>1, <4>1, Zenon
    <3>2. CASE ~(rto.cpu < 0)
      <4>1. ~Carries(a)'
        BY <1>6, <1>11, <1>14, <3>2, Zenon
      <4> QED BY <1>5, <1>12, <1>14, <3>2, <4>1, Zenon DEF BalanceInv, RtoInv
    <3> QED BY <3>1, <3>2, Zenon
  <2>3. rto'.cpu >= 0 => irq_work' # NULL \/ \E b \in CPU : Carries(b)'
    <3>1. CASE rto.cpu < 0
      BY <1>5, <1>11, <3>1, Zenon
    <3>2. CASE ~(rto.cpu < 0)
      BY <1>4, <1>5, <1>11, <1>12, <1>14, <3>2, Zenon DEF BalanceInv, RtoInv
    <3> QED BY <3>1, <3>2, Zenon
  <2>4. \E b \in CPU : Starts(b)'
    BY <1>11, Zenon DEF Starts
  <2> QED BY <2>1, <2>2, <2>3, <2>4, Zenon DEF RtoInv
<1>16. ASSUME NEW d \in CPU, d \in rto_mask, WillBeTold(d) PROVE WillBeTold(d)'
  <2>1. CASE rto.cpu < 0
    <3>1. rto.cpu < d /\ m >= 0 /\ m <= d
      <4>1. rto.cpu < d
        BY <2>1, RtoTyped, SMT DEF IInv
      <4>2. n = rto_next_cpu
        BY <1>2, <2>1, Zenon
      <4>3. m >= 0 /\ m <= d
        BY <1>3, <1>16, <4>1, <4>2, NextIs, Zenon DEF IInv
      <4> QED BY <4>1, <4>3, Zenon
    <3>2. rto'.cpu = m
      BY <1>5, <2>1, Zenon
    <3>3. CASE m = d
      BY <1>11, <3>2, <3>3, Zenon DEF WillBeTold
    <3>4. CASE m # d
      <4>1. m < d
        BY <1>7, <3>1, <3>4, Cpus, BalanceAssumption, SMT DEF BalanceAssumption
      <4> QED BY <3>1, <3>2, <4>1, Zenon DEF WillBeTold
    <3> QED BY <3>3, <3>4, Zenon
  <2>2. CASE ~(rto.cpu < 0)
    <3>1. rto'.cpu = rto.cpu /\ rto'.again = rto.again /\ rto.cpu >= 0
      BY <1>5, <1>6, <1>14, <2>2, Zenon
    <3>2. \A b \in CPU : At(b, "unlock") => b # a
      BY <1>11, Zenon
    <3> QED BY <1>4, <1>12, <1>16, <3>1, <3>2, Zenon DEF WillBeTold
  <2> QED BY <2>1, <2>2, Zenon
<1>17. \A d \in CPU, c \in CPU : d \in rto_mask /\ WillBeTold(d) => Pending(d, c)'
  BY <1>16, Zenon DEF Pending
<1> QED BY <1>4, <1>10, <1>11, <1>15, <1>17, IpiStep, Zenon

LEMMA UnlockPend ==
    ASSUME IInv, BalanceInv, NEW a \in CPU, tell_unlock(a)
    PROVE  BalanceInv'
<1> DEFINE o == [pc |-> "pick"]
<1>1. op[a] \in Op /\ op[a].pc = "unlock" /\ op[a].pc \in Scheduling /\ At(a, "unlock")
  BY OpAt, Zenon DEF tell_unlock, IInv, Scheduling, Switching
<1>2. PICK m \in -1 .. N - 1 : m = op[a].cpu
  BY <1>1, OpFields, Zenon
<1>3. /\ UNCHANGED <<cpu, queued, curr, pushable>> /\ need_resched' = need_resched
      /\ lost' = lost /\ op' = [op EXCEPT ![a] = o]
      /\ rto' = [rto EXCEPT !.start = FALSE]
      /\ irq_work' = IF m >= 0 THEN m ELSE irq_work
  BY <1>2, Zenon DEF tell_unlock, rqVars
<1>4. rto'.cpu = rto.cpu /\ rto'.again = rto.again /\ ~rto'.start
  BY <1>3, SMT DEF IInv, TypeOK
<1>5. o \in Op /\ o.pc = "pick"
  BY OpMade, Zenon
<1> HIDE DEF o
<1>6. o.pc \in Scheduling /\ o.pc \notin {"scan", "unlock"}
  BY <1>5, Zenon DEF Scheduling, Switching
<1>7. /\ Alone(a) /\ op'[a] = o /\ op[a] # NULL /\ Away(a)' /\ \A d \in CPU : ~Pushes(a, d)
      /\ ~Carries(a)' /\ ~Starts(a)'
  BY <1>1, <1>3, <1>5, <1>6, StaysAway, Zenon
<1>8. (Carries(a) <=> m >= 0) /\ ~At(a, "scan") /\ \A d \in CPU : ~WillAsk(a, d)
  BY <1>1, <1>2, <1>7, Zenon DEF Carries, At, Pushing, WillAsk
<1>9. \A b \in CPU : b # a => /\ Carries(b)' <=> Carries(b)
                              /\ At(b, "scan")' <=> At(b, "scan")
                              /\ At(b, "unlock")' <=> At(b, "unlock")
                              /\ op'[b] = op[b]
  BY <1>7, OthersKept, Zenon
<1>10. m >= 0 => m \in CPU /\ m # NULL
  BY IpiCpu, NullApart, Zenon
<1>11. m >= 0 => /\ rto.cpu = m /\ irq_work = NULL /\ irq_work' # NULL
                 /\ \A b \in CPU : ~Carries(b)'
  BY <1>1, <1>2, <1>3, <1>7, <1>8, <1>9, <1>10, Zenon DEF BalanceInv, RtoInv
<1>12. RtoInv'
  <2>1. CASE m >= 0
    BY <1>3, <1>4, <1>11, <2>1, Zenon DEF RtoInv
  <2>2. CASE ~(m >= 0)
    <3>1. irq_work' = irq_work /\ \A b \in CPU : Carries(b)' <=> Carries(b)
      BY <1>3, <1>7, <1>8, <1>9, <2>2, Zenon
    <3>2. irq_work' # NULL => irq_work' = rto'.cpu /\ \A b \in CPU : ~Carries(b)'
      BY <1>4, <3>1, Zenon DEF BalanceInv, RtoInv
    <3>3. \A b \in CPU : Carries(b)' =>
            /\ rto'.cpu >= 0 /\ (At(b, "unlock")' => op'[b].cpu = rto'.cpu)
            /\ \A c \in CPU : Carries(c)' => c = b
      BY <1>4, <1>7, <1>9, <3>1, Zenon DEF BalanceInv, RtoInv
    <3>4. rto'.cpu >= 0 => irq_work' # NULL \/ \E b \in CPU : Carries(b)'
      BY <1>4, <3>1, Zenon DEF BalanceInv, RtoInv
    <3> QED BY <1>4, <3>2, <3>3, <3>4, Zenon DEF RtoInv
  <2> QED BY <2>1, <2>2, Zenon
<1>13. ASSUME NEW d \in CPU, WillBeTold(d) PROVE WillBeTold(d)'
  <2>1. CASE (rto.again \/ rto.cpu < d) /\ (rto.cpu >= 0 \/ \E b \in CPU : At(b, "scan"))
    BY <1>4, <1>8, <1>9, <2>1, Zenon DEF WillBeTold
  <2>2. CASE rto.cpu = d /\ m >= 0
    BY <1>4, <1>11, <2>2, Zenon DEF WillBeTold
  <2>3. CASE rto.cpu = d /\ ~(m >= 0) /\ irq_work # NULL
    BY <1>3, <1>4, <2>3, Zenon DEF WillBeTold
  <2>4. CASE rto.cpu = d /\ ~(m >= 0) /\ \E b \in CPU : At(b, "unlock") /\ op[b].cpu = d
    <3>1. PICK b \in CPU : At(b, "unlock") /\ op[b].cpu = d
      BY <2>4, Zenon
    <3>2. d >= 0
      BY RtoTyped, Zenon DEF IInv
    <3>3. b # a
      BY <1>2, <2>4, <3>1, <3>2, Zenon
    <3> QED BY <1>4, <1>9, <2>4, <3>1, <3>3, Zenon DEF WillBeTold
  <2> QED BY <1>13, <2>1, <2>2, <2>3, <2>4, Zenon DEF WillBeTold
<1>14. \A d \in CPU, c \in CPU : WillBeTold(d) => Pending(d, c)'
  BY <1>13, Zenon DEF Pending
<1> QED BY <1>3, <1>7, <1>8, <1>12, <1>14, IpiStep, Zenon

LEMMA IrqPend ==
    ASSUME IInv, BalanceInv, NEW a \in CPU, rto_push_irq_work_func(a)
    PROVE  BalanceInv'
<1>1. op[a] = NULL /\ irq_work = a
  BY Zenon DEF rto_push_irq_work_func
<1>2. /\ UNCHANGED <<cpu, queued, curr, pushable>> /\ need_resched' = need_resched /\ irq_work' = NULL
      /\ rto' = rto /\ lost' = lost
  BY Zenon DEF rto_push_irq_work_func, rqVars
<1> DEFINE push == [pc |-> "callback", rq |-> a, after |-> "rto"]
           o == IF pushable[a] # {} THEN push ELSE [pc |-> "rto"]
<1>3. op' = [op EXCEPT ![a] = o]
  BY Zenon DEF rto_push_irq_work_func
<1>4. push \in Op /\ push.pc = "callback" /\ push.rq = a /\ push.after = "rto"
  BY OpMade, Zenon
<1> HIDE DEF push
<1>5. o \in Op /\ (o = push \/ o.pc = "rto") /\ (pushable[a] # {} => o = push)
  BY <1>4, OpMade, Zenon
<1> HIDE DEF o
<1>6. Alone(a) /\ op'[a] = o /\ o # NULL
  BY <1>3, <1>5, GoesAlone, NullApart, Zenon DEF IInv
<1>7. ~Carries(a) /\ ~Away(a) /\ ~Starts(a) /\ \A d \in CPU : ~Pushes(a, d) /\ ~WillAsk(a, d)
  BY <1>1, Nothing, Zenon
<1>8. Carries(a)' /\ ~Starts(a)' /\ ~At(a, "unlock")'
  BY <1>4, <1>5, <1>6, Zenon DEF Carries, Starts, At, Pushing
<1>9. pushable[a] # {} => Pushes(a, a)'
  BY <1>4, <1>5, <1>6, Zenon DEF Pushes, Pushing
<1>10. \A b \in CPU : b # a => /\ Carries(b)' <=> Carries(b)
                               /\ Starts(b)' <=> Starts(b)
                               /\ At(b, "scan")' <=> At(b, "scan")
                               /\ At(b, "unlock")' <=> At(b, "unlock")
                               /\ op'[b] = op[b]
  BY <1>6, OthersKept, Zenon
<1>11. rto.cpu = a /\ rto.cpu >= 0 /\ \A b \in CPU : ~Carries(b)
  <2>1. rto.cpu = a /\ \A b \in CPU : ~Carries(b)
    BY <1>1, NullApart, Zenon DEF BalanceInv, RtoInv
  <2> QED BY <2>1, RtoTyped, Zenon DEF IInv
<1>12. RtoInv'
  <2>1. \A b \in CPU : Carries(b)' => b = a
    BY <1>10, <1>11, Zenon
  <2>2. \A b \in CPU : Carries(b)' =>
          /\ rto'.cpu >= 0 /\ (At(b, "unlock")' => op'[b].cpu = rto'.cpu)
          /\ \A c \in CPU : Carries(c)' => c = b
    BY <1>2, <1>8, <1>11, <2>1, Zenon
  <2>3. rto'.start => \E b \in CPU : Starts(b)'
    BY <1>2, <1>7, <1>10, Zenon DEF BalanceInv, RtoInv
  <2> QED BY <1>2, <1>8, <2>2, <2>3, Zenon DEF RtoInv
<1>13. ASSUME NEW d \in CPU, NEW c \in CPU, Waits(d, c), WillBeTold(d) PROVE Pending(d, c)'
  <2>1. CASE rto.cpu = d
    <3>1. pushable[a] # {}
      BY <1>11, <1>13, <2>1, Zenon DEF Waits
    <3> QED BY <1>9, <1>11, <2>1, <3>1, Zenon DEF Pending, Looks
  <2>2. CASE rto.again \/ rto.cpu < d
    BY <1>2, <1>11, <2>2, Zenon DEF Pending, WillBeTold
  <2> QED BY <1>13, <2>1, <2>2, Zenon DEF WillBeTold
<1> QED BY <1>2, <1>6, <1>7, <1>12, <1>13, IpiStep, Zenon

LEMMA PassOnPend ==
    ASSUME IInv, BalanceInv, NEW a \in CPU, rto_pass_on(a)
    PROVE  BalanceInv'
<1>1. op[a] \in Op /\ op[a].pc = "rto" /\ op[a] # NULL
  BY OpAt, NullApart, Zenon DEF rto_pass_on, IInv
<1>2. PICK n : n = rto_next_cpu
  BY Zenon
<1>3. /\ UNCHANGED <<cpu, queued, curr, pushable>> /\ need_resched' = need_resched
      /\ lost' = lost /\ op' = [op EXCEPT ![a] = NULL]
      /\ rto' = [cpu |-> n.cpu, start |-> rto.start, again |-> n.again]
      /\ irq_work' = IF n.cpu >= 0 THEN n.cpu ELSE irq_work
  BY <1>2, Zenon DEF rto_pass_on, Done, rqVars
<1>4. /\ n.cpu \in -1 .. N - 1 /\ n.again \in BOOLEAN
      /\ \A d \in rto_mask : rto.cpu < d => n.cpu >= 0 /\ (n.again <=> rto.again) /\ n.cpu <= d
      /\ \A d \in rto_mask : rto.again => n.cpu >= 0 /\ (n.again \/ n.cpu <= d)
  BY <1>2, NextIs, Zenon DEF IInv
<1>5. rto'.cpu = n.cpu /\ rto'.again = n.again /\ rto'.start = rto.start
  BY <1>3, SMT
<1>6. Alone(a) /\ op'[a] = NULL
  BY <1>3, GoesAlone, Zenon DEF IInv
<1>7. ~Carries(a)' /\ ~Starts(a)'
  BY <1>6, Zenon DEF Carries, Starts, At
<1>8. /\ Carries(a) /\ ~Starts(a) /\ ~At(a, "unlock") /\ ~Away(a)
      /\ \A d \in CPU : ~Pushes(a, d) /\ ~WillAsk(a, d)
  BY <1>1, Zenon DEF Carries, Starts, At, Away, Leaving, Switching, Pushes, Pushing, WillAsk
<1>9. \A b \in CPU : b # a => (Carries(b)' <=> Carries(b)) /\ (Starts(b)' <=> Starts(b))
  BY <1>6, OthersKept, Zenon
<1>10. rto.cpu >= 0 /\ irq_work = NULL /\ \A b \in CPU : Carries(b) => b = a
  BY <1>8, Zenon DEF BalanceInv, RtoInv
<1>11. \A b \in CPU : ~Carries(b)'
  BY <1>7, <1>9, <1>10, Zenon
<1>12. n.cpu >= 0 => n.cpu # NULL
  BY <1>4, IpiCpu, NullApart, Zenon
<1>13. RtoInv'
  <2>1. irq_work' # NULL => irq_work' = rto'.cpu
    BY <1>3, <1>5, <1>10, Zenon
  <2>2. rto'.cpu >= 0 => irq_work' # NULL
    BY <1>3, <1>5, <1>12, Zenon
  <2>3. rto'.start => \E b \in CPU : Starts(b)'
    BY <1>5, <1>8, <1>9, Zenon DEF BalanceInv, RtoInv
  <2> QED BY <1>11, <2>1, <2>2, <2>3, Zenon DEF RtoInv
<1>14. ASSUME NEW d \in CPU, d \in rto_mask, WillBeTold(d) PROVE WillBeTold(d)'
  <2>1. rto.again \/ rto.cpu < d
    <3> SUFFICES ASSUME NEW b \in CPU, At(b, "unlock"), op[b].cpu = d PROVE FALSE
      BY <1>10, <1>14, Zenon DEF WillBeTold
    <3>1. d >= 0
      BY RtoTyped, Zenon DEF IInv
    <3>2. Carries(b)
      BY <3>1, Zenon DEF Carries, At
    <3> QED BY <1>8, <1>10, <3>2, Zenon
  <2>2. n.cpu >= 0 /\ (n.again \/ n.cpu <= d)
    BY <1>4, <1>14, <2>1, Zenon
  <2>3. n.cpu <= d => n.cpu = d \/ n.cpu < d
    BY <1>4, Cpus, BalanceAssumption, SMT DEF BalanceAssumption
  <2>4. irq_work' # NULL
    BY <1>3, <1>12, <2>2, Zenon
  <2> QED BY <1>5, <2>2, <2>3, <2>4, Zenon DEF WillBeTold
<1>15. \A d \in CPU, c \in CPU : d \in rto_mask /\ WillBeTold(d) => Pending(d, c)'
  BY <1>14, Zenon DEF Pending
<1> QED BY <1>3, <1>6, <1>8, <1>13, <1>15, IpiStep, Zenon

-----------------------------------------------------------------------------
LEMMA InitPend == Init => BalanceInv
<1> SUFFICES ASSUME Init PROVE BalanceInv
  OBVIOUS
<1>1. \A a \in CPU : op[a] = NULL /\ curr[a] = IDLE /\ pushable[a] = {} /\ OnRq(a) = {}
  BY Zenon DEF Init, OnRq
<1>2. irq_work = NULL
  BY Zenon DEF Init
<1>3. ~(rto.cpu >= 0) /\ ~rto.start
  BY SMT DEF Init
<1>4. RtoInv
  BY <1>1, <1>2, <1>3, Zenon DEF RtoInv, Carries
<1>5. BestInv /\ PendInv
  BY <1>1, Zenon DEF BestInv, PendInv, Waits
<1> QED BY <1>4, <1>5, Zenon DEF BalanceInv

LEMMA StepPend ==
    ASSUME IInv, BalanceInv, [Next]_vars
    PROVE  BalanceInv'
<1>1. CASE UNCHANGED vars
  <2>1. /\ UNCHANGED <<cpu, queued, curr, pushable, need_resched, op, rto, irq_work, lost>>
        /\ UNCHANGED <<RT_PUSH_IPI, pinned>>
    BY <1>1, Zenon DEF vars, rqVars, rtoVars, setup
  <2>2. \A b \in CPU : /\ Carries(b)' <=> Carries(b)
                       /\ Starts(b)' <=> Starts(b)
                       /\ Away(b)' <=> Away(b)
                       /\ At(b, "scan")' <=> At(b, "scan")
                       /\ At(b, "unlock")' <=> At(b, "unlock")
                       /\ OnRq(b)' = OnRq(b)
                       /\ \A d \in CPU : (Pushes(b, d)' <=> Pushes(b, d)) /\ (WillAsk(b, d)' <=> WillAsk(b, d))
    BY <2>1, Zenon DEF Carries, Starts, At, Away, Leaving, OnRq, Pushes, WillAsk
  <2>3. RtoInv'
    BY <2>1, <2>2, Zenon DEF BalanceInv, RtoInv
  <2>4. BestInv'
    BY <2>1, <2>2, Zenon DEF BalanceInv, BestInv
  <2>5. \A d \in CPU : (WillBeTold(d)' <=> WillBeTold(d)) /\ (Looks(d)' <=> Looks(d))
    BY <2>1, <2>2, Zenon DEF WillBeTold, Looks
  <2>6. \A d, c \in CPU : Waits(d, c)' <=> Waits(d, c)
    BY <2>1, <2>2, Zenon DEF Waits, Room
  <2>7. PendInv'
    BY <2>1, <2>2, <2>5, <2>6, Zenon DEF BalanceInv, PendInv, Pending
  <2> QED BY <2>3, <2>4, <2>7, Zenon DEF BalanceInv
<1>2. CASE Next
  <2>1. PICK a \in CPU :
            \/ \E p \in Task : try_to_wake_up(a, p)
            \/ ttwu_do_activate(a)
            \/ push_rt_tasks(a) \/ push_rt_task(a) \/ push_rt_task_locked(a)
            \/ \E sleeps \in BOOLEAN : schedule(a, sleeps)
            \/ pull_rt_task(a) \/ pull_next(a) \/ pull_take(a)
            \/ pick_next_task_rt(a)
            \/ tell_cpu_to_push(a) \/ tell_scan(a) \/ tell_unlock(a)
            \/ rto_push_irq_work_func(a) \/ rto_pass_on(a)
    BY <1>2, Zenon DEF Next
  <2> QED BY <2>1, WakeupPend, ActivatePend, CallbackPend, PushPend, LockedPend, SchedulePend, PullPend,
             PullNextPend, PullTakePend, PickPend, TellPend, ScanPend, UnlockPend, IrqPend, PassOnPend, Zenon
<1> QED BY <1>1, <1>2, Zenon

LEMMA AlwaysPending == Spec => [](IInv /\ BalanceInv)
<1>1. Init => IInv /\ BalanceInv
  BY InitInv, InitPend, Zenon
<1>2. IInv /\ BalanceInv /\ [Next]_vars => (IInv /\ BalanceInv)'
  BY StepInv, StepPend, Zenon
<1> QED BY <1>1, <1>2, PTL DEF Spec

\* "All CPUs with overloaded RT tasks need to be notified": whatever CPUs,
\* tasks and affinities there are, and however pushes, pulls, wakeups and IPIs
\* interleave, no task is left waiting behind a more important one while
\* another CPU runs something less important, unless a request was dropped, a
\* push gave up after RT_MAX_TRIES or a stale push took away what its CPU was
\* about to run.
THEOREM NobodyEverWaitsInVain == Spec => []NobodyWaitsInVain
<1>1. IInv /\ BalanceInv => NobodyWaitsInVain
  <2> SUFFICES ASSUME IInv, BalanceInv, Quiescent, ~lost, NEW d \in CPU, pushable[d] # {},
                      NEW c \in Allowed(Min(pushable[d]))
               PROVE  highest_prio(c) <= Min(pushable[d])
    BY Zenon DEF NobodyWaitsInVain
  <2>1. pushable[d] \in SUBSET Nat /\ pushable[d] \subseteq Task
    BY Idle, Zenon DEF IInv, TypeOK
  <2>2. Min(pushable[d]) \in pushable[d] /\ Min(pushable[d]) \in Task
    BY <2>1, MinIn, Zenon
  <2>3. c \in CPU
    BY <2>2, AllowedIsCPU, Zenon
  <2>4. \A a \in CPU : op[a] = NULL
    BY Zenon DEF Quiescent
  <2>5. irq_work = NULL /\ need_resched = {}
    BY Zenon DEF Quiescent
  <2>6. \A a \in CPU : ~Carries(a) /\ ~Away(a) /\ ~At(a, "scan") /\ ~At(a, "unlock")
                       /\ \A e \in CPU : ~Pushes(a, e) /\ ~WillAsk(a, e)
    BY <2>4, Nothing, Zenon DEF At
  <2>7. ~(rto.cpu >= 0)
    BY <2>5, <2>6, Zenon DEF BalanceInv, RtoInv
  <2>8. ~WillBeTold(d)
    BY <2>5, <2>6, <2>7, Zenon DEF WillBeTold
  <2>9. ~Pending(d, c)
    BY <2>3, <2>5, <2>6, <2>8, Zenon DEF Pending, Looks
  <2>10. ~Room(Min(pushable[d]), c)
    BY <2>2, <2>3, <2>9, Zenon DEF BalanceInv, PendInv, Waits
  <2>11. ~(Min(pushable[d]) < highest_prio(c)) /\ highest_prio(c) \in 0 .. IDLE
    BY <2>2, <2>3, <2>10, RoomIs, Zenon DEF IInv
  <2>12. \A m \in Nat : ~(m < highest_prio(c)) => highest_prio(c) <= m
    BY <2>11, SMT DEF IDLE
  <2> QED BY <2>1, <2>2, <2>11, <2>12, Zenon
<1> QED BY <1>1, AlwaysPending, PTL
=============================================================================
