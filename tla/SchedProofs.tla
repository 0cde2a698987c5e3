---------------------------- MODULE SchedProofs -----------------------------
(***************************************************************************)
(* Facts about the operators of TsClass and Sched, and the invariants and  *)
(* the action properties of Sched, for every set of tasks, every workload  *)
(* and every slice length.                                                 *)
(***************************************************************************)
EXTENDS Sched, FiniteSetTheorems, TLAPS

-----------------------------------------------------------------------------
(* The arithmetic of the class *)

\* A wakeup (enqueue_task_ts with ENQUEUE_WAKEUP) never worsens a priority and
\* leaves it in the best band, 100..109.
THEOREM WakeupRaises ==
    \A prio \in TsPrio : WakeupPrio(prio) \in 100 .. 109 /\ WakeupPrio(prio) <= prio
BY DEF WakeupPrio, TsPrio

\* An expired slice (task_tick_ts) keeps the priority in the range of the class
\* and worsens it, unless it is already the worst.
THEOREM ExpiryLowers ==
    \A prio \in TsPrio : /\ ExpiredPrio(prio) \in TsPrio
                         /\ ExpiredPrio(prio) >= prio
                         /\ ExpiredPrio(prio) = prio => prio = 139
BY DEF ExpiredPrio, TsPrio

\* Every priority of the class earns a positive slice, at most MaxSlice.
LEMMA SliceRange ==
    \A prio \in TsPrio : prioTimeslice(prio) \in Slice
BY SliceUnitAssumption DEF prioTimeslice, TsPrio, MaxSlice, Slice

\* prioQueue maps the priorities of the class one to one to the lists.
LEMMA QueueIndexRange ==
    /\ \A prio \in TsPrio : prioQueue(prio) \in QueueIndex
    /\ \A p, q \in TsPrio : p < q <=> prioQueue(p) > prioQueue(q)
BY DEF prioQueue, TsPrio, QueueIndex
-----------------------------------------------------------------------------
(* The lists *)

\* Every task is linked at most once on one list.
Injective(s) == \A i, j \in 1 .. Len(s) : s[i] = s[j] => i = j

\* Unlink (list_del on one list) removes p and nothing else.
LEMMA UnlinkProperties ==
    ASSUME NEW s \in Seq(Task), Injective(s), NEW p \in Task
    PROVE  /\ Unlink(s, p) \in Seq(Task)
           /\ Injective(Unlink(s, p))
           /\ \A t \in Task : Linked(t, Unlink(s, p)) <=> (Linked(t, s) /\ t # p)
<1>1. CASE ~ \E i \in 1 .. Len(s) : s[i] = p
  BY <1>1, Zenon DEF Unlink, Linked
<1>2. CASE \E i \in 1 .. Len(s) : s[i] = p
  <2> DEFINE at == CHOOSE i \in 1 .. Len(s) : s[i] = p
             u == [j \in 1 .. Len(s) - 1 |-> IF j < at THEN s[j] ELSE s[j + 1]]
  <2>1. at \in 1 .. Len(s) /\ s[at] = p
    BY <1>2, Zenon
  <2>2. Unlink(s, p) = u
    BY <1>2, Zenon DEF Unlink
  <2> HIDE DEF at
  <2>3. Len(s) \in Nat /\ \A i \in 1 .. Len(s) : s[i] \in Task
    OBVIOUS
  <2>4. u \in Seq(Task) /\ Len(u) = Len(s) - 1
    <3>1. Len(s) - 1 \in Nat
      BY <2>1, <2>3
    <3>2. \A j \in 1 .. Len(s) - 1 : u[j] \in Task
      BY <2>1, <2>3
    <3> QED BY <3>1, <3>2
  <2>5. Injective(u)
    <3> SUFFICES ASSUME NEW i \in 1 .. Len(u), NEW j \in 1 .. Len(u), u[i] = u[j]
                 PROVE  i = j
      BY Zenon DEF Injective
    <3>1. i \in 1 .. Len(s) - 1 /\ j \in 1 .. Len(s) - 1
      BY <2>4, Zenon
    <3> DEFINE f(k) == IF k < at THEN k ELSE k + 1
    <3>2. f(i) \in 1 .. Len(s) /\ f(j) \in 1 .. Len(s)
      BY <3>1, <2>1, <2>3
    <3>3. u[i] = s[f(i)] /\ u[j] = s[f(j)]
      BY <3>1, Zenon
    <3>4. f(i) = f(j)
      BY <3>2, <3>3, Zenon DEF Injective
    <3> QED BY <3>1, <3>4, <2>1, <2>3
  <2>6. ASSUME NEW t \in Task PROVE Linked(t, u) <=> (Linked(t, s) /\ t # p)
    <3>1. ASSUME NEW i \in 1 .. Len(u), u[i] = t PROVE Linked(t, s) /\ t # p
      <4> DEFINE k == IF i < at THEN i ELSE i + 1
      <4>1. k \in 1 .. Len(s) /\ k # at
        BY <3>1, <2>1, <2>3, <2>4
      <4>2. s[k] = t
        BY <3>1, <2>4, Zenon
      <4>3. t # p
        BY <4>1, <4>2, <2>1, Zenon DEF Injective
      <4> HIDE DEF k
      <4> QED BY <4>1, <4>2, <4>3, Zenon DEF Linked
    <3>2. ASSUME NEW i \in 1 .. Len(s), s[i] = t, t # p PROVE Linked(t, u)
      <4> DEFINE k == IF i < at THEN i ELSE i - 1
      <4>1. i # at
        BY <3>2, <2>1, Zenon
      <4>2. k \in 1 .. Len(s) - 1
        BY <4>1, <2>1, <2>3
      <4>3. u[k] = t
        BY <4>1, <4>2, <3>2, <2>1
      <4> HIDE DEF k, u
      <4> QED BY <4>2, <4>3, <2>4, Zenon DEF Linked
    <3> QED BY <3>1, <3>2, Zenon DEF Linked
  <2> QED BY <2>2, <2>4, <2>5, <2>6, Zenon
<1> QED BY <1>1, <1>2, Zenon

\* QueuesCoherent for an arbitrary task table and arbitrary lists.
Coherent(tk, q) ==
    /\ \A x \in QueueIndex : Injective(q[x])
    /\ \A x \in QueueIndex, p \in Task :
          Linked(p, q[x]) <=> /\ tk[p].on_rq
                             /\ tk[p].cls = "ts"
                             /\ prioQueue(tk[p].prio) = x

LEMMA CoherentIsQueuesCoherent == QueuesCoherent <=> Coherent(task, queue)
BY DEF QueuesCoherent, Coherent, Injective, TsQueued

\* A task_struct on which the class operations are safe.
Sane(t) ==
    /\ t \in TaskStruct
    /\ t.cls \in {"rt", "ts", "fair"}
    /\ (t.cls = "rt") <=> (t.prio < MAX_RT_PRIO)
    /\ t.cls = "ts" => t.policy = "TS"
    /\ t.normal_prio = normal_prio(t)
    /\ (t.policy = "FIFO") <=> (t.rt_priority # 0)
    /\ t.slice \in Slice

LEMMA SaneIndex ==
    ASSUME NEW t, Sane(t), t.cls = "ts"
    PROVE  t.prio \in TsPrio /\ prioQueue(t.prio) \in QueueIndex
BY DEF Sane, TaskStruct, Prio, TsPrio, MAX_RT_PRIO, prioQueue, QueueIndex

\* Appending a task that is linked nowhere keeps a list free of duplicates.
LEMMA AppendProperties ==
    ASSUME NEW s \in Seq(Task), Injective(s), NEW p \in Task, ~Linked(p, s)
    PROVE  /\ Append(s, p) \in Seq(Task)
           /\ Injective(Append(s, p))
           /\ \A t \in Task : Linked(t, Append(s, p)) <=> (Linked(t, s) \/ t = p)
<1>1. /\ Len(s) \in Nat
      /\ Append(s, p) \in Seq(Task)
      /\ Len(Append(s, p)) = Len(s) + 1
      /\ \A i \in 1 .. Len(s) : Append(s, p)[i] = s[i]
      /\ Append(s, p)[Len(s) + 1] = p
  OBVIOUS
<1>2. \A i \in 1 .. Len(s) : s[i] # p
  BY Zenon DEF Linked
<1>3. Injective(Append(s, p))
  <2> SUFFICES ASSUME NEW i \in 1 .. Len(s) + 1, NEW j \in 1 .. Len(s) + 1,
                      Append(s, p)[i] = Append(s, p)[j]
               PROVE  i = j
    BY <1>1, Zenon DEF Injective
  <2>1. CASE i \in 1 .. Len(s) /\ j \in 1 .. Len(s)
    BY <2>1, <1>1, Zenon DEF Injective
  <2>2. CASE i = Len(s) + 1 \/ j = Len(s) + 1
    BY <2>2, <1>1, <1>2
  <2> QED BY <2>1, <2>2, <1>1
<1>4. ASSUME NEW t \in Task PROVE Linked(t, Append(s, p)) <=> (Linked(t, s) \/ t = p)
  <2>1. ASSUME NEW i \in 1 .. Len(s) + 1, Append(s, p)[i] = t
        PROVE  Linked(t, s) \/ t = p
    BY <2>1, <1>1 DEF Linked
  <2>2. ASSUME NEW i \in 1 .. Len(s), s[i] = t PROVE Linked(t, Append(s, p))
    <3>1. i \in 1 .. Len(Append(s, p)) /\ Append(s, p)[i] = t
      BY <2>2, <1>1
    <3> QED BY <3>1, Zenon DEF Linked
  <2>3. Linked(p, Append(s, p))
    <3>1. Len(s) + 1 \in 1 .. Len(Append(s, p))
      BY <1>1
    <3> QED BY <3>1, <1>1, Zenon DEF Linked
  <2> QED BY <2>1, <2>2, <2>3, <1>1, Zenon DEF Linked
<1> QED BY <1>1, <1>3, <1>4, Zenon

\* dequeue_task of a queued task leaves coherent lists that do not link it.
LEMMA DequeueCoherent ==
    ASSUME NEW tk \in [Thread -> TaskStruct], NEW q \in [QueueIndex -> Seq(Task)],
           Coherent(tk, q), NEW p \in Task, tk[p].on_rq,
           NEW new \in TaskStruct, ~new.on_rq
    PROVE  /\ dequeue_task(q, p, tk[p]) \in [QueueIndex -> Seq(Task)]
           /\ Coherent([tk EXCEPT ![p] = new], dequeue_task(q, p, tk[p]))
<1> DEFINE tk2 == [tk EXCEPT ![p] = new]
<1>0. /\ tk2[p] = new
      /\ \A t \in Task : t # p => tk2[t] = tk[t]
  BY Zenon DEF Thread
<1> HIDE DEF tk2
<1>1. CASE tk[p].cls = "ts"
  <2> DEFINE d == list_del(q, p)
  <2>1. dequeue_task(q, p, tk[p]) = d
    BY <1>1, Zenon DEF dequeue_task
  <2>2. \A x \in QueueIndex : d[x] = Unlink(q[x], p)
    BY Zenon DEF list_del
  <2>3. ASSUME NEW x \in QueueIndex
        PROVE  /\ d[x] \in Seq(Task)
               /\ Injective(d[x])
               /\ \A t \in Task : Linked(t, d[x]) <=> (Linked(t, q[x]) /\ t # p)
    <3>1. q[x] \in Seq(Task) /\ Injective(q[x])
      BY Zenon DEF Coherent
    <3>2. d[x] = Unlink(q[x], p)
      BY <2>2, Zenon
    <3> HIDE DEF d
    <3> QED BY <3>1, <3>2, UnlinkProperties
  <2>4. d \in [QueueIndex -> Seq(Task)]
    BY <2>2, <2>3, Zenon DEF list_del
  <2> HIDE DEF d
  <2>5. Coherent(tk2, d)
    BY <2>3, <1>0 DEF Coherent
  <2> QED BY <2>1, <2>4, <2>5, Zenon DEF tk2
<1>2. CASE tk[p].cls # "ts"
  <2>1. dequeue_task(q, p, tk[p]) = q
    BY <1>2, Zenon DEF dequeue_task
  <2>2. Coherent(tk2, q)
    BY <1>0, <1>2 DEF Coherent
  <2> QED BY <2>1, <2>2, Zenon DEF tk2
<1> QED BY <1>1, <1>2, Zenon

\* enqueue_task of a task that is not queued keeps the lists coherent.
LEMMA EnqueueCoherent ==
    ASSUME NEW tk \in [Thread -> TaskStruct], NEW q \in [QueueIndex -> Seq(Task)],
           Coherent(tk, q), NEW p \in Task, ~tk[p].on_rq,
           NEW new, Sane(new), new.on_rq
    PROVE  /\ enqueue_task(q, p, new) \in [QueueIndex -> Seq(Task)]
           /\ Coherent([tk EXCEPT ![p] = new], enqueue_task(q, p, new))
<1> DEFINE tk2 == [tk EXCEPT ![p] = new]
<1>0. /\ tk2[p] = new
      /\ \A t \in Task : t # p => tk2[t] = tk[t]
  BY Zenon DEF Thread
<1> HIDE DEF tk2
<1>1. CASE new.cls = "ts"
  <2> DEFINE k == prioQueue(new.prio)
             e == [q EXCEPT ![k] = Append(@, p)]
  <2>1. enqueue_task(q, p, new) = e
    BY <1>1, Zenon DEF enqueue_task, list_add_tail
  <2>2. k \in QueueIndex
    BY <1>1, SaneIndex, Zenon
  <2> HIDE DEF k
  <2>3. \A x \in QueueIndex : ~Linked(p, q[x])
    BY Zenon DEF Coherent
  <2>4. /\ e[k] = Append(q[k], p)
        /\ \A x \in QueueIndex : x # k => e[x] = q[x]
    BY <2>2, Zenon
  <2>5. /\ e[k] \in Seq(Task)
        /\ Injective(e[k])
        /\ \A t \in Task : Linked(t, e[k]) <=> (Linked(t, q[k]) \/ t = p)
    BY <2>2, <2>3, <2>4, AppendProperties DEF Coherent
  <2>6. e \in [QueueIndex -> Seq(Task)]
    BY <2>2
  <2> HIDE DEF e
  <2>7. \A x \in QueueIndex : Injective(e[x])
    BY <2>4, <2>5, Zenon DEF Coherent
  <2>8. ASSUME NEW x \in QueueIndex, NEW t \in Task
        PROVE  Linked(t, e[x]) <=> /\ tk2[t].on_rq
                                   /\ tk2[t].cls = "ts"
                                   /\ prioQueue(tk2[t].prio) = x
    <3>1. CASE t = p
      <4>1. Linked(p, e[x]) <=> x = k
        BY <2>2, <2>3, <2>4, <2>5, Zenon
      <4>2. tk2[p].on_rq /\ tk2[p].cls = "ts" /\ prioQueue(tk2[p].prio) = k
        BY <1>0, <1>1, Zenon DEF k
      <4> QED BY <3>1, <4>1, <4>2, Zenon
    <3>2. CASE t # p
      <4>1. Linked(t, e[x]) <=> Linked(t, q[x])
        BY <3>2, <2>4, <2>5, Zenon
      <4> QED BY <4>1, <3>2, <1>0 DEF Coherent
    <3> QED BY <3>1, <3>2, Zenon
  <2> QED BY <2>1, <2>6, <2>7, <2>8, Zenon DEF Coherent, tk2
<1>2. CASE new.cls # "ts"
  <2>1. enqueue_task(q, p, new) = q
    BY <1>2, Zenon DEF enqueue_task
  <2>2. Coherent(tk2, q)
    BY <1>0, <1>2 DEF Coherent
  <2> QED BY <2>1, <2>2, Zenon DEF tk2
<1> QED BY <1>1, <1>2, Zenon

\* The sequence dequeue_task - change the task - enqueue_task.
LEMMA RequeueCoherent ==
    ASSUME NEW tk \in [Thread -> TaskStruct], NEW q \in [QueueIndex -> Seq(Task)],
           Coherent(tk, q), NEW p \in Task, tk[p].on_rq,
           NEW new, Sane(new), new.on_rq
    PROVE  LET r == enqueue_task(dequeue_task(q, p, tk[p]), p, new)
           IN  r \in [QueueIndex -> Seq(Task)] /\ Coherent([tk EXCEPT ![p] = new], r)
<1> DEFINE mid == [tk[p] EXCEPT !.on_rq = FALSE]
           tk2 == [tk EXCEPT ![p] = mid]
           d == dequeue_task(q, p, tk[p])
<1>0. tk[p] \in TaskStruct
  BY Zenon DEF Thread
<1>1. mid \in TaskStruct /\ ~mid.on_rq
  BY <1>0, Zenon DEF TaskStruct
<1> HIDE DEF mid
<1>2. d \in [QueueIndex -> Seq(Task)] /\ Coherent(tk2, d)
  BY <1>1, DequeueCoherent, Zenon
<1>3. /\ tk2 \in [Thread -> TaskStruct] /\ tk2[p] = mid
      /\ [tk2 EXCEPT ![p] = new] = [tk EXCEPT ![p] = new]
  BY <1>1, Zenon DEF Thread
<1> HIDE DEF tk2, d
<1>4. /\ enqueue_task(d, p, new) \in [QueueIndex -> Seq(Task)]
      /\ Coherent([tk2 EXCEPT ![p] = new], enqueue_task(d, p, new))
  BY <1>1, <1>2, <1>3, EnqueueCoherent, Zenon
<1> QED BY <1>3, <1>4, Zenon DEF d

\* A change of fields the lists do not depend on.
LEMMA UnmovedCoherent ==
    ASSUME NEW tk \in [Thread -> TaskStruct], NEW q \in [QueueIndex -> Seq(Task)],
           Coherent(tk, q), NEW p \in Task, NEW new \in TaskStruct,
           \/ new.on_rq = tk[p].on_rq /\ new.cls = tk[p].cls /\ new.prio = tk[p].prio
           \/ ~new.on_rq /\ ~tk[p].on_rq
    PROVE  Coherent([tk EXCEPT ![p] = new], q)
<1> DEFINE tk2 == [tk EXCEPT ![p] = new]
<1>1. tk2[p] = new /\ \A t \in Task : t # p => tk2[t] = tk[t]
  BY Zenon DEF Thread
<1> HIDE DEF tk2
<1>2. Coherent(tk2, q)
  BY <1>1 DEF Coherent
<1> QED BY <1>2, Zenon DEF tk2
-----------------------------------------------------------------------------
(* The task_struct each operation leaves behind *)

\* Fields replaced by values of their types.
LEMMA SetParams ==
    ASSUME NEW t \in TaskStruct, NEW pol \in Policy,
           NEW rtp \in 0 .. 99, NEW st \in TsPrio
    PROVE  [t EXCEPT !.policy = pol, !.rt_priority = rtp, !.static_prio = st] \in TaskStruct
BY DEF TaskStruct

LEMMA SetReset ==
    ASSUME NEW t \in TaskStruct, NEW pol \in Policy,
           NEW rtp \in 0 .. 99, NEW st \in TsPrio, st \in Prio
    PROVE  [t EXCEPT !.policy = pol, !.static_prio = st, !.rt_priority = rtp,
                     !.normal_prio = st, !.prio = st, !.reset = FALSE] \in TaskStruct
BY DEF TaskStruct

\* A task whose class is chosen by its priority and policy is sane.
LEMMA SetClassSane ==
    ASSUME NEW t \in TaskStruct, t.slice \in Slice,
           t.normal_prio = normal_prio(t),
           (t.policy = "FIFO") <=> (t.rt_priority # 0),
           NEW new, new = [t EXCEPT !.cls = PrioClass(t)]
    PROVE  Sane(new) /\ new.state = t.state /\ new.on_rq = t.on_rq
<1> DEFINE c == PrioClass(t)
<1>1. /\ c \in {"rt", "ts", "fair"} /\ c \in Class
      /\ c = "rt" <=> t.prio < MAX_RT_PRIO
      /\ c = "ts" => t.policy = "TS"
  BY Zenon DEF PrioClass, Class, TaskStruct, Prio, MAX_RT_PRIO
<1>0. new = [t EXCEPT !.cls = c]
  OBVIOUS
<1> HIDE DEF c
<1>2. new \in TaskStruct
  BY <1>1, <1>0, Zenon DEF TaskStruct
<1>3. /\ new.cls = c /\ new.prio = t.prio /\ new.policy = t.policy
      /\ new.static_prio = t.static_prio /\ new.normal_prio = t.normal_prio
      /\ new.rt_priority = t.rt_priority /\ new.slice = t.slice
      /\ new.state = t.state /\ new.on_rq = t.on_rq
  BY <1>0, Zenon DEF TaskStruct
<1> QED BY <1>1, <1>2, <1>3, Zenon DEF Sane, normal_prio

\* sched_fork: the child of a sane parent is sane, new and off the run queue.
LEMMA ChildSane ==
    ASSUME NEW t, Sane(t)
    PROVE  Sane(Child(t)) /\ Child(t).state = "new" /\ ~Child(t).on_rq
<1>1. ForkSlice(t) \in Slice
  BY SliceRange, Zenon DEF ForkSlice, Sane
<1>2. \A n \in Slice : n \in UInt
  BY SliceUnitAssumption, UIntAssumption DEF MaxSlice, Slice, UInt
<1> DEFINE copy == [t EXCEPT !.on_rq = FALSE, !.slice = ForkSlice(t), !.state = "new",
                             !.prio = t.normal_prio, !.donor = NoDonor]
<1>3. /\ copy \in TaskStruct
      /\ copy.on_rq = FALSE /\ copy.state = "new" /\ copy.slice \in Slice
      /\ copy.prio = copy.normal_prio /\ copy.normal_prio = normal_prio(copy)
      /\ (copy.policy = "FIFO") <=> (copy.rt_priority # 0)
  <2>1. /\ copy.policy = t.policy /\ copy.static_prio = t.static_prio
        /\ copy.normal_prio = t.normal_prio /\ copy.rt_priority = t.rt_priority
        /\ copy.on_rq = FALSE /\ copy.state = "new" /\ copy.slice = ForkSlice(t)
        /\ copy.prio = t.normal_prio
    BY Zenon DEF Sane, TaskStruct
  <2>2. copy \in TaskStruct
    <3>1. ForkSlice(t) \in UInt /\ "new" \in State /\ NoDonor \in Prio \cup {NoDonor}
      BY <1>1, <1>2, Zenon DEF State
    <3> QED BY <3>1, Zenon DEF Sane, TaskStruct
  <2> HIDE DEF copy
  <2>3. copy.normal_prio = normal_prio(copy)
    BY <2>1, Zenon DEF Sane, normal_prio
  <2> QED BY <2>1, <2>2, <2>3, <1>1, Zenon DEF Sane
<1> HIDE DEF copy
<1> DEFINE new == IF t.reset THEN ResetOnFork(copy) ELSE copy
<1>4. /\ new \in TaskStruct
      /\ new.on_rq = FALSE /\ new.state = "new" /\ new.slice \in Slice
      /\ new.prio = new.normal_prio /\ new.normal_prio = normal_prio(new)
      /\ (new.policy = "FIFO") <=> (new.rt_priority # 0)
  <2>1. CASE t.reset
    <3> DEFINE static == IF copy.policy = "FIFO" \/ copy.static_prio < 120
                         THEN 120 ELSE copy.static_prio
               r == ResetOnFork(copy)
    <3>1. static \in TsPrio /\ static \in Prio
      BY <1>3 DEF TaskStruct, TsPrio, Prio
    <3>2. /\ r.policy = (IF copy.policy = "FIFO" THEN "NORMAL" ELSE copy.policy)
          /\ r.static_prio = static /\ r.normal_prio = static /\ r.prio = static
          /\ r.rt_priority = (IF copy.policy = "FIFO" THEN 0 ELSE copy.rt_priority)
          /\ r.on_rq = copy.on_rq /\ r.state = copy.state /\ r.slice = copy.slice
      BY <1>3 DEF ResetOnFork, TaskStruct
    <3>3. r \in TaskStruct
      <4> DEFINE pol == IF copy.policy = "FIFO" THEN "NORMAL" ELSE copy.policy
                 rtp == IF copy.policy = "FIFO" THEN 0 ELSE copy.rt_priority
      <4>1. pol \in Policy /\ rtp \in 0 .. 99
        BY <1>3 DEF TaskStruct, Policy
      <4>2. r = [copy EXCEPT !.policy = pol, !.static_prio = static,
                             !.rt_priority = rtp, !.normal_prio = static,
                             !.prio = static, !.reset = FALSE]
        BY <1>3, Zenon DEF ResetOnFork, TaskStruct
      <4> HIDE DEF pol, rtp, static, r
      <4> QED BY <1>3, <3>1, <4>1, <4>2, SetReset, Zenon
    <3> HIDE DEF r, static
    <3>4. r.policy # "FIFO" /\ r.rt_priority = 0 /\ r.normal_prio = normal_prio(r)
      BY <3>2, <1>3, Zenon DEF normal_prio, TaskStruct
    <3>5. new = r
      BY <2>1, Zenon DEF r
    <3> QED BY <3>2, <3>3, <3>4, <3>5, <1>3, Zenon
  <2>2. CASE ~t.reset
    BY <2>2, <1>3, Zenon
  <2> QED BY <2>1, <2>2, Zenon
<1> HIDE DEF new
<1>5. Child(t) = [new EXCEPT !.cls = PrioClass(new)]
  BY Zenon DEF Child, new, copy
<1>6. Sane(Child(t)) /\ Child(t).state = "new" /\ ~Child(t).on_rq
  BY <1>4, <1>5, SetClassSane, Zenon
<1> QED BY <1>6, Zenon

\* __setscheduler: parameters the syscall accepts leave a sane task.
LEMMA SetSchedulerSane ==
    ASSUME NEW t, Sane(t), NEW policy \in Policy,
           NEW rtprio \in 0 .. 99, (policy = "FIFO") <=> (rtprio # 0),
           NEW static \in TsPrio
    PROVE  /\ Sane(SetScheduler(t, policy, rtprio, static))
           /\ SetScheduler(t, policy, rtprio, static).state = t.state
           /\ SetScheduler(t, policy, rtprio, static).on_rq = t.on_rq
<1> DEFINE params == [t EXCEPT !.policy = policy, !.rt_priority = rtprio,
                               !.static_prio = IF policy = "NORMAL" THEN static ELSE @]
           base == [params EXCEPT !.normal_prio = normal_prio(params)]
           new  == [base EXCEPT !.prio = rt_effective_prio(base, normal_prio(base))]
<1>1. /\ base \in TaskStruct /\ base.normal_prio = normal_prio(base)
      /\ base.state = t.state /\ base.on_rq = t.on_rq /\ base.slice = t.slice
      /\ (base.policy = "FIFO") <=> (base.rt_priority # 0)
  <2> DEFINE st == IF policy = "NORMAL" THEN static ELSE t.static_prio
  <2>1. params \in TaskStruct
    <3>1. t \in TaskStruct
      BY Zenon DEF Sane
    <3>2. st \in TsPrio
      BY <3>1, Zenon DEF TaskStruct
    <3>3. params = [t EXCEPT !.policy = policy, !.rt_priority = rtprio, !.static_prio = st]
      BY <3>1, Zenon DEF TaskStruct
    <3> HIDE DEF st, params
    <3> QED BY <3>1, <3>2, <3>3, SetParams, Zenon
  <2>2. /\ params.state = t.state /\ params.on_rq = t.on_rq /\ params.slice = t.slice
        /\ params.policy = policy /\ params.rt_priority = rtprio
    BY Zenon DEF Sane, TaskStruct
  <2> HIDE DEF params
  <2>3. normal_prio(params) \in Prio
    BY <2>1, <2>2 DEF normal_prio, TaskStruct, MAX_RT_PRIO, TsPrio, Prio
  <2>4. /\ base \in TaskStruct
        /\ base.policy = params.policy /\ base.rt_priority = params.rt_priority
        /\ base.static_prio = params.static_prio
        /\ base.normal_prio = normal_prio(params)
        /\ base.state = t.state /\ base.on_rq = t.on_rq /\ base.slice = t.slice
    BY <2>1, <2>2, <2>3, Zenon DEF TaskStruct
  <2> QED BY <2>2, <2>4, Zenon DEF normal_prio
<1> HIDE DEF base
<1>2. rt_effective_prio(base, normal_prio(base)) \in Prio
  <2>1. base.donor \in Prio \/ base.donor = 140
    BY <1>1, Zenon DEF TaskStruct, NoDonor
  <2>2. normal_prio(base) \in Prio
    BY <1>1, Zenon DEF TaskStruct
  <2> QED BY <2>1, <2>2 DEF rt_effective_prio, Prio
<1>3. /\ new \in TaskStruct /\ new.normal_prio = normal_prio(new)
      /\ new.state = t.state /\ new.on_rq = t.on_rq /\ new.slice = t.slice
      /\ (new.policy = "FIFO") <=> (new.rt_priority # 0)
  BY <1>1, <1>2, Zenon DEF TaskStruct, normal_prio
<1> HIDE DEF new
<1> DEFINE res == SetScheduler(t, policy, rtprio, static)
<1>4. res = [new EXCEPT !.cls = PrioClass(new)]
  BY Zenon DEF SetScheduler, new, base
<1> HIDE DEF res
<1>5. new.slice \in Slice
  BY <1>3, Zenon DEF Sane
<1>6. Sane(res) /\ res.state = new.state /\ res.on_rq = new.on_rq
  BY <1>3, <1>4, <1>5, SetClassSane, Zenon
<1> QED BY <1>3, <1>6, Zenon DEF res

\* set_user_nice on a task of a non-real-time policy, boosted or not.
LEMMA NiceSane ==
    ASSUME NEW t, Sane(t), t.policy # "FIFO", NEW static \in TsPrio,
           NEW mid, mid = [t EXCEPT !.static_prio = static],
           NEW new, new = [mid EXCEPT !.normal_prio = normal_prio(mid),
                                      !.prio = effective_prio(mid)]
    PROVE  Sane(new) /\ new.state = t.state /\ new.on_rq = t.on_rq
<1>1. /\ mid \in TaskStruct /\ mid.static_prio = static /\ mid.prio = t.prio
      /\ mid.policy = t.policy /\ mid.cls = t.cls /\ mid.rt_priority = t.rt_priority
      /\ mid.state = t.state /\ mid.on_rq = t.on_rq /\ mid.slice = t.slice
  BY Zenon DEF Sane, TaskStruct
<1>2. normal_prio(mid) = static
  BY <1>1, Zenon DEF normal_prio
<1>3. effective_prio(mid) \in Prio
      /\ (effective_prio(mid) < MAX_RT_PRIO <=> t.prio < MAX_RT_PRIO)
  BY <1>1, <1>2 DEF effective_prio, TsPrio, TaskStruct, MAX_RT_PRIO, Prio
<1>4. /\ new \in TaskStruct /\ new.static_prio = static /\ new.prio = effective_prio(mid)
      /\ new.normal_prio = static
      /\ new.policy = t.policy /\ new.cls = t.cls /\ new.rt_priority = t.rt_priority
      /\ new.state = t.state /\ new.on_rq = t.on_rq /\ new.slice = t.slice
  <2> DEFINE e == effective_prio(mid)
  <2>1. new = [mid EXCEPT !.normal_prio = static, !.prio = e]
    BY <1>2, Zenon
  <2>2. static \in Prio /\ e \in Prio
    BY <1>3 DEF TsPrio, Prio
  <2> HIDE DEF e
  <2>3. new \in TaskStruct
    BY <2>1, <2>2, <1>1, Zenon DEF TaskStruct
  <2>4. /\ new.static_prio = mid.static_prio /\ new.prio = e /\ new.normal_prio = static
        /\ new.policy = mid.policy /\ new.cls = mid.cls
        /\ new.rt_priority = mid.rt_priority
        /\ new.state = mid.state /\ new.on_rq = mid.on_rq /\ new.slice = mid.slice
    BY <2>1, <1>1, Zenon DEF TaskStruct
  <2> QED BY <2>3, <2>4, <1>1, Zenon DEF e
<1> QED BY <1>3, <1>4, Zenon DEF Sane, normal_prio

\* set_user_nice on a SCHED_FIFO task only stores the static priority.
LEMMA NiceFifoSane ==
    ASSUME NEW t, Sane(t), t.policy = "FIFO", NEW static \in TsPrio,
           NEW mid, mid = [t EXCEPT !.static_prio = static]
    PROVE  Sane(mid) /\ mid.state = t.state /\ mid.on_rq = t.on_rq
BY DEF Sane, TaskStruct, normal_prio

\* rt_mutex_setprio with donor priority d.
Boost(t, prio) == [t EXCEPT !.prio = prio,
                            !.cls = IF prio < MAX_RT_PRIO THEN "rt" ELSE "fair"]
SetDonor(t, d) == [t EXCEPT !.donor = d]

LEMMA SetprioSane ==
    ASSUME NEW t, Sane(t), NEW d \in DonorPrios \cup {NoDonor},
           NEW old, old = SetDonor(t, d),
           NEW prio, prio = rt_effective_prio(old, old.normal_prio),
           NEW new, new = Boost(old, prio)
    PROVE  /\ Sane(old) /\ old.state = t.state /\ old.on_rq = t.on_rq
           /\ old.prio = t.prio /\ old.cls = t.cls
           /\ Sane(new) /\ new.state = t.state /\ new.on_rq = t.on_rq
<1>1. Sane(old) /\ old.state = t.state /\ old.on_rq = t.on_rq /\ old.donor = d
      /\ old.prio = t.prio /\ old.cls = t.cls
  <2>1. d \in Prio \cup {NoDonor}
    BY InputAssumption, Zenon DEF Prio
  <2>2. t \in TaskStruct
    BY Zenon DEF Sane
  <2>3. old \in TaskStruct
    BY <2>1, <2>2, Zenon DEF TaskStruct, SetDonor
  <2>4. /\ old.prio = t.prio /\ old.cls = t.cls /\ old.policy = t.policy
        /\ old.static_prio = t.static_prio /\ old.normal_prio = t.normal_prio
        /\ old.rt_priority = t.rt_priority /\ old.slice = t.slice
        /\ old.state = t.state /\ old.on_rq = t.on_rq /\ old.donor = d
    BY <2>2, Zenon DEF TaskStruct, SetDonor
  <2> QED BY <2>3, <2>4, Zenon DEF Sane, normal_prio
<1>2. prio \in Prio
  BY <1>1, InputAssumption DEF Sane, TaskStruct, rt_effective_prio, NoDonor, Prio
<1>3. Sane(new) /\ new.state = t.state /\ new.on_rq = t.on_rq
  <2> DEFINE c == IF prio < MAX_RT_PRIO THEN "rt" ELSE "fair"
  <2>1. c \in {"rt", "fair"} /\ c \in Class /\ (c = "rt" <=> prio < MAX_RT_PRIO)
    BY <1>2, Zenon DEF MAX_RT_PRIO, Class
  <2>2. new = [old EXCEPT !.prio = prio, !.cls = c]
    BY Zenon DEF Boost
  <2> HIDE DEF c
  <2>3. old \in TaskStruct
    BY <1>1, Zenon DEF Sane
  <2>4. /\ new.prio = prio /\ new.cls = c /\ new.policy = old.policy
        /\ new.static_prio = old.static_prio /\ new.normal_prio = old.normal_prio
        /\ new.rt_priority = old.rt_priority /\ new.slice = old.slice
        /\ new.state = old.state /\ new.on_rq = old.on_rq
    BY <2>2, <2>3, Zenon DEF TaskStruct
  <2>5. new \in TaskStruct
    BY <1>2, <2>1, <2>2, <2>3, Zenon DEF TaskStruct
  <2> QED BY <2>1, <2>4, <2>5, <1>1 DEF Sane, normal_prio
<1> QED BY <1>1, <1>3, Zenon

\* Sanity depends neither on the state nor on on_rq.
LEMMA SameFieldsSane ==
    ASSUME NEW t, Sane(t), NEW new \in TaskStruct,
           new.prio = t.prio, new.cls = t.cls, new.policy = t.policy,
           new.static_prio = t.static_prio, new.normal_prio = t.normal_prio,
           new.rt_priority = t.rt_priority, new.slice = t.slice
    PROVE  Sane(new)
BY DEF Sane, normal_prio

\* The updates the actions make, as operators.
SetState(t, s) == [t EXCEPT !.state = s]
Activate(t, s) == [t EXCEPT !.state = s, !.on_rq = TRUE]
Deactivate(t) == [t EXCEPT !.on_rq = FALSE]
SetPrioSlice(t, prio, slice) == [t EXCEPT !.prio = prio, !.slice = slice]

LEMMA SetStateSane ==
    ASSUME NEW t, Sane(t), NEW s \in State
    PROVE  /\ Sane(SetState(t, s)) /\ SetState(t, s).state = s
           /\ SetState(t, s).on_rq = t.on_rq
           /\ SetState(t, s).cls = t.cls /\ SetState(t, s).prio = t.prio
<1> DEFINE new == SetState(t, s)
<1>1. new \in TaskStruct
  BY Zenon DEF Sane, TaskStruct, SetState
<1>2. /\ new.prio = t.prio /\ new.cls = t.cls /\ new.policy = t.policy
      /\ new.static_prio = t.static_prio /\ new.normal_prio = t.normal_prio
      /\ new.rt_priority = t.rt_priority /\ new.slice = t.slice
      /\ new.state = s /\ new.on_rq = t.on_rq
  BY Zenon DEF Sane, TaskStruct, SetState
<1> HIDE DEF new
<1>3. Sane(new)
  BY <1>1, <1>2, SameFieldsSane, Zenon
<1> QED BY <1>2, <1>3, Zenon DEF new

LEMMA ActivateSane ==
    ASSUME NEW t, Sane(t), NEW s \in State
    PROVE  /\ Sane(Activate(t, s)) /\ Activate(t, s).state = s /\ Activate(t, s).on_rq
           /\ Activate(t, s).cls = t.cls /\ Activate(t, s).prio = t.prio
<1> DEFINE new == Activate(t, s)
<1>1. new \in TaskStruct
  BY Zenon DEF Sane, TaskStruct, Activate
<1>2. /\ new.prio = t.prio /\ new.cls = t.cls /\ new.policy = t.policy
      /\ new.static_prio = t.static_prio /\ new.normal_prio = t.normal_prio
      /\ new.rt_priority = t.rt_priority /\ new.slice = t.slice
      /\ new.state = s /\ new.on_rq
  BY Zenon DEF Sane, TaskStruct, Activate
<1> HIDE DEF new
<1>3. Sane(new)
  BY <1>1, <1>2, SameFieldsSane, Zenon
<1> QED BY <1>2, <1>3, Zenon DEF new

LEMMA DeactivateSane ==
    ASSUME NEW t, Sane(t)
    PROVE  Sane(Deactivate(t)) /\ Deactivate(t).state = t.state /\ ~Deactivate(t).on_rq
<1> DEFINE new == Deactivate(t)
<1>1. new \in TaskStruct
  BY Zenon DEF Sane, TaskStruct, Deactivate
<1>2. /\ new.prio = t.prio /\ new.cls = t.cls /\ new.policy = t.policy
      /\ new.static_prio = t.static_prio /\ new.normal_prio = t.normal_prio
      /\ new.rt_priority = t.rt_priority /\ new.slice = t.slice
      /\ new.state = t.state /\ ~new.on_rq
  BY Zenon DEF Sane, TaskStruct, Deactivate
<1> HIDE DEF new
<1>3. Sane(new)
  BY <1>1, <1>2, SameFieldsSane, Zenon
<1> QED BY <1>2, <1>3, Zenon DEF new

\* A TS task with another priority of the class and another slice.
LEMMA SetPrioSliceSane ==
    ASSUME NEW t, Sane(t), t.cls = "ts", NEW prio \in TsPrio,
           NEW slice \in Slice
    PROVE  LET new == SetPrioSlice(t, prio, slice) IN
           /\ Sane(new) /\ new.state = t.state /\ new.on_rq = t.on_rq
           /\ new.cls = "ts" /\ new.prio = prio
<1> DEFINE new == SetPrioSlice(t, prio, slice)
<1>1. slice \in UInt /\ prio \in Prio /\ ~(prio < MAX_RT_PRIO)
  BY SliceUnitAssumption, UIntAssumption DEF MaxSlice, Slice, UInt, TsPrio, Prio, MAX_RT_PRIO
<1>2. new \in TaskStruct
  BY <1>1, Zenon DEF Sane, TaskStruct, SetPrioSlice
<1>3. /\ new.prio = prio /\ new.cls = t.cls /\ new.policy = t.policy
      /\ new.static_prio = t.static_prio /\ new.normal_prio = t.normal_prio
      /\ new.rt_priority = t.rt_priority /\ new.slice = slice
      /\ new.state = t.state /\ new.on_rq = t.on_rq
  BY Zenon DEF Sane, TaskStruct, SetPrioSlice
<1> HIDE DEF new
<1>4. Sane(new)
  BY <1>1, <1>2, <1>3, Zenon DEF Sane, normal_prio
<1> QED BY <1>3, <1>4, Zenon DEF new

\* The slot of a task that has been reaped.
LEMMA BootSane ==
    Sane(BootThread) /\ BootThread.state = "none" /\ ~BootThread.on_rq
<1>1. /\ prioTimeslice(120) \in Slice /\ prioTimeslice(120) \in UInt
  BY SliceUnitAssumption, UIntAssumption, SliceRange DEF MaxSlice, Slice, UInt, TsPrio
<1>2. /\ "NORMAL" \in Policy /\ "fair" \in Class /\ "none" \in State
      /\ 120 \in TsPrio /\ 120 \in Prio /\ 0 \in 0 .. 99 /\ ~(120 < MAX_RT_PRIO)
  BY DEF Policy, Class, State, TsPrio, Prio, MAX_RT_PRIO
<1>3. BootThread \in TaskStruct
  BY <1>1, <1>2, Zenon DEF BootThread, TaskStruct
<1>4. /\ BootThread.policy = "NORMAL" /\ BootThread.static_prio = 120
      /\ BootThread.normal_prio = 120 /\ BootThread.rt_priority = 0
      /\ BootThread.prio = 120 /\ BootThread.cls = "fair"
      /\ BootThread.slice = prioTimeslice(120)
      /\ BootThread.state = "none" /\ BootThread.on_rq = FALSE
  BY Zenon DEF BootThread
<1> QED BY <1>1, <1>2, <1>3, <1>4 DEF Sane, normal_prio

\* A changed SCHED_FLAG_RESET_ON_FORK.
SetFlag(t, reset) == [t EXCEPT !.reset = reset]

LEMMA SetFlagSane ==
    ASSUME NEW t, Sane(t), NEW reset \in BOOLEAN
    PROVE  LET new == SetFlag(t, reset) IN
           /\ Sane(new) /\ new.state = t.state /\ new.on_rq = t.on_rq
           /\ new.cls = t.cls /\ new.prio = t.prio
<1> DEFINE new == SetFlag(t, reset)
<1>1. new \in TaskStruct
  BY Zenon DEF Sane, TaskStruct, SetFlag
<1>2. /\ new.prio = t.prio /\ new.cls = t.cls /\ new.policy = t.policy
      /\ new.static_prio = t.static_prio /\ new.normal_prio = t.normal_prio
      /\ new.rt_priority = t.rt_priority /\ new.slice = t.slice
      /\ new.state = t.state /\ new.on_rq = t.on_rq
  BY Zenon DEF Sane, TaskStruct, SetFlag
<1> HIDE DEF new
<1>3. Sane(new)
  BY <1>1, <1>2, SameFieldsSane, Zenon
<1> QED BY <1>2, <1>3, Zenon DEF new

-----------------------------------------------------------------------------
(* The inductive invariant *)

\* The idle thread never leaves the run queue nor its class.
IdleReady ==
    task[Idle].cls = "idle" /\ task[Idle].state = "run" /\ task[Idle].on_rq

\* The inductive invariant: lists and task table agree, every task is sane,
\* and no runnable task is off the run queue.
IInv ==
    /\ TypeOK
    /\ \A p \in Task : Sane(task[p])
    /\ Coherent(task, queue)
    /\ NoLostTask
    /\ IdleReady
-----------------------------------------------------------------------------
\* The state of a task agrees with its place on or off the run queue.
Placed(p, t) == /\ t.state \in TASK_RUNNING => t.on_rq
                /\ t.state \in {"none", "new"} => ~t.on_rq
                /\ t.state = "dead" => p = curr
                /\ p = curr => t.on_rq

\* An action that replaces the task_struct of one task, with coherent lists.
LEMMA TaskStep ==
    ASSUME IInv, NEW p \in Task, NEW new, Sane(new), Placed(p, new),
           task' = [task EXCEPT ![p] = new],
           queue' \in [QueueIndex -> Seq(Task)], Coherent(task', queue'),
           nr_running' \in Int, need_resched' \in BOOLEAN, switched' \in SUBSET Task,
           curr' = curr
    PROVE  IInv'
<1>1. /\ p \in Thread /\ new \in TaskStruct /\ task \in [Thread -> TaskStruct]
      /\ p # Idle /\ Idle \in Thread /\ curr \in Thread
  BY TaskAssumption, Zenon DEF Thread, Sane, IInv, TypeOK
<1>2. /\ task' \in [Thread -> TaskStruct]
      /\ task'[p] = new
      /\ \A t \in Thread : t # p => task'[t] = task[t]
  BY <1>1, Zenon
<1>3. \A t \in Task : t \in Thread
  BY Zenon DEF Thread
<1>4. TypeOK'
  BY <1>1, <1>2, Zenon DEF TypeOK
<1>5. \A t \in Task : Sane(task'[t])
  BY <1>2, <1>3, Zenon DEF IInv
<1>6. NoLostTask'
  BY <1>1, <1>2, <1>3, Zenon DEF NoLostTask, Placed, IInv
<1>7. IdleReady'
  BY <1>1, <1>2, Zenon DEF IdleReady, IInv
<1> QED BY <1>4, <1>5, <1>6, <1>7, Zenon DEF IInv

\* Requeue keeps the invariant when the changed task is sane and keeps its state.
LEMMA RequeueStep ==
    ASSUME IInv, NEW p \in Task, NEW new, Sane(new),
           new.state = task[p].state, new.on_rq = task[p].on_rq,
           Requeue(p, new), need_resched' \in BOOLEAN, curr' = curr
    PROVE  IInv'
<1>1. /\ task \in [Thread -> TaskStruct] /\ queue \in [QueueIndex -> Seq(Task)]
      /\ Coherent(task, queue) /\ nr_running \in Int /\ switched \in SUBSET Task
      /\ p \in Thread /\ new \in TaskStruct
  BY Zenon DEF IInv, TypeOK, Thread, Sane
<1>2. Placed(p, new)
  BY <1>1, Zenon DEF Placed, IInv, NoLostTask
<1>3. task' = [task EXCEPT ![p] = new]
  BY Zenon DEF Requeue
<1>4. queue' \in [QueueIndex -> Seq(Task)] /\ Coherent(task', queue')
  <2>1. CASE task[p].on_rq
    <3>1. queue' = enqueue_task(dequeue_task(queue, p, task[p]), p, new)
      BY <2>1, Zenon DEF Requeue
    <3> QED BY <1>1, <1>3, <2>1, <3>1, RequeueCoherent, Zenon
  <2>2. CASE ~task[p].on_rq
    <3>1. queue' = queue
      BY <2>2, Zenon DEF Requeue
    <3> QED BY <1>1, <1>3, <2>2, <3>1, UnmovedCoherent, Zenon
  <2> QED BY <2>1, <2>2, Zenon
<1>5. nr_running' \in Int /\ switched' \in SUBSET Task
  BY <1>1 DEF Requeue, Counted
<1> QED BY <1>2, <1>3, <1>4, <1>5, TaskStep, Zenon

\* An action that changes fields of a task that its place does not depend on.
LEMMA UnmovedStep ==
    ASSUME IInv, NEW p \in Task, NEW new, Sane(new), Placed(p, new),
           \/ new.on_rq = task[p].on_rq /\ new.cls = task[p].cls /\ new.prio = task[p].prio
           \/ ~new.on_rq /\ ~task[p].on_rq,
           task' = [task EXCEPT ![p] = new], need_resched' \in BOOLEAN,
           UNCHANGED <<queue, nr_running, curr, switched>>
    PROVE  IInv'
<1>1. /\ task \in [Thread -> TaskStruct] /\ queue \in [QueueIndex -> Seq(Task)]
      /\ Coherent(task, queue) /\ nr_running \in Int /\ switched \in SUBSET Task
      /\ new \in TaskStruct
  BY Zenon DEF IInv, TypeOK, Sane
<1>2. Coherent(task', queue')
  BY <1>1, UnmovedCoherent, Zenon
<1> QED BY <1>1, <1>2, TaskStep, Zenon
-----------------------------------------------------------------------------
(* One lemma per entry point *)

LEMMA InitInv == Init => IInv
<1> SUFFICES ASSUME Init PROVE IInv
  OBVIOUS
<1>1. \A p \in Thread :
         task[p] = [BootThread EXCEPT !.cls = IF p = Idle THEN "idle" ELSE "fair",
                                      !.state = IF p \in {Idle, InitTask} THEN "run" ELSE "none",
                                      !.on_rq = p \in {Idle, InitTask}]
  BY Zenon DEF Init
<1>2. BootThread \in TaskStruct /\ BootThread.state = "none" /\ BootThread.cls = "fair"
  BY BootSane, Zenon DEF Sane, BootThread
<1>3. ASSUME NEW p \in Task
      PROVE  /\ Sane(task[p])
             /\ task[p].state = (IF p = InitTask THEN "run" ELSE "none")
             /\ task[p].on_rq = (p = InitTask)
             /\ task[p].cls = "fair"
  <2> DEFINE c == IF p = Idle THEN "idle" ELSE "fair"
             s == IF p \in {Idle, InitTask} THEN "run" ELSE "none"
             b == p \in {Idle, InitTask}
  <2>0. p # Idle /\ p \in Thread
    BY TaskAssumption, Zenon DEF Thread
  <2>1. /\ c = "fair" /\ c \in Class /\ s \in State /\ b \in BOOLEAN
        /\ s = (IF p = InitTask THEN "run" ELSE "none")
        /\ b = (p = InitTask)
    BY <2>0 DEF State, TASK_RUNNING, Class
  <2>2. task[p] = [BootThread EXCEPT !.cls = c, !.state = s, !.on_rq = b]
    BY <1>1, <2>0, Zenon
  <2> HIDE DEF c, s, b
  <2>3. task[p] \in TaskStruct
    BY <1>2, <2>1, <2>2, Zenon DEF TaskStruct
  <2>4. /\ task[p].policy = BootThread.policy
        /\ task[p].static_prio = BootThread.static_prio
        /\ task[p].normal_prio = BootThread.normal_prio
        /\ task[p].rt_priority = BootThread.rt_priority
        /\ task[p].prio = BootThread.prio /\ task[p].slice = BootThread.slice
        /\ task[p].cls = "fair"
        /\ task[p].state = (IF p = InitTask THEN "run" ELSE "none")
        /\ task[p].on_rq = (p = InitTask)
    BY <1>2, <2>1, <2>2, Zenon DEF TaskStruct
  <2> QED BY <1>2, <2>3, <2>4, BootSane, Zenon DEF Sane, normal_prio
<1>4. /\ Idle \in Thread /\ task[Idle] \in TaskStruct
      /\ task[Idle].cls = "idle" /\ task[Idle].state = "run" /\ task[Idle].on_rq
  <2>1. task[Idle] = [BootThread EXCEPT !.cls = "idle", !.state = "run", !.on_rq = TRUE]
    BY <1>1, Zenon DEF Thread
  <2>2. "idle" \in Class /\ "run" \in State
    BY Zenon DEF Class, State, TASK_RUNNING
  <2> QED BY <1>2, <2>1, <2>2, Zenon DEF TaskStruct, Thread
<1>5. TypeOK
  <2>1. \A p \in Thread : task[p] \in TaskStruct
    BY <1>3, <1>4, Zenon DEF Sane, Thread
  <2>2. task \in [Thread -> TaskStruct]
    BY <2>1, Zenon DEF Init
  <2>3. queue \in [QueueIndex -> Seq(Task)]
    <3>1. queue = init_ts_rq
      BY Zenon DEF Init
    <3>2. << >> \in Seq(Task)
      OBVIOUS
    <3> QED BY <3>1, <3>2, Zenon DEF init_ts_rq
  <2>4. nr_running = 1 /\ curr = Idle /\ need_resched = TRUE /\ switched = {}
    BY Zenon DEF Init
  <2> QED BY <2>2, <2>3, <2>4, <1>4 DEF TypeOK
<1>6. Coherent(task, queue)
  <2>1. ASSUME NEW x \in QueueIndex
        PROVE  Injective(queue[x]) /\ \A p \in Task : ~Linked(p, queue[x])
    <3>1. queue[x] = << >>
      BY Zenon DEF Init, init_ts_rq
    <3> QED BY <3>1 DEF Injective, Linked
  <2> QED BY <1>3, <2>1, Zenon DEF Coherent
<1>7. NoLostTask
  <2>1. curr = Idle
    BY Zenon DEF Init
  <2> QED BY <1>3, <1>4, <2>1, Zenon DEF NoLostTask, TASK_RUNNING
<1> QED BY <1>3, <1>4, <1>5, <1>6, <1>7, Zenon DEF IInv, IdleReady

LEMMA ForkStep ==
    ASSUME IInv, NEW p \in Task, sched_fork(p)
    PROVE  IInv'
<1> DEFINE new == Child(task[curr])
<1>1. curr \in Task /\ p # curr /\ task[p].state = "none"
  BY Zenon DEF sched_fork, IInv, TypeOK, Thread
<1>2. Sane(new) /\ new.state = "new" /\ ~new.on_rq
  BY <1>1, ChildSane, Zenon DEF IInv
<1> HIDE DEF new
<1>3. Placed(p, new) /\ ~task[p].on_rq
  BY <1>1, <1>2, Zenon DEF Placed, TASK_RUNNING, IInv, NoLostTask
<1>4. /\ task' = [task EXCEPT ![p] = new] /\ need_resched' \in BOOLEAN
      /\ UNCHANGED <<queue, nr_running, curr, switched>>
  BY Zenon DEF sched_fork, new, IInv, TypeOK
<1> QED BY <1>2, <1>3, <1>4, UnmovedStep, Zenon

LEMMA ReschedType == ASSUME TypeOK, NEW r \in BOOLEAN, resched(r) PROVE need_resched' \in BOOLEAN
BY DEF TypeOK, resched

LEMMA NewTaskStep ==
    ASSUME IInv, NEW p \in Task, wake_up_new_task(p)
    PROVE  IInv'
<1> DEFINE new == [task[p] EXCEPT !.state = "run", !.on_rq = TRUE]
<1>1. /\ Sane(task[p]) /\ task[p].state = "new" /\ ~task[p].on_rq
      /\ task \in [Thread -> TaskStruct] /\ queue \in [QueueIndex -> Seq(Task)]
      /\ Coherent(task, queue) /\ nr_running \in Int /\ switched \in SUBSET Task
  BY Zenon DEF IInv, TypeOK, NoLostTask, wake_up_new_task
<1>2. /\ task' = [task EXCEPT ![p] = new] /\ queue' = enqueue_task(queue, p, new)
      /\ nr_running' = nr_running + Counted(new) /\ UNCHANGED <<curr, switched>>
  BY Zenon DEF wake_up_new_task
<1>3. need_resched' \in BOOLEAN
  BY ReschedType, Zenon DEF wake_up_new_task, IInv
<1>4. "run" \in State /\ new = Activate(task[p], "run")
  BY Zenon DEF State, TASK_RUNNING, Activate
<1> HIDE DEF new
<1>5. Sane(new) /\ new.state = "run" /\ new.on_rq
  BY <1>1, <1>4, ActivateSane, Zenon
<1>6. Placed(p, new)
  BY <1>5, Zenon DEF Placed
<1>7. queue' \in [QueueIndex -> Seq(Task)] /\ Coherent(task', queue')
  BY <1>1, <1>2, <1>5, EnqueueCoherent, Zenon
<1>8. nr_running' \in Int
  BY <1>1, <1>2 DEF Counted
<1> QED BY <1>1, <1>2, <1>3, <1>5, <1>6, <1>7, <1>8, TaskStep, Zenon

LEMMA WakeupStep ==
    ASSUME IInv, NEW p \in Task, try_to_wake_up(p)
    PROVE  IInv'
<1>1. /\ Sane(task[p]) /\ task[p].state = "sleep"
      /\ task \in [Thread -> TaskStruct] /\ queue \in [QueueIndex -> Seq(Task)]
      /\ Coherent(task, queue) /\ nr_running \in Int /\ switched \in SUBSET Task
  BY Zenon DEF IInv, TypeOK, try_to_wake_up
<1>2. CASE ttwu_remote(p)
  <2>1. PICK s \in TASK_RUNNING : task' = [task EXCEPT ![p].state = s]
    BY <1>2, Zenon DEF ttwu_remote
  <2> DEFINE new == [task[p] EXCEPT !.state = s, !.on_rq = TRUE]
  <2>2. task' = [task EXCEPT ![p] = new]
    <3>1. task[p].on_rq /\ task[p] \in TaskStruct
      BY <1>1, <1>2, Zenon DEF ttwu_remote, Sane
    <3>2. [task[p] EXCEPT !.state = s] = new
      BY <3>1, Zenon DEF TaskStruct
    <3> QED BY <1>1, <2>1, <3>2, Zenon
  <2>3. s \in State /\ new = Activate(task[p], s)
    BY Zenon DEF State, Activate
  <2> HIDE DEF new
  <2>4. /\ Sane(new) /\ new.state = s /\ new.on_rq
        /\ new.cls = task[p].cls /\ new.prio = task[p].prio
    BY <1>1, <2>3, ActivateSane, Zenon
  <2>5. Placed(p, new)
    BY <2>4, Zenon DEF Placed, TASK_RUNNING
  <2>6. /\ need_resched' \in BOOLEAN /\ UNCHANGED <<queue, nr_running, curr, switched>>
        /\ task[p].on_rq
    BY <1>2, ReschedType, Zenon DEF ttwu_remote, IInv
  <2> QED BY <2>2, <2>4, <2>5, <2>6, UnmovedStep, Zenon
<1>3. CASE ttwu_do_activate(p)
  <2> DEFINE mid == [task[p] EXCEPT !.state = "run", !.on_rq = TRUE]
             new == [task[p] EXCEPT !.state = "run", !.on_rq = TRUE,
                            !.prio = IF task[p].cls = "ts" THEN WakeupPrio(@) ELSE @]
  <2>1. "run" \in State /\ mid = Activate(task[p], "run")
    BY Zenon DEF State, TASK_RUNNING, Activate
  <2> HIDE DEF mid
  <2>2. /\ Sane(mid) /\ mid.state = "run" /\ mid.on_rq
        /\ mid.cls = task[p].cls /\ mid.prio = task[p].prio
    BY <1>1, <2>1, ActivateSane, Zenon
  <2>3. Sane(new) /\ new.state = "run" /\ new.on_rq
    <3>1. CASE task[p].cls = "ts"
      <4>1. mid.slice \in Slice /\ mid \in TaskStruct
        BY <2>2, Zenon DEF Sane
      <4>2. task[p].prio \in TsPrio
        BY <1>1, <3>1, SaneIndex, Zenon
      <4>3. WakeupPrio(task[p].prio) \in TsPrio
        BY <4>2, WakeupRaises DEF TsPrio
      <4>4. new = SetPrioSlice(mid, WakeupPrio(task[p].prio), mid.slice)
        <5>1. task[p] \in TaskStruct
          BY <1>1, Zenon DEF Sane
        <5> QED BY <3>1, <5>1, Zenon DEF TaskStruct, SetPrioSlice, mid
      <4> HIDE DEF new, mid
      <4> QED BY <2>2, <3>1, <4>1, <4>3, <4>4, SetPrioSliceSane
    <3>2. CASE task[p].cls # "ts"
      <4>1. task[p] \in TaskStruct
        BY <1>1, Zenon DEF Sane
      <4>2. new = mid
        BY <3>2, <4>1, Zenon DEF TaskStruct, mid
      <4> QED BY <2>2, <4>2, Zenon
    <3> QED BY <3>1, <3>2, Zenon
  <2>4. /\ task' = [task EXCEPT ![p] = new] /\ queue' = enqueue_task(queue, p, new)
        /\ nr_running' = nr_running + Counted(new) /\ UNCHANGED <<curr, switched>>
        /\ ~task[p].on_rq
    BY <1>3, Zenon DEF ttwu_do_activate
  <2>5. need_resched' \in BOOLEAN
    BY <1>3, ReschedType, Zenon DEF ttwu_do_activate, IInv
  <2> HIDE DEF new, mid
  <2>6. Placed(p, new)
    BY <2>3, Zenon DEF Placed
  <2>7. queue' \in [QueueIndex -> Seq(Task)] /\ Coherent(task', queue')
    BY <1>1, <2>3, <2>4, EnqueueCoherent, Zenon
  <2>8. nr_running' \in Int
    BY <1>1, <2>4 DEF Counted
  <2> QED BY <1>1, <2>3, <2>4, <2>5, <2>6, <2>7, <2>8, TaskStep, Zenon
<1> QED BY <1>2, <1>3, Zenon DEF try_to_wake_up

\* pick_next_task returns the idle thread or a task on the run queue.
LEMMA PickOnQueue ==
    ASSUME NEW tk \in [Thread -> TaskStruct], NEW q \in [QueueIndex -> Seq(Task)],
           Coherent(tk, q), NEW nr, NEW c, NEW x \in pick_next_task(tk, q, nr, c)
    PROVE  x = Idle \/ (x \in Task /\ tk[x].on_rq)
<1>1. CASE x \in FairOrIdle(tk)
  BY <1>1, Zenon DEF FairOrIdle, Queued
<1>2. CASE x \in RtBest(tk)
  BY <1>2, Zenon DEF RtBest, Queued
<1>3. CASE x \in TsBest(q)
  <2>1. PICK k \in QueueIndex : q[k] # << >> /\ x = q[k][1]
    BY <1>3, Zenon DEF TsBest
  <2>2. q[k] \in Seq(Task) /\ 1 \in 1 .. Len(q[k]) /\ q[k][1] \in Task
    BY <2>1
  <2>3. Linked(x, q[k]) /\ x \in Task
    BY <2>1, <2>2, Zenon DEF Linked
  <2> QED BY <2>3, Zenon DEF Coherent
<1> QED BY <1>1, <1>2, <1>3, Zenon DEF pick_next_task

LEMMA ScheduleStep ==
    ASSUME IInv, NEW preempt \in BOOLEAN, NEW sig \in BOOLEAN, schedule(preempt, sig)
    PROVE  IInv'
<1> DEFINE prev == task[curr]
           off == Leaves(prev, preempt, sig)
           left == IF prev.state = "dead" THEN BootThread ELSE [prev EXCEPT !.on_rq = FALSE]
           kept == IF preempt THEN prev ELSE [prev EXCEPT !.state = "run"]
           new == IF off THEN left ELSE kept
<1>1. /\ task \in [Thread -> TaskStruct] /\ queue \in [QueueIndex -> Seq(Task)]
      /\ Coherent(task, queue) /\ nr_running \in Int /\ curr \in Thread
      /\ prev.on_rq /\ prev \in TaskStruct
  BY Zenon DEF IInv, TypeOK, NoLostTask
<1>2. /\ task' = [task EXCEPT ![curr] = new]
      /\ queue' = (IF off THEN dequeue_task(queue, curr, prev) ELSE queue)
      /\ nr_running' = (IF off THEN nr_running - Counted(prev) ELSE nr_running)
      /\ curr' \in pick_next_task(task', queue', nr_running', prev.cls)
      /\ need_resched' = FALSE /\ switched' = {}
      /\ preempt => curr # Idle /\ prev.state # "dead"
  BY Zenon DEF schedule
<1>3. off <=> (~preempt /\ (prev.state = "dead" \/ (prev.state = "sleep" /\ ~sig)))
  BY Zenon DEF Leaves
<1>4. "run" \in State /\ kept = (IF preempt THEN prev ELSE SetState(prev, "run"))
      /\ left = (IF prev.state = "dead" THEN BootThread ELSE Deactivate(prev))
  BY Zenon DEF State, TASK_RUNNING, SetState, Deactivate
<1>5. nr_running' \in Int
  BY <1>1, <1>2 DEF Counted
<1>6. /\ task' \in [Thread -> TaskStruct]
      /\ queue' \in [QueueIndex -> Seq(Task)] /\ Coherent(task', queue')
      /\ \A p \in Task : /\ Sane(task'[p])
                         /\ task'[p].state \in TASK_RUNNING => task'[p].on_rq
                         /\ task'[p].state \in {"none", "new"} => ~task'[p].on_rq
                         /\ task'[p].state # "dead"
      /\ IdleReady'
  <2> HIDE DEF kept, left, off
  <2>1. CASE curr = Idle
    <3>1. ~off /\ prev.state = "run" /\ ~preempt
      BY <2>1, <1>2, <1>3, Zenon DEF IInv, IdleReady
    <3>2. new = prev
      <4>1. [prev EXCEPT !.state = "run"] = prev
        BY <1>1, <3>1, Zenon DEF TaskStruct
      <4> QED BY <3>1, <4>1, Zenon DEF kept
    <3>3. task' = task /\ queue' = queue
      BY <1>1, <1>2, <3>1, <3>2, Zenon
    <3> QED BY <1>1, <2>1, <3>3, TaskAssumption, Zenon DEF IInv, IdleReady, NoLostTask
  <2>2. CASE curr # Idle
    <3>1. curr \in Task /\ Sane(prev)
      BY <1>1, <2>2, Zenon DEF Thread, IInv
    <3>2. CASE off
      <4>1. Sane(left) /\ ~left.on_rq /\ left.state \in {"none", "sleep"}
        BY <1>3, <1>4, <3>1, <3>2, BootSane, DeactivateSane, Zenon
      <4>2. new = left /\ left \in TaskStruct
        BY <3>2, <4>1, Zenon DEF Sane
      <4> HIDE DEF new
      <4>3. queue' \in [QueueIndex -> Seq(Task)] /\ Coherent(task', queue')
        BY <1>1, <1>2, <3>1, <3>2, <4>1, <4>2, DequeueCoherent, Zenon
      <4>4. /\ task' \in [Thread -> TaskStruct] /\ task'[curr] = left
            /\ \A t \in Thread : t # curr => task'[t] = task[t]
        BY <1>1, <1>2, <4>2, Zenon
      <4>5. \A p \in Task : p \in Thread /\ Sane(task[p])
        BY Zenon DEF Thread, IInv
      <4>6. IdleReady'
        BY <2>2, <4>4, Zenon DEF IInv, IdleReady, Thread
      <4> QED BY <4>1, <4>3, <4>4, <4>5, <4>6, Zenon DEF IInv, NoLostTask, TASK_RUNNING
    <3>3. CASE ~off
      <4>1. /\ Sane(kept) /\ kept.on_rq /\ kept.cls = prev.cls /\ kept.prio = prev.prio
            /\ kept.state \in {"run", "call", "sleep"}
        <5>1. CASE preempt
          <6>1. kept = prev /\ prev.state # "dead"
            BY <5>1, <1>2, <1>4, Zenon
          <6>2. prev.state \notin {"none", "new"}
            BY <1>1, <3>1, Zenon DEF IInv, NoLostTask
          <6>3. prev.state \in State
            BY <1>1, Zenon DEF TaskStruct
          <6> QED BY <1>1, <3>1, <6>1, <6>2, <6>3, Zenon DEF State, TASK_RUNNING
        <5>2. CASE ~preempt
          BY <5>2, <1>1, <1>4, <3>1, SetStateSane, Zenon
        <5> QED BY <5>1, <5>2, Zenon
      <4>2. new = kept /\ kept \in TaskStruct /\ queue' = queue
        BY <3>3, <4>1, <1>2, Zenon DEF Sane
      <4> HIDE DEF new
      <4>3. Coherent(task', queue')
        BY <1>1, <1>2, <3>1, <4>1, <4>2, UnmovedCoherent, Zenon
      <4>4. /\ task' \in [Thread -> TaskStruct] /\ task'[curr] = kept
            /\ \A t \in Thread : t # curr => task'[t] = task[t]
        BY <1>1, <1>2, <4>2, Zenon
      <4>5. \A p \in Task : p \in Thread /\ Sane(task[p])
        BY Zenon DEF Thread, IInv
      <4>6. IdleReady'
        BY <2>2, <4>4, Zenon DEF IInv, IdleReady, Thread
      <4> QED BY <1>1, <4>1, <4>2, <4>3, <4>4, <4>5, <4>6, Zenon DEF IInv, NoLostTask,
         TASK_RUNNING
    <3> QED BY <3>2, <3>3, Zenon
  <2> QED BY <2>1, <2>2, Zenon
<1>7. curr' = Idle \/ (curr' \in Task /\ task'[curr'].on_rq)
  BY <1>2, <1>6, PickOnQueue, Zenon
<1>8. NoLostTask'
  BY <1>6, <1>7, Zenon DEF NoLostTask, IdleReady
<1>9. TypeOK'
  BY <1>2, <1>5, <1>6, <1>7, Zenon DEF TypeOK, Thread
<1> QED BY <1>6, <1>8, <1>9, Zenon DEF IInv

\* set_current_state, finish_wait, do_task_dead: only the state of curr changes.
LEMMA StateStep ==
    ASSUME IInv, curr \in Task, NEW s \in {"run", "call", "sleep", "dead"},
           task' = [task EXCEPT ![curr].state = s],
           UNCHANGED <<queue, nr_running, curr, need_resched, switched>>
    PROVE  IInv'
<1> DEFINE new == SetState(task[curr], s)
<1>1. /\ Sane(task[curr]) /\ task[curr].on_rq /\ s \in State
      /\ task \in [Thread -> TaskStruct] /\ need_resched \in BOOLEAN
  BY Zenon DEF IInv, TypeOK, NoLostTask, State, TASK_RUNNING
<1>2. task' = [task EXCEPT ![curr] = new]
  BY Zenon DEF SetState
<1> HIDE DEF new
<1>3. /\ Sane(new) /\ new.state = s /\ new.on_rq = task[curr].on_rq
      /\ new.cls = task[curr].cls /\ new.prio = task[curr].prio
  BY <1>1, SetStateSane, Zenon DEF new
<1>4. Placed(curr, new)
  BY <1>1, <1>3, Zenon DEF Placed
<1> QED BY <1>1, <1>2, <1>3, <1>4, UnmovedStep, Zenon

LEMMA MoveTail ==
    ASSUME IInv, curr \in Task, task[curr].cls = "ts",
           NEW new, Sane(new), new.cls = "ts", new.on_rq,
           task' = [task EXCEPT ![curr] = new],
           queue' = list_move_tail(queue, curr, prioQueue(new.prio)),
           need_resched' \in BOOLEAN, UNCHANGED <<nr_running, curr, switched>>,
           new.state # "none", new.state # "new"
    PROVE  IInv'
<1>1. /\ task \in [Thread -> TaskStruct] /\ queue \in [QueueIndex -> Seq(Task)]
      /\ Coherent(task, queue) /\ nr_running \in Int /\ switched \in SUBSET Task
      /\ task[curr].on_rq
  BY Zenon DEF IInv, TypeOK, NoLostTask
<1>2. queue' = enqueue_task(dequeue_task(queue, curr, task[curr]), curr, new)
  BY Zenon DEF enqueue_task, dequeue_task, list_move_tail
<1>3. queue' \in [QueueIndex -> Seq(Task)] /\ Coherent(task', queue')
  <2> DEFINE r == enqueue_task(dequeue_task(queue, curr, task[curr]), curr, new)
  <2>1. r \in [QueueIndex -> Seq(Task)] /\ Coherent([task EXCEPT ![curr] = new], r)
    BY <1>1, RequeueCoherent, Zenon
  <2> HIDE DEF r
  <2> QED BY <1>2, <2>1, Zenon DEF r
<1>4. Placed(curr, new)
  BY Zenon DEF Placed
<1> QED BY <1>1, <1>3, <1>4, TaskStep, Zenon

LEMMA YieldStep ==
    ASSUME IInv, do_sched_yield
    PROVE  IInv'
<1>1. /\ curr \in Task /\ task' = [task EXCEPT ![curr].state = "call"]
      /\ UNCHANGED <<nr_running, curr, need_resched, switched>>
  BY Zenon DEF do_sched_yield, IInv, TypeOK, Thread
<1>2. CASE task[curr].cls = "ts"
  <2> DEFINE new == SetState(task[curr], "call")
  <2>1. /\ Sane(task[curr]) /\ task[curr].on_rq /\ "call" \in State
        /\ need_resched \in BOOLEAN
    BY <1>1, Zenon DEF IInv, TypeOK, NoLostTask, State, TASK_RUNNING
  <2>2. task' = [task EXCEPT ![curr] = new]
    BY <1>1, Zenon DEF SetState
  <2> HIDE DEF new
  <2>3. /\ Sane(new) /\ new.state = "call" /\ new.on_rq = task[curr].on_rq
        /\ new.cls = task[curr].cls /\ new.prio = task[curr].prio
    BY <2>1, SetStateSane, Zenon DEF new
  <2>4. queue' = list_move_tail(queue, curr, prioQueue(new.prio))
    BY <1>2, <2>3, Zenon DEF do_sched_yield
  <2> QED BY <1>1, <1>2, <2>1, <2>2, <2>3, <2>4, MoveTail, Zenon
<1>3. CASE task[curr].cls # "ts"
  <2>1. queue' = queue
    BY <1>3, Zenon DEF do_sched_yield
  <2> QED BY <1>1, <2>1, StateStep, Zenon
<1> QED BY <1>2, <1>3, Zenon

\* The slice never reaches 0, so the unsigned decrement does not wrap.
LEMMA TickTsStep ==
    ASSUME IInv, task_tick_ts
    PROVE  IInv'
<1> DEFINE t == task[curr]
           left == IF t.slice = 0 THEN UIntMod - 1 ELSE t.slice - 1
           prio == ExpiredPrio(t.prio)
<1>1. /\ curr \in Task /\ t.cls = "ts" /\ Sane(t) /\ t.on_rq /\ need_resched \in BOOLEAN
      /\ t.state \notin {"none", "new"} /\ t \in TaskStruct
  BY Zenon DEF task_tick_ts, IInv, TypeOK, Thread, IdleReady, NoLostTask
<1>2. t.prio \in TsPrio /\ t.slice \in Slice
  BY <1>1, SaneIndex, Zenon DEF Sane
<1>3. left = t.slice - 1
  <2>1. t.slice # 0
    BY <1>2, SliceUnitAssumption DEF Slice, MaxSlice
  <2> QED BY <2>1, Zenon
<1>4. UNCHANGED <<nr_running, curr, switched>>
  BY Zenon DEF task_tick_ts
<1>5. CASE left # 0
  <2>1. left \in Slice
    BY <1>2, <1>3, <1>5, SliceUnitAssumption DEF Slice, MaxSlice
  <2>2. task' = [task EXCEPT ![curr].slice = left] /\ UNCHANGED <<queue, need_resched>>
    BY <1>5, Zenon DEF task_tick_ts
  <2> DEFINE same == t.prio
             new == SetPrioSlice(t, same, left)
  <2> HIDE DEF left
  <2>3. task' = [task EXCEPT ![curr] = new]
    <3>1. [t EXCEPT !.slice = left] = new
      BY <1>1, Zenon DEF SetPrioSlice, TaskStruct
    <3> QED BY <2>2, <3>1, Zenon
  <2>a. same \in TsPrio
    BY <1>2, Zenon
  <2>b. same = t.prio
    BY Zenon
  <2> HIDE DEF same, new
  <2>4. /\ Sane(new) /\ new.state = t.state /\ new.on_rq = t.on_rq
        /\ new.cls = "ts" /\ new.prio = t.prio
    <3>1. /\ Sane(new) /\ new.state = t.state /\ new.on_rq = t.on_rq
          /\ new.cls = "ts" /\ new.prio = same
      BY <1>1, <2>a, <2>1, SetPrioSliceSane, Zenon DEF new
    <3> QED BY <2>b, <3>1, Zenon
  <2>5. Placed(curr, new)
    BY <1>1, <2>4, Zenon DEF Placed
  <2> QED BY <1>1, <1>4, <2>2, <2>3, <2>4, <2>5, UnmovedStep, Zenon
<1>6. CASE left = 0
  <2>1. prio \in TsPrio /\ prioTimeslice(prio) \in Slice
    BY <1>2, ExpiryLowers, SliceRange
  <2>2. /\ task' = [task EXCEPT ![curr].prio = prio, ![curr].slice = prioTimeslice(prio)]
        /\ queue' = list_move_tail(queue, curr, prioQueue(prio))
        /\ need_resched' = TRUE
    BY <1>6, Zenon DEF task_tick_ts
  <2> DEFINE new == SetPrioSlice(t, prio, prioTimeslice(prio))
  <2> HIDE DEF prio
  <2>3. task' = [task EXCEPT ![curr] = new]
    BY <1>1, <2>2, Zenon DEF SetPrioSlice, IInv, TypeOK, Thread
  <2> HIDE DEF new
  <2>4. /\ Sane(new) /\ new.state = t.state /\ new.on_rq = t.on_rq
        /\ new.cls = "ts" /\ new.prio = prio
    BY <1>1, <2>1, SetPrioSliceSane, Zenon DEF new
  <2> QED BY <1>1, <1>4, <2>2, <2>3, <2>4, MoveTail, Zenon
<1> QED BY <1>5, <1>6, Zenon

LEMMA NiceStep ==
    ASSUME IInv, NEW p \in Task, NEW static \in NicePrios, set_user_nice(p, static)
    PROVE  IInv'
<1> DEFINE old == task[p]
           mid == [old EXCEPT !.static_prio = static]
           new == [mid EXCEPT !.normal_prio = normal_prio(mid),
                              !.prio = effective_prio(mid)]
<1>1. Sane(old) /\ static \in TsPrio /\ UNCHANGED curr /\ need_resched \in BOOLEAN
  BY InputAssumption, Zenon DEF IInv, TypeOK, set_user_nice
<1>2. CASE old.policy = "FIFO"
  <2>1. task' = [task EXCEPT ![p] = mid]
        /\ UNCHANGED <<queue, nr_running, need_resched, switched>>
    BY <1>2, Zenon DEF set_user_nice
  <2>2. /\ Sane(mid) /\ mid.state = old.state /\ mid.on_rq = old.on_rq
        /\ mid.cls = old.cls /\ mid.prio = old.prio
    <3>1. /\ mid \in TaskStruct /\ mid.prio = old.prio /\ mid.cls = old.cls
          /\ mid.policy = old.policy /\ mid.normal_prio = old.normal_prio
          /\ mid.rt_priority = old.rt_priority /\ mid.slice = old.slice
          /\ mid.state = old.state /\ mid.on_rq = old.on_rq
      BY <1>1, Zenon DEF Sane, TaskStruct
    <3> HIDE DEF mid
    <3> QED BY <1>1, <1>2, <3>1, Zenon DEF Sane, normal_prio
  <2> HIDE DEF mid
  <2>3. Placed(p, mid)
    BY <2>2, Zenon DEF Placed, IInv, NoLostTask
  <2> QED BY <1>1, <2>1, <2>2, <2>3, UnmovedStep, Zenon
<1>3. CASE old.policy # "FIFO"
  <2>1. Requeue(p, new)
    BY <1>3, Zenon DEF set_user_nice
  <2>2. need_resched' \in BOOLEAN
    BY <1>3, Zenon DEF set_user_nice, resched
  <2>3. Sane(new) /\ new.state = old.state /\ new.on_rq = old.on_rq
    BY <1>1, <1>3, NiceSane, ZenonT(30)
  <2> HIDE DEF new
  <2> QED BY <1>1, <2>1, <2>2, <2>3, RequeueStep, Zenon
<1> QED BY <1>2, <1>3, Zenon

LEMMA SetschedulerStep ==
    ASSUME IInv, NEW p \in Task, NEW policy \in Policies, NEW reset \in ResetFlags,
           NEW rtprio \in SchedPriority(policy), NEW static \in SchedNice(policy, task[p]),
           sched_setscheduler(p, policy, rtprio, static, reset)
    PROVE  IInv'
<1> DEFINE old == [task[p] EXCEPT !.reset = reset]
           new == SetScheduler(old, policy, rtprio, static)
<1>1. /\ Sane(task[p]) /\ reset \in BOOLEAN /\ policy \in Policy /\ UNCHANGED curr
      /\ need_resched \in BOOLEAN
  BY InputAssumption, Zenon DEF IInv, TypeOK, Policy, sched_setscheduler
<1>2. /\ rtprio \in 0 .. 99 /\ ((policy = "FIFO") <=> (rtprio # 0))
      /\ static \in TsPrio
  <2>1. rtprio \in 0 .. 99 /\ ((policy = "FIFO") <=> (rtprio # 0))
    <3>1. CASE policy = "FIFO"
      BY <3>1, InputAssumption DEF SchedPriority
    <3>2. CASE policy # "FIFO"
      BY <3>2 DEF SchedPriority
    <3> QED BY <3>1, <3>2, Zenon
  <2>2. task[p].static_prio \in TsPrio
    BY <1>1, Zenon DEF Sane, TaskStruct
  <2>3. static \in TsPrio
    BY <2>2, InputAssumption, Zenon DEF SchedNice
  <2> QED BY <2>1, <2>3, Zenon
<1>3. /\ Sane(old) /\ old.state = task[p].state /\ old.on_rq = task[p].on_rq
      /\ old.cls = task[p].cls /\ old.prio = task[p].prio
  <2>1. old = SetFlag(task[p], reset)
    BY Zenon DEF SetFlag
  <2> HIDE DEF old
  <2> QED BY <1>1, <2>1, SetFlagSane, Zenon
<1>4. \/ /\ task' = [task EXCEPT ![p] = old]
         /\ UNCHANGED <<queue, nr_running, need_resched, switched>>
      \/ /\ Requeue(p, new)
         /\ \E r \in BOOLEAN : resched(r)
  BY Zenon DEF sched_setscheduler
<1> HIDE DEF old
<1>5. CASE /\ task' = [task EXCEPT ![p] = old]
           /\ UNCHANGED <<queue, nr_running, need_resched, switched>>
  <2>1. Placed(p, old)
    BY <1>3, Zenon DEF Placed, IInv, NoLostTask
  <2> QED BY <1>1, <1>3, <1>5, <2>1, UnmovedStep, Zenon
<1>6. CASE Requeue(p, new) /\ \E r \in BOOLEAN : resched(r)
  <2>1. need_resched' \in BOOLEAN
    BY <1>6, ReschedType, Zenon DEF IInv
  <2>2. Sane(new) /\ new.state = task[p].state /\ new.on_rq = task[p].on_rq
    BY <1>1, <1>2, <1>3, SetSchedulerSane, Zenon
  <2> HIDE DEF new
  <2> QED BY <1>1, <1>6, <2>1, <2>2, RequeueStep, Zenon
<1> QED BY <1>4, <1>5, <1>6, Zenon

LEMMA SetprioStep ==
    ASSUME IInv, NEW p \in Task, NEW d \in DonorPrios \cup {NoDonor}, rt_mutex_setprio(p, d)
    PROVE  IInv'
<1> DEFINE old == [task[p] EXCEPT !.donor = d]
           prio == rt_effective_prio(old, old.normal_prio)
           new == [old EXCEPT !.prio = prio,
                              !.cls = IF prio < MAX_RT_PRIO THEN "rt" ELSE "fair"]
<1>1. Sane(task[p]) /\ UNCHANGED curr /\ need_resched \in BOOLEAN
  BY Zenon DEF IInv, TypeOK, rt_mutex_setprio
<1>2. /\ Sane(old) /\ old.state = task[p].state /\ old.on_rq = task[p].on_rq
      /\ old.prio = task[p].prio /\ old.cls = task[p].cls
      /\ Sane(new) /\ new.state = task[p].state /\ new.on_rq = task[p].on_rq
  <2>1. old = SetDonor(task[p], d) /\ new = Boost(old, prio)
    BY Zenon DEF SetDonor, Boost
  <2>2. prio = rt_effective_prio(old, old.normal_prio)
    OBVIOUS
  <2> HIDE DEF old, prio, new
  <2> QED BY <1>1, <2>1, <2>2, SetprioSane
<1>3. \/ /\ task' = [task EXCEPT ![p] = old]
         /\ UNCHANGED <<queue, nr_running, need_resched, switched>>
      \/ /\ Requeue(p, new)
         /\ \E r \in BOOLEAN : resched(r)
  BY Zenon DEF rt_mutex_setprio
<1> HIDE DEF old, new
<1>4. CASE /\ task' = [task EXCEPT ![p] = old]
           /\ UNCHANGED <<queue, nr_running, need_resched, switched>>
  <2>1. Placed(p, old)
    BY <1>2, Zenon DEF Placed, IInv, NoLostTask
  <2> QED BY <1>1, <1>2, <1>4, <2>1, UnmovedStep, Zenon
<1>5. CASE Requeue(p, new) /\ \E r \in BOOLEAN : resched(r)
  <2>1. need_resched' \in BOOLEAN
    BY <1>5, ReschedType, Zenon DEF IInv
  <2> QED BY <1>1, <1>2, <1>5, <2>1, RequeueStep, Zenon
<1> QED BY <1>3, <1>4, <1>5, Zenon
-----------------------------------------------------------------------------
LEMMA NextInv == IInv /\ [Next]_vars => IInv'
<1> SUFFICES ASSUME IInv, [Next]_vars PROVE IInv'
  OBVIOUS
<1>1. ASSUME NEW p \in Task, sched_fork(p) PROVE IInv'
  BY <1>1, ForkStep, Zenon
<1>2. ASSUME NEW p \in Task, wake_up_new_task(p) PROVE IInv'
  BY <1>2, NewTaskStep, Zenon
<1>3. ASSUME NEW p \in Task, try_to_wake_up(p) PROVE IInv'
  BY <1>3, WakeupStep, Zenon
<1>4. ASSUME NEW p \in Task, NEW s \in NicePrios, set_user_nice(p, s) PROVE IInv'
  BY <1>4, NiceStep, Zenon
<1>5. ASSUME NEW p \in Task, NEW d \in DonorPrios \cup {NoDonor}, rt_mutex_setprio(p, d)
      PROVE  IInv'
  BY <1>5, SetprioStep, Zenon
<1>6. ASSUME NEW p \in Task, NEW policy \in Policies, NEW reset \in ResetFlags,
             NEW rtprio \in SchedPriority(policy), NEW static \in SchedNice(policy, task[p]),
             sched_setscheduler(p, policy, rtprio, static, reset)
      PROVE  IInv'
  BY <1>6, SetschedulerStep, Zenon
<1>7. CASE Schedule
  BY <1>7, ScheduleStep, Zenon DEF Schedule
<1>8. CASE set_current_state
  <2>1. curr \in Task
    BY <1>8, TaskAssumption, Zenon DEF set_current_state
  <2> QED BY <1>8, <2>1, StateStep, Zenon DEF set_current_state
<1>9. CASE finish_wait
  <2>1. curr \in Task
    BY <1>9, Zenon DEF finish_wait, IInv, TypeOK, Thread, IdleReady
  <2> QED BY <1>9, <2>1, StateStep, Zenon DEF finish_wait
<1>10. CASE do_task_dead
  <2>1. curr \in Task
    BY <1>10, Zenon DEF do_task_dead, IInv, TypeOK, Thread
  <2> QED BY <1>10, <2>1, StateStep, Zenon DEF do_task_dead
<1>11. CASE do_sched_yield
  BY <1>11, YieldStep, Zenon
<1>12. CASE scheduler_tick
  <2>1. CASE task_tick_ts
    BY <2>1, TickTsStep, Zenon
  <2>2. CASE task_tick_fair
    BY <2>2, Zenon DEF task_tick_fair, IInv, TypeOK, NoLostTask, IdleReady
  <2> QED BY <1>12, <2>1, <2>2, Zenon DEF scheduler_tick
<1>13. CASE UNCHANGED vars
  BY <1>13, Zenon DEF vars, IInv, TypeOK, NoLostTask, IdleReady
<1> QED
  BY <1>1, <1>2, <1>3, <1>4, <1>5, <1>6, <1>7, <1>8, <1>9, <1>10, <1>11, <1>12, <1>13,
     Zenon
  DEF Next

\* The inductive invariant holds in every state of every scheduler.
THEOREM Invariance == Spec => []IInv
BY InitInv, NextInv, PTL DEF Spec

\* Type correctness: no operation indexes ts_rq.queue out of bounds, stores a
\* priority outside 0..139 or wraps the unsigned slice counter.
THEOREM TypeCorrectness == Spec => []TypeOK
<1>1. IInv => TypeOK
  BY Zenon DEF IInv
<1> QED BY <1>1, Invariance, PTL

\* Every queued task of the class is linked exactly once, on the list its
\* priority names: list_del and list_move_tail never corrupt a list.
THEOREM ListsStayCoherent == Spec => []QueuesCoherent
<1>1. IInv => QueuesCoherent
  BY CoherentIsQueuesCoherent, Zenon DEF IInv
<1> QED BY <1>1, Invariance, PTL

\* Class, policy and priority of every task agree, whatever order fork, renice,
\* sched_setscheduler, boosts, wakeups and ticks come in.
THEOREM ClassesStayRight == Spec => []ClassMatchesPrio
<1>1. IInv => ClassMatchesPrio
  BY Zenon DEF IInv, Sane, ClassMatchesPrio
<1> QED BY <1>1, Invariance, PTL

\* task_tick_ts never decrements a slice of 0.
THEOREM SliceStaysPositive == Spec => []SliceNeverSpent
<1>1. IInv => SliceNeverSpent
  BY Zenon DEF IInv, Sane, SliceNeverSpent
<1> QED BY <1>1, Invariance, PTL

\* No task that is TASK_RUNNING is ever left off the run queue.
THEOREM NoTaskIsLost == Spec => []NoLostTask
<1>1. IInv => NoLostTask
  BY Zenon DEF IInv
<1> QED BY <1>1, Invariance, PTL
-----------------------------------------------------------------------------
(* One task changes *)

\* What a task adds to rq->nr_running.
Weight(t) == IF t.on_rq /\ t.cls # "ts" THEN 1 ELSE 0

\* Task p becomes new and the counter follows.
Counts(p, new) ==
    /\ task' = [task EXCEPT ![p] = new] /\ Sane(new)
    /\ nr_running' = nr_running - Weight(task[p]) + Weight(new)

\* WorsensByUse and Preempts, for p.
Worsens(p, new) ==
    task[p].cls = "ts" /\ new.cls = "ts" /\ task[p].state # "none" /\ new.state # "none"
    /\ new.prio > task[p].prio =>
        (p = curr /\ task[p].slice = 1) \/ new.static_prio # task[p].static_prio
Asks(p, new) ==
    ~task[p].on_rq /\ new.on_rq /\ Outranks(new, task[curr]) => need_resched'

\* p does not end up before the running TS task, nor the running task p behind
\* others, unless a reschedule is pending or p was just moved into the class.
InOrder(p, new) ==
    /\ curr' = curr /\ (need_resched => need_resched') /\ switched \subseteq switched'
    /\ new.on_rq /\ new.cls = "ts" =>
          \/ need_resched' \/ p \in switched'
          \/ /\ TsQueued(p)
             /\ p # curr => ~(new.prio < task[p].prio)
             /\ p = curr => ~(task[p].prio < new.prio)
          \/ p # curr /\ (task[curr].cls = "ts" => ~(new.prio < task[curr].prio))

Moves(p, new) == Counts(p, new) /\ Worsens(p, new) /\ Asks(p, new)

-----------------------------------------------------------------------------
\* The fields of a task that proofs about order need.
LEMMA SaneFields ==
    ASSUME NEW t, Sane(t)
    PROVE  t.prio \in Int /\ t.cls \in {"rt", "ts", "fair"} /\ t.on_rq \in BOOLEAN /\ t.slice \in Int
<1>1. t.prio \in Prio /\ t.on_rq \in BOOLEAN /\ t.slice \in UInt /\ t.cls \in {"rt", "ts", "fair"}
  BY Zenon DEF Sane, TaskStruct
<1> QED BY <1>1, UIntAssumption, SMT DEF Prio, UInt

\* No priority is better than itself.
LEMMA Unordered == \A a \in Int : ~(a < a) /\ ~(a > a)
BY SMT

\* The task table after a change of p.
LEMMA Changed ==
    ASSUME IInv, NEW p \in Task, NEW new, task' = [task EXCEPT ![p] = new]
    PROVE  task'[p] = new /\ \A t \in Thread : t # p => task'[t] = task[t]
BY Zenon DEF IInv, TypeOK, Thread

\* Such a change keeps the order of the class.
LEMMA OrderKept ==
    ASSUME IInv, IInv', NoTsInversion, NEW p \in Task, NEW new,
           task' = [task EXCEPT ![p] = new], InOrder(p, new)
    PROVE  NoTsInversion'
<1>1. task'[p] = new /\ \A t \in Thread : t # p => task'[t] = task[t]
  BY Changed, Zenon
<1>2. \A t \in Task : t \in Thread /\ task[t].prio \in Int /\ task'[t].prio \in Int
  BY SaneFields, Zenon DEF IInv, Thread
<1>3. curr \in Thread /\ curr' = curr /\ task'[curr].on_rq
  BY Zenon DEF IInv, TypeOK, NoLostTask, InOrder
<1> SUFFICES ASSUME task'[curr].cls = "ts", ~need_resched', NEW q \in Task,
                    task'[q].on_rq, task'[q].cls = "ts", task'[q].prio < task'[curr].prio
             PROVE  q \in switched' \/ curr \in switched'
  BY <1>3, Zenon DEF NoTsInversion, TsQueued
<1>4. ~need_resched /\ switched \subseteq switched' /\ curr \in Task
  <2>1. curr # Idle
    BY Zenon DEF IInv, IdleReady
  <2> QED BY <1>3, <2>1, Zenon DEF InOrder, Thread
<1>5. CASE p = curr
  <2>1. q # curr
    BY <1>2, <1>4, Unordered, Zenon
  <2>2. task'[q] = task[q]
    BY <1>1, <1>2, <1>5, <2>1, Zenon
  <2>3. CASE p \in switched'
    BY <1>5, <2>3, Zenon
  <2>4. CASE TsQueued(p) /\ ~(task[p].prio < new.prio)
    <3>1. task[q].prio < task[curr].prio
      <4>1. task[q].prio < task'[curr].prio /\ ~(task[curr].prio < task'[curr].prio)
        BY <1>1, <1>5, <2>2, <2>4, Zenon
      <4>2. task[q].prio \in Int /\ task[curr].prio \in Int /\ task'[curr].prio \in Int
        BY <1>2, <1>4, Zenon
      <4> QED BY <4>1, <4>2, SMT
    <3> QED BY <1>4, <1>5, <2>2, <2>4, <3>1, Zenon DEF NoTsInversion, TsQueued
  <2> QED BY <1>1, <1>3, <1>5, <2>3, <2>4, Zenon DEF InOrder
<1>6. CASE p # curr
  <2>1. task'[curr] = task[curr]
    BY <1>1, <1>3, <1>6, Zenon
  <2>2. CASE q = p
    <3>1. CASE TsQueued(p) /\ ~(new.prio < task[p].prio)
      <4>1. task[p].prio < task[curr].prio
        <5>1. new.prio < task[curr].prio /\ ~(new.prio < task[p].prio)
          BY <1>1, <2>1, <2>2, <3>1, Zenon
        <5>2. new.prio \in Int /\ task[p].prio \in Int /\ task[curr].prio \in Int
          BY <1>1, <1>2, <1>4, Zenon
        <5> QED BY <5>1, <5>2, SMT
      <4> QED BY <1>4, <2>1, <2>2, <3>1, <4>1, Zenon DEF NoTsInversion
    <3>2. CASE p \in switched'
      BY <2>2, <3>2, Zenon
    <3> QED BY <1>1, <1>6, <2>1, <2>2, <3>1, <3>2, Zenon DEF InOrder
  <2>3. CASE q # p
    <3>1. task'[q] = task[q]
      BY <1>1, <1>2, <2>3, Zenon
    <3> QED BY <1>4, <2>1, <3>1, Zenon DEF NoTsInversion, TsQueued
  <2> QED BY <2>2, <2>3, Zenon
<1> QED BY <1>5, <1>6, Zenon

-----------------------------------------------------------------------------
(* The counter *)

\* The tasks the counter is about.
CountedTasks(tk) == {t \in Task : tk[t].on_rq /\ tk[t].cls # "ts"}

\* Finitely many tasks are counted.
LEMMA CountedFinite ==
    \A tk : IsFiniteSet(CountedTasks(tk)) /\ Cardinality(CountedTasks(tk)) \in Nat
<1> SUFFICES ASSUME NEW tk
             PROVE  IsFiniteSet(CountedTasks(tk)) /\ Cardinality(CountedTasks(tk)) \in Nat
  BY Zenon
<1>1. CountedTasks(tk) \subseteq Task
  BY Zenon DEF CountedTasks
<1>2. IsFiniteSet(Task)
  BY TaskAssumption, Zenon
<1>3. IsFiniteSet(CountedTasks(tk))
  BY <1>1, <1>2, FS_Subset, Zenon
<1> QED BY <1>3, FS_CardinalityType, Zenon

\* NrRunningBalanced counts the tasks that are queued outside the TS class.
LEMMA BalancedIsCounted ==
    ASSUME NEW tk, \A t \in Task : Sane(tk[t])
    PROVE  Cardinality(CountedTasks(tk)) = Cardinality(Queued(tk, "rt")) + Cardinality(Queued(tk, "fair"))
<1> DEFINE a == Queued(tk, "rt")
           b == Queued(tk, "fair")
<1>1. \A t \in Task : tk[t].cls \in {"rt", "ts", "fair"}
  BY Zenon DEF Sane
<1>2. CountedTasks(tk) = a \cup b /\ a \cap b = {}
  BY <1>1 DEF CountedTasks, Queued
<1>3. IsFiniteSet(a) /\ IsFiniteSet(b)
  <2>1. a \subseteq Task /\ b \subseteq Task /\ IsFiniteSet(Task)
    BY TaskAssumption, Zenon DEF Queued
  <2> HIDE DEF a, b
  <2> QED BY <2>1, FS_Subset, Zenon
<1> HIDE DEF a, b
<1>4. Cardinality(a) \in Nat /\ Cardinality(b) \in Nat
  BY <1>3, FS_CardinalityType, Zenon
<1>5. Cardinality(a \cup b) = Cardinality(a) + Cardinality(b) - Cardinality(a \cap b)
  BY <1>3, FS_Union
<1>6. Cardinality({}) = 0
  BY FS_EmptySet, Zenon
<1>7. Cardinality(a \cup b) = Cardinality(a) + Cardinality(b)
  <2>1. Cardinality(a \cap b) = 0
    BY <1>2, <1>6, Zenon
  <2> QED BY <1>4, <1>5, <2>1, SMT
<1> QED BY <1>2, <1>7, Zenon DEF a, b

\* How the count follows the change of one task.
LEMMA CountMoves ==
    ASSUME IInv, NEW p \in Task, NEW new, Sane(new), task' = [task EXCEPT ![p] = new]
    PROVE  Cardinality(CountedTasks(task'))
             = Cardinality(CountedTasks(task)) - Weight(task[p]) + Weight(new)
<1> DEFINE S == CountedTasks(task)
           R == S \ {p}
           T == CountedTasks(task')
<1>1. task'[p] = new /\ \A t \in Task : t # p => task'[t] = task[t]
  BY Changed, Zenon DEF Thread
<1>2. /\ p \in S <=> task[p].on_rq /\ task[p].cls # "ts"
      /\ p \in T <=> new.on_rq /\ new.cls # "ts"
      /\ R = T \ {p}
  BY <1>1, Zenon DEF CountedTasks
<1>3. IsFiniteSet(S) /\ IsFiniteSet(T) /\ Cardinality(S) \in Nat /\ Cardinality(T) \in Nat
  BY CountedFinite, Zenon
<1> HIDE DEF S, T
<1>4. Cardinality(R) = IF p \in S THEN Cardinality(S) - 1 ELSE Cardinality(S)
  BY <1>3, FS_RemoveElement, Zenon
<1>5. Cardinality(R) = IF p \in T THEN Cardinality(T) - 1 ELSE Cardinality(T)
  BY <1>2, <1>3, FS_RemoveElement, Zenon
<1>6. Weight(task[p]) = (IF p \in S THEN 1 ELSE 0) /\ Weight(new) = (IF p \in T THEN 1 ELSE 0)
  BY <1>2, Zenon DEF Weight
<1> HIDE DEF R
<1>7. Cardinality(T) = Cardinality(S) - Weight(task[p]) + Weight(new)
  BY <1>3, <1>4, <1>5, <1>6, SMT
<1> QED BY <1>7, Zenon DEF S, T

\* A counter that follows every change stays right.
LEMMA BalanceKept ==
    ASSUME IInv, IInv', NrRunningBalanced, NEW p \in Task, NEW new, Counts(p, new)
    PROVE  NrRunningBalanced'
<1>1. nr_running = Cardinality(CountedTasks(task))
  BY BalancedIsCounted, Zenon DEF IInv, NrRunningBalanced
<1>2. nr_running' = Cardinality(CountedTasks(task'))
  BY <1>1, CountMoves, Zenon DEF Counts
<1>3. \A t \in Task : Sane(task'[t])
  BY Zenon DEF IInv
<1> QED BY <1>2, <1>3, BalancedIsCounted, Zenon DEF NrRunningBalanced, Queued
-----------------------------------------------------------------------------
\* A change of one task that honours all of this.
Step(p, new) == Moves(p, new) /\ InOrder(p, new)

\* A queued task weighs what its class counts.
LEMMA WeightIsCounted ==
    \A t : Weight(t) = (IF t.on_rq THEN Counted(t) ELSE 0) /\ Weight(t) \in Int
<1>1. 0 \in Int /\ 1 \in Int
  BY SMT
<1> QED BY <1>1, Zenon DEF Weight, Counted

\* resched_curr never clears TIF_NEED_RESCHED.
LEMMA ReschedKeeps ==
    ASSUME NEW r \in BOOLEAN, resched(r)
    PROVE  (need_resched => need_resched') /\ (r => need_resched')
BY Zenon DEF resched

\* An update that touches neither priority nor class nor place.
LEMMA SameRank ==
    ASSUME IInv, NEW p \in Task, NEW new, Sane(new), task' = [task EXCEPT ![p] = new],
           new.on_rq = task[p].on_rq, new.cls = task[p].cls, new.prio = task[p].prio,
           UNCHANGED <<nr_running, curr, switched>>, need_resched => need_resched'
    PROVE  Step(p, new)
<1>1. /\ nr_running \in Int /\ Sane(task[p]) /\ nr_running' = nr_running
      /\ curr' = curr /\ switched' = switched
  BY Zenon DEF IInv, TypeOK
<1>2. task[p].prio \in Int /\ task[p].on_rq \in BOOLEAN
  BY <1>1, SaneFields, Zenon
<1>3. ~(new.prio < task[p].prio) /\ ~(task[p].prio < new.prio) /\ ~(new.prio > task[p].prio)
  BY <1>2, Unordered, Zenon
<1>4. nr_running' = nr_running - Weight(task[p]) + Weight(new)
  <2>1. Weight(new) = Weight(task[p]) /\ Weight(new) \in Int
    BY WeightIsCounted, Zenon DEF Weight
  <2> QED BY <1>1, <2>1, SMT
<1>5. Counts(p, new)
  BY <1>4, Zenon DEF Counts
<1>6. Worsens(p, new) /\ Asks(p, new)
  BY <1>3, Zenon DEF Worsens, Asks
<1>7. InOrder(p, new)
  BY <1>1, <1>3, Zenon DEF InOrder, TsQueued
<1> QED BY <1>5, <1>6, <1>7, Zenon DEF Step, Moves

\* A change between dequeue_task and enqueue_task that does not put one TS
\* priority in the place of another.
LEMMA RequeueMoves ==
    ASSUME IInv, NEW p \in Task, NEW new, Sane(new), Requeue(p, new),
           new.on_rq = task[p].on_rq, curr' = curr, need_resched => need_resched',
           Worsens(p, new),
           task[p].cls = "ts" /\ new.cls = "ts" /\ new.on_rq =>
               \/ need_resched'
               \/ /\ p # curr => ~(new.prio < task[p].prio)
                  /\ p = curr => ~(task[p].prio < new.prio)
    PROVE  Step(p, new)
<1>1. /\ task' = [task EXCEPT ![p] = new]
      /\ nr_running' = IF task[p].on_rq THEN nr_running - Counted(task[p]) + Counted(new)
                       ELSE nr_running
      /\ switched' = IF task[p].on_rq /\ task[p].cls # "ts" /\ new.cls = "ts"
                     THEN switched \cup {p} ELSE switched
      /\ nr_running \in Int
  BY Zenon DEF Requeue, IInv, TypeOK
<1>2. nr_running' = nr_running - Weight(task[p]) + Weight(new)
  <2>1. CASE task[p].on_rq
    BY <1>1, <2>1, WeightIsCounted, Zenon
  <2>2. CASE ~task[p].on_rq
    <3>1. Weight(task[p]) = 0 /\ Weight(new) = 0 /\ nr_running' = nr_running
      BY <1>1, <2>2, Zenon DEF Weight
    <3> QED BY <1>1, <3>1, SMT
  <2> QED BY <2>1, <2>2, Zenon
<1>3. Counts(p, new) /\ Asks(p, new)
  BY <1>1, <1>2, Zenon DEF Counts, Asks
<1>4. InOrder(p, new)
  BY <1>1, Zenon DEF InOrder, TsQueued
<1> QED BY <1>3, <1>4, Zenon DEF Step, Moves

\* A task that is put on the run queue and compared with the current one.
LEMMA Enqueued ==
    ASSUME IInv, NEW p \in Task, NEW new, Sane(new), new.on_rq, ~task[p].on_rq,
           task' = [task EXCEPT ![p] = new], nr_running' = nr_running + Counted(new),
           UNCHANGED <<curr, switched>>, NEW r \in BOOLEAN,
           check_preempt_curr(new, task[curr], r), resched(r), Worsens(p, new)
    PROVE  Step(p, new)
<1>1. nr_running \in Int /\ curr' = curr /\ switched' = switched /\ p # curr
  BY Zenon DEF IInv, TypeOK, NoLostTask
<1>2. (need_resched => need_resched') /\ (r => need_resched')
  BY ReschedKeeps, Zenon
<1>3. nr_running' = nr_running - Weight(task[p]) + Weight(new)
  <2>1. Weight(task[p]) = 0 /\ Weight(new) = Counted(new) /\ Weight(new) \in Int
    BY WeightIsCounted, Zenon
  <2> QED BY <1>1, <2>1, SMT
<1>4. Counts(p, new)
  BY <1>3, Zenon DEF Counts
<1>5. Outranks(new, task[curr]) => r
  <2>1. CASE new.cls = task[curr].cls
    <3>1. new.cls \in {"rt", "ts", "fair"}
      BY SaneFields, Zenon
    <3>2. Rank[new.cls] \in Int
      BY <3>1, SMT DEF Rank
    <3>3. ~(Rank[new.cls] < Rank[task[curr].cls])
      BY <2>1, <3>2, Unordered, Zenon
    <3> QED BY <2>1, <3>3, Zenon DEF Outranks, check_preempt_curr
  <2>2. CASE new.cls # task[curr].cls
    BY <2>2, Zenon DEF Outranks, check_preempt_curr
  <2> QED BY <2>1, <2>2, Zenon
<1>6. Asks(p, new)
  BY <1>2, <1>5, Zenon DEF Asks
<1>7. new.cls = "ts" /\ task[curr].cls = "ts" => need_resched' \/ ~(new.prio < task[curr].prio)
  BY <1>2, Zenon DEF check_preempt_curr
<1>8. InOrder(p, new)
  BY <1>1, <1>2, <1>7, Zenon DEF InOrder
<1> QED BY <1>4, <1>6, <1>8, Zenon DEF Step, Moves
-----------------------------------------------------------------------------
\* sched_fork fills a free slot and queues nothing.
LEMMA ForkOrder ==
    ASSUME IInv, NEW p \in Task, sched_fork(p)
    PROVE  \E new : Step(p, new)
<1> DEFINE new == Child(task[curr])
<1>1. /\ curr \in Task /\ task[p].state = "none" /\ ~task[p].on_rq
      /\ nr_running \in Int
  BY Zenon DEF sched_fork, IInv, TypeOK, Thread, NoLostTask
<1>2. Sane(new) /\ ~new.on_rq
  BY <1>1, ChildSane, Zenon DEF IInv
<1>3. /\ task' = [task EXCEPT ![p] = new] /\ nr_running' = nr_running /\ curr' = curr
      /\ need_resched' = need_resched /\ switched' = switched
  BY Zenon DEF sched_fork
<1> HIDE DEF new
<1>4. Weight(task[p]) = 0 /\ Weight(new) = 0
  BY <1>1, <1>2, Zenon DEF Weight
<1>5. nr_running' = nr_running - Weight(task[p]) + Weight(new)
  BY <1>1, <1>3, <1>4, SMT
<1>6. Counts(p, new) /\ Asks(p, new) /\ Worsens(p, new)
  BY <1>1, <1>2, <1>3, <1>5, Zenon DEF Counts, Asks, Worsens
<1>7. InOrder(p, new)
  BY <1>2, <1>3, Zenon DEF InOrder
<1> QED BY <1>6, <1>7, Zenon DEF Step, Moves

\* wake_up_new_task compares the new task with the current one.
LEMMA NewTaskOrder ==
    ASSUME IInv, NEW p \in Task, wake_up_new_task(p)
    PROVE  \E new : Step(p, new)
<1> DEFINE new == [task[p] EXCEPT !.state = "run", !.on_rq = TRUE]
<1>1. Sane(task[p]) /\ ~task[p].on_rq
  BY Zenon DEF IInv, NoLostTask, wake_up_new_task
<1>2. /\ task' = [task EXCEPT ![p] = new]
      /\ nr_running' = nr_running + Counted(new) /\ UNCHANGED <<curr, switched>>
      /\ \E r \in BOOLEAN : check_preempt_curr(new, task[curr], r) /\ resched(r)
  BY Zenon DEF wake_up_new_task
<1>3. "run" \in State /\ new = Activate(task[p], "run")
  BY Zenon DEF State, TASK_RUNNING, Activate
<1> HIDE DEF new
<1>4. Sane(new) /\ new.on_rq /\ new.prio = task[p].prio
  BY <1>1, <1>3, ActivateSane, Zenon
<1>5. Worsens(p, new)
  BY <1>1, <1>4, SaneFields, Unordered, Zenon DEF Worsens
<1> QED BY <1>1, <1>2, <1>4, <1>5, Enqueued, Zenon

\* A wakeup compares the task, after it has been raised, with the current one.
LEMMA WakeupOrder ==
    ASSUME IInv, NEW p \in Task, try_to_wake_up(p)
    PROVE  \E new : Step(p, new)
<1>1. Sane(task[p]) /\ task[p] \in TaskStruct /\ task \in [Thread -> TaskStruct]
  BY Zenon DEF IInv, TypeOK, Sane
<1>2. CASE ttwu_remote(p)
  <2>1. PICK s \in TASK_RUNNING : task' = [task EXCEPT ![p].state = s]
    BY <1>2, Zenon DEF ttwu_remote
  <2> DEFINE new == SetState(task[p], s)
  <2>2. s \in State /\ task' = [task EXCEPT ![p] = new]
    BY <2>1, Zenon DEF State, SetState
  <2> HIDE DEF new
  <2>3. /\ Sane(new) /\ new.on_rq = task[p].on_rq
        /\ new.cls = task[p].cls /\ new.prio = task[p].prio
    BY <1>1, <2>2, SetStateSane, Zenon DEF new
  <2>4. need_resched => need_resched'
    BY <1>2, ReschedKeeps, Zenon DEF ttwu_remote
  <2>5. UNCHANGED <<nr_running, curr, switched>>
    BY <1>2, Zenon DEF ttwu_remote
  <2> QED BY <2>2, <2>3, <2>4, <2>5, SameRank, Zenon
<1>3. CASE ttwu_do_activate(p)
  <2> DEFINE mid == Activate(task[p], "run")
             new == [task[p] EXCEPT !.state = "run", !.on_rq = TRUE,
                            !.prio = IF task[p].cls = "ts" THEN WakeupPrio(@) ELSE @]
  <2>1. /\ ~task[p].on_rq /\ task' = [task EXCEPT ![p] = new]
        /\ nr_running' = nr_running + Counted(new) /\ UNCHANGED <<curr, switched>>
        /\ \E r \in BOOLEAN : check_preempt_curr(new, task[curr], r) /\ resched(r)
    BY <1>3, Zenon DEF ttwu_do_activate
  <2>2. "run" \in State
    BY Zenon DEF State, TASK_RUNNING
  <2>3. /\ Sane(mid) /\ mid.on_rq /\ mid.cls = task[p].cls /\ mid.prio = task[p].prio
    BY <1>1, <2>2, ActivateSane, Zenon
  <2>4. Sane(new) /\ new.on_rq /\ Worsens(p, new)
    <3>1. CASE task[p].cls = "ts"
      <4>1. mid.slice \in Slice /\ mid \in TaskStruct
        BY <2>3, Zenon DEF Sane
      <4>2. task[p].prio \in TsPrio
        BY <1>1, <3>1, SaneIndex, Zenon
      <4>3. WakeupPrio(task[p].prio) \in TsPrio /\ ~(WakeupPrio(task[p].prio) > task[p].prio)
        BY <4>2, WakeupRaises DEF TsPrio
      <4>4. new = SetPrioSlice(mid, WakeupPrio(task[p].prio), mid.slice)
        BY <1>1, <3>1, Zenon DEF TaskStruct, SetPrioSlice, Activate
      <4> HIDE DEF new, mid
      <4>5. Sane(new) /\ new.on_rq = mid.on_rq /\ new.prio = WakeupPrio(task[p].prio)
        <5> DEFINE e == WakeupPrio(task[p].prio)
                   n == mid.slice
        <5>1. e \in TsPrio /\ n \in Slice /\ new = SetPrioSlice(mid, e, n) /\ mid.cls = "ts"
          BY <2>3, <3>1, <4>1, <4>3, <4>4, Zenon
        <5> HIDE DEF e, n
        <5>2. Sane(new) /\ new.on_rq = mid.on_rq /\ new.prio = e
          BY <2>3, <5>1, SetPrioSliceSane, Zenon
        <5> QED BY <5>2, Zenon DEF e
      <4> QED BY <2>3, <4>3, <4>5, Zenon DEF Worsens
    <3>2. CASE task[p].cls # "ts"
      <4>1. new = mid
        BY <1>1, <3>2, Zenon DEF TaskStruct, Activate
      <4> QED BY <2>3, <3>2, <4>1, Zenon DEF Worsens
    <3> QED BY <3>1, <3>2, Zenon
  <2> HIDE DEF new, mid
  <2> QED BY <2>1, <2>4, Enqueued, Zenon
<1> QED BY <1>2, <1>3, Zenon DEF try_to_wake_up
-----------------------------------------------------------------------------
\* set_current_state, finish_wait, do_task_dead and do_sched_yield.
LEMMA StateOrder ==
    ASSUME IInv, curr \in Task, NEW s \in {"run", "call", "sleep", "dead"},
           task' = [task EXCEPT ![curr].state = s],
           UNCHANGED <<nr_running, curr, need_resched, switched>>
    PROVE  \E new : Step(curr, new)
<1> DEFINE new == SetState(task[curr], s)
<1>1. Sane(task[curr]) /\ s \in State
  BY Zenon DEF IInv, State, TASK_RUNNING
<1>2. task' = [task EXCEPT ![curr] = new]
  BY Zenon DEF SetState
<1> HIDE DEF new
<1>3. /\ Sane(new) /\ new.on_rq = task[curr].on_rq
      /\ new.cls = task[curr].cls /\ new.prio = task[curr].prio
  BY <1>1, SetStateSane, Zenon DEF new
<1>4. (need_resched => need_resched') /\ UNCHANGED <<nr_running, curr, switched>>
  BY Zenon
<1> QED BY <1>2, <1>3, <1>4, SameRank, Zenon

\* task_tick_ts worsens a priority only when it asks for a reschedule.
LEMMA TickTsOrder ==
    ASSUME IInv, task_tick_ts
    PROVE  curr \in Task /\ \E new : Step(curr, new)
<1> DEFINE t == task[curr]
           left == IF t.slice = 0 THEN UIntMod - 1 ELSE t.slice - 1
           prio == ExpiredPrio(t.prio)
<1>1. /\ curr \in Task /\ t.cls = "ts" /\ Sane(t) /\ t.on_rq
      /\ t \in TaskStruct /\ nr_running \in Int
  BY Zenon DEF task_tick_ts, IInv, TypeOK, Thread, IdleReady, NoLostTask
<1>2. t.prio \in TsPrio /\ t.slice \in Slice
  BY <1>1, SaneIndex, Zenon DEF Sane
<1>3. t.slice # 0 /\ left = t.slice - 1
  <2>1. t.slice # 0
    BY <1>2, SliceUnitAssumption DEF Slice, MaxSlice
  <2> QED BY <2>1, Zenon
<1>4. UNCHANGED <<nr_running, curr, switched>>
  BY Zenon DEF task_tick_ts
<1>5. CASE left # 0
  <2>1. left \in Slice
    BY <1>2, <1>3, <1>5, SliceUnitAssumption DEF Slice, MaxSlice
  <2>2. task' = [task EXCEPT ![curr].slice = left] /\ need_resched' = need_resched
    BY <1>5, Zenon DEF task_tick_ts
  <2> DEFINE new == SetPrioSlice(t, t.prio, left)
             e == t.prio
  <2> HIDE DEF left
  <2>3. task' = [task EXCEPT ![curr] = new]
    <3>1. [t EXCEPT !.slice = left] = new
      BY <1>1, Zenon DEF SetPrioSlice, TaskStruct
    <3> QED BY <2>2, <3>1, Zenon
  <2>4. new = SetPrioSlice(t, e, left) /\ e \in TsPrio
    BY <1>2, Zenon
  <2> HIDE DEF new, e
  <2>5. Sane(new) /\ new.on_rq = t.on_rq /\ new.cls = "ts" /\ new.prio = e
    BY <1>1, <2>1, <2>4, SetPrioSliceSane, Zenon
  <2>6. Step(curr, new)
    BY <1>1, <1>4, <2>2, <2>3, <2>5, SameRank, Zenon DEF e
  <2> QED BY <1>1, <2>6, Zenon
<1>6. CASE left = 0
  <2>1. prio \in TsPrio /\ prioTimeslice(prio) \in Slice /\ t.slice = 1
    BY <1>2, <1>3, <1>6, ExpiryLowers, SliceRange DEF Slice
  <2>2. /\ task' = [task EXCEPT ![curr].prio = prio, ![curr].slice = prioTimeslice(prio)]
        /\ need_resched' = TRUE
    BY <1>6, Zenon DEF task_tick_ts
  <2> DEFINE new == SetPrioSlice(t, prio, prioTimeslice(prio))
  <2> HIDE DEF prio
  <2>3. task' = [task EXCEPT ![curr] = new]
    BY <1>1, <2>2, Zenon DEF SetPrioSlice, IInv, TypeOK, Thread
  <2> HIDE DEF new
  <2>4. Sane(new) /\ new.on_rq = t.on_rq /\ new.cls = "ts"
    BY <1>1, <2>1, SetPrioSliceSane, Zenon DEF new
  <2>5. Weight(new) = Weight(t) /\ Weight(t) \in Int
    BY <1>1, <2>4, WeightIsCounted, Zenon DEF Weight
  <2>6. nr_running' = nr_running - Weight(t) + Weight(new)
    <3>1. nr_running' = nr_running
      BY <1>4, Zenon
    <3> QED BY <1>1, <2>5, <3>1, SMT
  <2>7. Counts(curr, new) /\ Worsens(curr, new) /\ Asks(curr, new)
    BY <1>1, <2>1, <2>2, <2>3, <2>4, <2>6, Zenon DEF Counts, Worsens, Asks
  <2>8. InOrder(curr, new)
    BY <1>4, <2>2, Zenon DEF InOrder
  <2> QED BY <1>1, <2>7, <2>8, Zenon DEF Step, Moves
<1> QED BY <1>5, <1>6, Zenon

\* set_user_nice asks for a reschedule when it improves a queued task or worsens the current one.
LEMMA NiceOrder ==
    ASSUME IInv, NEW p \in Task, NEW static \in NicePrios, set_user_nice(p, static)
    PROVE  \E new : Step(p, new)
<1> DEFINE old == task[p]
           mid == [old EXCEPT !.static_prio = static]
           new == [mid EXCEPT !.normal_prio = normal_prio(mid),
                              !.prio = effective_prio(mid)]
<1>1. Sane(old) /\ static \in TsPrio /\ curr' = curr /\ old \in TaskStruct /\ old.static_prio # static
  BY InputAssumption, Zenon DEF IInv, TypeOK, set_user_nice, Sane
<1>2. CASE old.policy = "FIFO"
  <2>1. /\ task' = [task EXCEPT ![p] = mid]
        /\ UNCHANGED <<nr_running, curr, switched>> /\ need_resched' = need_resched
    BY <1>1, <1>2, Zenon DEF set_user_nice
  <2>2. Sane(mid) /\ mid.on_rq = old.on_rq /\ mid.cls = old.cls /\ mid.prio = old.prio
    <3>1. /\ mid \in TaskStruct /\ mid.prio = old.prio /\ mid.cls = old.cls
          /\ mid.policy = old.policy /\ mid.normal_prio = old.normal_prio
          /\ mid.rt_priority = old.rt_priority /\ mid.slice = old.slice
          /\ mid.state = old.state /\ mid.on_rq = old.on_rq
      BY <1>1, Zenon DEF TaskStruct
    <3> HIDE DEF mid
    <3> QED BY <1>1, <1>2, <3>1, Zenon DEF Sane, normal_prio
  <2> HIDE DEF mid
  <2>3. Step(p, mid)
    BY <2>1, <2>2, SameRank, Zenon
  <2> QED BY <2>3, Zenon
<1>3. CASE old.policy # "FIFO"
  <2>1. Requeue(p, new)
    BY <1>3, Zenon DEF set_user_nice
  <2>2. resched(old.on_rq /\ (new.prio - old.prio < 0 \/ (new.prio - old.prio > 0 /\ curr = p)))
    BY <1>3, Zenon DEF set_user_nice
  <2>3. Sane(new) /\ new.on_rq = old.on_rq
    BY <1>1, <1>3, NiceSane, ZenonT(30)
  <2>4. new.static_prio = static
    <3>1. mid \in TaskStruct /\ mid.static_prio = static
      BY <1>1, Zenon DEF TaskStruct
    <3> HIDE DEF mid
    <3> QED BY <3>1, Zenon DEF TaskStruct
  <2> HIDE DEF new
  <2>5. Worsens(p, new)
    BY <1>1, <2>4, Zenon DEF Worsens
  <2>6. new.prio \in Int /\ old.prio \in Int
    BY <1>1, <2>3, SaneFields, Zenon
  <2>7. /\ (new.prio < old.prio) => new.prio - old.prio < 0
        /\ (old.prio < new.prio) => new.prio - old.prio > 0
    BY <2>6, SMT
  <2>8. (need_resched => need_resched') /\
        (new.on_rq => need_resched' \/ (/\ p # curr => ~(new.prio < old.prio)
                                        /\ p = curr => ~(old.prio < new.prio)))
    BY <2>2, <2>3, <2>7, Zenon DEF resched
  <2>9. Step(p, new)
    BY <1>1, <2>1, <2>3, <2>5, <2>8, RequeueMoves, Zenon
  <2> QED BY <2>9, Zenon
<1> QED BY <1>2, <1>3, Zenon

\* __setscheduler keeps a task in the TS class only if nothing was to change.
LEMMA SetschedulerOrder ==
    ASSUME IInv, NEW p \in Task, NEW policy \in Policies, NEW reset \in ResetFlags,
           NEW rtprio \in SchedPriority(policy), NEW static \in SchedNice(policy, task[p]),
           sched_setscheduler(p, policy, rtprio, static, reset)
    PROVE  \E new : Step(p, new)
<1> DEFINE old == [task[p] EXCEPT !.reset = reset]
           new == SetScheduler(old, policy, rtprio, static)
<1>1. /\ Sane(task[p]) /\ reset \in BOOLEAN /\ policy \in Policy /\ curr' = curr
  BY InputAssumption, Zenon DEF IInv, TypeOK, Policy, sched_setscheduler
<1>2. /\ rtprio \in 0 .. 99 /\ ((policy = "FIFO") <=> (rtprio # 0))
      /\ static \in TsPrio
  <2>1. rtprio \in 0 .. 99 /\ ((policy = "FIFO") <=> (rtprio # 0))
    <3>1. CASE policy = "FIFO"
      BY <3>1, InputAssumption DEF SchedPriority
    <3>2. CASE policy # "FIFO"
      BY <3>2 DEF SchedPriority
    <3> QED BY <3>1, <3>2, Zenon
  <2>2. task[p].static_prio \in TsPrio
    BY <1>1, Zenon DEF Sane, TaskStruct
  <2>3. static \in TsPrio
    BY <2>2, InputAssumption, Zenon DEF SchedNice
  <2> QED BY <2>1, <2>3, Zenon
<1>3. /\ Sane(old) /\ old.on_rq = task[p].on_rq
      /\ old.cls = task[p].cls /\ old.prio = task[p].prio
  <2>1. old = SetFlag(task[p], reset)
    BY Zenon DEF SetFlag
  <2> HIDE DEF old
  <2> QED BY <1>1, <2>1, SetFlagSane, Zenon
<1>4. \/ /\ task' = [task EXCEPT ![p] = old]
         /\ UNCHANGED <<nr_running, need_resched, switched>>
      \/ /\ Requeue(p, new) /\ ~(policy = "TS" /\ old.policy = "TS")
         /\ \E r \in BOOLEAN : resched(r)
  BY Zenon DEF sched_setscheduler
<1>5. Sane(new) /\ new.on_rq = old.on_rq /\ new.policy = policy
  <2>1. Sane(new) /\ new.on_rq = old.on_rq
    BY <1>1, <1>2, <1>3, SetSchedulerSane, Zenon
  <2>2. old \in TaskStruct
    BY <1>3, Zenon DEF Sane
  <2> HIDE DEF old
  <2>3. new.policy = policy
    BY <2>2, Zenon DEF SetScheduler, TaskStruct
  <2> QED BY <2>1, <2>3, Zenon
<1> HIDE DEF old, new
<1>6. CASE /\ task' = [task EXCEPT ![p] = old]
           /\ UNCHANGED <<nr_running, need_resched, switched>>
  BY <1>1, <1>3, <1>6, SameRank, Zenon
<1>7. CASE /\ Requeue(p, new) /\ ~(policy = "TS" /\ old.policy = "TS")
           /\ \E r \in BOOLEAN : resched(r)
  <2>1. ~(task[p].cls = "ts" /\ new.cls = "ts")
    BY <1>3, <1>5, <1>7, Zenon DEF Sane
  <2>2. Worsens(p, new)
    BY <2>1, Zenon DEF Worsens
  <2>3. need_resched => need_resched'
    BY <1>7, ReschedKeeps, Zenon
  <2> QED BY <1>1, <1>3, <1>5, <1>7, <2>1, <2>2, <2>3, RequeueMoves, Zenon
<1> QED BY <1>4, <1>6, <1>7, Zenon

\* rt_mutex_setprio chooses between the real-time and the fair class only.
LEMMA SetprioOrder ==
    ASSUME IInv, NEW p \in Task, NEW d \in DonorPrios \cup {NoDonor}, rt_mutex_setprio(p, d)
    PROVE  \E new : Step(p, new)
<1> DEFINE old == [task[p] EXCEPT !.donor = d]
           prio == rt_effective_prio(old, old.normal_prio)
           new == [old EXCEPT !.prio = prio,
                              !.cls = IF prio < MAX_RT_PRIO THEN "rt" ELSE "fair"]
<1>1. Sane(task[p]) /\ curr' = curr
  BY Zenon DEF IInv, rt_mutex_setprio
<1>2. /\ Sane(old) /\ old.on_rq = task[p].on_rq
      /\ old.prio = task[p].prio /\ old.cls = task[p].cls
      /\ Sane(new) /\ new.on_rq = task[p].on_rq
  <2>1. old = SetDonor(task[p], d) /\ new = Boost(old, prio)
    BY Zenon DEF SetDonor, Boost
  <2>2. prio = rt_effective_prio(old, old.normal_prio)
    OBVIOUS
  <2> HIDE DEF old, prio, new
  <2> QED BY <1>1, <2>1, <2>2, SetprioSane
<1>3. \/ /\ task' = [task EXCEPT ![p] = old]
         /\ UNCHANGED <<nr_running, need_resched, switched>>
      \/ /\ Requeue(p, new)
         /\ \E r \in BOOLEAN : resched(r)
  BY Zenon DEF rt_mutex_setprio
<1>4. new.cls # "ts"
  <2>1. old \in TaskStruct
    BY <1>2, Zenon DEF Sane
  <2> HIDE DEF old, prio
  <2> QED BY <2>1, Zenon DEF TaskStruct
<1> HIDE DEF old, new
<1>5. CASE /\ task' = [task EXCEPT ![p] = old]
           /\ UNCHANGED <<nr_running, need_resched, switched>>
  BY <1>1, <1>2, <1>5, SameRank, Zenon
<1>6. CASE Requeue(p, new) /\ \E r \in BOOLEAN : resched(r)
  <2>1. Worsens(p, new)
    BY <1>4, Zenon DEF Worsens
  <2>2. need_resched => need_resched'
    BY <1>6, ReschedKeeps, Zenon
  <2> QED BY <1>1, <1>2, <1>4, <1>6, <2>1, <2>2, RequeueMoves, Zenon
<1> QED BY <1>3, <1>5, <1>6, Zenon
-----------------------------------------------------------------------------
(* __schedule *)

\* pick_next_task_ts takes a task of the best priority queued in the class.
LEMMA PickBest ==
    ASSUME NEW tk, NEW q \in [QueueIndex -> Seq(Task)], Coherent(tk, q),
           \A t \in Task : Sane(tk[t]), NEW x \in TsBest(q),
           NEW p \in Task, tk[p].on_rq, tk[p].cls = "ts"
    PROVE  ~(tk[p].prio < tk[x].prio)
<1>1. PICK k \in QueueIndex : /\ q[k] # << >> /\ x = q[k][1]
                              /\ \A y \in QueueIndex : q[y] # << >> => y <= k
  BY Zenon DEF TsBest
<1>2. q[k] \in Seq(Task) /\ 1 \in 1 .. Len(q[k]) /\ q[k][1] \in Task
  BY <1>1
<1>3. Linked(x, q[k]) /\ x \in Task
  BY <1>1, <1>2, Zenon DEF Linked
<1>4. tk[x].cls = "ts" /\ prioQueue(tk[x].prio) = k
  BY <1>3, Zenon DEF Coherent
<1>5. tk[x].prio \in TsPrio /\ tk[p].prio \in TsPrio /\ prioQueue(tk[p].prio) \in QueueIndex
  BY <1>3, <1>4, SaneIndex, QueueIndexRange, Zenon
<1> DEFINE y == prioQueue(tk[p].prio)
<1>6. Linked(p, q[y])
  BY <1>5, Zenon DEF Coherent
<1>7. q[y] # << >>
  <2>1. PICK i \in 1 .. Len(q[y]) : TRUE
    BY <1>6, Zenon DEF Linked
  <2>2. q[y] \in Seq(Task)
    BY <1>5, Zenon
  <2> HIDE DEF y
  <2> QED BY <2>1, <2>2
<1>8. y <= k
  BY <1>1, <1>5, <1>7, Zenon
<1>9. tk[p].prio < tk[x].prio => prioQueue(tk[p].prio) > prioQueue(tk[x].prio)
  BY <1>5, QueueIndexRange, Zenon
<1>10. y \in Int /\ k \in Int
  <2>1. y \in QueueIndex
    BY <1>5, Zenon
  <2> HIDE DEF y
  <2> QED BY <2>1 DEF QueueIndex
<1> HIDE DEF y
<1>11. ~(y > k)
  BY <1>8, <1>10, SMT
<1> QED BY <1>4, <1>9, <1>11, Zenon DEF y

\* After __schedule the best TS task runs, or none.
LEMMA ScheduleOrder ==
    ASSUME IInv, IInv', NEW preempt \in BOOLEAN, NEW sig \in BOOLEAN, schedule(preempt, sig)
    PROVE  NoTsInversion'
<1>1. /\ switched' = {} /\ \E prevcls : curr' \in pick_next_task(task', queue', nr_running', prevcls)
  BY Zenon DEF schedule
<1>2. /\ queue' \in [QueueIndex -> Seq(Task)] /\ Coherent(task', queue')
      /\ \A t \in Task : Sane(task'[t])
  BY Zenon DEF IInv, TypeOK
<1>3. task'[Idle].cls = "idle"
  BY Zenon DEF IInv, IdleReady
<1>4. task'[curr'].cls = "ts" => curr' \in TsBest(queue')
  <2>1. curr' \in FairOrIdle(task') => task'[curr'].cls # "ts"
    BY <1>3, Zenon DEF FairOrIdle, Queued
  <2>2. curr' \in RtBest(task') => task'[curr'].cls # "ts"
    BY Zenon DEF RtBest, Queued
  <2> QED BY <1>1, <2>1, <2>2, Zenon DEF pick_next_task
<1> SUFFICES ASSUME task'[curr'].cls = "ts", NEW p \in Task, task'[p].on_rq, task'[p].cls = "ts"
             PROVE  ~(task'[p].prio < task'[curr'].prio)
  BY Zenon DEF NoTsInversion, TsQueued
<1> QED BY <1>2, <1>4, PickBest, Zenon

\* __schedule changes only prev, and leaves its priority and class alone.
LEMMA ScheduleMoves ==
    ASSUME IInv, NEW preempt \in BOOLEAN, NEW sig \in BOOLEAN, schedule(preempt, sig)
    PROVE  \/ task' = task /\ nr_running' = nr_running
           \/ curr \in Task /\ \E new : Moves(curr, new)
<1> DEFINE prev == task[curr]
           off == Leaves(prev, preempt, sig)
           left == IF prev.state = "dead" THEN BootThread ELSE Deactivate(prev)
           kept == IF preempt THEN prev ELSE SetState(prev, "run")
           new == IF off THEN left ELSE kept
<1>1. /\ task \in [Thread -> TaskStruct] /\ nr_running \in Int /\ curr \in Thread
      /\ prev.on_rq /\ prev \in TaskStruct
  BY Zenon DEF IInv, TypeOK, NoLostTask
<1>2. /\ task' = [task EXCEPT ![curr] = new]
      /\ nr_running' = (IF off THEN nr_running - Counted(prev) ELSE nr_running)
      /\ preempt => curr # Idle
  BY Zenon DEF schedule, Deactivate, SetState
<1>3. off => prev.state \in {"dead", "sleep"}
  BY Zenon DEF Leaves
<1> HIDE DEF off
<1>4. CASE curr = Idle
  <2>1. ~off /\ prev.state = "run" /\ ~preempt
    BY <1>2, <1>3, <1>4, Zenon DEF IInv, IdleReady
  <2>2. [prev EXCEPT !.state = "run"] = prev
    BY <1>1, <2>1, Zenon DEF TaskStruct
  <2>3. new = prev
    BY <2>1, <2>2, Zenon DEF SetState
  <2> QED BY <1>1, <1>2, <2>1, <2>3, Zenon
<1>5. CASE curr # Idle
  <2>1. curr \in Task /\ Sane(prev) /\ "run" \in State
    BY <1>1, <1>5, Zenon DEF Thread, IInv, State, TASK_RUNNING
  <2>2. prev.prio \in Int
    BY <2>1, SaneFields, Zenon
  <2>3. CASE off
    <3>1. new = left
      BY <2>3, Zenon
    <3>2. Sane(new) /\ ~new.on_rq /\ (new.state = "none" \/ new.prio = prev.prio)
      <4>1. CASE prev.state = "dead"
        BY <3>1, <4>1, BootSane, Zenon
      <4>2. CASE prev.state # "dead"
        <5>1. new = Deactivate(prev)
          BY <3>1, <4>2, Zenon
        <5>2. Deactivate(prev).prio = prev.prio
          BY <1>1, Zenon DEF Deactivate, TaskStruct
        <5> HIDE DEF new, left
        <5> QED BY <2>1, <5>1, <5>2, DeactivateSane, Zenon
      <4> QED BY <4>1, <4>2, Zenon
    <3> HIDE DEF new
    <3>3. Weight(prev) = Counted(prev) /\ Weight(new) = 0 /\ Weight(prev) \in Int
      BY <1>1, <3>2, WeightIsCounted, Zenon
    <3>4. nr_running' = nr_running - Weight(prev) + Weight(new)
      <4>1. nr_running' = nr_running - Weight(prev)
        BY <1>2, <2>3, <3>3, Zenon
      <4> QED BY <1>1, <3>3, <4>1, SMT
    <3>5. ~(prev.prio > prev.prio)
      BY <2>2, Unordered, Zenon
    <3> QED BY <1>1, <1>2, <2>1, <3>2, <3>4, <3>5, Zenon DEF Moves, Counts, Worsens, Asks
  <2>4. CASE ~off
    <3>1. new = kept
      BY <2>4, Zenon
    <3>2. Sane(new) /\ new.on_rq = prev.on_rq /\ new.cls = prev.cls /\ new.prio = prev.prio
      <4>1. CASE preempt
        BY <2>1, <3>1, <4>1, Zenon
      <4>2. CASE ~preempt
        <5>1. new = SetState(prev, "run")
          BY <3>1, <4>2, Zenon
        <5> HIDE DEF new, kept
        <5> QED BY <2>1, <5>1, SetStateSane, Zenon
      <4> QED BY <4>1, <4>2, Zenon
    <3> HIDE DEF new
    <3>3. Weight(prev) = Weight(new) /\ Weight(prev) \in Int
      BY <3>2, WeightIsCounted, Zenon DEF Weight
    <3>4. nr_running' = nr_running - Weight(prev) + Weight(new)
      <4>1. nr_running' = nr_running
        BY <1>2, <2>4, Zenon
      <4> QED BY <1>1, <3>3, <4>1, SMT
    <3>5. ~(new.prio > prev.prio)
      BY <2>2, <3>2, Unordered, Zenon
    <3> QED BY <1>1, <1>2, <2>1, <3>2, <3>4, <3>5, Zenon DEF Moves, Counts, Worsens, Asks
  <2> QED BY <2>3, <2>4, Zenon
<1> QED BY <1>4, <1>5, Zenon
-----------------------------------------------------------------------------
\* set_current_state, finish_wait, do_task_dead and do_sched_yield.
LEMMA CurrOrder ==
    ASSUME IInv, set_current_state \/ finish_wait \/ do_task_dead \/ do_sched_yield
    PROVE  \E p \in Task : \E new : Step(p, new)
<1>1. curr \in Task
  BY TaskAssumption, Zenon DEF set_current_state, finish_wait, do_task_dead, do_sched_yield,
     IInv, TypeOK, Thread, IdleReady
<1>2. /\ UNCHANGED <<nr_running, curr, need_resched, switched>>
      /\ \E s \in {"run", "call", "sleep", "dead"} : task' = [task EXCEPT ![curr].state = s]
  BY Zenon DEF set_current_state, finish_wait, do_task_dead, do_sched_yield
<1> QED BY <1>1, <1>2, StateOrder, Zenon

\* What a step other than __schedule does: nothing to the tasks, or one change
\* that keeps the order of the class.
LEMMA NextStep ==
    ASSUME IInv, Next
    PROVE  \/ Schedule
           \/ /\ UNCHANGED <<task, nr_running, curr, switched>>
              /\ need_resched => need_resched'
           \/ \E p \in Task : \E new : Step(p, new)
<1>1. ASSUME NEW p \in Task, sched_fork(p) \/ wake_up_new_task(p) \/ try_to_wake_up(p)
      PROVE  \E new : Step(p, new)
  BY <1>1, ForkOrder, NewTaskOrder, WakeupOrder, Zenon
<1>2. ASSUME NEW p \in Task, NEW s \in NicePrios, set_user_nice(p, s)
      PROVE  \E new : Step(p, new)
  BY <1>2, NiceOrder, Zenon
<1>3. ASSUME NEW p \in Task, NEW d \in DonorPrios \cup {NoDonor}, rt_mutex_setprio(p, d)
      PROVE  \E new : Step(p, new)
  BY <1>3, SetprioOrder, Zenon
<1>4. ASSUME NEW p \in Task, NEW policy \in Policies, NEW reset \in ResetFlags,
             NEW rtprio \in SchedPriority(policy), NEW static \in SchedNice(policy, task[p]),
             sched_setscheduler(p, policy, rtprio, static, reset)
      PROVE  \E new : Step(p, new)
  BY <1>4, SetschedulerOrder, Zenon
<1>5. CASE set_current_state \/ finish_wait \/ do_task_dead \/ do_sched_yield
  BY <1>5, CurrOrder, Zenon
<1>6. CASE scheduler_tick
  BY <1>6, TickTsOrder, Zenon DEF scheduler_tick, task_tick_fair
<1> QED BY <1>1, <1>2, <1>3, <1>4, <1>5, <1>6, Zenon DEF Next

\* What a change of one task means for all of them.
LEMMA MovesHonours ==
    ASSUME IInv, NEW p \in Task, NEW new, Moves(p, new)
    PROVE  WorsensByUse /\ Preempts
<1>1. /\ task'[p] = new /\ \A t \in Task : t # p => task'[t] = task[t]
      /\ Worsens(p, new) /\ Asks(p, new)
  BY Changed, Zenon DEF Moves, Counts, Thread
<1>2. \A t \in Task : ~(task[t].prio > task[t].prio)
  BY SaneFields, Unordered, Zenon DEF IInv
<1>3. WorsensByUse
  BY <1>1, <1>2, Zenon DEF WorsensByUse, Worsens, Alive
<1>4. Preempts
  BY <1>1, Zenon DEF Preempts, Asks
<1> QED BY <1>3, <1>4, Zenon

\* A step that changes no task.
LEMMA StillHonours ==
    ASSUME IInv, task' = task
    PROVE  WorsensByUse /\ Preempts
<1>1. \A t \in Task : ~(task[t].prio > task[t].prio)
  BY SaneFields, Unordered, Zenon DEF IInv
<1> QED BY <1>1, Zenon DEF WorsensByUse, Preempts

\* The steps of the scheduler, by their effect.
LEMMA StepKinds ==
    ASSUME IInv, [Next]_vars
    PROVE  \/ task' = task /\ nr_running' = nr_running
           \/ \E p \in Task : \E new : Moves(p, new)
<1>1. CASE Next
  BY <1>1, NextStep, ScheduleMoves, Zenon DEF Schedule, Step
<1>2. CASE UNCHANGED vars
  BY <1>2, Zenon DEF vars
<1> QED BY <1>1, <1>2, Zenon

\* NoTsInversion is inductive, given IInv.
LEMMA OrderInv ==
    ASSUME IInv, IInv', NoTsInversion, [Next]_vars
    PROVE  NoTsInversion'
<1>1. CASE Schedule
  BY <1>1, ScheduleOrder, Zenon DEF Schedule
<1>2. CASE UNCHANGED <<task, nr_running, curr, switched>> /\ (need_resched => need_resched')
  BY <1>2, Zenon DEF NoTsInversion, TsQueued
<1>3. ASSUME NEW p \in Task, NEW new, Step(p, new) PROVE NoTsInversion'
  BY <1>3, OrderKept, Zenon DEF Step, Moves, Counts
<1>4. CASE Next
  BY <1>1, <1>2, <1>3, <1>4, NextStep, Zenon
<1>5. CASE UNCHANGED vars
  BY <1>2, <1>5, Zenon DEF vars
<1> QED BY <1>4, <1>5, Zenon

\* NrRunningBalanced is inductive, given IInv.
LEMMA BalanceInv ==
    ASSUME IInv, IInv', NrRunningBalanced, [Next]_vars
    PROVE  NrRunningBalanced'
<1>1. CASE task' = task /\ nr_running' = nr_running
  BY <1>1, Zenon DEF NrRunningBalanced, Queued
<1>2. ASSUME NEW p \in Task, NEW new, Moves(p, new) PROVE NrRunningBalanced'
  BY <1>2, BalanceKept, Zenon DEF Moves
<1> QED BY <1>1, <1>2, StepKinds, Zenon

\* At boot one fair task is queued, and a reschedule is pending.
LEMMA InitBalance == Init => NrRunningBalanced /\ NoTsInversion
<1> SUFFICES ASSUME Init PROVE NrRunningBalanced /\ NoTsInversion
  OBVIOUS
<1>1. /\ nr_running = 1 /\ need_resched = TRUE
      /\ task = [p \in Thread |->
                 [BootThread EXCEPT !.cls = IF p = Idle THEN "idle" ELSE "fair",
                                    !.state = IF p \in {Idle, InitTask} THEN "run" ELSE "none",
                                    !.on_rq = p \in {Idle, InitTask}]]
  BY Zenon DEF Init
<1>2. \A p \in Task : task[p].cls = "fair" /\ (task[p].on_rq <=> p = InitTask)
  BY <1>1, TaskAssumption, Zenon DEF Thread, BootThread
<1>3. Queued(task, "fair") = {InitTask} /\ Queued(task, "rt") = {}
  BY <1>2, TaskAssumption, Zenon DEF Queued
<1>4. Cardinality({InitTask}) = 1 /\ Cardinality({}) = 0
  BY FS_Singleton, FS_EmptySet, Zenon
<1>5. 1 = 0 + 1
  BY SMT
<1>6. NrRunningBalanced
  BY <1>1, <1>3, <1>4, <1>5, Zenon DEF NrRunningBalanced
<1> QED BY <1>1, <1>6, Zenon DEF NoTsInversion
-----------------------------------------------------------------------------
\* rq->nr_running is the number of queued real-time and fair tasks, whatever
\* changes class while it is queued.
THEOREM CounterStaysBalanced == Spec => []NrRunningBalanced
<1>1. IInv /\ IInv' /\ NrRunningBalanced /\ [Next]_vars => NrRunningBalanced'
  BY BalanceInv, Zenon
<1>2. Init => NrRunningBalanced
  BY InitBalance, Zenon
<1> QED BY <1>1, <1>2, Invariance, PTL DEF Spec

\* While a TS task runs and no reschedule is pending, no queued TS task is
\* better, unless sched_setscheduler has just moved one of the two into the class.
THEOREM TsOrderKept == Spec => []NoTsInversion
<1>1. IInv /\ IInv' /\ NoTsInversion /\ [Next]_vars => NoTsInversion'
  BY OrderInv, Zenon
<1>2. Init => NoTsInversion
  BY InitBalance, Zenon
<1> QED BY <1>1, <1>2, Invariance, PTL DEF Spec

\* Only task_tick_ts, for the slice used up, and a renice worsen the priority of
\* a task that stays in the TS class.
THEOREM PrioritiesWorsenByUse == Spec => PrioWorsensOnlyByUse
<1>1. IInv /\ [Next]_vars => [WorsensByUse]_vars
  BY StepKinds, MovesHonours, StillHonours, Zenon
<1> QED BY <1>1, Invariance, PTL DEF Spec, PrioWorsensOnlyByUse

\* Whatever enqueues a task that outranks the running one (wake_up_new_task or
\* a wakeup, after enqueue_task_ts has raised it) leaves TIF_NEED_RESCHED set.
THEOREM WakeupsPreempt == Spec => WakeupPreempts
<1>1. IInv /\ [Next]_vars => [Preempts]_vars
  BY StepKinds, MovesHonours, StillHonours, Zenon
<1> QED BY <1>1, Invariance, PTL DEF Spec, WakeupPreempts
=============================================================================
