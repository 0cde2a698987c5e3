----------------------------- MODULE TaskGroups -----------------------------
(***************************************************************************)
(* Admission control of the task group hierarchy: real-time and CFS        *)
(* bandwidth of a cgroup (kernel/sched/rt.c, kernel/sched/core.c), the     *)
(* global limits in /proc/sys/kernel/sched_rt_*, tasks that change group,  *)
(* and sched_setscheduler, which asks the group before it makes a task     *)
(* real-time.                                                              *)
(*                                                                         *)
(* rt_constraints_mutex, cfs_constraints_mutex and the task's run queue    *)
(* lock are three different locks, and the sysctl handler has a fourth:    *)
(* what one of them checks, another can change.  Each operation is one     *)
(* step up to its check and one step for its effect.                       *)
(***************************************************************************)
EXTENDS Integers, FiniteSets, Functions

CONSTANTS
    Group, Root,     \* cgroups, root_task_group among them
    Task,
    Writer,          \* threads that write a group's rt_runtime or rt_period file
    Caller,          \* threads in sched_setscheduler
    Runtime, Period, \* values written for real-time runtimes and periods
    CfsPeriod, Quota,\* values written for CFS periods and quotas
    default_cfs_period, \* the CFS period of a new group
    MaxWrites,       \* bound: mkdirs and writes to control files in a behaviour
    MaxInFlight,     \* bound: operations between their first and last step at a time
    NULL

RUNTIME_INF == -1
Runtimes == Runtime \cup {RUNTIME_INF}
BW_UNIT == 1048576        \* 1 << BW_SHIFT
Bandwidth == [period : Period, runtime : Runtimes]

ASSUME GroupAssumption ==
    /\ Root \in Group /\ IsFiniteSet(Group)
    /\ NULL \notin Group /\ NULL \notin Bandwidth
    /\ Runtime \subseteq Nat /\ 0 \in Runtime /\ Quota \subseteq Nat \ {0}
    /\ Period \subseteq Nat \ {0} /\ CfsPeriod \subseteq Nat \ {0}
    /\ default_cfs_period \in CfsPeriod
    /\ MaxWrites \in Nat /\ MaxInFlight \in Nat

VARIABLES
    parent,      \* the tree: parent group, NULL for a group that is not online
    rt,          \* per group: rt_bandwidth.rt_period and .rt_runtime
    cfs,         \* per group: cfs_bandwidth.period and .quota
    task,        \* per task: real-time policy or not, rt_priority, group
    sysctl,      \* sysctl_sched_rt_period, sysctl_sched_rt_runtime
    def_period,  \* def_rt_bandwidth.rt_period
    handler,     \* sched_rt_handler: NULL or the values to restore on error
    tgset,       \* per writer: tg_set_rt_bandwidth
    attach,      \* from cpu_cgroup_can_attach to cpu_cgroup_attach
    setsched,    \* per caller: __sched_setscheduler
    overtaken,   \* history: real-time tasks let in on a runtime that was being taken away
    transient,   \* history: groups admitted while a sysctl write was not yet accepted
    writes       \* mkdirs and writes so far

groupVars == <<parent, rt, cfs>>
sysVars == <<sysctl, def_period, handler>>
history == <<overtaken, transient>>
vars == <<groupVars, task, sysVars, tgset, attach, setsched, history, writes>>

\* Operations between their first and last step.
InFlight ==
    Cardinality({w \in Writer : tgset[w] # NULL}) + Cardinality({k \in Caller : setsched[k] # NULL})
        + (IF handler # NULL THEN 1 ELSE 0) + (IF attach # NULL THEN 1 ELSE 0)

\* An operation may begin: below the bounds.  Fewer overlap late in a behaviour.
Begin == InFlight < MaxInFlight /\ writes + InFlight <= MaxWrites

\* One more operation of the administrator.
Write == writes < MaxWrites /\ writes + InFlight < MaxWrites /\ writes' = writes + 1

Online == {g \in Group : g = Root \/ parent[g] # NULL}
Children(g) == {h \in Group : parent[h] = g}
rt_bandwidth_enabled == sysctl.runtime >= 0

to_ratio(period, runtime) ==
    IF runtime = RUNTIME_INF THEN BW_UNIT
    ELSE IF period = 0 THEN 0
    ELSE (runtime * BW_UNIT) \div period

global_ratio ==
    to_ratio(sysctl.period, IF sysctl.runtime < 0 THEN RUNTIME_INF ELSE sysctl.runtime)

tg_has_rt_tasks(g) == \E t \in Task : task[t].rt /\ task[t].group = g

Ratio(b) == to_ratio(b.period, b.runtime)

\* The bandwidth that b gives to the groups of S, added up.
RatioSum(b, S) == SumFunctionOnSet([h \in Group |-> Ratio(b[h])], S)

\* The settings that __rt_schedulable walks: bw in place of those of g
\* (g = NULL: nothing is replaced).
Proposed(g, bw) == [h \in Group |-> IF h = g THEN bw ELSE rt[h]]

\* Faulty variant: only the changed group is compared with its children.
rt_schedulable_OneLevel(g, bw) ==
    LET b == Proposed(g, bw) IN
    \A h \in Online :
        /\ b[h].runtime > b[h].period => b[h].runtime = RUNTIME_INF
        /\ rt_bandwidth_enabled /\ b[h].runtime = 0 => ~tg_has_rt_tasks(h)
        /\ Ratio(b[h]) <= global_ratio
        /\ h = g => RatioSum(b, Children(h)) <= Ratio(b[h])

\* __rt_schedulable: tg_rt_schedulable for every group of the tree.
rt_schedulable(g, bw) ==
    LET b == Proposed(g, bw) IN
    \A h \in Online :
        /\ b[h].runtime > b[h].period => b[h].runtime = RUNTIME_INF
        /\ rt_bandwidth_enabled /\ b[h].runtime = 0 => ~tg_has_rt_tasks(h)
        /\ Ratio(b[h]) <= global_ratio
        /\ RatioSum(b, Children(h)) <= Ratio(b[h])

Init ==
    /\ parent = [g \in Group |-> NULL]
    /\ \E p \in Period, r \in Runtime :
          /\ 0 < r /\ r <= p
          /\ sysctl = [period |-> p, runtime |-> r]
          /\ rt = [g \in Group |-> [period |-> p, runtime |-> IF g = Root THEN r ELSE 0]]
          /\ def_period = p
    /\ cfs = [g \in Group |-> [period |-> default_cfs_period, quota |-> RUNTIME_INF]]
    /\ task = [t \in Task |-> [rt |-> FALSE, rt_priority |-> 0, group |-> Root]]
    /\ handler = NULL
    /\ tgset = [w \in Writer |-> NULL]
    /\ attach = NULL
    /\ setsched = [k \in Caller |-> NULL]
    /\ overtaken = {}
    /\ transient = {}
    /\ writes = 0

-----------------------------------------------------------------------------
\* The tree.

\* cpu_cgroup_css_alloc and _online: a new group has no real-time runtime and
\* no CFS limit.
sched_create_group(g, p) ==
    /\ Write
    /\ g \notin Online /\ p \in Online
    /\ parent' = [parent EXCEPT ![g] = p]
    /\ rt' = [rt EXCEPT ![g] = [period |-> def_period, runtime |-> 0]]
    /\ cfs' = [cfs EXCEPT ![g] = [period |-> default_cfs_period, quota |-> RUNTIME_INF]]
    /\ transient' = transient \ {g}
    /\ UNCHANGED <<task, sysVars, tgset, attach, setsched, overtaken>>

\* Faulty variant: a group is removed under its tasks.
sched_offline_group_Busy(g) ==
    /\ g \in Online \ {Root} /\ Children(g) = {}
    /\ attach # NULL => attach.group # g
    /\ \A w \in Writer : tgset[w] # NULL => tgset[w].group # g
    /\ parent' = [parent EXCEPT ![g] = NULL]
    /\ rt' = [rt EXCEPT ![g] = [period |-> def_period, runtime |-> 0]]
    /\ cfs' = [cfs EXCEPT ![g] = [period |-> default_cfs_period, quota |-> RUNTIME_INF]]
    /\ transient' = transient \ {g}
    /\ UNCHANGED <<task, sysVars, tgset, attach, setsched, overtaken, writes>>

\* cpu_cgroup_css_released: only a group without tasks, children or an attach
\* in progress is removed, and no write to one of its files is running.
sched_offline_group(g) ==
    /\ g \in Online \ {Root} /\ Children(g) = {}
    /\ \A t \in Task : task[t].group # g
    /\ attach # NULL => attach.group # g
    /\ \A w \in Writer : tgset[w] # NULL => tgset[w].group # g
    /\ parent' = [parent EXCEPT ![g] = NULL]
    /\ rt' = [rt EXCEPT ![g] = [period |-> def_period, runtime |-> 0]]
    /\ cfs' = [cfs EXCEPT ![g] = [period |-> default_cfs_period, quota |-> RUNTIME_INF]]
    /\ transient' = transient \ {g}
    /\ UNCHANGED <<task, sysVars, tgset, attach, setsched, overtaken, writes>>

-----------------------------------------------------------------------------
\* Real-time bandwidth.

\* rt_constraints_mutex is held from the check to the store.
rt_constraints_free == \A w \in Writer : tgset[w] # NULL => tgset[w].pc = "check"

\* The value that is not written is read before the mutex is taken.
tg_set_rt_bandwidth(w, g, bw) ==
    /\ Write
    /\ Begin /\ tgset[w] = NULL /\ g \in Online
    /\ ~(g = Root /\ bw.runtime = 0) /\ bw.period # 0
    /\ tgset' = [tgset EXCEPT ![w] = [pc |-> "check", group |-> g, bw |-> bw, settled |-> TRUE]]
    /\ UNCHANGED <<groupVars, task, sysVars, attach, setsched, history>>

sched_group_set_rt_runtime(w, g, r) ==
    tg_set_rt_bandwidth(w, g, [period |-> rt[g].period, runtime |-> r])

sched_group_set_rt_period(w, g, p) ==
    tg_set_rt_bandwidth(w, g, [period |-> p, runtime |-> rt[g].runtime])

\* __rt_schedulable, under rt_constraints_mutex and tasklist_lock (read).
tg_set_rt_check(w) ==
    /\ tgset[w] # NULL /\ tgset[w].pc = "check" /\ rt_constraints_free
    /\ tgset' = [tgset EXCEPT ![w] =
          IF rt_schedulable(@.group, @.bw)
          THEN [pc |-> "store", group |-> @.group, bw |-> @.bw, settled |-> handler = NULL]
          ELSE NULL]
    /\ UNCHANGED <<groupVars, task, sysVars, attach, setsched, history, writes>>

\* ... and the new values, still under both locks.
tg_set_rt_store(w) ==
    /\ tgset[w] # NULL /\ tgset[w].pc = "store"
    /\ rt' = [rt EXCEPT ![tgset[w].group] = tgset[w].bw]
    /\ transient' = IF tgset[w].settled THEN transient \ {tgset[w].group}
                    ELSE transient \cup {tgset[w].group}
    /\ tgset' = [tgset EXCEPT ![w] = NULL]
    /\ UNCHANGED <<parent, cfs, task, sysVars, attach, setsched, overtaken, writes>>

\* sched_rt_handler: proc_dointvec has stored the new value before it is checked.
sched_rt_handler(new) ==
    /\ Write
    /\ Begin /\ handler = NULL /\ new # sysctl
    /\ new.period = sysctl.period \/ new.runtime = sysctl.runtime
    /\ handler' = sysctl
    /\ sysctl' = new
    /\ UNCHANGED <<groupVars, task, def_period, tgset, attach, setsched, history>>

sched_rt_global_validate ==
    /\ sysctl.period > 0
    /\ sysctl.runtime # RUNTIME_INF => sysctl.runtime <= sysctl.period

\* Faulty variant: the groups are not compared with the new limits.
sched_rt_handler_done_NoWalk ==
    /\ handler # NULL /\ rt_constraints_free
    /\ IF sched_rt_global_validate
       THEN def_period' = sysctl.period /\ transient' = {} /\ UNCHANGED sysctl
       ELSE sysctl' = handler /\ UNCHANGED <<def_period, transient>>
    /\ handler' = NULL
    /\ UNCHANGED <<groupVars, task, tgset, attach, setsched, overtaken, writes>>

\* sched_rt_global_constraints under rt_constraints_mutex, then sched_rt_do_global
\* or the old values again.
sched_rt_handler_done ==
    /\ handler # NULL
    /\ IF sched_rt_global_validate
       THEN /\ rt_constraints_free
            /\ IF rt_schedulable(NULL, NULL)
               THEN def_period' = sysctl.period /\ transient' = {} /\ UNCHANGED sysctl
               ELSE sysctl' = handler /\ UNCHANGED <<def_period, transient>>
       ELSE sysctl' = handler /\ UNCHANGED <<def_period, transient>>
    /\ handler' = NULL
    /\ UNCHANGED <<groupVars, task, tgset, attach, setsched, overtaken, writes>>

-----------------------------------------------------------------------------
\* Tasks.

\* The task's run queue lock is held from the check of __sched_setscheduler to
\* its effect.
Locked(t) == \E k \in Caller : setsched[k] # NULL /\ setsched[k].task = t /\ setsched[k].pc = "store"

\* The group is about to lose its runtime: its writer has passed the check.
Expiring(g) ==
    \E w \in Writer : /\ tgset[w] # NULL /\ tgset[w].pc = "store"
                      /\ tgset[w].group = g /\ tgset[w].bw.runtime = 0

\* Faulty variant: the group's runtime is not looked at.
sched_rt_can_attach_Any(t, g) == TRUE

sched_rt_can_attach(t, g) == task[t].rt => rt[g].runtime # 0

cpu_cgroup_can_attach(t, g) ==
    /\ Begin /\ attach = NULL /\ g \in Online /\ g # task[t].group
    /\ sched_rt_can_attach(t, g)
    /\ attach' = [task |-> t, group |-> g, rt |-> task[t].rt, seen |-> rt[g].runtime]
    /\ UNCHANGED <<groupVars, task, sysVars, tgset, setsched, history, writes>>

\* cpu_cgroup_attach: sched_move_task under the task's run queue lock.
cpu_cgroup_attach ==
    LET t == attach.task
        g == attach.group
    IN  /\ attach # NULL /\ ~Locked(t)
        /\ task' = [task EXCEPT ![t].group = g]
        /\ overtaken' = IF \/ attach.rt /\ attach.seen # 0 /\ rt[g].runtime = 0
                           \/ ~attach.rt /\ task[t].rt
                           \/ Expiring(g)
                        THEN overtaken \cup {t} ELSE overtaken \ {t}
        /\ attach' = NULL
        /\ UNCHANGED <<groupVars, sysVars, tgset, setsched, transient, writes>>

\* The parameter checks of __sched_setscheduler, without a lock.  policy is
\* "keep" for sched_setparam, which uses the policy the task has now.
SetschedChecks(k, t, policy, prio) ==
    LET isrt == IF policy = "keep" THEN task[t].rt ELSE policy = "rt" IN
    IF isrt = (prio # 0)
    THEN setsched' = [setsched EXCEPT ![k] = [pc |-> "lock", task |-> t, policy |-> policy,
                                              isrt |-> isrt, prio |-> prio, seen |-> FALSE]]
    ELSE setsched' = [setsched EXCEPT ![k] = NULL]

sched_setscheduler(k, t, policy, prio) ==
    /\ Begin /\ setsched[k] = NULL
    /\ SetschedChecks(k, t, policy, prio)
    /\ UNCHANGED <<groupVars, task, sysVars, tgset, attach, history, writes>>

\* The group had runtime, or needed none, when the lock was taken.
Seen(g) == rt[g].runtime # 0 \/ ~rt_bandwidth_enabled

\* Faulty variant: the policy is not compared again under the lock.
setscheduler_locked_NoRecheck(k) ==
    LET s == setsched[k]
        p == task[s.task]
    IN  /\ s # NULL /\ s.pc = "lock" /\ ~Locked(s.task)
        /\ setsched' = [setsched EXCEPT ![k] =
              IF \/ s.isrt = p.rt /\ s.prio = p.rt_priority
                 \/ rt_bandwidth_enabled /\ s.isrt /\ rt[p.group].runtime = 0
              THEN NULL ELSE [s EXCEPT !.pc = "store", !.seen = Seen(p.group)]]
        /\ UNCHANGED <<groupVars, task, sysVars, tgset, attach, history, writes>>

\* Under the run queue lock: nothing to change; or a group without runtime; or
\* the policy that was validated is no longer the task's; or go on.
setscheduler_locked(k) ==
    LET s == setsched[k]
        p == task[s.task]
    IN  /\ s # NULL /\ s.pc = "lock" /\ ~Locked(s.task)
        /\ setsched' = [setsched EXCEPT ![k] =
              IF s.isrt = p.rt /\ s.prio = p.rt_priority THEN NULL
              ELSE IF rt_bandwidth_enabled /\ s.isrt /\ rt[p.group].runtime = 0 THEN NULL
              ELSE [pc |-> IF s.policy = "keep" /\ s.isrt # p.rt THEN "recheck" ELSE "store",
                    task |-> s.task, policy |-> s.policy, isrt |-> s.isrt, prio |-> s.prio,
                    seen |-> Seen(p.group)]]
        /\ UNCHANGED <<groupVars, task, sysVars, tgset, attach, history, writes>>

\* goto recheck, with policy = -1.
setscheduler_recheck(k) ==
    /\ setsched[k] # NULL /\ setsched[k].pc = "recheck"
    /\ SetschedChecks(k, setsched[k].task, "keep", setsched[k].prio)
    /\ UNCHANGED <<groupVars, task, sysVars, tgset, attach, history, writes>>

\* __setscheduler, still under the lock: SETPARAM_POLICY keeps the policy.
setscheduler_store(k) ==
    LET s == setsched[k]
        t == s.task
        isrt == IF s.policy = "keep" THEN task[t].rt ELSE s.isrt
    IN  /\ s # NULL /\ s.pc = "store"
        /\ task' = [task EXCEPT ![t].rt = isrt, ![t].rt_priority = s.prio]
        /\ overtaken' = IF isrt /\ ((s.seen /\ ~Seen(task[t].group)) \/ Expiring(task[t].group))
                        THEN overtaken \cup {t} ELSE overtaken
        /\ setsched' = [setsched EXCEPT ![k] = NULL]
        /\ UNCHANGED <<groupVars, sysVars, tgset, attach, transient, writes>>

-----------------------------------------------------------------------------
\* CFS bandwidth.

normalize_cfs_quota(b) ==
    IF b.quota = RUNTIME_INF THEN RUNTIME_INF ELSE to_ratio(b.period, b.quota)

\* The limits that __cfs_schedulable walks: bw in place of the settings of g, and
\* none for the root.
CfsProposed(g, bw) ==
    [h \in Group |-> IF h = Root THEN RUNTIME_INF ELSE normalize_cfs_quota(IF h = g THEN bw ELSE cfs[h])]

\* Faulty variant: a group is compared with its parent's own limit, not with the
\* one that an unlimited parent inherits.
cfs_schedulable_NoInherit(g, bw) ==
    LET q == CfsProposed(g, bw) IN
    \A h \in Online \ {Root} :
        q[h] = RUNTIME_INF \/ q[parent[h]] = RUNTIME_INF \/ q[h] <= q[parent[h]]

\* __cfs_schedulable: tg_cfs_schedulable_down from the root to the leaves.  A
\* group without a limit of its own inherits hierarchical_quota, which every
\* walk writes before it reads it.
cfs_schedulable(g, bw) ==
    LET q == CfsProposed(g, bw)
        hierarchical_quota[h \in Online] ==
            IF h # Root /\ q[h] = RUNTIME_INF THEN hierarchical_quota[parent[h]] ELSE q[h]
    IN  \A h \in Online \ {Root} :
            LET above == hierarchical_quota[parent[h]]
            IN  q[h] = RUNTIME_INF \/ above = RUNTIME_INF \/ q[h] <= above

\* tg_set_cfs_bandwidth, under cfs_constraints_mutex.
tg_set_cfs_bandwidth(g, bw) ==
    /\ Write
    /\ g \in Online \ {Root}
    /\ cfs_schedulable(g, bw)
    /\ cfs' = [cfs EXCEPT ![g] = bw]
    /\ UNCHANGED <<parent, rt, task, sysVars, tgset, attach, setsched, history>>

tg_set_cfs_quota(g, q) ==
    tg_set_cfs_bandwidth(g, [period |-> cfs[g].period, quota |-> q])

tg_set_cfs_period(g, p) ==
    tg_set_cfs_bandwidth(g, [period |-> p, quota |-> cfs[g].quota])

-----------------------------------------------------------------------------
Next ==
    \/ \E g, p \in Group : sched_create_group(g, p)
    \/ \E g \in Group : sched_offline_group(g)
    \/ \E w \in Writer, g \in Group :
          \/ \E r \in Runtimes : sched_group_set_rt_runtime(w, g, r)
          \/ \E p \in Period : sched_group_set_rt_period(w, g, p)
    \/ \E w \in Writer : tg_set_rt_check(w) \/ tg_set_rt_store(w)
    \/ \E p \in Period \cup {0}, r \in Runtimes : sched_rt_handler([period |-> p, runtime |-> r])
    \/ sched_rt_handler_done
    \/ \E t \in Task, g \in Group : cpu_cgroup_can_attach(t, g)
    \/ cpu_cgroup_attach
    \/ \E k \in Caller, t \in Task, policy \in {"keep", "normal", "rt"}, prio \in {0, 1} :
          sched_setscheduler(k, t, policy, prio)
    \/ \E k \in Caller :
          setscheduler_locked(k) \/ setscheduler_recheck(k) \/ setscheduler_store(k)
    \/ \E g \in Group :
          \/ \E q \in Quota \cup {RUNTIME_INF} : tg_set_cfs_quota(g, q)
          \/ \E p \in CfsPeriod : tg_set_cfs_period(g, p)

Spec == Init /\ [][Next]_vars

-----------------------------------------------------------------------------
\* Type correctness of the hierarchy and of the four kinds of callers.
TypeOK ==
    /\ parent \in [Group -> Group \cup {NULL}] /\ parent[Root] = NULL
    /\ rt \in [Group -> Bandwidth]
    /\ cfs \in [Group -> [period : CfsPeriod, quota : Quota \cup {RUNTIME_INF}]]
    /\ task \in [Task -> [rt : BOOLEAN, rt_priority : {0, 1}, group : Online]]
    /\ sysctl \in [period : Period \cup {0}, runtime : Runtimes]
    /\ def_period \in Period
    /\ handler \in Bandwidth \cup {NULL}
    /\ tgset \in [Writer -> {NULL} \cup [pc : {"check", "store"}, group : Online, bw : Bandwidth,
                                         settled : BOOLEAN]]
    /\ attach \in {NULL} \cup [task : Task, group : Online, rt : BOOLEAN, seen : Runtimes]
    /\ setsched \in [Caller -> {NULL} \cup
          [pc : {"lock", "recheck", "store"}, task : Task, policy : {"keep", "normal", "rt"},
           isrt : BOOLEAN, prio : {0, 1}, seen : BOOLEAN]]
    /\ overtaken \subseteq Task /\ transient \subseteq Online
    /\ writes \in 0 .. MaxWrites

\* tg_rt_schedulable, "The sum of our children's runtime should not exceed our
\* own": after any sequence of writes to the groups' files and to the sysctls,
\* by any number of writers, no group promises its children more real-time
\* bandwidth than it has itself.
ChildrenWithinParent ==
    \A g \in Online : RatioSum(rt, Children(g)) <= Ratio(rt[g])

\* tg_rt_schedulable, "Nobody can have more than the global setting allows".
\* The one way around it: the sysctl handler stores its value before it checks
\* it and restores the old one without rt_constraints_mutex, so a group can be
\* admitted against a limit that is then withdrawn.
NobodyAboveGlobal ==
    handler = NULL => \A g \in Online \ transient : Ratio(rt[g]) <= global_ratio

\* __sched_setscheduler, "Do not allow realtime tasks into groups that have no
\* runtime assigned", and sched_rt_can_attach: while real-time bandwidth is
\* enforced, a real-time task sits in a group without runtime only if the
\* runtime was withdrawn between the check that let it in and its arrival.
RtTaskHasRuntime ==
    handler = NULL /\ rt_bandwidth_enabled =>
        \A t \in Task : task[t].rt /\ rt[task[t].group].runtime = 0 => t \in overtaken

\* __sched_setscheduler validates the priority against a policy it reads without
\* a lock and re-reads under it: no interleaving of sched_setscheduler and
\* sched_setparam leaves a real-time task with priority 0 or another with one.
PrioMatchesPolicy == \A t \in Task : task[t].rt <=> task[t].rt_priority # 0

\* The groups above g: all that a set must hold to hold the parents of g and of
\* its own members.
Ancestors(g) ==
    {a \in Online : \A S \in SUBSET Online :
        (\A h \in S \cup {g} : parent[h] # NULL => parent[h] \in S) => a \in S}

\* tg_cfs_schedulable_down, "Ensure max(child_quota) <= parent_quota", on
\* cgroup1: a group with a CFS limit stays within the limit of every ancestor,
\* the ones above an unlimited group included, in whatever order the limits
\* were set.
QuotaWithinAncestors ==
    \A g \in Online : cfs[g].quota # RUNTIME_INF =>
        \A a \in Ancestors(g) :
            \/ cfs[a].quota = RUNTIME_INF
            \/ to_ratio(cfs[g].period, cfs[g].quota) <= to_ratio(cfs[a].period, cfs[a].quota)
=============================================================================
