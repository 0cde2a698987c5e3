---------------------------- MODULE GroupProofs ----------------------------
(***************************************************************************)
(* Proofs about the task groups: the settings of the tree stay consistent, *)
(* for any tree, and any number of writers, callers and tasks.             *)
(***************************************************************************)
EXTENDS TaskGroups, FoldLemmas

-----------------------------------------------------------------------------
\* The inductive invariant, in five parts.

\* A group that is not online has no children; only a sysctl write in progress
\* can hold a period of 0, and it changes one of the two values.
TreeInv ==
    /\ TypeOK
    /\ \A h \in Group : parent[h] # NULL => parent[h] \in Online
    /\ handler = NULL => sysctl.period \in Period
    /\ handler # NULL => handler.period = sysctl.period \/ handler.runtime = sysctl.runtime

\* A caller's priority fits the policy it validated.
Valid(s) == s.isrt <=> s.prio # 0

\* Caller k holds the run queue lock of its task.
Holds(k) == setsched[k] # NULL /\ setsched[k].pc = "store"

\* The holder is going to leave the policy it validated: its own, or the one
\* the task still has.  It found a group with runtime, or needed none.
CallerInv ==
    /\ \A k \in Caller : setsched[k] # NULL /\ setsched[k].pc \in {"lock", "store"} =>
          Valid(setsched[k])
    /\ \A k \in Caller : Holds(k) /\ setsched[k].policy = "keep" =>
          (task[setsched[k].task].rt <=> setsched[k].isrt)
    /\ \A k \in Caller : Holds(k) /\ setsched[k].isrt => setsched[k].seen
    /\ \A j, k \in Caller : Holds(j) /\ Holds(k) /\ setsched[j].task = setsched[k].task => j = k
    /\ PrioMatchesPolicy

\* Writer w holds rt_constraints_mutex, its check behind it.
Storing(w) == tgset[w] # NULL /\ tgset[w].pc = "store"

\* The settings b are fit for the tree.
Fit(b) == \A h \in Online : b[h].runtime <= b[h].period
                            /\ RatioSum(b, Children(h)) <= Ratio(b[h])

\* The settings are fit for the tree, and will be once the writer has stored its own.
WriterInv ==
    /\ \A v, w \in Writer : Storing(v) /\ Storing(w) => v = w
    /\ Fit(rt)
    /\ \A w \in Writer : Storing(w) => Fit(Proposed(tgset[w].group, tgset[w].bw))

\* The global limit that a rejected sysctl write falls back to.
Limit(s) == to_ratio(s.period, IF s.runtime < 0 THEN RUNTIME_INF ELSE s.runtime)
Settled == IF handler = NULL THEN sysctl ELSE handler

GlobalInv ==
    /\ \A g \in Online \ transient : Ratio(rt[g]) <= Limit(Settled)
    /\ \A w \in Writer : Storing(w) /\ tgset[w].settled => Ratio(tgset[w].bw) <= Limit(Settled)

\* Bandwidth is enforced, and was before the sysctl write that is in progress.
Enforced == sysctl.runtime >= 0 /\ (handler # NULL => handler.runtime >= 0)

RuntimeInv ==
    /\ Enforced => \A t \in Task : task[t].rt /\ rt[task[t].group].runtime = 0 => t \in overtaken
    /\ Enforced => \A w \in Writer : Storing(w) /\ tgset[w].bw.runtime = 0 =>
          \A t \in Task : task[t].rt /\ task[t].group = tgset[w].group => t \in overtaken
    /\ attach # NULL /\ attach.rt => attach.seen # 0

IInv == TreeInv /\ CallerInv /\ WriterInv /\ GlobalInv /\ RuntimeInv

-----------------------------------------------------------------------------
(* Ratios and their sums *)

\* Fit, with the tree as a parameter.
FitIn(par, b) ==
    \A h \in Group : h = Root \/ par[h] # NULL =>
        /\ b[h].runtime <= b[h].period
        /\ RatioSum(b, {k \in Group : par[k] = h}) <= Ratio(b[h])

\* to_ratio's quotient, for runtimes that are not RUNTIME_INF.
LEMMA DivBounds ==
    ASSUME NEW r \in Nat, NEW p \in Nat \ {0}
    PROVE  /\ (r * BW_UNIT) \div p \in Nat
           /\ r = 0 => (r * BW_UNIT) \div p = 0
           /\ r <= p => (r * BW_UNIT) \div p <= BW_UNIT
<1>1. (r * BW_UNIT) \div p \in Nat
  BY SMT DEF BW_UNIT
<1>2. r = 0 => (r * BW_UNIT) \div p = 0
  BY SMT DEF BW_UNIT
<1>3. r <= p => (r * BW_UNIT) \div p <= BW_UNIT
  BY SMT DEF BW_UNIT
<1> QED BY <1>1, <1>2, <1>3, Zenon

\* The fields of a setting.
LEMMA BandwidthType ==
    ASSUME NEW b \in Bandwidth
    PROVE  /\ b.period \in Nat \ {0} /\ b.period \in Period
           /\ b.runtime \in Nat \/ b.runtime = RUNTIME_INF
           /\ b.runtime \in Int /\ b.runtime \in Runtimes
<1>1. b.period \in Period /\ b.runtime \in Runtimes
  BY Zenon DEF Bandwidth
<1>2. b.period \in Nat \ {0} /\ (b.runtime \in Nat \/ b.runtime = RUNTIME_INF)
  BY <1>1, GroupAssumption, Zenon DEF Runtimes
<1>3. b.runtime \in Int
  BY <1>2, SMT DEF RUNTIME_INF
<1> QED BY <1>1, <1>2, <1>3, Zenon

\* The ratio of a setting: 0 without runtime, at most 1 when the runtime fits the period.
LEMMA RatioBounds ==
    ASSUME NEW b \in Bandwidth
    PROVE  /\ Ratio(b) \in Nat
           /\ b.runtime = 0 => Ratio(b) = 0
           /\ b.runtime <= b.period => Ratio(b) <= BW_UNIT
<1>1. b.period \in Nat \ {0} /\ (b.runtime \in Nat \/ b.runtime = RUNTIME_INF)
  BY BandwidthType, Zenon
<1>2. CASE b.runtime = RUNTIME_INF
  BY <1>2 DEF Ratio, to_ratio, BW_UNIT, RUNTIME_INF
<1>3. CASE b.runtime \in Nat
  <2>1. b.runtime # RUNTIME_INF /\ b.period # 0
    BY <1>1, <1>3, SMT DEF RUNTIME_INF
  <2>2. Ratio(b) = (b.runtime * BW_UNIT) \div b.period
    BY <2>1, Zenon DEF Ratio, to_ratio
  <2> QED BY <1>1, <1>3, <2>2, DivBounds, Zenon
<1> QED BY <1>1, <1>2, <1>3, Zenon

\* The global limit, as to_ratio computes it; no limit is the whole CPU.
LEMMA LimitBounds ==
    ASSUME NEW s \in [period : Period \cup {0}, runtime : Runtimes]
    PROVE  Limit(s) \in Nat /\ (s.runtime = RUNTIME_INF => Limit(s) = BW_UNIT)
<1>1. s.period \in Nat /\ (s.runtime \in Nat \/ s.runtime = RUNTIME_INF)
  <2>1. s.period \in Period \cup {0} /\ s.runtime \in Runtimes
    BY Zenon
  <2>2. s.period \in Nat \/ s.period = 0
    BY <2>1, GroupAssumption, Zenon
  <2>3. s.period \in Nat
    BY <2>2, SMT
  <2> QED BY <2>1, <2>3, GroupAssumption, Zenon DEF Runtimes
<1>2. CASE s.runtime = RUNTIME_INF
  BY <1>2 DEF Limit, to_ratio, BW_UNIT, RUNTIME_INF
<1>3. CASE s.runtime \in Nat
  <2>1. s.runtime # RUNTIME_INF /\ ~(s.runtime < 0)
    BY <1>1, <1>3, SMT DEF RUNTIME_INF
  <2>2. CASE s.period = 0
    BY <2>1, <2>2 DEF Limit, to_ratio
  <2>3. CASE s.period # 0
    <3>1. Limit(s) = (s.runtime * BW_UNIT) \div s.period
      BY <2>1, <2>3, Zenon DEF Limit, to_ratio
    <3>2. s.period \in Nat \ {0}
      BY <1>1, <2>3, Zenon
    <3> QED BY <1>3, <2>1, <3>1, <3>2, DivBounds, Zenon
  <2> QED BY <2>2, <2>3, Zenon
<1> QED BY <1>1, <1>2, <1>3, Zenon

\* The sum of ratios over sets of groups.
LEMMA RatioSumFacts ==
    ASSUME NEW b \in [Group -> Bandwidth], NEW S \in SUBSET Group
    PROVE  /\ RatioSum(b, S) \in Int
           /\ S = {} => RatioSum(b, S) = 0
           /\ \A x \in S : RatioSum(b, S) = Ratio(b[x]) + RatioSum(b, S \ {x})
           /\ \A c \in [Group -> Bandwidth] :
                 (\A x \in S : b[x] = c[x]) => RatioSum(b, S) = RatioSum(c, S)
<1> DEFINE f == [h \in Group |-> Ratio(b[h])]
<1>1. IsFiniteSet(Group)
  BY GroupAssumption, Zenon
<1>2. ASSUME NEW c \in [Group -> Bandwidth]
      PROVE  [h \in Group |-> Ratio(c[h])] \in [Group -> Int]
  <2>1. \A h \in Group : c[h] \in Bandwidth
    BY Zenon
  <2>2. \A h \in Group : Ratio(c[h]) \in Nat
    BY <2>1, RatioBounds, Zenon
  <2>3. \A h \in Group : Ratio(c[h]) \in Int
    BY <2>2, SMT
  <2> QED BY <2>3, Zenon
<1>3. f \in [Group -> Int]
  BY <1>2, Zenon
<1>4. RatioSum(b, S) = SumFunctionOnSet(f, S)
  BY Zenon DEF RatioSum
<1>5. RatioSum(b, S) \in Int /\ (S = {} => RatioSum(b, S) = 0)
  <2> HIDE DEF f
  <2>1. SumFunctionOnSet(f, S) \in Int /\ (S = {} => SumFunctionOnSet(f, S) = 0)
    BY <1>1, <1>3, SumPick
  <2> QED BY <1>4, <2>1, Zenon
<1>6. ASSUME NEW x \in S PROVE RatioSum(b, S) = Ratio(b[x]) + RatioSum(b, S \ {x})
  <2>1. f[x] = Ratio(b[x]) /\ RatioSum(b, S \ {x}) = SumFunctionOnSet(f, S \ {x})
    BY Zenon DEF RatioSum
  <2> HIDE DEF f
  <2>2. SumFunctionOnSet(f, S) = f[x] + SumFunctionOnSet(f, S \ {x})
    BY <1>1, <1>3, SumAdd
  <2> QED BY <1>4, <2>1, <2>2, Zenon
<1>7. ASSUME NEW c \in [Group -> Bandwidth], \A x \in S : b[x] = c[x]
      PROVE  RatioSum(b, S) = RatioSum(c, S)
  <2> DEFINE g == [h \in Group |-> Ratio(c[h])]
  <2>1. g \in [Group -> Int]
    BY <1>2, Zenon
  <2>2. \A x \in S : f[x] = g[x]
    BY <1>7, Zenon
  <2>3. RatioSum(c, S) = SumFunctionOnSet(g, S)
    BY Zenon DEF RatioSum
  <2> HIDE DEF f, g
  <2>4. SumFunctionOnSet(f, S) = SumFunctionOnSet(g, S)
    BY <1>1, <1>3, <2>1, <2>2, SumCongruent
  <2> QED BY <1>4, <2>3, <2>4, Zenon
<1> QED BY <1>5, <1>6, <1>7, Zenon

\* A new group, childless and without runtime, fits below any other.
LEMMA FitCreate ==
    ASSUME NEW par \in [Group -> Group \cup {NULL}], NEW b \in [Group -> Bandwidth], FitIn(par, b),
           NEW g \in Group, NEW p \in Group, g # Root, par[g] = NULL,
           \A h \in Group : par[h] # g,
           NEW new \in Bandwidth, new.runtime = 0, p # g
    PROVE  FitIn([par EXCEPT ![g] = p], [b EXCEPT ![g] = new])
<1> DEFINE q == [par EXCEPT ![g] = p]
           c == [b EXCEPT ![g] = new]
           Below(t, h) == {k \in Group : t[k] = h}
<1>1. c \in [Group -> Bandwidth] /\ c[g] = new /\ \A h \in Group : h # g => c[h] = b[h]
  BY Zenon
<1>2. q \in [Group -> Group \cup {NULL}] /\ q[g] = p /\ \A h \in Group : h # g => q[h] = par[h]
  BY Zenon
<1>3. NULL \notin Group
  BY GroupAssumption, Zenon
<1> SUFFICES ASSUME NEW h \in Group, h = Root \/ q[h] # NULL
             PROVE  /\ c[h].runtime <= c[h].period
                    /\ RatioSum(c, Below(q, h)) <= Ratio(c[h])
  BY Zenon DEF FitIn
<1>4. CASE h = g
  <2>1. Below(q, h) = {}
    BY <1>2, <1>4, Zenon
  <2>2. RatioSum(c, Below(q, h)) = 0
    <3>1. {} \in SUBSET Group
      BY Zenon
    <3> QED BY <1>1, <2>1, <3>1, RatioSumFacts, Zenon
  <2>3. c[h] = new /\ Ratio(new) = 0
    BY <1>1, <1>4, RatioBounds, Zenon
  <2>4. 0 <= new.period
    BY BandwidthType, SMT
  <2>5. 0 <= 0
    BY SMT
  <2> QED BY <2>2, <2>3, <2>4, <2>5, Zenon
<1>5. CASE h # g
  <2>1. h = Root \/ par[h] # NULL
    BY <1>2, <1>5, Zenon
  <2>2. c[h] = b[h] /\ b[h] \in Bandwidth
    BY <1>1, <1>5, Zenon
  <2>3. b[h].runtime <= b[h].period /\ RatioSum(b, Below(par, h)) <= Ratio(b[h])
    BY <2>1, Zenon DEF FitIn
  <2>4. g \notin Below(par, h) /\ Below(par, h) \in SUBSET Group
    BY <1>3, Zenon
  <2>5. RatioSum(c, Below(par, h)) = RatioSum(b, Below(par, h))
    <3>1. \A x \in Below(par, h) : c[x] = b[x]
      BY <1>1, <2>4, Zenon
    <3> HIDE DEF c, Below
    <3> QED BY <1>1, <2>4, <3>1, RatioSumFacts, Zenon
  <2>6. RatioSum(c, Below(q, h)) = RatioSum(c, Below(par, h))
    <3>1. CASE h # p
      <4>1. Below(q, h) = Below(par, h)
        BY <1>2, <1>3, <3>1, Zenon
      <4> QED BY <4>1, Zenon
    <3>2. CASE h = p
      <4>1. g \in Below(q, h) /\ Below(q, h) \ {g} = Below(par, h) /\ Below(q, h) \in SUBSET Group
        BY <1>2, <1>3, <3>2, Zenon
      <4>2. Ratio(c[g]) = 0
        BY <1>1, RatioBounds, Zenon
      <4> HIDE DEF Below, c
      <4>3. RatioSum(c, Below(q, h)) = Ratio(c[g]) + RatioSum(c, Below(q, h) \ {g})
        BY <1>1, <4>1, RatioSumFacts, Zenon
      <4>4. RatioSum(c, Below(par, h)) \in Int
        BY <1>1, <2>4, RatioSumFacts, Zenon
      <4>5. RatioSum(c, Below(q, h)) = 0 + RatioSum(c, Below(par, h))
        BY <4>1, <4>2, <4>3, Zenon
      <4> QED BY <4>4, <4>5, SMT
    <3> QED BY <3>1, <3>2, Zenon
  <2> QED BY <2>2, <2>3, <2>5, <2>6, Zenon
<1> QED BY <1>4, <1>5, Zenon

\* A childless group that goes leaves more to its parent.
LEMMA FitOffline ==
    ASSUME NEW par \in [Group -> Group \cup {NULL}], NEW b \in [Group -> Bandwidth], FitIn(par, b),
           NEW g \in Group, g # Root, NEW new \in Bandwidth
    PROVE  FitIn([par EXCEPT ![g] = NULL], [b EXCEPT ![g] = new])
<1> DEFINE q == [par EXCEPT ![g] = NULL]
           c == [b EXCEPT ![g] = new]
           Below(t, h) == {k \in Group : t[k] = h}
<1>1. c \in [Group -> Bandwidth] /\ c[g] = new /\ \A h \in Group : h # g => c[h] = b[h]
  BY Zenon
<1>2. q \in [Group -> Group \cup {NULL}] /\ q[g] = NULL /\ \A h \in Group : h # g => q[h] = par[h]
  BY Zenon
<1>3. NULL \notin Group
  BY GroupAssumption, Zenon
<1> SUFFICES ASSUME NEW h \in Group, h = Root \/ q[h] # NULL
             PROVE  /\ c[h].runtime <= c[h].period
                    /\ RatioSum(c, Below(q, h)) <= Ratio(c[h])
  BY Zenon DEF FitIn
<1>4. h # g /\ (h = Root \/ par[h] # NULL) /\ c[h] = b[h] /\ b[h] \in Bandwidth
  BY <1>1, <1>2, Zenon
<1>5. b[h].runtime <= b[h].period /\ RatioSum(b, Below(par, h)) <= Ratio(b[h])
  BY <1>4, Zenon DEF FitIn
<1>6. /\ Below(q, h) = Below(par, h) \ {g}
      /\ Below(q, h) \in SUBSET Group /\ Below(par, h) \in SUBSET Group
  BY <1>2, <1>3, Zenon
<1>7. RatioSum(c, Below(q, h)) = RatioSum(b, Below(q, h))
  <2>1. \A x \in Below(q, h) : c[x] = b[x]
    BY <1>1, <1>6, Zenon
  <2> HIDE DEF c, Below
  <2> QED BY <1>1, <1>6, <2>1, RatioSumFacts, Zenon
<1>8. RatioSum(b, Below(q, h)) <= Ratio(b[h])
  <2>1. RatioSum(b, Below(q, h)) \in Int /\ RatioSum(b, Below(par, h)) \in Int
    <3> HIDE DEF Below
    <3> QED BY <1>6, RatioSumFacts, Zenon
  <2>2. Ratio(b[g]) \in Nat /\ Ratio(b[h]) \in Nat
    BY RatioBounds, Zenon
  <2>3. CASE g \in Below(par, h)
    <3> HIDE DEF Below
    <3>1. RatioSum(b, Below(par, h)) = Ratio(b[g]) + RatioSum(b, Below(q, h))
      <4>1. RatioSum(b, Below(par, h)) = Ratio(b[g]) + RatioSum(b, Below(par, h) \ {g})
        BY <1>6, <2>3, RatioSumFacts
      <4> QED BY <1>6, <4>1, Zenon
    <3> QED BY <1>5, <2>1, <2>2, <3>1, SMT
  <2>4. CASE g \notin Below(par, h)
    <3>1. Below(q, h) = Below(par, h)
      BY <1>6, <2>4, Zenon
    <3> QED BY <1>5, <3>1, Zenon
  <2> QED BY <2>3, <2>4, Zenon
<1> QED BY <1>4, <1>5, <1>7, <1>8, Zenon

-----------------------------------------------------------------------------
(* Types, and what an action leaves alone *)

TaskRec == [rt : BOOLEAN, rt_priority : {0, 1}, group : Online]
WriterRec == [pc : {"check", "store"}, group : Online, bw : Bandwidth, settled : BOOLEAN]
AttachRec == [task : Task, group : Online, rt : BOOLEAN, seen : Runtimes]
CallRec == [pc : {"lock", "recheck", "store"}, task : Task, policy : {"keep", "normal", "rt"},
            isrt : BOOLEAN, prio : {0, 1}, seen : BOOLEAN]
CfsRec == [period : CfsPeriod, quota : Quota \cup {RUNTIME_INF}]
SysRec == [period : Period \cup {0}, runtime : Runtimes]

\* The conjuncts of TypeOK, by name.
TreeTypes ==
    /\ parent \in [Group -> Group \cup {NULL}] /\ parent[Root] = NULL
    /\ \A h \in Group : parent[h] # NULL => parent[h] \in Online
GroupTypes == rt \in [Group -> Bandwidth] /\ cfs \in [Group -> CfsRec] /\ transient \subseteq Online
SysTypes ==
    /\ sysctl \in SysRec /\ def_period \in Period /\ handler \in Bandwidth \cup {NULL}
    /\ handler = NULL => sysctl.period \in Period
    /\ handler # NULL => handler.period = sysctl.period \/ handler.runtime = sysctl.runtime
TaskTypes == task \in [Task -> TaskRec] /\ attach \in {NULL} \cup AttachRec /\ overtaken \subseteq Task
WriterTypes == tgset \in [Writer -> {NULL} \cup WriterRec]
CallTypes == setsched \in [Caller -> {NULL} \cup CallRec]

\* TreeInv is its conjuncts by name.
LEMMA TreeInvSplit ==
    TreeInv <=> /\ TreeTypes /\ GroupTypes /\ SysTypes /\ TaskTypes /\ WriterTypes /\ CallTypes
                /\ writes \in 0 .. MaxWrites
BY Zenon DEF TreeInv, TypeOK, TreeTypes, GroupTypes, SysTypes, TaskTypes, WriterTypes, CallTypes,
             TaskRec, WriterRec, AttachRec, CallRec, CfsRec, SysRec

\* The groups online, when no group comes or goes.
LEMMA OnlineKept == ASSUME parent' = parent PROVE Online' = Online
BY Zenon DEF Online

\* What an action leaves alone keeps its type.
LEMMA TypesKept ==
    ASSUME TreeInv, parent' = parent
    PROVE  /\ TreeTypes'
           /\ UNCHANGED <<rt, cfs, transient>> => GroupTypes'
           /\ UNCHANGED sysVars => SysTypes'
           /\ UNCHANGED <<task, attach, overtaken>> => TaskTypes'
           /\ UNCHANGED tgset => WriterTypes'
           /\ UNCHANGED setsched => CallTypes'
           /\ UNCHANGED writes => (writes \in 0 .. MaxWrites)'
<1>1. Online' = Online
  BY OnlineKept, Zenon
<1>2. TreeTypes'
  BY <1>1, TreeInvSplit, Zenon DEF TreeTypes
<1>3. UNCHANGED <<rt, cfs, transient>> => GroupTypes'
  BY <1>1, TreeInvSplit, Zenon DEF GroupTypes, CfsRec
<1>4. UNCHANGED sysVars => SysTypes'
  BY TreeInvSplit, Zenon DEF SysTypes, SysRec, sysVars
<1>5. UNCHANGED <<task, attach, overtaken>> => TaskTypes'
  BY <1>1, TreeInvSplit, Zenon DEF TaskTypes, TaskRec, AttachRec
<1>6. UNCHANGED tgset => WriterTypes'
  BY <1>1, TreeInvSplit, Zenon DEF WriterTypes, WriterRec
<1>7. UNCHANGED setsched => CallTypes'
  BY TreeInvSplit, Zenon DEF CallTypes, CallRec
<1>8. UNCHANGED writes => (writes \in 0 .. MaxWrites)'
  BY TreeInvSplit, Zenon
<1> QED BY <1>2, <1>3, <1>4, <1>5, <1>6, <1>7, <1>8, Zenon

\* A write is counted.
LEMMA WriteCounts == ASSUME TreeInv, Write PROVE (writes \in 0 .. MaxWrites)'
<1>1. writes \in 0 .. MaxWrites /\ writes < MaxWrites /\ writes' = writes + 1
  BY TreeInvSplit, Zenon DEF Write
<1>2. MaxWrites \in Nat
  BY GroupAssumption, Zenon
<1> QED BY <1>1, <1>2, SMT

\* CallerInv reads the tasks and the callers.
LEMMA CallerKept ==
    ASSUME CallerInv, UNCHANGED <<task, setsched>>
    PROVE  CallerInv'
BY Zenon DEF CallerInv, Valid, Holds, PrioMatchesPolicy

\* WriterInv reads the tree, the settings and the writers.
LEMMA WriterKept ==
    ASSUME WriterInv, UNCHANGED <<parent, rt, tgset>>
    PROVE  WriterInv'
<1>1. Online' = Online
  BY OnlineKept, Zenon
<1>2. \A h : Children(h)' = Children(h)
  BY Zenon DEF Children
<1>3. Fit(rt)'
  BY <1>1, <1>2, Zenon DEF WriterInv, Fit
<1>4. \A g, bw : Proposed(g, bw)' = Proposed(g, bw)
  BY Zenon DEF Proposed
<1>5. \A w \in Writer : Storing(w)' => Fit(Proposed(tgset[w].group, tgset[w].bw))'
  BY <1>1, <1>2, <1>4, Zenon DEF WriterInv, Fit, Storing
<1> QED BY <1>3, <1>5, Zenon DEF WriterInv, Storing

\* GlobalInv reads the settings, the writers and the sysctls.
LEMMA GlobalKept ==
    ASSUME GlobalInv, UNCHANGED <<parent, rt, tgset, transient, sysctl, handler>>
    PROVE  GlobalInv'
<1>1. Online' = Online
  BY OnlineKept, Zenon
<1> QED BY <1>1, Zenon DEF GlobalInv, Storing, Settled

\* RuntimeInv reads the settings, the tasks, the sysctls, the writers and the attach.
LEMMA RuntimeKept ==
    ASSUME RuntimeInv, UNCHANGED <<rt, task, sysctl, handler, tgset, attach, overtaken>>
    PROVE  RuntimeInv'
BY Zenon DEF RuntimeInv, Enforced, Storing

-----------------------------------------------------------------------------
(* The tree *)

\* Fit, with the tree as a parameter.
LEMMA FitIsFitIn == \A b : Fit(b) <=> FitIn(parent, b)
BY Zenon DEF Fit, FitIn, Online, Children

\* A writer's proposal is a setting of an online group.
LEMMA ProposedType ==
    ASSUME TreeInv, NEW w \in Writer, tgset[w] # NULL
    PROVE  /\ tgset[w] \in WriterRec
           /\ tgset[w].group \in Online /\ tgset[w].group \in Group /\ tgset[w].bw \in Bandwidth
           /\ Proposed(tgset[w].group, tgset[w].bw) \in [Group -> Bandwidth]
<1>1. tgset[w] \in WriterRec
  BY TreeInvSplit, Zenon DEF WriterTypes
<1>2. tgset[w].group \in Online /\ tgset[w].bw \in Bandwidth
  BY <1>1, Zenon DEF WriterRec
<1>3. tgset[w].group \in Group
  BY <1>2, Zenon DEF Online
<1>4. rt \in [Group -> Bandwidth]
  BY TreeInvSplit, Zenon DEF GroupTypes
<1>5. Proposed(tgset[w].group, tgset[w].bw) \in [Group -> Bandwidth]
  BY <1>2, <1>4, Zenon DEF Proposed
<1> QED BY <1>1, <1>2, <1>3, <1>5, Zenon

\* A childless group that nobody is using comes or goes, with no runtime.
LEMMA GroupStep ==
    ASSUME IInv, NEW g \in Group, g # Root, NEW new \in Bandwidth, new.runtime = 0,
           NEW c \in CfsRec,
           rt' = [rt EXCEPT ![g] = new], cfs' = [cfs EXCEPT ![g] = c],
           transient' = transient \ {g}, (writes \in 0 .. MaxWrites)',
           UNCHANGED <<task, sysVars, tgset, attach, setsched, overtaken>>,
           parent' \in [Group -> Group \cup {NULL}],
           parent'[g] = NULL \/ parent'[g] \in Online \ {g},
           \A h \in Group : h # g => parent'[h] = parent[h],
           \A h \in Group : parent[h] # g,
           \A t \in Task : task[t].group # g,
           attach # NULL => attach.group # g,
           \A w \in Writer : tgset[w] # NULL => tgset[w].group # g,
           \A b \in [Group -> Bandwidth] :
               FitIn(parent, b) => FitIn(parent', [b EXCEPT ![g] = new])
    PROVE  IInv'
<1>1. TreeInv /\ CallerInv /\ WriterInv /\ GlobalInv /\ RuntimeInv
  BY Zenon DEF IInv
<1>2. TreeTypes /\ GroupTypes /\ SysTypes /\ TaskTypes /\ WriterTypes /\ CallTypes
  BY <1>1, TreeInvSplit, Zenon
<1>3. \A h \in Group : h # g => (h \in Online' <=> h \in Online)
  BY Zenon DEF Online
<1>4. Root \in Group /\ NULL \notin Group /\ Root \in Online' /\ Online \subseteq Group
  BY GroupAssumption, Zenon DEF Online
<1>5. rt \in [Group -> Bandwidth] /\ rt'[g] = new /\ \A h \in Group : h # g => rt'[h] = rt[h]
  BY <1>2, Zenon DEF GroupTypes
<1>6. TreeInv'
  <2>1. TreeTypes'
    BY <1>2, <1>3, <1>4, Zenon DEF TreeTypes
  <2>2. GroupTypes'
    <3>1. rt' \in [Group -> Bandwidth]
      BY <1>5, Zenon
    <3>2. cfs' \in [Group -> CfsRec']
      BY <1>2, Zenon DEF GroupTypes, CfsRec
    <3>3. transient' \subseteq Online'
      BY <1>2, <1>3, <1>4, Zenon DEF GroupTypes
    <3> QED BY <3>1, <3>2, <3>3, Zenon DEF GroupTypes
  <2>3. SysTypes'
    BY <1>2, Zenon DEF SysTypes, SysRec, sysVars
  <2>4. TaskTypes'
    <3>1. \A t \in Task : task[t] \in TaskRec /\ task[t].group \in Online'
      <4>1. \A t \in Task : task[t] \in TaskRec /\ task[t].group \in Online
        BY <1>2, Zenon DEF TaskTypes, TaskRec
      <4> QED BY <1>3, <1>4, <4>1, Zenon
    <3>2. \A t \in Task : task[t] \in TaskRec'
      BY <3>1, SMT DEF TaskRec
    <3>3. task' \in [Task -> TaskRec']
      BY <1>2, <3>2, Zenon DEF TaskTypes
    <3>4. ASSUME attach # NULL PROVE attach \in AttachRec'
      <4>1. attach \in AttachRec /\ attach.group \in Online
        BY <1>2, <3>4, Zenon DEF TaskTypes, AttachRec
      <4>2. attach.group \in Online'
        BY <1>3, <1>4, <3>4, <4>1, Zenon
      <4> QED BY <4>1, <4>2, SMT DEF AttachRec
    <3> QED BY <1>2, <3>3, <3>4, Zenon DEF TaskTypes
  <2>5. WriterTypes'
    <3>1. ASSUME NEW w \in Writer, tgset[w] # NULL PROVE tgset[w] \in WriterRec'
      <4>1. tgset[w] \in WriterRec /\ tgset[w].group \in Online
        BY <1>1, <3>1, ProposedType, Zenon
      <4>2. tgset[w].group \in Online'
        BY <1>3, <1>4, <3>1, <4>1, Zenon
      <4> QED BY <4>1, <4>2, SMT DEF WriterRec
    <3> QED BY <1>2, <3>1, Zenon DEF WriterTypes
  <2>6. CallTypes'
    BY <1>2, Zenon DEF CallTypes, CallRec
  <2> QED BY <2>1, <2>2, <2>3, <2>4, <2>5, <2>6, TreeInvSplit, PTL
<1>7. CallerInv'
  BY <1>1, CallerKept, Zenon
<1>8. WriterInv'
  <2>1. FitIn(parent', rt')
    BY <1>1, <1>5, FitIsFitIn, Zenon DEF WriterInv
  <2>2. ASSUME NEW w \in Writer, Storing(w)'
        PROVE  FitIn(parent', Proposed(tgset[w].group, tgset[w].bw)')
    <3> DEFINE b == Proposed(tgset[w].group, tgset[w].bw)
    <3>1. Storing(w) /\ tgset[w] # NULL
      BY <2>2, Zenon DEF Storing
    <3>2. b \in [Group -> Bandwidth] /\ FitIn(parent, b) /\ tgset[w].group # g
      BY <1>1, <3>1, ProposedType, FitIsFitIn, Zenon DEF WriterInv
    <3>3. Proposed(tgset[w].group, tgset[w].bw)' = [b EXCEPT ![g] = new]
      BY <1>5, <3>2, Zenon DEF Proposed
    <3> HIDE DEF b
    <3> QED BY <3>2, <3>3, Zenon
  <2>3. Fit(rt)' <=> FitIn(parent', rt')
    BY Zenon DEF Fit, FitIn, Online, Children
  <2>4. \A w \in Writer : Fit(Proposed(tgset[w].group, tgset[w].bw))'
                          <=> FitIn(parent', Proposed(tgset[w].group, tgset[w].bw)')
    BY Zenon DEF Fit, FitIn, Online, Children
  <2> QED BY <1>1, <2>1, <2>2, <2>3, <2>4, Zenon DEF WriterInv, Storing
<1>9. GlobalInv'
  <2>1. Settled' = Settled /\ Limit(Settled)' = Limit(Settled)
    BY Zenon DEF Settled, sysVars, Limit
  <2>2. Ratio(new) <= Limit(Settled)
    <3>1. Settled \in SysRec
      <4>1. Bandwidth \subseteq SysRec
        BY SMT DEF Bandwidth, SysRec
      <4> QED BY <1>2, <4>1, Zenon DEF SysTypes, Settled
    <3>2. Limit(Settled) \in Nat /\ Ratio(new) = 0
      BY <3>1, LimitBounds, RatioBounds, Zenon DEF SysRec
    <3> QED BY <3>2, SMT
  <2>3. ASSUME NEW h \in Online' \ transient' PROVE Ratio(rt'[h]) <= Limit(Settled)
    <3>1. h \in Group
      BY Zenon DEF Online
    <3>2. CASE h = g
      BY <1>5, <2>2, <3>2, Zenon
    <3>3. CASE h # g
      <4>1. h \in Online \ transient /\ rt'[h] = rt[h]
        BY <1>3, <1>5, <3>1, <3>3, Zenon
      <4> QED BY <1>1, <4>1, Zenon DEF GlobalInv
    <3> QED BY <3>2, <3>3, Zenon
  <2> QED BY <1>1, <2>1, <2>3, Zenon DEF GlobalInv, Storing
<1>10. RuntimeInv'
  <2>1. \A t \in Task : rt'[task'[t].group] = rt[task[t].group]
    <3>1. \A t \in Task : task[t].group \in Group
      BY <1>2, <1>4, Zenon DEF TaskTypes, TaskRec
    <3> QED BY <1>5, <3>1, Zenon
  <2>2. Enforced' <=> Enforced
    BY Zenon DEF Enforced, sysVars
  <2> QED BY <1>1, <2>1, <2>2, Zenon DEF RuntimeInv, Storing
<1> QED BY <1>6, <1>7, <1>8, <1>9, <1>10, Zenon DEF IInv

\* alloc_rt_sched_group: a new group has no runtime.
LEMMA FreshBandwidth ==
    ASSUME TreeInv
    PROVE  [period |-> def_period, runtime |-> 0] \in Bandwidth
<1>1. def_period \in Period /\ 0 \in Runtimes
  BY TreeInvSplit, GroupAssumption, Zenon DEF SysTypes, Runtimes
<1> QED BY <1>1, Zenon DEF Bandwidth

\* init_cfs_bandwidth: a new group has the default period and no quota.
LEMMA FreshCfs == [period |-> default_cfs_period, quota |-> RUNTIME_INF] \in CfsRec
<1>1. default_cfs_period \in CfsPeriod
  BY GroupAssumption, Zenon
<1> QED BY <1>1, Zenon DEF CfsRec

\* sched_create_group with sched_online_group.
LEMMA CreateStep ==
    ASSUME IInv, NEW g \in Group, NEW p \in Group, sched_create_group(g, p)
    PROVE  IInv'
<1> DEFINE new == [period |-> def_period, runtime |-> 0]
<1>1. TreeInv /\ TreeTypes /\ TaskTypes
  BY TreeInvSplit, Zenon DEF IInv
<1>2. /\ g \notin Online /\ p \in Online /\ p # g /\ Write
      /\ parent' = [parent EXCEPT ![g] = p]
      /\ rt' = [rt EXCEPT ![g] = new]
      /\ cfs' = [cfs EXCEPT ![g] = [period |-> default_cfs_period, quota |-> RUNTIME_INF]]
      /\ transient' = transient \ {g}
      /\ UNCHANGED <<task, sysVars, tgset, attach, setsched, overtaken>>
  BY Zenon DEF sched_create_group
<1>3. (writes \in 0 .. MaxWrites)'
  BY <1>1, <1>2, WriteCounts, Zenon
<1>4. new \in Bandwidth /\ new.runtime = 0
  BY <1>1, FreshBandwidth, Zenon
<1>5. g # Root /\ parent[g] = NULL
  BY <1>2, Zenon DEF Online
<1>6. \A h \in Group : parent[h] # g
  <2>1. NULL \notin Group
    BY GroupAssumption, Zenon
  <2> QED BY <1>1, <1>2, <2>1, Zenon DEF TreeTypes
<1>7. parent \in [Group -> Group \cup {NULL}]
  BY <1>1, Zenon DEF TreeTypes
<1>8. /\ parent' \in [Group -> Group \cup {NULL}] /\ parent'[g] = p
      /\ \A h \in Group : h # g => parent'[h] = parent[h]
  BY <1>2, <1>7, Zenon
<1>9. \A t \in Task : task[t].group # g
  BY <1>1, <1>2, Zenon DEF TaskTypes, TaskRec
<1>10. attach # NULL => attach.group # g
  BY <1>1, <1>2, Zenon DEF TaskTypes, AttachRec
<1>11. \A w \in Writer : tgset[w] # NULL => tgset[w].group # g
  BY <1>1, <1>2, ProposedType, Zenon
<1> HIDE DEF new
<1>12. \A b \in [Group -> Bandwidth] :
          FitIn(parent, b) => FitIn(parent', [b EXCEPT ![g] = new])
  BY <1>2, <1>4, <1>5, <1>6, <1>7, FitCreate, Zenon
<1>13. parent'[g] \in Online \ {g}
  BY <1>2, <1>8, Zenon
<1> QED BY <1>2, <1>3, <1>4, <1>5, <1>6, <1>8, <1>9, <1>10, <1>11, <1>12, <1>13, FreshCfs, GroupStep,
           Zenon

\* sched_offline_group with sched_destroy_group.
LEMMA OfflineStep ==
    ASSUME IInv, NEW g \in Group, sched_offline_group(g)
    PROVE  IInv'
<1> DEFINE new == [period |-> def_period, runtime |-> 0]
<1>1. TreeInv /\ TreeTypes
  BY TreeInvSplit, Zenon DEF IInv
<1>2. /\ g # Root
      /\ parent' = [parent EXCEPT ![g] = NULL]
      /\ rt' = [rt EXCEPT ![g] = new]
      /\ cfs' = [cfs EXCEPT ![g] = [period |-> default_cfs_period, quota |-> RUNTIME_INF]]
      /\ transient' = transient \ {g}
      /\ UNCHANGED <<task, sysVars, tgset, attach, setsched, overtaken>>
      /\ UNCHANGED writes
  BY Zenon DEF sched_offline_group
<1>3. /\ \A t \in Task : task[t].group # g
      /\ attach # NULL => attach.group # g
      /\ \A w \in Writer : tgset[w] # NULL => tgset[w].group # g
  BY Zenon DEF sched_offline_group
<1>4. (writes \in 0 .. MaxWrites)'
  BY <1>1, <1>2, TreeInvSplit, Zenon
<1>5. new \in Bandwidth /\ new.runtime = 0
  BY <1>1, FreshBandwidth, Zenon
<1>6. \A h \in Group : parent[h] # g
  BY Zenon DEF sched_offline_group, Children
<1>7. parent \in [Group -> Group \cup {NULL}]
  BY <1>1, Zenon DEF TreeTypes
<1>8. /\ parent' \in [Group -> Group \cup {NULL}] /\ parent'[g] = NULL
      /\ \A h \in Group : h # g => parent'[h] = parent[h]
  BY <1>2, <1>7, Zenon
<1> HIDE DEF new
<1>9. \A b \in [Group -> Bandwidth] :
          FitIn(parent, b) => FitIn(parent', [b EXCEPT ![g] = new])
  BY <1>2, <1>5, <1>7, FitOffline, Zenon
<1> QED BY <1>2, <1>3, <1>4, <1>5, <1>6, <1>8, <1>9, FreshCfs, GroupStep, Zenon

-----------------------------------------------------------------------------
(* Writers of real-time bandwidth *)

\* TreeInv from its conjuncts, in the next state.
LEMMA TreeAgain ==
    ASSUME TreeTypes', GroupTypes', SysTypes', TaskTypes', WriterTypes', CallTypes',
           (writes \in 0 .. MaxWrites)'
    PROVE  TreeInv'
BY TreeInvSplit, PTL

\* A writer that begins or gives up: the holder of the mutex, if any, stays.
LEMMA WriterDrop ==
    ASSUME IInv, UNCHANGED <<groupVars, task, sysVars, attach, setsched, history>>,
           WriterTypes', (writes \in 0 .. MaxWrites)',
           \A v \in Writer : Storing(v)' => Storing(v) /\ tgset'[v] = tgset[v]
    PROVE  IInv'
<1>1. TreeInv /\ CallerInv /\ WriterInv /\ GlobalInv /\ RuntimeInv
  BY Zenon DEF IInv
<1>2. /\ parent' = parent /\ rt' = rt /\ cfs' = cfs /\ task' = task /\ attach' = attach
      /\ sysctl' = sysctl /\ handler' = handler /\ UNCHANGED sysVars
      /\ setsched' = setsched /\ overtaken' = overtaken /\ transient' = transient
  BY Zenon DEF groupVars, sysVars, history
<1>3. TreeInv'
  BY <1>1, <1>2, TypesKept, TreeAgain, Zenon
<1>4. CallerInv'
  BY <1>1, <1>2, CallerKept, Zenon
<1>5. Online' = Online /\ \A h : Children(h)' = Children(h)
  BY <1>2, OnlineKept, Zenon DEF Children
<1>6. WriterInv'
  <2>1. Fit(rt)'
    BY <1>1, <1>2, <1>5, Zenon DEF WriterInv, Fit
  <2>2. \A g, bw : Proposed(g, bw)' = Proposed(g, bw)
    BY <1>2, Zenon DEF Proposed
  <2>3. \A v \in Writer : Storing(v)' => Fit(Proposed(tgset[v].group, tgset[v].bw))'
    <3> SUFFICES ASSUME NEW v \in Writer, Storing(v)'
                 PROVE  Fit(Proposed(tgset[v].group, tgset[v].bw))'
      BY Zenon
    <3>1. Storing(v) /\ tgset'[v] = tgset[v]
      BY Zenon
    <3>2. Fit(Proposed(tgset[v].group, tgset[v].bw))
      BY <1>1, <3>1, Zenon DEF WriterInv
    <3>3. Proposed(tgset[v].group, tgset[v].bw)' = Proposed(tgset[v].group, tgset[v].bw)
      BY <1>2, <3>1, Zenon DEF Proposed
    <3> QED BY <1>5, <3>2, <3>3, Zenon DEF Fit
  <2> QED BY <1>1, <2>1, <2>3, Zenon DEF WriterInv
<1>7. GlobalInv'
  BY <1>1, <1>2, <1>5, Zenon DEF GlobalInv, Settled
<1>8. RuntimeInv'
  BY <1>1, <1>2, Zenon DEF RuntimeInv, Enforced
<1> QED BY <1>3, <1>4, <1>6, <1>7, <1>8, Zenon DEF IInv

\* A writer that moves on keeps its type.
LEMMA WriterTyped ==
    ASSUME TreeInv, parent' = parent, NEW w \in Writer, NEW new \in {NULL} \cup WriterRec,
           tgset' = [tgset EXCEPT ![w] = new]
    PROVE  /\ WriterTypes' /\ tgset'[w] = new
           /\ \A v \in Writer : v # w => tgset'[v] = tgset[v]
<1>1. tgset \in [Writer -> {NULL} \cup WriterRec]
  BY TreeInvSplit, Zenon DEF WriterTypes
<1>2. tgset' \in [Writer -> {NULL} \cup WriterRec]
  BY <1>1, Zenon
<1>3. WriterRec' = WriterRec
  BY OnlineKept, Zenon DEF WriterRec
<1> QED BY <1>1, <1>2, <1>3, Zenon DEF WriterTypes

\* A write to cpu.rt_runtime_us or cpu.rt_period_us begins.
LEMMA SetStep ==
    ASSUME IInv, NEW w \in Writer, NEW g \in Group, NEW bw \in Bandwidth,
           tg_set_rt_bandwidth(w, g, bw)
    PROVE  IInv'
<1> DEFINE new == [pc |-> "check", group |-> g, bw |-> bw, settled |-> TRUE]
<1>1. /\ g \in Online /\ tgset' = [tgset EXCEPT ![w] = new] /\ Write /\ parent' = parent
      /\ UNCHANGED <<groupVars, task, sysVars, attach, setsched, history>>
  BY Zenon DEF tg_set_rt_bandwidth, groupVars
<1>2. TreeInv
  BY Zenon DEF IInv
<1>3. new \in WriterRec /\ new.pc # "store"
  BY <1>1, SMT DEF WriterRec
<1>4. (writes \in 0 .. MaxWrites)'
  BY <1>1, <1>2, WriteCounts, Zenon
<1> HIDE DEF new
<1>5. /\ WriterTypes' /\ tgset'[w] = new
      /\ \A v \in Writer : v # w => tgset'[v] = tgset[v]
  BY <1>1, <1>2, <1>3, WriterTyped, Zenon
<1>6. \A v \in Writer : Storing(v)' => Storing(v) /\ tgset'[v] = tgset[v]
  BY <1>3, <1>5, Zenon DEF Storing
<1> QED BY <1>1, <1>4, <1>5, <1>6, WriterDrop, Zenon

\* The walk of __rt_schedulable establishes what the store will rely on.
LEMMA ScheduleFit ==
    ASSUME NEW g, NEW bw, Proposed(g, bw) \in [Group -> Bandwidth], rt_schedulable(g, bw)
    PROVE  Fit(Proposed(g, bw))
<1> DEFINE b == Proposed(g, bw)
<1> SUFFICES ASSUME NEW h \in Online
             PROVE  b[h].runtime <= b[h].period /\ RatioSum(b, Children(h)) <= Ratio(b[h])
  BY Zenon DEF Fit
<1>1. /\ b[h].runtime > b[h].period => b[h].runtime = RUNTIME_INF
      /\ RatioSum(b, Children(h)) <= Ratio(b[h])
  BY Zenon DEF rt_schedulable
<1>2. b[h] \in Bandwidth
  BY Zenon DEF Online
<1>3. b[h].period \in Nat \ {0} /\ b[h].runtime \in Int
  BY <1>2, BandwidthType, Zenon
<1>4. b[h].runtime <= b[h].period
  <2> HIDE DEF b
  <2> QED BY <1>1, <1>3, SMT DEF RUNTIME_INF
<1> QED BY <1>1, <1>4, Zenon

\* tg_set_rt_bandwidth takes the mutex and walks the tree, or is refused.
LEMMA CheckStep ==
    ASSUME IInv, NEW w \in Writer, tg_set_rt_check(w)
    PROVE  IInv'
<1> DEFINE g == tgset[w].group
           bw == tgset[w].bw
           new == [pc |-> "store", group |-> g, bw |-> bw, settled |-> handler = NULL]
<1>1. TreeInv /\ CallerInv /\ WriterInv /\ GlobalInv /\ RuntimeInv
  BY Zenon DEF IInv
<1>2. /\ tgset[w] # NULL /\ rt_constraints_free /\ parent' = parent
      /\ UNCHANGED <<groupVars, task, sysVars, attach, setsched, history>>
      /\ UNCHANGED writes
  BY Zenon DEF tg_set_rt_check, groupVars
<1>3. /\ g \in Online /\ g \in Group /\ bw \in Bandwidth
      /\ Proposed(g, bw) \in [Group -> Bandwidth]
  BY <1>1, <1>2, ProposedType, Zenon
<1>4. (writes \in 0 .. MaxWrites)'
  BY <1>1, <1>2, TreeInvSplit, Zenon
<1>5. tgset \in [Writer -> {NULL} \cup WriterRec]
  BY <1>1, TreeInvSplit, Zenon DEF WriterTypes
<1>6. CASE ~rt_schedulable(g, bw)
  <2>1. tgset' = [tgset EXCEPT ![w] = NULL]
    BY <1>5, <1>6, Zenon DEF tg_set_rt_check
  <2>2. /\ WriterTypes' /\ tgset'[w] = NULL
        /\ \A v \in Writer : v # w => tgset'[v] = tgset[v]
    BY <1>1, <1>2, <2>1, WriterTyped, Zenon
  <2>3. \A v \in Writer : Storing(v)' => Storing(v) /\ tgset'[v] = tgset[v]
    BY <2>2, Zenon DEF Storing
  <2> QED BY <1>2, <1>4, <2>2, <2>3, WriterDrop, Zenon
<1>7. CASE rt_schedulable(g, bw)
  <2>1. tgset' = [tgset EXCEPT ![w] = new]
    BY <1>5, <1>7, Zenon DEF tg_set_rt_check
  <2>2. new \in WriterRec /\ new.group = g /\ new.bw = bw /\ (new.settled <=> handler = NULL)
    <3>1. (handler = NULL) \in BOOLEAN
      BY Zenon
    <3>2. new \in WriterRec
      BY <1>3, <3>1, Zenon DEF WriterRec
    <3> QED BY <3>2, Zenon
  <2>3. /\ WriterTypes' /\ tgset'[w] = new
        /\ \A v \in Writer : v # w => tgset'[v] = tgset[v]
    <3> HIDE DEF new
    <3> QED BY <1>1, <1>2, <2>1, <2>2, WriterTyped, Zenon
  <2>4. \A v \in Writer : Storing(v)' => v = w
    BY <1>2, <2>3, Zenon DEF Storing, rt_constraints_free
  <2>5. /\ parent' = parent /\ rt' = rt /\ cfs' = cfs /\ task' = task /\ attach' = attach
        /\ sysctl' = sysctl /\ handler' = handler /\ UNCHANGED sysVars
        /\ setsched' = setsched /\ overtaken' = overtaken /\ transient' = transient
    BY <1>2, Zenon DEF groupVars, sysVars, history
  <2>6. TreeInv'
    BY <1>1, <1>4, <2>3, <2>5, TypesKept, TreeAgain, Zenon
  <2>7. CallerInv'
    BY <1>1, <2>5, CallerKept, Zenon
  <2>8. Online' = Online /\ \A h : Children(h)' = Children(h)
    BY <2>5, OnlineKept, Zenon DEF Children
  <2>9. tgset'[w].group = g /\ tgset'[w].bw = bw /\ (tgset'[w].settled <=> handler = NULL)
    BY <2>2, <2>3, Zenon
  <2> HIDE DEF new
  <2>10. WriterInv'
    <3>1. Fit(rt)'
      BY <1>1, <2>5, <2>8, Zenon DEF WriterInv, Fit
    <3>2. Fit(Proposed(g, bw))
      BY <1>3, <1>7, ScheduleFit, Zenon
    <3>3. Proposed(tgset[w].group, tgset[w].bw)' = Proposed(g, bw)
      BY <2>5, <2>9, Zenon DEF Proposed
    <3>4. Fit(Proposed(tgset[w].group, tgset[w].bw))'
      BY <2>8, <3>2, <3>3, Zenon DEF Fit
    <3> QED BY <2>4, <3>1, <3>4, Zenon DEF WriterInv
  <2>11. Proposed(g, bw)[g] = bw
    BY <1>3, Zenon DEF Proposed
  <2>12. GlobalInv'
    <3>1. Ratio(bw) <= global_ratio
      BY <1>3, <1>7, <2>11, Zenon DEF rt_schedulable
    <3>2. handler = NULL => Ratio(bw) <= Limit(Settled)
      BY <3>1, Zenon DEF Settled, Limit, global_ratio
    <3>3. Settled' = Settled /\ Limit(Settled)' = Limit(Settled)
      BY <2>5, Zenon DEF Settled, Limit
    <3>4. \A h \in Online' \ transient' : Ratio(rt'[h]) <= Limit(Settled)
      BY <1>1, <2>5, <2>8, Zenon DEF GlobalInv
    <3>5. tgset'[w].settled => Ratio(tgset'[w].bw) <= Limit(Settled)
      BY <2>9, <3>2, Zenon
    <3> QED BY <2>4, <3>3, <3>4, <3>5, Zenon DEF GlobalInv
  <2>13. RuntimeInv'
    <3>1. Enforced' => Enforced /\ rt_bandwidth_enabled
      BY <2>5, Zenon DEF Enforced, rt_bandwidth_enabled
    <3>2. ASSUME Enforced', bw.runtime = 0, NEW t \in Task, task[t].rt, task[t].group = g
          PROVE  FALSE
      BY <1>3, <1>7, <2>11, <3>1, <3>2, Zenon DEF rt_schedulable, tg_has_rt_tasks
    <3>3. Enforced' => \A v \in Writer : Storing(v)' /\ tgset'[v].bw.runtime = 0 =>
            \A t \in Task : task'[t].rt /\ task'[t].group = tgset'[v].group => t \in overtaken'
      BY <2>4, <2>5, <2>9, <3>2, Zenon
    <3> QED BY <1>1, <2>5, <3>1, <3>3, Zenon DEF RuntimeInv
  <2> QED BY <2>6, <2>7, <2>10, <2>12, <2>13, Zenon DEF IInv
<1> QED BY <1>6, <1>7, Zenon

\* tg_set_rt_bandwidth stores what the walk has accepted.
LEMMA StoreStep ==
    ASSUME IInv, NEW w \in Writer, tg_set_rt_store(w)
    PROVE  IInv'
<1> DEFINE g == tgset[w].group
           bw == tgset[w].bw
<1>1. TreeInv /\ CallerInv /\ WriterInv /\ GlobalInv /\ RuntimeInv
  BY Zenon DEF IInv
<1>2. /\ Storing(w) /\ tgset[w] # NULL
      /\ rt' = [rt EXCEPT ![g] = bw]
      /\ tgset' = [tgset EXCEPT ![w] = NULL]
      /\ UNCHANGED <<parent, cfs, task, sysVars, attach, setsched, overtaken, writes>>
  BY Zenon DEF tg_set_rt_store, Storing
<1>3. /\ g \in Online /\ g \in Group /\ bw \in Bandwidth
      /\ Proposed(g, bw) \in [Group -> Bandwidth]
  BY <1>1, <1>2, ProposedType, Zenon
<1>4. GroupTypes /\ TaskTypes /\ rt \in [Group -> Bandwidth]
  BY <1>1, TreeInvSplit, Zenon DEF GroupTypes
<1>5. /\ WriterTypes' /\ tgset'[w] = NULL
      /\ \A v \in Writer : v # w => tgset'[v] = tgset[v]
  BY <1>1, <1>2, WriterTyped, Zenon
<1>6. \A v \in Writer : ~Storing(v)'
  BY <1>1, <1>2, <1>5, Zenon DEF Storing, WriterInv
<1>7. rt' = Proposed(g, bw) /\ rt'[g] = bw /\ \A h \in Group : h # g => rt'[h] = rt[h]
  BY <1>2, <1>3, <1>4, Zenon DEF Proposed
<1>8. /\ parent' = parent /\ cfs' = cfs /\ task' = task /\ attach' = attach
      /\ sysctl' = sysctl /\ handler' = handler /\ UNCHANGED sysVars /\ writes' = writes
      /\ setsched' = setsched /\ overtaken' = overtaken
  BY <1>2, Zenon DEF sysVars
<1>9. Online' = Online /\ \A h : Children(h)' = Children(h)
  BY <1>8, OnlineKept, Zenon DEF Children
<1>10. \/ transient' = transient \ {g} /\ tgset[w].settled
       \/ transient' = transient \cup {g}
  BY Zenon DEF tg_set_rt_store
<1>11. TreeInv'
  <2>1. GroupTypes'
    <3>1. transient' \subseteq Online'
      BY <1>3, <1>4, <1>9, <1>10, Zenon DEF GroupTypes
    <3> QED BY <1>3, <1>4, <1>7, <1>8, <3>1, Zenon DEF GroupTypes, CfsRec
  <2> QED BY <1>1, <1>5, <1>8, <2>1, TypesKept, TreeAgain, Zenon
<1>12. CallerInv'
  BY <1>1, <1>8, CallerKept, Zenon
<1>13. WriterInv'
  <2>1. Fit(Proposed(g, bw))
    BY <1>1, <1>2, Zenon DEF WriterInv
  <2>2. Fit(rt)'
    BY <1>7, <1>9, <2>1, Zenon DEF Fit
  <2> QED BY <1>6, <2>2, Zenon DEF WriterInv
<1>14. GlobalInv'
  <2>1. Settled' = Settled /\ Limit(Settled)' = Limit(Settled)
    BY <1>8, Zenon DEF Settled, Limit
  <2>2. ASSUME NEW h \in Online' \ transient' PROVE Ratio(rt'[h]) <= Limit(Settled)
    <3>1. h \in Online /\ h \in Group
      BY <1>9, Zenon DEF Online
    <3>2. CASE h = g
      <4>1. tgset[w].settled
        BY <1>10, <3>2, Zenon
      <4> QED BY <1>1, <1>2, <1>7, <3>2, <4>1, Zenon DEF GlobalInv
    <3>3. CASE h # g
      <4>1. h \in Online \ transient /\ rt'[h] = rt[h]
        BY <1>7, <1>10, <3>1, <3>3, Zenon
      <4> QED BY <1>1, <4>1, Zenon DEF GlobalInv
    <3> QED BY <3>2, <3>3, Zenon
  <2> QED BY <1>6, <2>1, <2>2, Zenon DEF GlobalInv
<1>15. RuntimeInv'
  <2>1. Enforced' <=> Enforced
    BY <1>8, Zenon DEF Enforced
  <2>2. ASSUME Enforced, NEW t \in Task, task[t].rt, rt'[task[t].group].runtime = 0
        PROVE  t \in overtaken
    <3>1. task[t].group \in Group
      BY <1>4, Zenon DEF TaskTypes, TaskRec, Online
    <3>2. CASE task[t].group = g
      BY <1>1, <1>2, <1>7, <2>2, <3>2, Zenon DEF RuntimeInv
    <3>3. CASE task[t].group # g
      BY <1>1, <1>7, <2>2, <3>1, <3>3, Zenon DEF RuntimeInv
    <3> QED BY <3>2, <3>3, Zenon
  <2>3. attach' # NULL /\ attach'.rt => attach'.seen # 0
    BY <1>1, <1>8, Zenon DEF RuntimeInv
  <2> QED BY <1>6, <1>8, <2>1, <2>2, <2>3, Zenon DEF RuntimeInv
<1> QED BY <1>11, <1>12, <1>13, <1>14, <1>15, Zenon DEF IInv

-----------------------------------------------------------------------------
(* The sysctl handler *)

\* sched_rt_handler stores the new sysctl before it validates it.
LEMMA HandlerStep ==
    ASSUME IInv, NEW p \in Period \cup {0}, NEW r \in Runtimes,
           sched_rt_handler([period |-> p, runtime |-> r])
    PROVE  IInv'
<1> DEFINE new == [period |-> p, runtime |-> r]
<1>1. TreeInv /\ CallerInv /\ WriterInv /\ GlobalInv /\ RuntimeInv
  BY Zenon DEF IInv
<1>2. /\ Write /\ handler = NULL
      /\ new.period = sysctl.period \/ new.runtime = sysctl.runtime
      /\ handler' = sysctl /\ sysctl' = new /\ def_period' = def_period
      /\ UNCHANGED <<groupVars, task, tgset, attach, setsched, history>>
  BY Zenon DEF sched_rt_handler
<1>3. /\ parent' = parent /\ rt' = rt /\ cfs' = cfs /\ task' = task /\ attach' = attach
      /\ setsched' = setsched /\ overtaken' = overtaken /\ transient' = transient /\ tgset' = tgset
  BY <1>2, Zenon DEF groupVars, history
<1>4. SysTypes /\ sysctl \in SysRec /\ def_period \in Period /\ sysctl.period \in Period
  BY <1>1, <1>2, TreeInvSplit, Zenon DEF SysTypes
<1>5. sysctl \in Bandwidth /\ sysctl # NULL
  <2>1. sysctl \in Bandwidth
    BY <1>4, SMT DEF SysRec, Bandwidth
  <2> QED BY <2>1, GroupAssumption, Zenon
<1>6. new \in SysRec
  BY Zenon DEF SysRec
<1>7. TreeInv'
  <2>1. SysTypes'
    <3>1. SysRec' = SysRec
      BY Zenon DEF SysRec
    <3>2. sysctl' \in SysRec' /\ def_period' \in Period /\ handler' \in Bandwidth \cup {NULL}
      BY <1>2, <1>4, <1>5, <1>6, <3>1, Zenon
    <3>3. handler' # NULL
      BY <1>2, <1>5, Zenon
    <3>4. handler'.period = sysctl'.period \/ handler'.runtime = sysctl'.runtime
      BY <1>2, Zenon
    <3> QED BY <3>2, <3>3, <3>4, Zenon DEF SysTypes
  <2>2. (writes \in 0 .. MaxWrites)'
    BY <1>1, <1>2, WriteCounts, Zenon
  <2> QED BY <1>1, <1>3, <2>1, <2>2, TypesKept, TreeAgain, Zenon
<1>8. CallerInv'
  BY <1>1, <1>3, CallerKept, Zenon
<1>9. WriterInv'
  BY <1>1, <1>3, WriterKept, Zenon
<1>10. GlobalInv'
  <2>1. Settled' = Settled
    BY <1>2, <1>5, Zenon DEF Settled
  <2>2. Online' = Online
    BY <1>3, OnlineKept, Zenon
  <2> QED BY <1>1, <1>3, <2>1, <2>2, Zenon DEF GlobalInv, Storing
<1>11. RuntimeInv'
  <2>1. Enforced' => Enforced
    BY <1>2, <1>5, Zenon DEF Enforced
  <2> QED BY <1>1, <1>3, <2>1, Zenon DEF RuntimeInv, Storing
<1> QED BY <1>7, <1>8, <1>9, <1>10, <1>11, Zenon DEF IInv

\* Lifting the limit is never refused: the groups fit as they are.
LEMMA LiftAccepted ==
    ASSUME TreeInv, WriterInv, handler # NULL, handler.runtime >= 0, sysctl.runtime = RUNTIME_INF
    PROVE  sched_rt_global_validate /\ rt_schedulable(NULL, NULL)
<1>1. SysTypes /\ GroupTypes /\ sysctl \in SysRec /\ handler \in Bandwidth
  BY TreeInvSplit, Zenon DEF SysTypes
<1>2. handler.period \in Nat \ {0} /\ handler.runtime \in Int
  BY <1>1, BandwidthType, Zenon
<1>3. handler.runtime # sysctl.runtime
  BY <1>2, SMT DEF RUNTIME_INF
<1>4. sysctl.period = handler.period
  BY <1>1, <1>3, Zenon DEF SysTypes
<1>5. sched_rt_global_validate
  <2>1. sysctl.period > 0
    BY <1>2, <1>4, SMT
  <2> QED BY <2>1, Zenon DEF sched_rt_global_validate
<1>6. Proposed(NULL, NULL) = rt /\ rt \in [Group -> Bandwidth]
  <2>1. NULL \notin Group
    BY GroupAssumption, Zenon
  <2>2. rt \in [Group -> Bandwidth]
    BY <1>1, Zenon DEF GroupTypes
  <2> QED BY <2>1, <2>2, Zenon DEF Proposed
<1>7. ~rt_bandwidth_enabled
  BY SMT DEF rt_bandwidth_enabled, RUNTIME_INF
<1>8. global_ratio = BW_UNIT
  <2>1. Limit(sysctl) = BW_UNIT
    BY <1>1, LimitBounds, Zenon DEF SysRec
  <2> QED BY <2>1, Zenon DEF global_ratio, Limit
<1>9. ASSUME NEW h \in Online
      PROVE  /\ rt[h].runtime > rt[h].period => rt[h].runtime = RUNTIME_INF
             /\ Ratio(rt[h]) <= global_ratio
             /\ RatioSum(rt, Children(h)) <= Ratio(rt[h])
  <2>1. rt[h] \in Bandwidth
    BY <1>6, Zenon DEF Online
  <2>2. rt[h].runtime <= rt[h].period /\ RatioSum(rt, Children(h)) <= Ratio(rt[h])
    BY Zenon DEF WriterInv, Fit
  <2>3. rt[h].period \in Nat \ {0} /\ rt[h].runtime \in Int
    BY <2>1, BandwidthType, Zenon
  <2>4. ~(rt[h].runtime > rt[h].period)
    BY <2>2, <2>3, SMT
  <2>5. Ratio(rt[h]) <= global_ratio
    BY <1>8, <2>1, <2>2, RatioBounds, Zenon
  <2> QED BY <2>2, <2>4, <2>5, Zenon
<1> QED BY <1>5, <1>6, <1>7, <1>9, Zenon DEF rt_schedulable

\* sched_rt_handler validates what it has stored, or puts back what was there.
LEMMA DoneStep ==
    ASSUME IInv, sched_rt_handler_done
    PROVE  IInv'
<1>1. TreeInv /\ CallerInv /\ WriterInv /\ GlobalInv /\ RuntimeInv
  BY Zenon DEF IInv
<1>2. /\ handler # NULL /\ handler' = NULL
      /\ UNCHANGED <<groupVars, task, tgset, attach, setsched, overtaken, writes>>
  BY Zenon DEF sched_rt_handler_done
<1>3. /\ parent' = parent /\ rt' = rt /\ cfs' = cfs /\ task' = task /\ attach' = attach
      /\ setsched' = setsched /\ overtaken' = overtaken /\ tgset' = tgset /\ writes' = writes
  BY <1>2, Zenon DEF groupVars
<1>4. /\ SysTypes /\ GroupTypes /\ TaskTypes
      /\ sysctl \in SysRec /\ def_period \in Period /\ handler \in Bandwidth
      /\ rt \in [Group -> Bandwidth]
  BY <1>1, <1>2, TreeInvSplit, Zenon DEF SysTypes, GroupTypes
<1>5. Online' = Online /\ SysRec' = SysRec
  BY <1>3, OnlineKept, Zenon DEF SysRec
<1>6. CallerInv' /\ WriterInv'
  BY <1>1, <1>3, CallerKept, WriterKept, Zenon
<1>7. attach' # NULL /\ attach'.rt => attach'.seen # 0
  BY <1>1, <1>3, Zenon DEF RuntimeInv
<1>8. CASE sched_rt_global_validate /\ rt_schedulable(NULL, NULL)
  <2>1. rt_constraints_free /\ def_period' = sysctl.period /\ transient' = {} /\ sysctl' = sysctl
    BY <1>8, Zenon DEF sched_rt_handler_done
  <2>2. sysctl.period \in Period
    <3>1. sysctl.period # 0
      BY <1>8, SMT DEF sched_rt_global_validate
    <3> QED BY <1>4, <3>1, Zenon DEF SysRec
  <2>3. SysTypes'
    BY <1>2, <1>4, <1>5, <2>1, <2>2, Zenon DEF SysTypes
  <2>4. GroupTypes'
    BY <1>3, <1>4, <2>1, Zenon DEF GroupTypes, CfsRec
  <2>5. TreeInv'
    BY <1>1, <1>3, <2>3, <2>4, TypesKept, TreeAgain, Zenon
  <2>6. \A v \in Writer : ~Storing(v)'
    BY <1>3, <2>1, Zenon DEF Storing, rt_constraints_free
  <2>7. Proposed(NULL, NULL) = rt
    <3>1. NULL \notin Group
      BY GroupAssumption, Zenon
    <3> QED BY <1>4, <3>1, Zenon DEF Proposed
  <2>8. /\ \A h \in Online : Ratio(rt[h]) <= global_ratio
        /\ rt_bandwidth_enabled => \A h \in Online : rt[h].runtime = 0 => ~tg_has_rt_tasks(h)
    BY <1>8, <2>7, Zenon DEF rt_schedulable
  <2>9. GlobalInv'
    <3>1. Limit(Settled)' = global_ratio
      BY <1>2, <2>1, Zenon DEF Settled, Limit, global_ratio
    <3> QED BY <1>3, <1>5, <2>6, <2>8, <3>1, Zenon DEF GlobalInv
  <2>10. RuntimeInv'
    <3>1. Enforced' => rt_bandwidth_enabled
      BY <2>1, Zenon DEF Enforced, rt_bandwidth_enabled
    <3>2. \A t \in Task : task[t].group \in Online
      BY <1>4, Zenon DEF TaskTypes, TaskRec
    <3>3. Enforced' => \A t \in Task : ~(task[t].rt /\ rt[task[t].group].runtime = 0)
      BY <2>8, <3>1, <3>2, Zenon DEF tg_has_rt_tasks
    <3> QED BY <1>3, <1>7, <2>6, <3>3, Zenon DEF RuntimeInv
  <2> QED BY <1>6, <2>5, <2>9, <2>10, Zenon DEF IInv
<1>9. CASE ~(sched_rt_global_validate /\ rt_schedulable(NULL, NULL))
  <2>1. sysctl' = handler /\ def_period' = def_period /\ transient' = transient
    BY <1>9, Zenon DEF sched_rt_handler_done
  <2>2. SysTypes'
    <3>1. Bandwidth \subseteq SysRec
      BY SMT DEF Bandwidth, SysRec
    <3>2. handler.period \in Period
      BY <1>4, BandwidthType, Zenon
    <3> QED BY <1>2, <1>4, <1>5, <2>1, <3>1, <3>2, Zenon DEF SysTypes
  <2>3. TreeInv'
    BY <1>1, <1>3, <2>1, <2>2, TypesKept, TreeAgain, Zenon
  <2>4. GlobalInv'
    <3>1. Settled' = Settled
      BY <1>2, <2>1, Zenon DEF Settled
    <3> QED BY <1>1, <1>3, <1>5, <2>1, <3>1, Zenon DEF GlobalInv, Storing
  <2>5. RuntimeInv'
    <3>1. sysctl.runtime = RUNTIME_INF \/ sysctl.runtime >= 0
      <4>1. sysctl.runtime \in Nat \/ sysctl.runtime = RUNTIME_INF
        BY <1>4, GroupAssumption, Zenon DEF SysRec, Runtimes
      <4> QED BY <4>1, SMT
    <3>2. Enforced' => handler.runtime >= 0
      BY <2>1, Zenon DEF Enforced
    <3>3. Enforced' => Enforced
      BY <1>1, <1>2, <1>9, <3>1, <3>2, LiftAccepted, Zenon DEF Enforced
    <3> QED BY <1>1, <1>3, <1>7, <3>3, Zenon DEF RuntimeInv, Storing
  <2> QED BY <1>6, <2>3, <2>4, <2>5, Zenon DEF IInv
<1> QED BY <1>8, <1>9, Zenon

-----------------------------------------------------------------------------
(* Tasks that change group *)

\* cpu_cgroup_can_attach looks at the runtime of the group.
LEMMA CanAttachStep ==
    ASSUME IInv, NEW t \in Task, NEW g \in Group, cpu_cgroup_can_attach(t, g)
    PROVE  IInv'
<1> DEFINE new == [task |-> t, group |-> g, rt |-> task[t].rt, seen |-> rt[g].runtime]
<1>1. TreeInv /\ CallerInv /\ WriterInv /\ GlobalInv /\ RuntimeInv
  BY Zenon DEF IInv
<1>2. /\ g \in Online /\ (task[t].rt => rt[g].runtime # 0) /\ attach' = new
      /\ UNCHANGED <<groupVars, task, sysVars, tgset, setsched, history, writes>>
  BY Zenon DEF cpu_cgroup_can_attach, sched_rt_can_attach
<1>3. /\ parent' = parent /\ rt' = rt /\ cfs' = cfs /\ task' = task /\ sysctl' = sysctl
      /\ handler' = handler /\ UNCHANGED sysVars /\ writes' = writes
      /\ setsched' = setsched /\ overtaken' = overtaken /\ transient' = transient /\ tgset' = tgset
  BY <1>2, Zenon DEF groupVars, sysVars, history
<1>4. GroupTypes /\ TaskTypes
  BY <1>1, TreeInvSplit, Zenon
<1>5. new \in AttachRec
  <2>1. task[t].rt \in BOOLEAN
    BY <1>4, Zenon DEF TaskTypes, TaskRec
  <2>2. rt[g] \in Bandwidth
    BY <1>4, Zenon DEF GroupTypes
  <2>3. rt[g].runtime \in Runtimes
    BY <2>2, BandwidthType, Zenon
  <2> QED BY <1>2, <2>1, <2>3, Zenon DEF AttachRec
<1>6. TreeInv'
  <2>1. TaskTypes'
    <3>1. TaskRec' = TaskRec /\ AttachRec' = AttachRec
      BY <1>3, OnlineKept, Zenon DEF TaskRec, AttachRec
    <3> HIDE DEF new
    <3> QED BY <1>2, <1>3, <1>4, <1>5, <3>1, Zenon DEF TaskTypes
  <2> QED BY <1>1, <1>3, <2>1, TypesKept, TreeAgain, Zenon
<1>7. CallerInv' /\ WriterInv' /\ GlobalInv'
  BY <1>1, <1>3, CallerKept, WriterKept, GlobalKept, Zenon
<1>8. RuntimeInv'
  <2>1. attach'.rt => attach'.seen # 0
    BY <1>2, Zenon
  <2> QED BY <1>1, <1>3, <2>1, Zenon DEF RuntimeInv, Storing, Enforced
<1> QED BY <1>6, <1>7, <1>8, Zenon DEF IInv

\* cpu_cgroup_attach moves the task to the group it looked at earlier.
LEMMA AttachStep ==
    ASSUME IInv, cpu_cgroup_attach
    PROVE  IInv'
<1> DEFINE t == attach.task
           g == attach.group
<1>1. TreeInv /\ CallerInv /\ WriterInv /\ GlobalInv /\ RuntimeInv
  BY Zenon DEF IInv
<1>2. /\ attach # NULL /\ attach' = NULL
      /\ task' = [task EXCEPT ![t].group = g]
      /\ UNCHANGED <<groupVars, sysVars, tgset, setsched, transient, writes>>
  BY Zenon DEF cpu_cgroup_attach
<1>3. /\ parent' = parent /\ rt' = rt /\ cfs' = cfs /\ sysctl' = sysctl
      /\ handler' = handler /\ UNCHANGED sysVars /\ writes' = writes
      /\ setsched' = setsched /\ transient' = transient /\ tgset' = tgset
  BY <1>2, Zenon DEF groupVars, sysVars
<1>4. TaskTypes /\ attach \in AttachRec
  BY <1>1, <1>2, TreeInvSplit, Zenon DEF TaskTypes
<1>5. t \in Task /\ g \in Online
  BY <1>4, Zenon DEF AttachRec
<1>6. \/ overtaken' = overtaken \cup {t}
      \/ /\ overtaken' = overtaken \ {t}
         /\ ~(attach.rt /\ attach.seen # 0 /\ rt[g].runtime = 0)
         /\ ~(~attach.rt /\ task[t].rt)
         /\ ~Expiring(g)
  BY Zenon DEF cpu_cgroup_attach
<1>7. \A u \in Task : /\ task'[u] \in TaskRec
                      /\ task'[u].rt = task[u].rt /\ task'[u].rt_priority = task[u].rt_priority
                      /\ u # t => task'[u].group = task[u].group
                      /\ u = t => task'[u].group = g
  <2>1. \A u \in Task : task[u] \in TaskRec
    BY <1>4, Zenon DEF TaskTypes
  <2>2. task' = [task EXCEPT ![t] = [task[t] EXCEPT !.group = g]] /\ task \in [Task -> TaskRec]
    BY <1>2, <1>4, Zenon DEF TaskTypes
  <2>3. \A u \in Task : u # t => task'[u] = task[u]
    BY <2>2, Zenon
  <2>4. task'[t] = [task[t] EXCEPT !.group = g]
    BY <1>5, <2>2, Zenon
  <2>5. /\ task'[t] \in TaskRec /\ task'[t].rt = task[t].rt
        /\ task'[t].rt_priority = task[t].rt_priority /\ task'[t].group = g
    BY <1>5, <2>1, <2>4, SMT DEF TaskRec
  <2> QED BY <2>1, <2>3, <2>5, Zenon
<1>8. TreeInv'
  <2>1. TaskTypes'
    <3>1. TaskRec' = TaskRec
      BY <1>3, OnlineKept, Zenon DEF TaskRec
    <3>2. task' \in [Task -> TaskRec]
      <4>1. task \in [Task -> TaskRec]
        BY <1>4, Zenon DEF TaskTypes
      <4> QED BY <1>2, <1>7, <4>1, Zenon
    <3>3. overtaken' \subseteq Task
      BY <1>4, <1>5, <1>6, Zenon DEF TaskTypes
    <3> QED BY <1>2, <3>1, <3>2, <3>3, Zenon DEF TaskTypes
  <2> QED BY <1>1, <1>3, <2>1, TypesKept, TreeAgain, Zenon
<1>9. CallerInv'
  <2>1. CallTypes
    BY <1>1, TreeInvSplit, Zenon
  <2>2. \A k \in Caller : Holds(k) => setsched[k].task \in Task
    BY <2>1, Zenon DEF CallTypes, CallRec, Holds
  <2> QED BY <1>1, <1>3, <1>7, <2>2, Zenon DEF CallerInv, Valid, Holds, PrioMatchesPolicy
<1>10. WriterInv' /\ GlobalInv'
  BY <1>1, <1>3, WriterKept, GlobalKept, Zenon
<1>11. RuntimeInv'
  <2>1. Enforced' <=> Enforced
    BY <1>3, Zenon DEF Enforced
  <2>2. attach.rt => attach.seen # 0
    BY <1>1, <1>2, Zenon DEF RuntimeInv
  <2>3. ASSUME Enforced, NEW u \in Task, task'[u].rt, rt[task'[u].group].runtime = 0
        PROVE  u \in overtaken'
    <3>1. CASE u = t
      BY <1>5, <1>6, <1>7, <2>2, <2>3, <3>1, Zenon
    <3>2. CASE u # t
      <4>1. u \in overtaken
        BY <1>1, <1>7, <2>3, <3>2, Zenon DEF RuntimeInv
      <4> QED BY <1>6, <3>2, <4>1, Zenon
    <3> QED BY <3>1, <3>2, Zenon
  <2>4. ASSUME Enforced, NEW w \in Writer, Storing(w), tgset[w].bw.runtime = 0,
               NEW u \in Task, task'[u].rt, task'[u].group = tgset[w].group
        PROVE  u \in overtaken'
    <3>1. CASE u = t
      <4>1. Expiring(g)
        BY <1>7, <2>4, <3>1, Zenon DEF Expiring, Storing
      <4> QED BY <1>6, <3>1, <4>1, Zenon
    <3>2. CASE u # t
      <4>1. u \in overtaken
        BY <1>1, <1>7, <2>4, <3>2, Zenon DEF RuntimeInv
      <4> QED BY <1>6, <3>2, <4>1, Zenon
    <3> QED BY <3>1, <3>2, Zenon
  <2> QED BY <1>2, <1>3, <2>1, <2>3, <2>4, Zenon DEF RuntimeInv, Storing
<1> QED BY <1>8, <1>9, <1>10, <1>11, Zenon DEF IInv

-----------------------------------------------------------------------------
(* sched_setscheduler *)

\* One caller moves on, and nothing else: what is left to show of CallerInv.
LEMMA CallStep ==
    ASSUME IInv, NEW k \in Caller, NEW new \in {NULL} \cup CallRec,
           setsched' = [setsched EXCEPT ![k] = new],
           UNCHANGED <<groupVars, task, sysVars, tgset, attach, history, writes>>,
           new # NULL /\ new.pc \in {"lock", "store"} => Valid(new),
           new # NULL /\ new.pc = "store" =>
               /\ ~Locked(new.task)
               /\ new.policy = "keep" => (task[new.task].rt <=> new.isrt)
               /\ new.isrt => new.seen
    PROVE  IInv'
<1>1. TreeInv /\ CallerInv /\ WriterInv /\ GlobalInv /\ RuntimeInv
  BY Zenon DEF IInv
<1>2. /\ parent' = parent /\ rt' = rt /\ cfs' = cfs /\ task' = task /\ attach' = attach
      /\ sysctl' = sysctl /\ handler' = handler /\ UNCHANGED sysVars /\ writes' = writes
      /\ tgset' = tgset /\ overtaken' = overtaken /\ transient' = transient
  BY Zenon DEF groupVars, sysVars, history
<1>3. CallTypes /\ setsched \in [Caller -> {NULL} \cup CallRec]
  BY <1>1, TreeInvSplit, Zenon DEF CallTypes
<1>4. setsched'[k] = new /\ \A j \in Caller : j # k => setsched'[j] = setsched[j]
  BY <1>3, Zenon
<1>5. TreeInv'
  <2>1. CallTypes'
    BY <1>3, Zenon DEF CallTypes, CallRec
  <2> QED BY <1>1, <1>2, <2>1, TypesKept, TreeAgain, Zenon
<1>6. WriterInv' /\ GlobalInv' /\ RuntimeInv'
  BY <1>1, <1>2, WriterKept, GlobalKept, RuntimeKept, Zenon
<1>7. CallerInv'
  <2>1. \A j \in Caller : j # k => (Holds(j)' <=> Holds(j))
    BY <1>4, Zenon DEF Holds
  <2>2. Holds(k)' => new # NULL /\ new.pc = "store"
    BY <1>4, Zenon DEF Holds
  <2>3. \A j \in Caller : setsched'[j] # NULL /\ setsched'[j].pc \in {"lock", "store"} =>
           Valid(setsched[j])'
    <3> SUFFICES ASSUME NEW j \in Caller, setsched'[j] # NULL,
                        setsched'[j].pc \in {"lock", "store"}
                 PROVE  Valid(setsched'[j])
      BY Zenon DEF Valid
    <3>1. CASE j = k
      BY <1>4, <3>1, Zenon
    <3>2. CASE j # k
      BY <1>1, <1>4, <3>2, Zenon DEF CallerInv
    <3> QED BY <3>1, <3>2, Zenon
  <2>4. \A j \in Caller : Holds(j)' /\ setsched'[j].policy = "keep" =>
           (task'[setsched'[j].task].rt <=> setsched'[j].isrt)
    <3> SUFFICES ASSUME NEW j \in Caller, Holds(j)', setsched'[j].policy = "keep"
                 PROVE  task'[setsched'[j].task].rt <=> setsched'[j].isrt
      BY Zenon
    <3>1. CASE j = k
      BY <1>2, <1>4, <2>2, <3>1, Zenon
    <3>2. CASE j # k
      BY <1>1, <1>2, <1>4, <2>1, <3>2, Zenon DEF CallerInv
    <3> QED BY <3>1, <3>2, Zenon
  <2>5. \A j \in Caller : Holds(j)' /\ setsched'[j].isrt => setsched'[j].seen
    <3> SUFFICES ASSUME NEW j \in Caller, Holds(j)', setsched'[j].isrt
                 PROVE  setsched'[j].seen
      BY Zenon
    <3>1. CASE j = k
      BY <1>4, <2>2, <3>1, Zenon
    <3>2. CASE j # k
      BY <1>1, <1>4, <2>1, <3>2, Zenon DEF CallerInv
    <3> QED BY <3>1, <3>2, Zenon
  <2>6. ASSUME NEW i \in Caller, NEW j \in Caller, Holds(i)', Holds(j)',
               setsched'[i].task = setsched'[j].task
        PROVE  i = j
    <3>1. CASE i # k /\ j # k
      BY <1>1, <1>4, <2>1, <2>6, <3>1, Zenon DEF CallerInv
    <3>2. CASE i = k /\ j # k
      <4>1. ~Locked(new.task) /\ new.task = setsched[j].task /\ Holds(j)
        BY <1>4, <2>1, <2>2, <2>6, <3>2, Zenon
      <4> QED BY <4>1, Zenon DEF Locked, Holds
    <3>3. CASE i # k /\ j = k
      <4>1. ~Locked(new.task) /\ new.task = setsched[i].task /\ Holds(i)
        BY <1>4, <2>1, <2>2, <2>6, <3>3, Zenon
      <4> QED BY <4>1, Zenon DEF Locked, Holds
    <3> QED BY <3>1, <3>2, <3>3, Zenon
  <2>7. PrioMatchesPolicy'
    BY <1>1, <1>2, Zenon DEF CallerInv, PrioMatchesPolicy
  <2> QED BY <2>3, <2>4, <2>5, <2>6, <2>7, Zenon DEF CallerInv
<1> QED BY <1>5, <1>6, <1>7, Zenon DEF IInv

\* The parameter checks, at first and after goto recheck.
LEMMA ChecksStep ==
    ASSUME IInv, NEW k \in Caller, NEW t \in Task, NEW policy \in {"keep", "normal", "rt"},
           NEW prio \in {0, 1}, SetschedChecks(k, t, policy, prio),
           UNCHANGED <<groupVars, task, sysVars, tgset, attach, history, writes>>
    PROVE  IInv'
<1> DEFINE isrt == IF policy = "keep" THEN task[t].rt ELSE policy = "rt"
           new == [pc |-> "lock", task |-> t, policy |-> policy,
                   isrt |-> isrt, prio |-> prio, seen |-> FALSE]
<1>1. isrt \in BOOLEAN
  <2>1. TaskTypes
    BY TreeInvSplit, Zenon DEF IInv
  <2>2. task[t].rt \in BOOLEAN
    BY <2>1, Zenon DEF TaskTypes, TaskRec
  <2>3. (policy = "rt") \in BOOLEAN
    BY Zenon
  <2> QED BY <2>2, <2>3, Zenon
<1>2. new \in CallRec /\ new.pc = "lock"
  BY <1>1, Zenon DEF CallRec
<1>3. \/ setsched' = [setsched EXCEPT ![k] = new] /\ isrt = (prio # 0)
      \/ setsched' = [setsched EXCEPT ![k] = NULL]
  BY Zenon DEF SetschedChecks
<1>4. CASE setsched' = [setsched EXCEPT ![k] = new] /\ isrt = (prio # 0)
  <2>1. Valid(new)
    BY <1>4, Zenon DEF Valid
  <2>2. new.pc # "store"
    BY <1>2, Zenon
  <2> HIDE DEF new
  <2> QED BY <1>2, <1>4, <2>1, <2>2, CallStep, Zenon
<1>5. CASE setsched' = [setsched EXCEPT ![k] = NULL]
  BY <1>5, CallStep, Zenon
<1> QED BY <1>3, <1>4, <1>5, Zenon

\* __sched_setscheduler under the run queue lock: refused, sent back, or about to store.
LEMMA LockedStep ==
    ASSUME IInv, NEW k \in Caller, setscheduler_locked(k)
    PROVE  IInv'
<1> DEFINE s == setsched[k]
           p == task[s.task]
           pc == IF s.policy = "keep" /\ s.isrt # p.rt THEN "recheck" ELSE "store"
           new == [pc |-> pc, task |-> s.task, policy |-> s.policy, isrt |-> s.isrt,
                   prio |-> s.prio, seen |-> Seen(p.group)]
<1>1. TreeInv /\ CallerInv /\ CallTypes
  BY TreeInvSplit, Zenon DEF IInv
<1>2. /\ s # NULL /\ s.pc = "lock" /\ ~Locked(s.task)
      /\ UNCHANGED <<groupVars, task, sysVars, tgset, attach, history, writes>>
  BY Zenon DEF setscheduler_locked
<1>3. \/ setsched' = [setsched EXCEPT ![k] = NULL]
      \/ /\ setsched' = [setsched EXCEPT ![k] = new]
         /\ ~(rt_bandwidth_enabled /\ s.isrt /\ rt[p.group].runtime = 0)
  BY Zenon DEF setscheduler_locked
<1>4. s \in CallRec /\ Valid(s)
  BY <1>1, <1>2, Zenon DEF CallTypes, CallerInv
<1>5. CASE setsched' = [setsched EXCEPT ![k] = NULL]
  BY <1>2, <1>5, CallStep, Zenon
<1>6. CASE /\ setsched' = [setsched EXCEPT ![k] = new]
           /\ ~(rt_bandwidth_enabled /\ s.isrt /\ rt[p.group].runtime = 0)
  <2>1. Seen(p.group) \in BOOLEAN
    BY Zenon DEF Seen
  <2>2. /\ s.task \in Task /\ s.policy \in {"keep", "normal", "rt"} /\ s.isrt \in BOOLEAN
        /\ s.prio \in {0, 1}
    BY <1>4, Zenon DEF CallRec
  <2>3. pc \in {"lock", "recheck", "store"}
    BY Zenon
  <2>4. new \in CallRec
    <3> HIDE DEF pc
    <3> QED BY <2>1, <2>2, <2>3, Zenon DEF CallRec
  <2>5. /\ new.pc = pc /\ new.task = s.task /\ new.policy = s.policy /\ new.isrt = s.isrt
        /\ new.prio = s.prio /\ new.seen = Seen(p.group)
    BY Zenon
  <2>6. Valid(new)
    <3> HIDE DEF new
    <3> QED BY <1>4, <2>5, Zenon DEF Valid
  <2>7. pc = "store" => (s.policy = "keep" => s.isrt = p.rt)
    BY Zenon
  <2>8. s.isrt => Seen(p.group)
    BY <1>6, Zenon DEF Seen
  <2>9. new.pc = "store" => /\ ~Locked(new.task)
                            /\ new.policy = "keep" => (task[new.task].rt <=> new.isrt)
                            /\ new.isrt => new.seen
    <3> HIDE DEF new, pc
    <3> QED BY <1>2, <2>5, <2>7, <2>8, Zenon
  <2> HIDE DEF new
  <2> QED BY <1>2, <1>6, <2>4, <2>6, <2>9, CallStep, Zenon
<1> QED BY <1>3, <1>5, <1>6, Zenon

\* __sched_setscheduler after goto recheck.
LEMMA RecheckStep ==
    ASSUME IInv, NEW k \in Caller, setscheduler_recheck(k)
    PROVE  IInv'
<1>1. /\ setsched[k] # NULL
      /\ SetschedChecks(k, setsched[k].task, "keep", setsched[k].prio)
      /\ UNCHANGED <<groupVars, task, sysVars, tgset, attach, history, writes>>
  BY Zenon DEF setscheduler_recheck
<1>2. setsched[k] \in CallRec
  BY <1>1, TreeInvSplit, Zenon DEF IInv, CallTypes
<1>3. setsched[k].task \in Task /\ setsched[k].prio \in {0, 1} /\ "keep" \in {"keep", "normal", "rt"}
  BY <1>2, Zenon DEF CallRec
<1> QED BY <1>1, <1>3, ChecksStep, Zenon

\* __setscheduler stores policy and priority, and the lock is dropped.
LEMMA SetStoreStep ==
    ASSUME IInv, NEW k \in Caller, setscheduler_store(k)
    PROVE  IInv'
<1> DEFINE s == setsched[k]
           t == s.task
           isrt == IF s.policy = "keep" THEN task[t].rt ELSE s.isrt
<1>1. TreeInv /\ CallerInv /\ WriterInv /\ GlobalInv /\ RuntimeInv
  BY Zenon DEF IInv
<1>2. /\ s # NULL /\ s.pc = "store" /\ Holds(k)
      /\ task' = [task EXCEPT ![t].rt = isrt, ![t].rt_priority = s.prio]
      /\ setsched' = [setsched EXCEPT ![k] = NULL]
      /\ UNCHANGED <<groupVars, sysVars, tgset, attach, transient, writes>>
  BY Zenon DEF setscheduler_store, Holds
<1>3. \/ overtaken' = overtaken \cup {t}
      \/ /\ overtaken' = overtaken
         /\ ~(isrt /\ ((s.seen /\ ~Seen(task[t].group)) \/ Expiring(task[t].group)))
  BY Zenon DEF setscheduler_store
<1>4. /\ parent' = parent /\ rt' = rt /\ cfs' = cfs /\ sysctl' = sysctl /\ attach' = attach
      /\ handler' = handler /\ UNCHANGED sysVars /\ writes' = writes
      /\ transient' = transient /\ tgset' = tgset
  BY <1>2, Zenon DEF groupVars, sysVars
<1>5. TaskTypes /\ CallTypes /\ s \in CallRec /\ setsched \in [Caller -> {NULL} \cup CallRec]
  BY <1>1, <1>2, TreeInvSplit, Zenon DEF CallTypes
<1>6. t \in Task /\ s.isrt \in BOOLEAN /\ s.prio \in {0, 1}
  BY <1>5, Zenon DEF CallRec
<1>7. isrt = s.isrt /\ Valid(s) /\ (s.isrt => s.seen)
  <2>1. task[t].rt \in BOOLEAN
    BY <1>5, <1>6, Zenon DEF TaskTypes, TaskRec
  <2>2. s.policy = "keep" => (task[t].rt <=> s.isrt)
    BY <1>1, <1>2, Zenon DEF CallerInv
  <2>3. s.policy = "keep" => task[t].rt = s.isrt
    BY <1>6, <2>1, <2>2, Zenon
  <2> QED BY <1>1, <1>2, <2>3, Zenon DEF CallerInv
<1>8. \A u \in Task : /\ task'[u] \in TaskRec
                      /\ u # t => task'[u] = task[u]
                      /\ u = t => /\ task'[u].rt = s.isrt /\ task'[u].rt_priority = s.prio
                                  /\ task'[u].group = task[u].group
  <2>1. \A u \in Task : task[u] \in TaskRec
    BY <1>5, Zenon DEF TaskTypes
  <2>2. task \in [Task -> TaskRec]
    BY <1>5, Zenon DEF TaskTypes
  <2>3. task' = [task EXCEPT ![t].rt = s.isrt, ![t].rt_priority = s.prio]
    BY <1>2, <1>7, Zenon
  <2>4. \A u \in Task : u # t => task'[u] = task[u]
    BY <2>2, <2>3, Zenon
  <2>5. task'[t] = [task[t] EXCEPT !.rt = s.isrt, !.rt_priority = s.prio]
    BY <1>6, <2>2, <2>3, Zenon
  <2>6. /\ task'[t] \in TaskRec /\ task'[t].rt = s.isrt
        /\ task'[t].rt_priority = s.prio /\ task'[t].group = task[t].group
    <3> DEFINE a == s.isrt
               b == s.prio
               y == [task[t] EXCEPT !.rt = a]
    <3>1. task[t] \in TaskRec /\ a \in BOOLEAN /\ b \in {0, 1}
      BY <1>6, <2>1, Zenon
    <3>2. task'[t] = [y EXCEPT !.rt_priority = b]
      BY <2>5, Zenon
    <3> HIDE DEF a, b
    <3>3. y \in TaskRec /\ y.rt = a /\ y.group = task[t].group
      BY <3>1, SMT DEF TaskRec
    <3> HIDE DEF y
    <3>4. /\ task'[t] \in TaskRec /\ task'[t].rt = y.rt
          /\ task'[t].rt_priority = b /\ task'[t].group = y.group
      BY <3>1, <3>2, <3>3, SMT DEF TaskRec
    <3> QED BY <3>3, <3>4, Zenon DEF a, b
  <2> QED BY <2>1, <2>4, <2>6, Zenon
<1>9. setsched'[k] = NULL /\ \A j \in Caller : j # k => setsched'[j] = setsched[j]
  BY <1>2, <1>5, Zenon
<1>10. TreeInv'
  <2>1. TaskTypes'
    <3>1. TaskRec' = TaskRec /\ AttachRec' = AttachRec
      BY <1>4, OnlineKept, Zenon DEF TaskRec, AttachRec
    <3>2. task' \in [Task -> TaskRec]
      <4>1. task \in [Task -> TaskRec]
        BY <1>5, Zenon DEF TaskTypes
      <4> QED BY <1>2, <1>8, <4>1, Zenon
    <3>3. overtaken' \subseteq Task
      BY <1>3, <1>5, <1>6, Zenon DEF TaskTypes
    <3> QED BY <1>4, <1>5, <3>1, <3>2, <3>3, Zenon DEF TaskTypes
  <2>2. CallTypes'
    BY <1>2, <1>5, Zenon DEF CallTypes, CallRec
  <2> QED BY <1>1, <1>4, <2>1, <2>2, TypesKept, TreeAgain, Zenon
<1>11. CallerInv'
  <2>1. \A j \in Caller : Holds(j)' => j # k /\ Holds(j) /\ setsched'[j] = setsched[j]
    BY <1>9, Zenon DEF Holds
  <2>2. \A j \in Caller : Holds(j)' => setsched[j].task \in Task /\ setsched[j].task # t
    <3>1. \A j \in Caller : Holds(j) => setsched[j].task \in Task
      BY <1>5, Zenon DEF CallRec, Holds
    <3> QED BY <1>1, <1>2, <2>1, <3>1, Zenon DEF CallerInv
  <2>3. \A j \in Caller : setsched'[j] # NULL /\ setsched'[j].pc \in {"lock", "store"} =>
           Valid(setsched[j])'
    BY <1>1, <1>9, Zenon DEF CallerInv, Valid
  <2>4. \A j \in Caller : Holds(j)' /\ setsched'[j].policy = "keep" =>
           (task'[setsched'[j].task].rt <=> setsched'[j].isrt)
    <3> SUFFICES ASSUME NEW j \in Caller, Holds(j)', setsched'[j].policy = "keep"
                 PROVE  task'[setsched'[j].task].rt <=> setsched'[j].isrt
      BY Zenon
    <3>1. setsched'[j] = setsched[j] /\ task'[setsched[j].task] = task[setsched[j].task]
      BY <1>8, <2>1, <2>2, Zenon
    <3> QED BY <1>1, <2>1, <3>1, Zenon DEF CallerInv
  <2>5. \A j \in Caller : Holds(j)' /\ setsched'[j].isrt => setsched'[j].seen
    BY <1>1, <2>1, Zenon DEF CallerInv
  <2>6. \A i, j \in Caller : Holds(i)' /\ Holds(j)' /\ setsched'[i].task = setsched'[j].task => i = j
    BY <1>1, <2>1, Zenon DEF CallerInv
  <2>7. PrioMatchesPolicy'
    <3> SUFFICES ASSUME NEW u \in Task PROVE task'[u].rt <=> task'[u].rt_priority # 0
      BY Zenon DEF PrioMatchesPolicy
    <3>1. CASE u = t
      BY <1>7, <1>8, <3>1, Zenon DEF Valid
    <3>2. CASE u # t
      BY <1>1, <1>8, <3>2, Zenon DEF CallerInv, PrioMatchesPolicy
    <3> QED BY <3>1, <3>2, Zenon
  <2> QED BY <2>3, <2>4, <2>5, <2>6, <2>7, Zenon DEF CallerInv
<1>12. WriterInv' /\ GlobalInv'
  BY <1>1, <1>4, WriterKept, GlobalKept, Zenon
<1>13. RuntimeInv'
  <2>1. Enforced' <=> Enforced
    BY <1>4, Zenon DEF Enforced
  <2>2. Enforced => rt_bandwidth_enabled
    BY Zenon DEF Enforced, rt_bandwidth_enabled
  <2>3. overtaken \subseteq overtaken' /\ attach' = attach
    BY <1>3, <1>4, Zenon
  <2>4. ASSUME Enforced, NEW u \in Task, task'[u].rt, rt[task'[u].group].runtime = 0
        PROVE  u \in overtaken'
    <3>1. CASE u = t
      <4>1. s.isrt /\ s.seen /\ isrt /\ ~Seen(task[t].group)
        BY <1>7, <1>8, <2>2, <2>4, <3>1, Zenon DEF Seen
      <4> QED BY <1>3, <3>1, <4>1, Zenon
    <3>2. CASE u # t
      BY <1>1, <1>8, <2>3, <2>4, <3>2, Zenon DEF RuntimeInv
    <3> QED BY <3>1, <3>2, Zenon
  <2>5. ASSUME Enforced, NEW w \in Writer, Storing(w), tgset[w].bw.runtime = 0,
               NEW u \in Task, task'[u].rt, task'[u].group = tgset[w].group
        PROVE  u \in overtaken'
    <3>1. CASE u = t
      <4>1. Expiring(task[t].group) /\ isrt
        BY <1>7, <1>8, <2>5, <3>1, Zenon DEF Expiring, Storing
      <4> QED BY <1>3, <3>1, <4>1, Zenon
    <3>2. CASE u # t
      BY <1>1, <1>8, <2>3, <2>5, <3>2, Zenon DEF RuntimeInv
    <3> QED BY <3>1, <3>2, Zenon
  <2> QED BY <1>1, <1>4, <2>1, <2>4, <2>5, Zenon DEF RuntimeInv, Storing
<1> QED BY <1>10, <1>11, <1>12, <1>13, Zenon DEF IInv

\* tg_set_cfs_quota and tg_set_cfs_period: only the CFS settings change.
LEMMA CfsStep ==
    ASSUME IInv, NEW g \in Group, NEW bw \in CfsRec, tg_set_cfs_bandwidth(g, bw)
    PROVE  IInv'
<1>1. TreeInv /\ CallerInv /\ WriterInv /\ GlobalInv /\ RuntimeInv
  BY Zenon DEF IInv
<1>2. /\ Write /\ cfs' = [cfs EXCEPT ![g] = bw]
      /\ UNCHANGED <<parent, rt, task, sysVars, tgset, attach, setsched, history>>
  BY Zenon DEF tg_set_cfs_bandwidth
<1>3. /\ parent' = parent /\ rt' = rt /\ task' = task /\ attach' = attach
      /\ sysctl' = sysctl /\ handler' = handler /\ UNCHANGED sysVars
      /\ tgset' = tgset /\ setsched' = setsched /\ overtaken' = overtaken /\ transient' = transient
  BY <1>2, Zenon DEF sysVars, history
<1>4. GroupTypes'
  <2>1. GroupTypes
    BY <1>1, TreeInvSplit, Zenon
  <2>2. Online' = Online /\ CfsRec' = CfsRec
    BY <1>3, OnlineKept, Zenon DEF CfsRec
  <2> QED BY <1>2, <1>3, <2>1, <2>2, Zenon DEF GroupTypes
<1>5. TreeInv'
  <2>1. (writes \in 0 .. MaxWrites)'
    BY <1>1, <1>2, WriteCounts, Zenon
  <2> QED BY <1>1, <1>3, <1>4, <2>1, TypesKept, TreeAgain, Zenon
<1> QED BY <1>1, <1>3, <1>5, CallerKept, WriterKept, GlobalKept, RuntimeKept, Zenon DEF IInv

\* The invariant holds at boot: the root group alone, with the sysctl's settings.
LEMMA InitInv == Init => IInv
<1> SUFFICES ASSUME Init PROVE IInv
  BY Zenon
<1>1. PICK p \in Period, r \in Runtime :
          /\ 0 < r /\ r <= p
          /\ sysctl = [period |-> p, runtime |-> r]
          /\ rt = [g \in Group |-> [period |-> p, runtime |-> IF g = Root THEN r ELSE 0]]
          /\ def_period = p
  BY Zenon DEF Init
<1>2. /\ parent = [g \in Group |-> NULL]
      /\ cfs = [g \in Group |-> [period |-> default_cfs_period, quota |-> RUNTIME_INF]]
      /\ task = [t \in Task |-> [rt |-> FALSE, rt_priority |-> 0, group |-> Root]]
      /\ handler = NULL /\ tgset = [w \in Writer |-> NULL] /\ attach = NULL
      /\ setsched = [k \in Caller |-> NULL] /\ overtaken = {} /\ transient = {} /\ writes = 0
  BY Zenon DEF Init
<1>3. /\ Root \in Group /\ IsFiniteSet(Group) /\ NULL \notin Group /\ NULL \notin Bandwidth
      /\ Runtime \subseteq Nat /\ 0 \in Runtime /\ Period \subseteq Nat \ {0}
      /\ default_cfs_period \in CfsPeriod /\ MaxWrites \in Nat
  BY GroupAssumption, Zenon
<1>4. Online = {Root}
  BY <1>2, <1>3, Zenon DEF Online
<1>5. r \in Runtimes /\ 0 \in Runtimes
  BY <1>3, Zenon DEF Runtimes
<1>6. /\ rt \in [Group -> Bandwidth]
      /\ rt[Root] = [period |-> p, runtime |-> r]
      /\ sysctl \in Bandwidth
  <2>1. \A x \in {r, 0} : [period |-> p, runtime |-> x] \in Bandwidth
    BY <1>5, Zenon DEF Bandwidth
  <2> QED BY <1>1, <1>3, <2>1, Zenon
<1>7. TreeInv
  <2>1. TreeTypes
    BY <1>2, <1>3, Zenon DEF TreeTypes
  <2>2. GroupTypes
    BY <1>2, <1>6, FreshCfs, Zenon DEF GroupTypes
  <2>3. SysTypes
    <3>1. sysctl \in SysRec
      BY <1>1, <1>5, Zenon DEF SysRec
    <3> QED BY <1>1, <1>2, <3>1, Zenon DEF SysTypes
  <2>4. TaskTypes
    <3>1. [rt |-> FALSE, rt_priority |-> 0, group |-> Root] \in TaskRec
      BY <1>4, SMT DEF TaskRec
    <3> QED BY <1>2, <3>1, Zenon DEF TaskTypes
  <2>5. WriterTypes /\ CallTypes
    BY <1>2, Zenon DEF WriterTypes, CallTypes
  <2>6. writes \in 0 .. MaxWrites
    BY <1>2, <1>3, SMT
  <2> QED BY <2>1, <2>2, <2>3, <2>4, <2>5, <2>6, TreeInvSplit, Zenon
<1>8. CallerInv
  BY <1>2, Zenon DEF CallerInv, Holds, PrioMatchesPolicy
<1>9. \A w \in Writer : ~Storing(w)
  BY <1>2, Zenon DEF Storing
<1>10. WriterInv
  <2>1. Fit(rt)
    <3>1. Children(Root) = {}
      BY <1>2, <1>3, Zenon DEF Children
    <3>2. RatioSum(rt, Children(Root)) = 0
      <4>1. {} \in SUBSET Group
        BY Zenon
      <4> QED BY <1>6, <3>1, <4>1, RatioSumFacts, Zenon
    <3>3. Ratio(rt[Root]) \in Nat
      BY <1>3, <1>6, RatioBounds, Zenon
    <3>4. 0 <= Ratio(rt[Root])
      BY <3>3, SMT
    <3>5. rt[Root].runtime <= rt[Root].period
      <4>1. rt[Root].runtime = r /\ rt[Root].period = p
        BY <1>6, SMT
      <4> QED BY <1>1, <4>1, Zenon
    <3> QED BY <1>4, <3>2, <3>4, <3>5, Zenon DEF Fit
  <2> QED BY <1>9, <2>1, Zenon DEF WriterInv
<1>11. GlobalInv
  <2>1. rt[Root] = sysctl /\ Settled = sysctl
    BY <1>1, <1>2, <1>6, Zenon DEF Settled
  <2>2. Limit(sysctl) = Ratio(sysctl) /\ Ratio(sysctl) \in Nat
    <3>1. ~(sysctl.runtime < 0)
      <4>1. sysctl.runtime = r /\ r \in Nat
        BY <1>1, <1>3, Zenon
      <4> QED BY <4>1, SMT
    <3> QED BY <1>6, <3>1, RatioBounds, Zenon DEF Limit, Ratio
  <2>3. Ratio(rt[Root]) <= Limit(Settled)
    BY <2>1, <2>2, SMT
  <2> QED BY <1>4, <1>9, <2>3, Zenon DEF GlobalInv
<1>12. RuntimeInv
  BY <1>2, <1>9, Zenon DEF RuntimeInv
<1> QED BY <1>7, <1>8, <1>10, <1>11, <1>12, Zenon DEF IInv

\* Every action preserves the invariant.
LEMMA NextInv == IInv /\ [Next]_vars => IInv'
<1> SUFFICES ASSUME IInv, [Next]_vars PROVE IInv'
  BY Zenon
<1>1. TreeInv /\ GroupTypes
  BY TreeInvSplit, Zenon DEF IInv
<1>2. CASE \E g, p \in Group : sched_create_group(g, p)
  BY <1>2, CreateStep, Zenon
<1>3. CASE \E g \in Group : sched_offline_group(g)
  BY <1>3, OfflineStep, Zenon
<1>4. ASSUME NEW w \in Writer, NEW g \in Group, NEW r \in Runtimes,
             sched_group_set_rt_runtime(w, g, r)
      PROVE  IInv'
  <2>1. rt[g] \in Bandwidth
    BY <1>1, Zenon DEF GroupTypes
  <2>2. rt[g].period \in Period
    BY <2>1, BandwidthType, Zenon
  <2>3. [period |-> rt[g].period, runtime |-> r] \in Bandwidth
    BY <2>2, Zenon DEF Bandwidth
  <2> QED BY <1>4, <2>3, SetStep, Zenon DEF sched_group_set_rt_runtime
<1>5. ASSUME NEW w \in Writer, NEW g \in Group, NEW p \in Period,
             sched_group_set_rt_period(w, g, p)
      PROVE  IInv'
  <2>1. rt[g] \in Bandwidth
    BY <1>1, Zenon DEF GroupTypes
  <2>2. rt[g].runtime \in Runtimes
    BY <2>1, BandwidthType, Zenon
  <2>3. [period |-> p, runtime |-> rt[g].runtime] \in Bandwidth
    BY <2>2, Zenon DEF Bandwidth
  <2> QED BY <1>5, <2>3, SetStep, Zenon DEF sched_group_set_rt_period
<1>6. CASE \E w \in Writer : tg_set_rt_check(w) \/ tg_set_rt_store(w)
  BY <1>6, CheckStep, StoreStep, Zenon
<1>7. CASE \E p \in Period \cup {0}, r \in Runtimes :
               sched_rt_handler([period |-> p, runtime |-> r])
  BY <1>7, HandlerStep, Zenon
<1>8. CASE sched_rt_handler_done
  BY <1>8, DoneStep, Zenon
<1>9. CASE \E t \in Task, g \in Group : cpu_cgroup_can_attach(t, g)
  BY <1>9, CanAttachStep, Zenon
<1>10. CASE cpu_cgroup_attach
  BY <1>10, AttachStep, Zenon
<1>11. CASE \E k \in Caller, t \in Task, policy \in {"keep", "normal", "rt"}, prio \in {0, 1} :
               sched_setscheduler(k, t, policy, prio)
  BY <1>11, ChecksStep, Zenon DEF sched_setscheduler
<1>12. CASE \E k \in Caller :
               setscheduler_locked(k) \/ setscheduler_recheck(k) \/ setscheduler_store(k)
  BY <1>12, LockedStep, RecheckStep, SetStoreStep, Zenon
<1>13. ASSUME NEW g \in Group, NEW q \in Quota \cup {RUNTIME_INF}, tg_set_cfs_quota(g, q)
       PROVE  IInv'
  <2>1. cfs[g].period \in CfsPeriod
    BY <1>1, Zenon DEF GroupTypes, CfsRec
  <2>2. [period |-> cfs[g].period, quota |-> q] \in CfsRec
    BY <2>1, Zenon DEF CfsRec
  <2> QED BY <1>13, <2>2, CfsStep, Zenon DEF tg_set_cfs_quota
<1>14. ASSUME NEW g \in Group, NEW p \in CfsPeriod, tg_set_cfs_period(g, p)
       PROVE  IInv'
  <2>1. cfs[g].quota \in Quota \cup {RUNTIME_INF}
    BY <1>1, Zenon DEF GroupTypes, CfsRec
  <2>2. [period |-> p, quota |-> cfs[g].quota] \in CfsRec
    BY <2>1, Zenon DEF CfsRec
  <2> QED BY <1>14, <2>2, CfsStep, Zenon DEF tg_set_cfs_period
<1>15. CASE UNCHANGED vars
  <2>1. /\ UNCHANGED <<parent, rt, cfs, task, attach, sysctl, handler, tgset, setsched>>
        /\ UNCHANGED <<overtaken, transient, writes>> /\ UNCHANGED sysVars
    BY <1>15, Zenon DEF vars, groupVars, sysVars, history
  <2>2. TreeInv /\ CallerInv /\ WriterInv /\ GlobalInv /\ RuntimeInv
    BY Zenon DEF IInv
  <2>3. TreeInv'
    BY <2>1, <2>2, TypesKept, TreeAgain, Zenon
  <2> QED BY <2>1, <2>2, <2>3, CallerKept, WriterKept, GlobalKept, RuntimeKept, Zenon DEF IInv
<1> QED BY <1>2, <1>3, <1>4, <1>5, <1>6, <1>7, <1>8, <1>9, <1>10, <1>11, <1>12, <1>13, <1>14, <1>15,
           Zenon DEF Next

-----------------------------------------------------------------------------
(* CFS quotas: the walk of __cfs_schedulable *)

\* The tree has no cycle: every group is further from the root than its parent.
Ranks(d) == \A h \in Group : parent[h] # NULL => d[parent[h]] < d[h]

\* The root has no limit, and nobody is above the limit of an ancestor.
CfsInv ==
    /\ \E d \in [Group -> Nat] : Ranks(d)
    /\ cfs[Root].quota = RUNTIME_INF
    /\ QuotaWithinAncestors

\* S holds the parents of its members and of g.
Above(g, S) == \A h \in S \cup {g} : parent[h] # NULL => parent[h] \in S

\* Ancestors(g) is the smallest such set.
LEMMA AncestorsLeast ==
    ASSUME TreeInv, NEW g \in Online
    PROVE  /\ Ancestors(g) \in SUBSET Online
           /\ Above(g, Ancestors(g))
           /\ \A S \in SUBSET Online : Above(g, S) => Ancestors(g) \subseteq S
<1>1. \A a : a \in Ancestors(g) <=> a \in Online /\ \A S \in SUBSET Online : Above(g, S) => a \in S
  BY Zenon DEF Ancestors, Above
<1>2. \A h \in Group : parent[h] # NULL => parent[h] \in Online
  BY Zenon DEF TreeInv
<1>3. Online \subseteq Group
  BY Zenon DEF Online
<1>4. Above(g, Ancestors(g))
  <2> SUFFICES ASSUME NEW h \in Ancestors(g) \cup {g}, parent[h] # NULL,
                      NEW S \in SUBSET Online, Above(g, S)
               PROVE  parent[h] \in S /\ parent[h] \in Online
    <3>1. \A h \in Ancestors(g) \cup {g} : h \in Group
      BY <1>1, <1>3, Zenon
    <3> QED BY <1>1, <1>2, <3>1, Zenon DEF Above
  <2>1. h \in S \cup {g}
    BY <1>1, Zenon
  <2> QED BY <2>1, Zenon DEF Above
<1> QED BY <1>1, <1>4, Zenon

\* Above the root there is nothing; above another group its parent, and what is
\* above that.
LEMMA AncestorsStep ==
    ASSUME TreeInv
    PROVE  /\ Ancestors(Root) = {}
           /\ \A g \in Online \ {Root} :
                 parent[g] \in Online /\ Ancestors(g) = {parent[g]} \cup Ancestors(parent[g])
<1>1. Root \in Online /\ parent[Root] = NULL
  BY GroupAssumption, Zenon DEF TreeInv, TypeOK, Online
<1>2. Ancestors(Root) = {}
  <2>1. Above(Root, {}) /\ {} \in SUBSET Online
    BY <1>1, Zenon DEF Above
  <2> QED BY <1>1, <2>1, AncestorsLeast, Zenon
<1>3. ASSUME NEW g \in Online \ {Root}
      PROVE  parent[g] \in Online /\ Ancestors(g) = {parent[g]} \cup Ancestors(parent[g])
  <2>1. parent[g] # NULL /\ parent[g] \in Online
    BY <1>3, Zenon DEF Online, TreeInv
  <2> DEFINE p == parent[g]
             U == {p} \cup Ancestors(p)
  <2>2. /\ Ancestors(p) \in SUBSET Online /\ Above(p, Ancestors(p))
        /\ \A S \in SUBSET Online : Above(p, S) => Ancestors(p) \subseteq S
    BY <2>1, AncestorsLeast, Zenon
  <2>3. /\ Ancestors(g) \in SUBSET Online /\ Above(g, Ancestors(g))
        /\ \A S \in SUBSET Online : Above(g, S) => Ancestors(g) \subseteq S
    BY AncestorsLeast, Zenon
  <2>4. U \in SUBSET Online /\ Above(g, U)
    BY <2>1, <2>2, Zenon DEF Above
  <2>5. Ancestors(g) \subseteq U
    BY <2>3, <2>4, Zenon
  <2>6. p \in Ancestors(g) /\ Above(p, Ancestors(g))
    BY <2>1, <2>3, Zenon DEF Above
  <2>7. Ancestors(p) \subseteq Ancestors(g)
    BY <2>2, <2>3, <2>6, Zenon
  <2> QED BY <2>1, <2>5, <2>6, <2>7, Zenon
<1> QED BY <1>2, <1>3, Zenon

\* An ancestor has a smaller rank.
LEMMA AncestorsRank ==
    ASSUME TreeInv, NEW d \in [Group -> Nat], Ranks(d), NEW g \in Online
    PROVE  \A a \in Ancestors(g) : d[a] < d[g]
<1> DEFINE S == {h \in Online : d[h] < d[g]}
<1>1. Online \subseteq Group
  BY Zenon DEF Online
<1>2. ASSUME NEW h \in S \cup {g}, parent[h] # NULL
      PROVE  parent[h] \in S
  <2>1. h \in Group /\ g \in Group
    BY <1>1, Zenon
  <2>2. parent[h] \in Online /\ d[parent[h]] < d[h]
    BY <1>2, <2>1, Zenon DEF TreeInv, Ranks
  <2>3. d[parent[h]] \in Nat /\ d[h] \in Nat /\ d[g] \in Nat
    BY <1>1, <2>1, <2>2, Zenon
  <2>4. d[h] < d[g] \/ h = g
    BY Zenon
  <2>5. d[parent[h]] < d[g]
    BY <2>2, <2>3, <2>4, SMT
  <2> QED BY <2>2, <2>5, Zenon
<1>3. Above(g, S) /\ S \in SUBSET Online
  BY <1>2, Zenon DEF Above
<1>4. Ancestors(g) \subseteq S
  BY <1>3, AncestorsLeast, Zenon
<1> QED BY <1>4, Zenon

\* f is the hierarchical_quota that a walk over the limits q computes.
Walk(f, q) ==
    f = [h \in Online |-> IF h # Root /\ q[h] = RUNTIME_INF THEN f[parent[h]] ELSE q[h]]

\* There is one: the limit of the nearest group that has one, upwards from h.
LEMMA WalkExists ==
    ASSUME TreeInv, NEW d \in [Group -> Nat], Ranks(d), NEW q, q[Root] = RUNTIME_INF
    PROVE  \E f : Walk(f, q)
<1> DEFINE E(h) == {m \in Ancestors(h) \cup {h} : q[m] # RUNTIME_INF}
           Near(S) == CHOOSE m \in S : \A k \in S : d[k] <= d[m]
           V(S) == IF S = {} THEN RUNTIME_INF ELSE q[Near(S)]
           f == [h \in Online |-> V(E(h))]
<1>1. ASSUME NEW h \in Online, h # Root, q[h] = RUNTIME_INF
      PROVE  parent[h] \in Online /\ f[h] = f[parent[h]]
  <2>1. parent[h] \in Online /\ Ancestors(h) = {parent[h]} \cup Ancestors(parent[h])
    BY <1>1, AncestorsStep, Zenon
  <2>2. E(h) = E(parent[h])
    BY <1>1, <2>1, Zenon
  <2> HIDE DEF E, V
  <2> QED BY <2>1, <2>2, Zenon
<1>2. ASSUME NEW h \in Online, h = Root
      PROVE  f[h] = q[h]
  <2>1. E(h) = {}
    BY <1>2, AncestorsStep, Zenon
  <2> HIDE DEF E
  <2> QED BY <1>2, <2>1, Zenon
<1>3. ASSUME NEW h \in Online, q[h] # RUNTIME_INF
      PROVE  f[h] = q[h]
  <2>1. Online \subseteq Group
    BY Zenon DEF Online
  <2>2. Ancestors(h) \subseteq Online
    BY AncestorsLeast, Zenon
  <2>3. h \in E(h) /\ \A k \in E(h) : k # h => k \in Ancestors(h)
    BY <1>3, Zenon
  <2>4. \A k \in E(h) : d[k] \in Nat /\ (k # h => d[k] < d[h])
    BY <2>1, <2>2, <2>3, AncestorsRank, Zenon
  <2> HIDE DEF E
  <2>5. \A k \in E(h) : d[k] <= d[h] /\ (d[h] <= d[k] => k = h)
    BY <2>3, <2>4, SMT
  <2>6. Near(E(h)) \in E(h) /\ \A k \in E(h) : d[k] <= d[Near(E(h))]
    BY <2>3, <2>5, Zenon
  <2> HIDE DEF Near
  <2>7. Near(E(h)) = h
    BY <2>3, <2>5, <2>6, Zenon
  <2>8. f[h] = q[Near(E(h))]
    BY <2>3, Zenon
  <2> QED BY <2>7, <2>8, Zenon
<1>4. f = [h \in Online |-> V(E(h))] /\ \A h \in Online : f[h] = V(E(h))
  BY Zenon
<1> HIDE DEF f, V, E
<1>5. \A h \in Online : f[h] = IF h # Root /\ q[h] = RUNTIME_INF THEN f[parent[h]] ELSE q[h]
  BY <1>1, <1>2, <1>3, Zenon
<1>6. Walk(f, q)
  BY <1>4, <1>5, Zenon DEF Walk
<1> QED BY <1>6, Zenon

\* A walk that refuses nobody leaves every group a hierarchical_quota within the
\* limits above it and its own.
LEMMA WalkBound ==
    ASSUME TreeInv, NEW d \in [Group -> Nat], Ranks(d), NEW q \in [Group -> Int], q[Root] = RUNTIME_INF,
           NEW f, Walk(f, q),
           \A h \in Online \ {Root} :
               q[h] = RUNTIME_INF \/ f[parent[h]] = RUNTIME_INF \/ q[h] <= f[parent[h]]
    PROVE  \A h \in Online :
               /\ f[h] \in Int
               /\ \A m \in Ancestors(h) \cup {h} : q[m] # RUNTIME_INF => f[h] # RUNTIME_INF /\ f[h] <= q[m]
<1> DEFINE Good(h) ==
               /\ f[h] \in Int
               /\ \A m \in Ancestors(h) \cup {h} : q[m] # RUNTIME_INF => f[h] # RUNTIME_INF /\ f[h] <= q[m]
           Bad == {h \in Online : ~Good(h)}
           T == {d[h] : h \in Bad}
<1>1. Online \subseteq Group
  BY Zenon DEF Online
<1>2. \A h \in Online : f[h] = IF h # Root /\ q[h] = RUNTIME_INF THEN f[parent[h]] ELSE q[h]
  BY Zenon DEF Walk
<1>3. ASSUME Bad # {} PROVE FALSE
  <2>1. T \in SUBSET Nat /\ T # {}
    BY <1>1, <1>3, Zenon
  <2> HIDE DEF T
  <2>2. PICK n \in T : \A i \in T : n <= i
    BY <2>1, LeastNatural
  <2>3. PICK h \in Bad : d[h] = n
    BY <2>2, Zenon DEF T
  <2>4. h \in Online /\ ~Good(h)
    BY Zenon
  <2>5. \A k \in Bad : d[h] <= d[k]
    BY <2>2, <2>3, Zenon DEF T
  <2>6. q[h] \in Int
    BY <1>1, <2>4, Zenon
  <2>7. CASE h = Root
    BY <1>2, <2>4, <2>6, <2>7, AncestorsStep, Zenon
  <2>8. CASE h # Root
    <3> DEFINE p == parent[h]
    <3>1. p \in Online /\ Ancestors(h) = {p} \cup Ancestors(p)
      BY <2>4, <2>8, AncestorsStep, Zenon
    <3>2. Good(p)
      <4>1. d[p] < d[h] /\ d[p] \in Nat /\ d[h] \in Nat
        BY <1>1, <2>4, <3>1, AncestorsRank, Zenon
      <4>2. ~(d[h] <= d[p])
        BY <4>1, SMT
      <4> QED BY <2>5, <3>1, <4>2, Zenon
    <3>3. f[p] \in Int /\ \A m \in Ancestors(h) : q[m] # RUNTIME_INF => f[p] # RUNTIME_INF /\ f[p] <= q[m]
      BY <3>1, <3>2, Zenon
    <3>4. CASE q[h] = RUNTIME_INF
      <4>1. f[h] = f[p]
        BY <1>2, <2>4, <2>8, <3>4, Zenon
      <4> QED BY <2>4, <3>3, <3>4, <4>1, Zenon
    <3>5. CASE q[h] # RUNTIME_INF
      <4>1. f[h] = q[h]
        BY <1>2, <2>4, <3>5, Zenon
      <4>2. f[p] # RUNTIME_INF => q[h] <= f[p]
        BY <2>4, <2>8, <3>5, Zenon
      <4>3. \A m \in Ancestors(h) : q[m] \in Int
        BY <1>1, <2>4, AncestorsLeast, Zenon
      <4>4. \A m \in Ancestors(h) : q[m] # RUNTIME_INF => q[h] <= q[m]
        <5> SUFFICES ASSUME NEW m \in Ancestors(h), q[m] # RUNTIME_INF PROVE q[h] <= q[m]
          BY Zenon
        <5>1. q[h] <= f[p] /\ f[p] <= q[m] /\ f[p] \in Int /\ q[m] \in Int
          BY <3>3, <4>2, <4>3, Zenon
        <5> QED BY <2>6, <5>1, SMT
      <4>5. q[h] <= q[h]
        BY <2>6, SMT
      <4> QED BY <2>4, <2>6, <3>5, <4>1, <4>4, <4>5, Zenon
    <3> QED BY <3>4, <3>5, Zenon
  <2> QED BY <2>7, <2>8, Zenon
<1> QED BY <1>3, Zenon

\* The normalised limit of a setting; RUNTIME_INF is kept for no limit.
LEMMA QuotaBounds ==
    ASSUME NEW b \in CfsRec
    PROVE  /\ normalize_cfs_quota(b) \in Int
           /\ normalize_cfs_quota(b) = RUNTIME_INF <=> b.quota = RUNTIME_INF
           /\ b.quota # RUNTIME_INF => normalize_cfs_quota(b) = to_ratio(b.period, b.quota)
<1>1. b.period \in Nat \ {0} /\ (b.quota \in Nat \/ b.quota = RUNTIME_INF)
  BY GroupAssumption, Zenon DEF CfsRec
<1>2. CASE b.quota = RUNTIME_INF
  <2>1. normalize_cfs_quota(b) = RUNTIME_INF
    BY <1>2, Zenon DEF normalize_cfs_quota
  <2>2. RUNTIME_INF \in Int
    BY SMT DEF RUNTIME_INF
  <2> QED BY <1>2, <2>1, <2>2, Zenon
<1>3. CASE b.quota # RUNTIME_INF
  <2>1. b.period # 0
    BY <1>1, SMT
  <2>2. /\ normalize_cfs_quota(b) = to_ratio(b.period, b.quota)
        /\ normalize_cfs_quota(b) = (b.quota * BW_UNIT) \div b.period
    BY <1>3, <2>1, Zenon DEF normalize_cfs_quota, to_ratio
  <2>3. (b.quota * BW_UNIT) \div b.period \in Nat
    BY <1>1, <1>3, DivBounds, Zenon
  <2>4. normalize_cfs_quota(b) \in Int /\ normalize_cfs_quota(b) # RUNTIME_INF
    BY <2>2, <2>3, SMT DEF RUNTIME_INF
  <2> QED BY <1>3, <2>2, <2>4, Zenon
<1> QED BY <1>2, <1>3, Zenon

\* CfsInv reads the tree and the CFS settings.
LEMMA CfsKept ==
    ASSUME CfsInv, UNCHANGED <<parent, cfs>>
    PROVE  CfsInv'
<1>1. Online' = Online /\ \A g : Ancestors(g)' = Ancestors(g)
  BY Zenon DEF Online, Ancestors
<1>2. \A d : Ranks(d)' <=> Ranks(d)
  BY Zenon DEF Ranks
<1> QED BY <1>1, <1>2, Zenon DEF CfsInv, QuotaWithinAncestors

\* tg_set_cfs_bandwidth: what __cfs_schedulable has accepted.
LEMMA CfsWrite ==
    ASSUME IInv, CfsInv, NEW g \in Group, NEW bw \in CfsRec, tg_set_cfs_bandwidth(g, bw)
    PROVE  CfsInv'
<1>1. TreeInv /\ cfs \in [Group -> CfsRec]
  BY TreeInvSplit, Zenon DEF IInv, GroupTypes
<1>2. parent' = parent /\ cfs' = [cfs EXCEPT ![g] = bw] /\ g # Root /\ cfs_schedulable(g, bw)
  BY Zenon DEF tg_set_cfs_bandwidth
<1>3. PICK d \in [Group -> Nat] : Ranks(d)
  BY Zenon DEF CfsInv
<1> DEFINE q == CfsProposed(g, bw)
           f == CHOOSE w : Walk(w, q)
<1>4. cfs' \in [Group -> CfsRec] /\ cfs'[Root].quota = RUNTIME_INF /\ Root \in Group
  BY <1>1, <1>2, GroupAssumption, Zenon DEF CfsInv
<1>5. q[Root] = RUNTIME_INF /\ \A h \in Group \ {Root} : q[h] = normalize_cfs_quota(cfs'[h])
  <2>1. \A h \in Group : cfs'[h] = IF h = g THEN bw ELSE cfs[h]
    BY <1>1, <1>2, Zenon
  <2> QED BY <1>4, <2>1, Zenon DEF CfsProposed
<1>6. q \in [Group -> Int]
  <2>1. q = [h \in Group |-> q[h]]
    BY Zenon DEF CfsProposed
  <2>2. RUNTIME_INF \in Int
    BY SMT DEF RUNTIME_INF
  <2>3. \A h \in Group : q[h] \in Int
    BY <1>4, <1>5, <2>2, QuotaBounds, Zenon
  <2> HIDE DEF q
  <2> QED BY <2>1, <2>3, Zenon
<1>7. \A h \in Online \ {Root} :
          q[h] = RUNTIME_INF \/ f[parent[h]] = RUNTIME_INF \/ q[h] <= f[parent[h]]
  BY <1>2, Zenon DEF cfs_schedulable, Walk
<1> HIDE DEF q
<1>8. Walk(f, q)
  BY <1>1, <1>3, <1>5, WalkExists, Zenon
<1> HIDE DEF f
<1>9. \A h \in Online :
          /\ f[h] \in Int
          /\ \A m \in Ancestors(h) \cup {h} : q[m] # RUNTIME_INF => f[h] # RUNTIME_INF /\ f[h] <= q[m]
  BY <1>1, <1>3, <1>5, <1>6, <1>7, <1>8, WalkBound
<1>10. Online' = Online /\ \A h : Ancestors(h)' = Ancestors(h)
  BY <1>2, Zenon DEF Online, Ancestors
<1>11. ASSUME NEW h \in Online, cfs'[h].quota # RUNTIME_INF,
              NEW a \in Ancestors(h), cfs'[a].quota # RUNTIME_INF
       PROVE  to_ratio(cfs'[h].period, cfs'[h].quota) <= to_ratio(cfs'[a].period, cfs'[a].quota)
  <2>1. h \in Group \ {Root} /\ a \in Group \ {Root}
    <3>1. a \in Online
      BY <1>1, AncestorsLeast, Zenon
    <3> QED BY <1>4, <1>11, <3>1, Zenon DEF Online
  <2>2. /\ q[h] = to_ratio(cfs'[h].period, cfs'[h].quota) /\ q[h] # RUNTIME_INF
        /\ q[a] = to_ratio(cfs'[a].period, cfs'[a].quota) /\ q[a] # RUNTIME_INF
    BY <1>4, <1>5, <1>11, <2>1, QuotaBounds, Zenon
  <2>3. parent[h] \in Online /\ a \in Ancestors(parent[h]) \cup {parent[h]}
    BY <1>1, <2>1, AncestorsStep, Zenon
  <2>4. f[parent[h]] \in Int /\ f[parent[h]] # RUNTIME_INF /\ f[parent[h]] <= q[a]
    BY <1>9, <2>2, <2>3, Zenon
  <2>5. q[h] <= f[parent[h]]
    BY <1>7, <2>1, <2>2, <2>4, Zenon
  <2>6. q[h] \in Int /\ q[a] \in Int
    BY <1>6, <2>1, Zenon
  <2>7. q[h] <= q[a]
    BY <2>4, <2>5, <2>6, SMT
  <2> QED BY <2>2, <2>7, Zenon
<1>12. QuotaWithinAncestors'
  BY <1>10, <1>11, Zenon DEF QuotaWithinAncestors
<1>13. Ranks(d)'
  BY <1>2, <1>3, Zenon DEF Ranks
<1> QED BY <1>4, <1>12, <1>13, Zenon DEF CfsInv

\* A group without children comes or goes.  Nobody gets a new ancestor.
LEMMA CfsLeaf ==
    ASSUME IInv, CfsInv, NEW g \in Group \ {Root}, Children(g) = {},
           NEW p \in Online \cup {NULL}, p # g,
           parent' = [parent EXCEPT ![g] = p],
           cfs' = [cfs EXCEPT ![g] = [period |-> default_cfs_period, quota |-> RUNTIME_INF]]
    PROVE  CfsInv'
<1>1. TreeInv /\ cfs \in [Group -> CfsRec] /\ parent \in [Group -> Group \cup {NULL}]
  BY TreeInvSplit, Zenon DEF IInv, GroupTypes, TreeTypes
<1>2. \A h \in Group : h # g => parent'[h] = parent[h] /\ cfs'[h] = cfs[h] /\ parent[h] # g
  BY <1>1, Zenon DEF Children
<1>3. parent'[g] = p /\ cfs'[g].quota = RUNTIME_INF
  BY <1>1, Zenon
<1>4. Online \ {g} \subseteq Online' /\ Online' \subseteq Online \cup {g} /\ Online \subseteq Group
  BY <1>2, Zenon DEF Online
<1>5. \E d \in [Group -> Nat] : Ranks(d)'
  <2>1. PICK d \in [Group -> Nat] : Ranks(d)
    BY Zenon DEF CfsInv
  <2> DEFINE n == IF p = NULL THEN 0 ELSE d[p] + 1
             e == [d EXCEPT ![g] = n]
  <2>2. p # NULL => p \in Group /\ d[p] \in Nat
    BY <1>4, Zenon
  <2>3. n \in Nat /\ (p # NULL => d[p] < n)
    BY <2>2, SMT
  <2> HIDE DEF n
  <2>4. e \in [Group -> Nat] /\ e[g] = n /\ \A h \in Group : h # g => e[h] = d[h]
    BY <2>3, Zenon
  <2> HIDE DEF e
  <2>5. \A h \in Group : parent'[h] # NULL => e[parent'[h]] < e[h]
    <3> SUFFICES ASSUME NEW h \in Group, parent'[h] # NULL PROVE e[parent'[h]] < e[h]
      BY Zenon
    <3>1. CASE h = g
      BY <1>3, <2>2, <2>3, <2>4, <3>1, Zenon
    <3>2. CASE h # g
      <4>1. parent'[h] = parent[h] /\ parent[h] # g /\ parent[h] # NULL
        BY <1>2, <3>2, Zenon
      <4>2. parent[h] \in Group
        BY <1>1, <4>1, Zenon
      <4> QED BY <2>1, <2>4, <3>2, <4>1, <4>2, Zenon DEF Ranks
    <3> QED BY <3>1, <3>2, Zenon
  <2> QED BY <2>4, <2>5, Zenon DEF Ranks
<1>6. cfs'[Root].quota = RUNTIME_INF
  BY <1>2, GroupAssumption, Zenon DEF CfsInv
<1>7. ASSUME NEW h \in Online', h # g, NEW a \in Ancestors(h)', a # g
      PROVE  h \in Online /\ a \in Ancestors(h)
  <2>1. h \in Online /\ h \in Group
    BY <1>4, <1>7, Zenon
  <2>2. a \in Online' /\ \A S \in SUBSET Online' :
            (\A k \in S \cup {h} : parent'[k] # NULL => parent'[k] \in S) => a \in S
    BY <1>7, Zenon DEF Ancestors
  <2>3. a \in Online
    BY <1>4, <1>7, <2>2, Zenon
  <2>4. ASSUME NEW S \in SUBSET Online, \A k \in S \cup {h} : parent[k] # NULL => parent[k] \in S
        PROVE  a \in S
    <3> DEFINE U == S \ {g}
    <3>1. U \in SUBSET Online'
      BY <1>4, Zenon
    <3>2. \A k \in U \cup {h} : k \in Group /\ k # g /\ k \in S \cup {h}
      BY <1>4, <1>7, <2>1, Zenon
    <3>3. \A k \in U \cup {h} : parent'[k] # NULL => parent'[k] \in U
      BY <1>2, <2>4, <3>2, Zenon
    <3> QED BY <2>2, <3>1, <3>3, Zenon
  <2> QED BY <2>1, <2>3, <2>4, Zenon DEF Ancestors
<1>8. QuotaWithinAncestors'
  <2> SUFFICES ASSUME NEW h \in Online', cfs'[h].quota # RUNTIME_INF,
                      NEW a \in Ancestors(h)', cfs'[a].quota # RUNTIME_INF
               PROVE  to_ratio(cfs'[h].period, cfs'[h].quota) <= to_ratio(cfs'[a].period, cfs'[a].quota)
    BY Zenon DEF QuotaWithinAncestors
  <2>1. h # g /\ a # g
    BY <1>3, Zenon
  <2>2. h \in Online /\ a \in Ancestors(h) /\ a \in Online
    BY <1>7, <2>1, Zenon DEF Ancestors
  <2>3. cfs'[h] = cfs[h] /\ cfs'[a] = cfs[a]
    BY <1>2, <1>4, <2>1, <2>2, Zenon
  <2> QED BY <2>2, <2>3, Zenon DEF CfsInv, QuotaWithinAncestors
<1> QED BY <1>5, <1>6, <1>8, Zenon DEF CfsInv

\* At boot nobody has a limit.
LEMMA CfsInit == Init => CfsInv
<1> SUFFICES ASSUME Init PROVE CfsInv
  BY Zenon
<1>1. /\ parent = [g \in Group |-> NULL]
      /\ cfs = [g \in Group |-> [period |-> default_cfs_period, quota |-> RUNTIME_INF]]
  BY Zenon DEF Init
<1> DEFINE d == [g \in Group |-> 0]
<1>2. d \in [Group -> Nat] /\ Ranks(d)
  BY <1>1, Zenon DEF Ranks
<1>3. \A g \in Group : cfs[g].quota = RUNTIME_INF
  BY <1>1, Zenon
<1> QED BY <1>2, <1>3, GroupAssumption, Zenon DEF CfsInv, QuotaWithinAncestors, Online

\* Only a group that comes or goes, and a write to its CFS files, reach CfsInv.
LEMMA CfsNext == IInv /\ CfsInv /\ [Next]_vars => CfsInv'
<1> SUFFICES ASSUME IInv, CfsInv, [Next]_vars PROVE CfsInv'
  BY Zenon
<1>1. TreeInv /\ GroupTypes /\ TreeTypes
  BY TreeInvSplit, Zenon DEF IInv
<1>2. ASSUME NEW g \in Group, NEW p \in Group, sched_create_group(g, p) PROVE CfsInv'
  <2>1. /\ g \notin Online /\ p \in Online /\ parent' = [parent EXCEPT ![g] = p]
        /\ cfs' = [cfs EXCEPT ![g] = [period |-> default_cfs_period, quota |-> RUNTIME_INF]]
    BY <1>2, Zenon DEF sched_create_group
  <2>2. g # Root /\ p # g
    BY <2>1, GroupAssumption, Zenon DEF Online
  <2>3. Children(g) = {}
    BY <1>1, <2>1, GroupAssumption, Zenon DEF Children, TreeTypes
  <2> QED BY <2>1, <2>2, <2>3, CfsLeaf, Zenon
<1>3. ASSUME NEW g \in Group, sched_offline_group(g) PROVE CfsInv'
  <2>1. /\ g # Root /\ Children(g) = {} /\ parent' = [parent EXCEPT ![g] = NULL] /\ NULL # g
        /\ cfs' = [cfs EXCEPT ![g] = [period |-> default_cfs_period, quota |-> RUNTIME_INF]]
    BY <1>3, GroupAssumption, Zenon DEF sched_offline_group
  <2> QED BY <2>1, CfsLeaf, Zenon
<1>4. ASSUME NEW g \in Group, NEW q \in Quota \cup {RUNTIME_INF}, tg_set_cfs_quota(g, q)
      PROVE  CfsInv'
  <2>1. cfs[g].period \in CfsPeriod
    BY <1>1, Zenon DEF GroupTypes, CfsRec
  <2>2. [period |-> cfs[g].period, quota |-> q] \in CfsRec
    BY <2>1, Zenon DEF CfsRec
  <2> QED BY <1>4, <2>2, CfsWrite, Zenon DEF tg_set_cfs_quota
<1>5. ASSUME NEW g \in Group, NEW p \in CfsPeriod, tg_set_cfs_period(g, p)
      PROVE  CfsInv'
  <2>1. cfs[g].quota \in Quota \cup {RUNTIME_INF}
    BY <1>1, Zenon DEF GroupTypes, CfsRec
  <2>2. [period |-> p, quota |-> cfs[g].quota] \in CfsRec
    BY <2>1, Zenon DEF CfsRec
  <2> QED BY <1>5, <2>2, CfsWrite, Zenon DEF tg_set_cfs_period
<1>6. ASSUME \/ \E w \in Writer, g \in Group :
                   \/ \E r \in Runtimes : sched_group_set_rt_runtime(w, g, r)
                   \/ \E p \in Period : sched_group_set_rt_period(w, g, p)
             \/ \E w \in Writer : tg_set_rt_check(w) \/ tg_set_rt_store(w)
      PROVE  UNCHANGED <<parent, cfs>>
  BY <1>6, Zenon DEF sched_group_set_rt_runtime, sched_group_set_rt_period, tg_set_rt_bandwidth,
                     tg_set_rt_check, tg_set_rt_store, groupVars
<1>7. ASSUME \/ \E p \in Period \cup {0}, r \in Runtimes : sched_rt_handler([period |-> p, runtime |-> r])
             \/ sched_rt_handler_done
             \/ \E t \in Task, g \in Group : cpu_cgroup_can_attach(t, g)
             \/ cpu_cgroup_attach
             \/ UNCHANGED vars
      PROVE  UNCHANGED <<parent, cfs>>
  BY <1>7, Zenon DEF sched_rt_handler, sched_rt_handler_done, cpu_cgroup_can_attach,
                     cpu_cgroup_attach, groupVars, vars
<1>8. ASSUME \/ \E k \in Caller, t \in Task, policy \in {"keep", "normal", "rt"}, prio \in {0, 1} :
                    sched_setscheduler(k, t, policy, prio)
             \/ \E k \in Caller :
                    setscheduler_locked(k) \/ setscheduler_recheck(k) \/ setscheduler_store(k)
      PROVE  UNCHANGED <<parent, cfs>>
  BY <1>8, Zenon DEF sched_setscheduler, setscheduler_locked, setscheduler_recheck,
                     setscheduler_store, groupVars
<1> QED BY <1>2, <1>3, <1>4, <1>5, <1>6, <1>7, <1>8, CfsKept, Zenon DEF Next

\* The inductive invariant holds in every reachable state, for any number of
\* groups, tasks, writers and callers.
THEOREM Invariance == Spec => []IInv
BY InitInv, NextInv, PTL DEF Spec

\* Every group, task and request in progress refers to groups that are online:
\* sched_offline_group never leaves a reference to a group that is gone.
THEOREM TypesStayRight == Spec => []TypeOK
<1>1. IInv => TypeOK
  BY Zenon DEF IInv, TreeInv
<1> QED BY <1>1, Invariance, PTL

\* However cpu.rt_runtime_us and cpu.rt_period_us are written, and groups come
\* and go between the walk of __rt_schedulable and the store, no group is given
\* less than its children together.
THEOREM ChildrenStayWithinParent == Spec => []ChildrenWithinParent
<1>1. IInv => ChildrenWithinParent
  BY Zenon DEF IInv, WriterInv, Fit, ChildrenWithinParent
<1> QED BY <1>1, Invariance, PTL

\* Once sched_rt_handler is through, no group that tg_set_rt_bandwidth admitted
\* against the settled sysctl has more than sysctl_sched_rt_runtime allows.
THEOREM NobodyGetsAboveGlobal == Spec => []NobodyAboveGlobal
<1>1. IInv => NobodyAboveGlobal
  BY Zenon DEF IInv, GlobalInv, Settled, Limit, global_ratio, NobodyAboveGlobal
<1> QED BY <1>1, Invariance, PTL

\* While bandwidth is enforced, a realtime task is in a group without runtime
\* only if a move or a change of policy was overtaken by a write to the group.
THEOREM RtTasksHaveRuntime == Spec => []RtTaskHasRuntime
<1>1. IInv => RtTaskHasRuntime
  BY Zenon DEF IInv, RuntimeInv, Enforced, rt_bandwidth_enabled, RtTaskHasRuntime
<1> QED BY <1>1, Invariance, PTL

\* No interleaving of sched_setscheduler and sched_setparam on one task leaves
\* a realtime policy with priority 0 or a normal policy with a realtime priority:
\* the recheck under the run queue lock is enough.
THEOREM PolicyAndPriorityAgree == Spec => []PrioMatchesPolicy
<1>1. IInv => PrioMatchesPolicy
  BY Zenon DEF IInv, CallerInv
<1> QED BY <1>1, Invariance, PTL

\* tg_cfs_schedulable_down lets hierarchical_quota through unlimited groups: in a
\* tree of any depth no group's cpu.cfs_quota_us exceeds that of a group above
\* it, in whatever order quotas and periods are written and groups come and go.
THEOREM QuotasStayWithinAncestors == Spec => []QuotaWithinAncestors
<1>1. IInv /\ IInv' /\ CfsInv /\ [Next]_vars => CfsInv'
  BY CfsNext, Zenon
<1>2. CfsInv => QuotaWithinAncestors
  BY Zenon DEF CfsInv
<1> QED BY <1>1, <1>2, CfsInit, Invariance, PTL DEF Spec
=============================================================================
