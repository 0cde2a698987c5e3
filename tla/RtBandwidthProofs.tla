------------------------- MODULE RtBandwidthProofs -------------------------
(***************************************************************************)
(* Proofs about real-time throttling, for any number of CPUs, any period   *)
(* and any sequence of limits: no runtime is lost or made while CPUs       *)
(* borrow, leave and join; a throttled CPU is known to the period timer;   *)
(* and rq->nr_running counts exactly the tasks that may be picked.         *)
(***************************************************************************)
EXTENDS RtBandwidth, FoldLemmas

Share == {n \in Int : n >= RUNTIME_INF}
Shares == [CPU -> Share]

\* The limit the CPUs have been given: sched_rt_handler gives it to them
\* before it stores it in def_rt_bandwidth.
Limit == IF sysctl.pc = "global" THEN sysctl.runtime ELSE rt_b.runtime

\* The CPUs in O take part in borrowing and own their shares of R together.
Owned(run, O, R) ==
    /\ run \in Shares
    /\ \A c \in CPU : c \notin O => run[c] = RUNTIME_INF
    /\ R = RUNTIME_INF => \A c \in CPU : run[c] = RUNTIME_INF
    /\ R # RUNTIME_INF => /\ \A c \in O : run[c] >= 0
                          /\ SumFunctionOnSet(run, O) = Cardinality(O) * R

OwnInv == ~leaked => ~wanting /\ Owned(rt_runtime, online, Limit)

\* A disabled CPU is not in update_curr_rt and not throttled.
OffInv == ~leaked => \A c \in CPU \ online : pc[c] = "unlocked" /\ ~rt_throttled[c]

\* Who is accounted has tasks, and is not throttled yet.
BusyInv ==
    \A c \in CPU : /\ curr[c] => rt_nr_running[c] > 0
                   /\ pc[c] # "unlocked" => rt_nr_running[c] > 0 /\ ~rt_throttled[c]

\* There is time to give back to a throttled CPU: the timer does not skip it.
TimeInv == \A c \in CPU : rt_throttled[c] => rt_time[c] # 0

\* What the period timer knows.  A CPU it has passed in this walk has been
\* seen, or is missed.
TimerInv ==
    /\ timer.todo # {} => timer.on
    /\ timer.on => rt_b.active
    /\ \A c \in CPU :
          /\ (rt_nr_running[c] > 0 \/ rt_throttled[c]) /\ ~rt_b.active => c \in missed
          /\ Behind(c) /\ rt_nr_running[c] > 0 /\ timer.idle => c \in missed
          /\ Behind(c) /\ rt_throttled[c] => c \in missed \/ (timer.throttled /\ ~timer.idle)

IInv == TypeOK /\ OwnInv /\ OffInv /\ BusyInv /\ TimeInv /\ CountedIffRunnable /\ TimerInv

-----------------------------------------------------------------------------
\* The operators of the model.

LEMMA Cpus == IsFiniteSet(CPU) /\ CPU \subseteq Nat /\ Cardinality(CPU) = N /\ N \in Nat
<1>1. N \in Nat /\ N > 0
  BY BandwidthAssumption, SMT DEF BandwidthAssumption
<1>2. CPU \subseteq Nat
  BY <1>1, SMT DEF CPU
<1>3. IsFiniteSet(CPU) /\ Cardinality(CPU) = N
  <2>1. IsFiniteSet(0 .. N - 1) /\ Cardinality(0 .. N - 1) = IF 0 > N - 1 THEN 0 ELSE (N - 1) - 0 + 1
    BY <1>1, FS_Interval, SMT
  <2>2. Cardinality(0 .. N - 1) = N
    BY <1>1, <2>1, SMT
  <2> QED BY <2>1, <2>2, Zenon DEF CPU
<1> QED BY <1>1, <1>2, <1>3, Zenon

LEMMA ShareFacts ==
    /\ RUNTIME_INF = -1 /\ RUNTIME_INF \in Share /\ Share \subseteq Int
    /\ \A n \in Share : n # RUNTIME_INF => n \in Nat
    /\ \A n \in Int : n >= 0 => n \in Share /\ n # RUNTIME_INF
BY SMT DEF Share, RUNTIME_INF

LEMMA SharesFacts ==
    ASSUME NEW run \in Shares
    PROVE  run \in [CPU -> Int] /\ \A c \in CPU : run[c] \in Share /\ run[c] \in Int
BY ShareFacts, Zenon DEF Shares

\* One neighbour lends.
LEMMA BorrowStep ==
    ASSUME TypeOK, NEW run \in Shares, NEW c \in CPU, NEW i \in CPU
    PROVE  \/ Borrow(run, c, i) = run
           \/ \E d \in Int :
                /\ i # c /\ run[i] # RUNTIME_INF
                /\ Borrow(run, c, i) = [[run EXCEPT ![i] = run[i] - d] EXCEPT ![c] = run[c] + d]
                /\ run[i] - d >= 0 /\ run[c] + d >= -1
                /\ run[c] >= 0 => run[c] + d >= 0
<1> DEFINE part == (run[i] - rt_time[i]) \div N
           diff == IF run[c] + part > Period THEN Period - run[c] ELSE part
<1>1. CASE i = c \/ run[i] = RUNTIME_INF \/ run[c] = Period \/ run[i] <= rt_time[i]
  BY <1>1, Zenon DEF Borrow
<1>2. CASE ~(i = c \/ run[i] = RUNTIME_INF \/ run[c] = Period \/ run[i] <= rt_time[i])
  <2>1. run[i] \in Share /\ run[c] \in Share /\ run[i] \in Int /\ run[c] \in Int /\ run \in [CPU -> Int]
    BY SharesFacts, Zenon
  <2>2. rt_time[i] \in Nat
    BY BandwidthAssumption, SMT DEF TypeOK, BandwidthAssumption
  <2>3. run[i] - rt_time[i] \in Nat /\ run[i] - rt_time[i] <= run[i] /\ run[i] \in Nat
    BY <1>2, <2>1, <2>2, SMT DEF Share, RUNTIME_INF
  <2>4. N \in Nat \ {0} /\ Period \in Nat
    BY BandwidthAssumption, SMT DEF BandwidthAssumption
  <2>5. part \in Nat /\ part <= run[i] - rt_time[i]
    BY <2>3, <2>4, Quotient
  <2>6. Borrow(run, c, i) = [run EXCEPT ![i] = @ - diff, ![c] = @ + diff]
    BY <1>2, Zenon DEF Borrow
  <2> HIDE DEF part
  <2>7. diff \in Int /\ run[i] - diff >= 0 /\ run[c] + diff >= -1 /\ (run[c] >= 0 => run[c] + diff >= 0)
    BY <2>1, <2>3, <2>4, <2>5, SMT DEF Share, RUNTIME_INF
  <2> HIDE DEF diff
  <2>8. Borrow(run, c, i) = [[run EXCEPT ![i] = run[i] - diff] EXCEPT ![c] = run[c] + diff]
    BY <1>2, <2>1, <2>6
  <2> QED BY <1>2, <2>7, <2>8, Zenon
<1> QED BY <1>1, <1>2, Zenon

\* Moving d from one entry of run to another.
LEMMA Transfer ==
    ASSUME NEW run \in [CPU -> Int], NEW new \in [CPU -> Int], NEW O \in SUBSET CPU,
           NEW i \in O, NEW c \in O, i # c, NEW d \in Int,
           new[i] = run[i] - d, new[c] = run[c] + d,
           \A j \in O : j # i /\ j # c => new[j] = run[j]
    PROVE  SumFunctionOnSet(new, O) = SumFunctionOnSet(run, O)
<1> DEFINE m == [run EXCEPT ![i] = new[i]]
           a == SumFunctionOnSet(run, O)
           b == SumFunctionOnSet(m, O)
           e == SumFunctionOnSet(new, O)
<1>1. run[i] \in Int /\ run[c] \in Int /\ IsFiniteSet(CPU) /\ i \in CPU /\ c \in CPU
  BY Cpus, Zenon
<1>2. m \in [CPU -> Int] /\ m[i] = new[i] /\ m[c] = run[c]
      /\ (\A j \in O : j # i => run[j] = m[j]) /\ (\A j \in O : j # c => m[j] = new[j])
  BY <1>1, Zenon
<1> HIDE DEF m
<1>3. b = a - run[i] + m[i]
  BY <1>1, <1>2, SumUpdate
<1>4. e = b - m[c] + new[c]
  BY <1>1, <1>2, SumUpdate
<1>5. a \in Int
  BY <1>1, SumPick
<1> HIDE DEF a, b, e
<1>6. e = a
  BY <1>1, <1>2, <1>3, <1>4, <1>5, SMT
<1> QED BY <1>6, Zenon DEF e, a

LEMMA BorrowShares ==
    ASSUME TypeOK, NEW run \in Shares, NEW c \in CPU, NEW i \in CPU
    PROVE  /\ Borrow(run, c, i) \in Shares
           /\ \A j \in CPU : j # c /\ run[j] = RUNTIME_INF => Borrow(run, c, i)[j] = RUNTIME_INF
<1>1. CASE Borrow(run, c, i) = run
  BY <1>1, Zenon
<1>2. CASE Borrow(run, c, i) # run
  <2>1. PICK d \in Int :
                /\ i # c /\ run[i] # RUNTIME_INF
                /\ Borrow(run, c, i) = [[run EXCEPT ![i] = run[i] - d] EXCEPT ![c] = run[c] + d]
                /\ run[i] - d >= 0 /\ run[c] + d >= -1
    BY <1>2, BorrowStep
  <2>2. run[i] \in Int /\ run[c] \in Int
    BY SharesFacts, Zenon
  <2>3. run[i] - d \in Share /\ run[c] + d \in Share
    BY <2>1, <2>2, SMT DEF Share, RUNTIME_INF
  <2> DEFINE u == run[i] - d
             v == run[c] + d
  <2> HIDE DEF u, v
  <2>4. u \in Share /\ v \in Share /\ Borrow(run, c, i) = [[run EXCEPT ![i] = u] EXCEPT ![c] = v]
    BY <2>1, <2>3, Zenon DEF u, v
  <2> QED BY <2>1, <2>4, Zenon DEF Shares
<1> QED BY <1>1, <1>2, Zenon

LEMMA BorrowOwned ==
    ASSUME TypeOK, NEW O \in SUBSET CPU, NEW R, NEW run, Owned(run, O, R), NEW c \in O, NEW i \in CPU
    PROVE  Owned(Borrow(run, c, i), O, R)
<1> DEFINE new == Borrow(run, c, i)
<1>0. run \in Shares /\ c \in CPU
  BY Zenon DEF Owned
<1>1. CASE new = run
  BY <1>1, Zenon
<1>2. CASE new # run
  <2>1. PICK d \in Int :
                /\ i # c /\ run[i] # RUNTIME_INF
                /\ new = [[run EXCEPT ![i] = run[i] - d] EXCEPT ![c] = run[c] + d]
                /\ run[i] - d >= 0 /\ run[c] + d >= -1
                /\ run[c] >= 0 => run[c] + d >= 0
    BY <1>0, <1>2, BorrowStep
  <2>2. R # RUNTIME_INF /\ i \in O
    BY <2>1, Zenon DEF Owned
  <2>3. run[c] + d >= 0
    BY <2>1, <2>2, Zenon DEF Owned
  <2>4. new \in Shares /\ \A j \in CPU : j # c /\ run[j] = RUNTIME_INF => new[j] = RUNTIME_INF
    BY <1>0, BorrowShares, Zenon
  <2>5. run \in [CPU -> Int]
    BY <1>0, SharesFacts, Zenon
  <2> DEFINE u == run[i] - d
             v == run[c] + d
  <2> HIDE DEF u, v, new
  <2>7. u >= 0 /\ v >= 0 /\ new = [[run EXCEPT ![i] = u] EXCEPT ![c] = v]
    BY <2>1, <2>3, Zenon DEF u, v
  <2>8. \A j \in CPU : new[j] = IF j = c THEN v ELSE IF j = i THEN u ELSE run[j]
    BY <1>0, <2>5, <2>7, Zenon
  <2>6. SumFunctionOnSet(new, O) = SumFunctionOnSet(run, O)
    <3>1. new \in [CPU -> Int]
      BY <2>4, SharesFacts, Zenon
    <3>2. new[i] = run[i] - d /\ new[c] = run[c] + d /\ \A j \in O : j # i /\ j # c => new[j] = run[j]
      BY <1>0, <2>1, <2>8, Zenon DEF u, v
    <3>3. i # c /\ d \in Int
      BY <2>1, Zenon
    <3> QED BY <2>2, <2>5, <3>1, <3>2, <3>3, Transfer
  <2>9. \A j \in O : new[j] >= 0
    <3> SUFFICES ASSUME NEW j \in O PROVE new[j] >= 0
      BY Zenon
    <3>1. run[j] >= 0 /\ j \in CPU
      BY <2>2, Zenon DEF Owned
    <3>2. new[j] = v \/ new[j] = u \/ new[j] = run[j]
      BY <2>8, <3>1, Zenon
    <3> QED BY <2>7, <3>1, <3>2, Zenon
  <2>10. \A j \in CPU : j \notin O => new[j] = RUNTIME_INF
    BY <2>4, Zenon DEF Owned
  <2>11. Owned(run, O, R) /\ Owned(new, O, R)
    BY <2>2, <2>4, <2>6, <2>9, <2>10 DEF Owned
  <2> QED BY <2>11, Zenon DEF new
<1> QED BY <1>1, <1>2, Zenon

-----------------------------------------------------------------------------
\* do_balance_runtime keeps whatever each neighbour keeps.

Balances(h, run, c) == h = [i \in -1 .. N - 1 |-> IF i = -1 THEN run ELSE Borrow(h[i - 1], c, i)]

LEMMA BalanceExists ==
    ASSUME TypeOK, NEW run \in Shares, NEW c \in CPU
    PROVE  \E h : Balances(h, run, c)
<1> DEFINE G == [i \in CPU |-> [r \in Shares |-> Borrow(r, c, i)]]
<1>1. \A i \in 0 .. N - 1 : i \in CPU /\ G[i] \in [Shares -> Shares]
  BY BorrowShares, Zenon DEF CPU
<1>2. \A i \in CPU : \A r \in Shares : G[i][r] = Borrow(r, c, i)
  BY Zenon
<1> HIDE DEF G
<1>3. N \in Nat
  BY Cpus, Zenon
<1>4. PICK f \in [-1 .. N - 1 -> Shares] : Loops(f, G, run, N)
  BY <1>1, <1>3, LoopExists
<1>5. \A i \in -1 .. N - 1 : i # -1 => i \in CPU /\ i - 1 \in -1 .. N - 1
  BY <1>3, SMT DEF CPU
<1>6. \A i \in -1 .. N - 1 : f[i] = IF i = -1 THEN run ELSE Borrow(f[i - 1], c, i)
  BY <1>2, <1>4, <1>5, Zenon DEF Loops
<1>7. Balances(f, run, c)
  BY <1>4, <1>6, Zenon DEF Balances
<1> QED BY <1>7, Zenon

LEMMA BalanceKeeps ==
    ASSUME TypeOK, NEW run \in Shares, NEW c \in CPU, NEW J,
           run \in J, \A i \in CPU : \A r \in J : Borrow(r, c, i) \in J
    PROVE  do_balance_runtime(run, c) \in J
<1> DEFINE h == CHOOSE g : Balances(g, run, c)
           K == [i \in -1 .. N - 1 |-> J]
<1>1. Balances(h, run, c)
  BY BalanceExists, Zenon
<1>2. do_balance_runtime(run, c) = h[N - 1]
  BY Zenon DEF do_balance_runtime, Balances
<1> HIDE DEF h
<1>3. N \in Nat /\ -1 \in -1 .. N - 1 /\ N - 1 \in -1 .. N - 1
      /\ \A i \in 0 .. N - 1 : i \in CPU /\ i # -1 /\ i \in -1 .. N - 1 /\ i - 1 \in -1 .. N - 1
  BY Cpus, SMT DEF CPU
<1>4. h[-1] = run /\ \A i \in 0 .. N - 1 : h[i] = Borrow(h[i - 1], c, i)
  BY <1>1, <1>3, Zenon DEF Balances
<1>5. K[-1] = J /\ K[N - 1] = J /\ \A i \in 0 .. N - 1 : K[i] = J /\ K[i - 1] = J
  BY <1>3, Zenon
<1> HIDE DEF K
<1>6. h[-1] \in K[-1] /\ \A i \in 0 .. N - 1 : h[i - 1] \in K[i - 1] => h[i] \in K[i]
  BY <1>3, <1>4, <1>5, Zenon
<1>7. h[N - 1] \in K[N - 1]
  BY <1>3, <1>6, LoopKeeps, Zenon
<1> QED BY <1>2, <1>5, <1>7, Zenon

\* What every caller of do_balance_runtime gets: shares, and, if all runtime
\* is accounted for, the same total.
LEMMA BalanceOwned ==
    ASSUME TypeOK, NEW run \in Shares, NEW c \in CPU
    PROVE  /\ do_balance_runtime(run, c) \in Shares
           /\ \A O \in SUBSET CPU : \A R : Owned(run, O, R) /\ c \in O =>
                 Owned(do_balance_runtime(run, c), O, R)
<1>1. do_balance_runtime(run, c) \in Shares
  <2>1. \A i \in CPU : \A r \in Shares : Borrow(r, c, i) \in Shares
    BY BorrowShares, Zenon
  <2> QED BY <2>1, BalanceKeeps, Zenon
<1>2. ASSUME NEW O \in SUBSET CPU, NEW R, Owned(run, O, R), c \in O
      PROVE  Owned(do_balance_runtime(run, c), O, R)
  <2> DEFINE J == {r \in Shares : Owned(r, O, R)}
  <2>1. run \in J
    BY <1>2, Zenon
  <2>2. \A i \in CPU : \A r \in J : Borrow(r, c, i) \in J
    BY <1>2, BorrowOwned, BorrowShares, Zenon
  <2> HIDE DEF J
  <2>3. do_balance_runtime(run, c) \in J
    BY <2>1, <2>2, BalanceKeeps
  <2> QED BY <2>3, Zenon DEF J
<1> QED BY <1>1, <1>2, Zenon

-----------------------------------------------------------------------------
\* Reclaim: what __disable_runtime moves.

Moves == [run : Shares, want : Int]

LEMMA MovesRecord ==
    ASSUME NEW run \in Shares, NEW want \in Int
    PROVE  [run |-> run, want |-> want] \in Moves
BY Zenon DEF Moves

LEMMA MinOfTwo ==
    ASSUME NEW a \in Int, NEW b \in Int
    PROVE  Min({a, b}) \in Int /\ Min({a, b}) <= a /\ Min({a, b}) <= b /\ (Min({a, b}) = a \/ Min({a, b}) = b)
<1>1. \E x \in {a, b} : \A y \in {a, b} : x <= y
  <2>1. a <= b \/ b <= a
    BY SMT
  <2>2. a <= a /\ b <= b
    BY SMT
  <2> QED BY <2>1, <2>2, Zenon
<1>2. Min({a, b}) \in {a, b} /\ \A y \in {a, b} : Min({a, b}) <= y
  BY <1>1, Zenon DEF Min
<1> QED BY <1>2, Zenon

\* One neighbour: nothing, or it gives d.
LEMMA ReclaimStep ==
    ASSUME NEW s \in Moves, NEW c \in CPU, NEW i \in CPU
    PROVE  \/ /\ ReclaimFrom(s, c, i) = s
              /\ i = c \/ s.run[i] = RUNTIME_INF \/ s.want = 0
           \/ /\ i # c /\ s.run[i] # RUNTIME_INF
              /\ \E d \in Int :
                    /\ ReclaimFrom(s, c, i) = [run |-> [s.run EXCEPT ![i] = s.run[i] - d], want |-> s.want - d]
                    /\ s.run[i] - d >= 0
                    /\ \/ d = s.want
                       \/ d = s.run[i] /\ s.want - d > 0
<1> DEFINE diff == IF s.want > 0 THEN Min({s.run[i], s.want}) ELSE s.want
<1>1. CASE i = c \/ s.run[i] = RUNTIME_INF \/ s.want = 0
  BY <1>1, Zenon DEF ReclaimFrom
<1>2. CASE ~(i = c \/ s.run[i] = RUNTIME_INF \/ s.want = 0)
  <2>1. s.want \in Int /\ s.run \in Shares
    BY Zenon DEF Moves
  <2>2. s.run[i] \in Int /\ s.run[i] >= 0
    <3>1. s.run[i] \in Share
      BY <2>1, Zenon DEF Shares
    <3> QED BY <1>2, <3>1, SMT DEF Share, RUNTIME_INF
  <2>3. ReclaimFrom(s, c, i) = [run |-> [s.run EXCEPT ![i] = s.run[i] - diff], want |-> s.want - diff]
    BY <1>2, Zenon DEF ReclaimFrom
  <2>4. diff \in Int /\ s.run[i] - diff >= 0 /\ (diff = s.want \/ (diff = s.run[i] /\ s.want - diff > 0))
    <3> DEFINE m == Min({s.run[i], s.want})
    <3>1. m \in Int /\ m <= s.run[i] /\ m <= s.want /\ (m = s.run[i] \/ m = s.want)
      BY <2>1, <2>2, MinOfTwo
    <3> HIDE DEF m
    <3>2. diff = IF s.want > 0 THEN m ELSE s.want
      BY Zenon DEF m
    <3> HIDE DEF diff
    <3> QED BY <2>1, <2>2, <3>1, <3>2, SMT
  <2> HIDE DEF diff
  <2> QED BY <1>2, <2>3, <2>4, Zenon
<1> QED BY <1>1, <1>2, Zenon

LEMMA ReclaimMoves ==
    ASSUME NEW s \in Moves, NEW c \in CPU, NEW i \in CPU
    PROVE  ReclaimFrom(s, c, i) \in Moves
<1>1. CASE ReclaimFrom(s, c, i) = s
  BY <1>1, Zenon
<1>2. CASE ReclaimFrom(s, c, i) # s
  <2>1. PICK d \in Int :
            /\ ReclaimFrom(s, c, i) = [run |-> [s.run EXCEPT ![i] = s.run[i] - d], want |-> s.want - d]
            /\ s.run[i] - d >= 0
    BY <1>2, ReclaimStep, Zenon
  <2>2. s.want \in Int /\ s.run \in Shares
    BY Zenon DEF Moves
  <2>3. s.want - d \in Int
    BY <2>2, SMT
  <2>4. s.run[i] - d \in Share
    BY <2>1, <2>2, SharesFacts, SMT DEF Share, RUNTIME_INF
  <2> DEFINE u == s.run[i] - d
             w == s.want - d
  <2> HIDE DEF u, w
  <2>5. ReclaimFrom(s, c, i) = [run |-> [s.run EXCEPT ![i] = u], want |-> w] /\ u \in Share /\ w \in Int
    BY <2>1, <2>3, <2>4, Zenon DEF u, w
  <2>6. [s.run EXCEPT ![i] = u] \in Shares
    BY <2>2, <2>5, Zenon DEF Shares
  <2> QED BY <2>5, <2>6, MovesRecord
<1> QED BY <1>1, <1>2, Zenon

ReclaimInit(c) == [run |-> rt_runtime, want |-> rt_b.runtime - rt_runtime[c]]
Reclaims(h, c) ==
    h = [i \in -1 .. N - 1 |-> IF i = -1 THEN [run |-> rt_runtime, want |-> rt_b.runtime - rt_runtime[c]]
                               ELSE ReclaimFrom(h[i - 1], c, i)]

LEMMA ReclaimStart ==
    ASSUME TypeOK, NEW c \in CPU
    PROVE  rt_runtime \in Shares /\ rt_runtime[c] \in Int /\ rt_b.runtime \in Share /\ ReclaimInit(c) \in Moves
<1>1. rt_runtime \in Shares
  <2>1. \A d \in CPU : rt_runtime[d] \in Share
    BY SMT DEF TypeOK, Share
  <2> QED BY <2>1, Zenon DEF TypeOK, Shares
<1>2. rt_b.runtime \in RUNTIME_INF .. Period
  BY Zenon DEF TypeOK
<1>3. rt_b.runtime \in Share
  BY <1>2, BandwidthAssumption, SMT DEF Share, RUNTIME_INF, BandwidthAssumption
<1>4. rt_runtime[c] \in Int
  BY <1>1, SharesFacts, Zenon
<1>5. rt_b.runtime - rt_runtime[c] \in Int
  BY <1>3, <1>4, SMT DEF Share
<1> QED BY <1>1, <1>3, <1>4, <1>5, Zenon DEF ReclaimInit, Moves

LEMMA ReclaimExists ==
    ASSUME TypeOK, NEW c \in CPU
    PROVE  \E h : Reclaims(h, c)
<1> DEFINE G == [i \in CPU |-> [s \in Moves |-> ReclaimFrom(s, c, i)]]
<1>1. \A i \in 0 .. N - 1 : i \in CPU /\ G[i] \in [Moves -> Moves]
  BY ReclaimMoves, Zenon DEF CPU
<1>2. \A i \in CPU : \A s \in Moves : G[i][s] = ReclaimFrom(s, c, i)
  BY Zenon
<1> HIDE DEF G
<1>3. N \in Nat /\ ReclaimInit(c) \in Moves
  BY Cpus, ReclaimStart, Zenon
<1>4. PICK f \in [-1 .. N - 1 -> Moves] : Loops(f, G, ReclaimInit(c), N)
  BY <1>1, <1>3, LoopExists
<1>5. \A i \in -1 .. N - 1 : i # -1 => i \in CPU /\ i - 1 \in -1 .. N - 1
  BY <1>3, SMT DEF CPU
<1>6. \A i \in -1 .. N - 1 : f[i] = IF i = -1 THEN ReclaimInit(c) ELSE ReclaimFrom(f[i - 1], c, i)
  BY <1>2, <1>4, <1>5, Zenon DEF Loops
<1>7. Reclaims(f, c)
  BY <1>4, <1>6, Zenon DEF Reclaims, ReclaimInit
<1> QED BY <1>7, Zenon

\* J[i] is what holds when neighbours 0 .. i have been visited.
LEMMA ReclaimKeeps ==
    ASSUME TypeOK, NEW c \in CPU, rt_runtime[c] \notin {RUNTIME_INF, rt_b.runtime},
           NEW J, ReclaimInit(c) \in J[-1],
           \A i \in CPU : \A s \in J[i - 1] : ReclaimFrom(s, c, i) \in J[i]
    PROVE  Reclaim(c) \in J[N - 1]
<1> DEFINE h == CHOOSE g : Reclaims(g, c)
<1>1. Reclaims(h, c)
  BY ReclaimExists, Zenon
<1>2. Reclaim(c) = h[N - 1]
  BY Zenon DEF Reclaim, Reclaims
<1> HIDE DEF h
<1>3. N \in Nat /\ -1 \in -1 .. N - 1 /\ N - 1 \in -1 .. N - 1
      /\ \A i \in 0 .. N - 1 : i \in CPU /\ i # -1 /\ i \in -1 .. N - 1 /\ i - 1 \in -1 .. N - 1
  BY Cpus, SMT DEF CPU
<1>4. h[-1] = ReclaimInit(c) /\ \A i \in 0 .. N - 1 : h[i] = ReclaimFrom(h[i - 1], c, i)
  BY <1>1, <1>3, Zenon DEF Reclaims, ReclaimInit
<1>5. h[-1] \in J[-1] /\ \A i \in 0 .. N - 1 : h[i - 1] \in J[i - 1] => h[i] \in J[i]
  BY <1>3, <1>4, Zenon
<1>6. h[N - 1] \in J[N - 1]
  BY <1>3, <1>5, LoopKeeps, Zenon
<1> QED BY <1>2, <1>6, Zenon

LEMMA ReclaimType ==
    ASSUME TypeOK, NEW c \in CPU
    PROVE  Reclaim(c) \in Moves
<1>1. CASE rt_runtime[c] \in {RUNTIME_INF, rt_b.runtime}
  <2>1. Reclaim(c) = [run |-> rt_runtime, want |-> 0] /\ rt_runtime \in Shares
    BY <1>1, ReclaimStart, Zenon DEF Reclaim
  <2>2. 0 \in Int
    BY SMT
  <2> QED BY <2>1, <2>2, MovesRecord
<1>2. CASE rt_runtime[c] \notin {RUNTIME_INF, rt_b.runtime}
  <2> DEFINE J == [i \in -1 .. N - 1 |-> Moves]
  <2>1. N \in Nat /\ -1 \in -1 .. N - 1 /\ N - 1 \in -1 .. N - 1
        /\ \A i \in CPU : i \in -1 .. N - 1 /\ i - 1 \in -1 .. N - 1
    BY Cpus, SMT DEF CPU
  <2>2. J[-1] = Moves /\ J[N - 1] = Moves /\ \A i \in CPU : J[i] = Moves /\ J[i - 1] = Moves
    BY <2>1, Zenon
  <2> HIDE DEF J
  <2>3. ReclaimInit(c) \in J[-1] /\ \A i \in CPU : \A s \in J[i - 1] : ReclaimFrom(s, c, i) \in J[i]
    BY <2>2, ReclaimStart, ReclaimMoves, Zenon
  <2>4. Reclaim(c) \in J[N - 1]
    BY <1>2, <2>3, ReclaimKeeps
  <2> QED BY <2>2, <2>4, Zenon
<1> QED BY <1>1, <1>2, Zenon

\* The runtime of the online CPUs if c had the limit and the others made up
\* for it.
Total(c) == Cardinality(online) * rt_b.runtime - rt_b.runtime + rt_runtime[c]

\* When neighbours 0 .. i have been visited, what is still wanted is missing
\* from the total; if it is positive they have nothing left, if it is negative
\* there was none of them.
Kept(c, i, s) ==
    /\ s.run[c] = rt_runtime[c]
    /\ \A j \in CPU : j \notin online => s.run[j] = RUNTIME_INF
    /\ \A j \in online : s.run[j] >= 0
    /\ SumFunctionOnSet(s.run, online) - s.want = Total(c)
    /\ s.want > 0 => \A j \in online : j <= i /\ j # c => s.run[j] = 0
    /\ s.want < 0 => \A j \in online : j <= i => j = c

LEMMA OnlineCount ==
    ASSUME TypeOK
    PROVE  /\ online \in SUBSET CPU /\ IsFiniteSet(online) /\ Cardinality(online) \in Nat
           /\ \A c \in online : Cardinality(online \ {c}) = Cardinality(online) - 1 /\ Cardinality(online) >= 1
<1>1. online \in SUBSET CPU
  BY Zenon DEF TypeOK
<1>2. IsFiniteSet(online)
  BY <1>1, Cpus, FS_Subset, Zenon
<1>3. Cardinality(online) \in Nat
  BY <1>2, FS_CardinalityType, Zenon
<1>4. ASSUME NEW c \in online
      PROVE  Cardinality(online \ {c}) = Cardinality(online) - 1 /\ Cardinality(online) >= 1
  <2>1. Cardinality(online \ {c}) = Cardinality(online) - 1 /\ IsFiniteSet(online \ {c})
    BY <1>2, FS_RemoveElement
  <2>2. Cardinality(online \ {c}) \in Nat
    BY <2>1, FS_CardinalityType, Zenon
  <2> QED BY <1>3, <2>1, <2>2, SMT
<1> QED BY <1>1, <1>2, <1>3, <1>4, Zenon

LEMMA KeptStep ==
    ASSUME TypeOK, NEW c \in online, NEW i \in CPU, NEW s \in Moves, Kept(c, i - 1, s)
    PROVE  Kept(c, i, ReclaimFrom(s, c, i))
<1>0. /\ s.run \in [CPU -> Int] /\ s.want \in Int /\ online \in SUBSET CPU /\ c \in CPU /\ i \in Int
      /\ IsFiniteSet(CPU) /\ \A j \in CPU : s.run[j] \in Int
  <2>1. s.run \in Shares /\ s.want \in Int
    BY Zenon DEF Moves
  <2>2. i \in Int
    BY SMT DEF CPU
  <2> QED BY <2>1, <2>2, SharesFacts, OnlineCount, Cpus, Zenon
<1>1. \A j \in online : j \in Int /\ (j <= i => j = i \/ j <= i - 1)
  <2> SUFFICES ASSUME NEW j \in online PROVE j \in Int /\ (j <= i => j = i \/ j <= i - 1)
    BY Zenon
  <2>1. j \in CPU
    BY <1>0, Zenon
  <2> QED BY <1>0, <2>1, SMT DEF CPU
<1>2. CASE i = c \/ s.run[i] = RUNTIME_INF \/ s.want = 0
  <2>1. s.want = 0 => ~(s.want > 0) /\ ~(s.want < 0)
    BY SMT
  <2>2. ~(RUNTIME_INF >= 0)
    BY SMT DEF RUNTIME_INF
  <2>3. s.want # 0 => i = c \/ i \notin online
    BY <1>2, <2>2, Zenon DEF Kept
  <2>4. s.want > 0 => \A j \in online : j <= i /\ j # c => s.run[j] = 0
    BY <1>1, <2>1, <2>3, Zenon DEF Kept
  <2>5. s.want < 0 => \A j \in online : j <= i => j = c
    BY <1>1, <2>1, <2>3, Zenon DEF Kept
  <2>6. Kept(c, i, s)
    BY <2>4, <2>5, Zenon DEF Kept
  <2>7. ReclaimFrom(s, c, i) = s
    BY <1>2, Zenon DEF ReclaimFrom
  <2> QED BY <2>6, <2>7, Zenon
<1>3. CASE ~(i = c \/ s.run[i] = RUNTIME_INF \/ s.want = 0)
  <2>1. PICK d \in Int :
                    /\ ReclaimFrom(s, c, i) = [run |-> [s.run EXCEPT ![i] = s.run[i] - d], want |-> s.want - d]
                    /\ s.run[i] - d >= 0
                    /\ \/ d = s.want
                       \/ d = s.run[i] /\ s.want - d > 0
    BY <1>0, <1>3, ReclaimStep
  <2>2. i \in online
    BY <1>3, Zenon DEF Kept
  <2> DEFINE u == s.run[i] - d
             w == s.want - d
             f == [s.run EXCEPT ![i] = u]
             a == SumFunctionOnSet(s.run, online)
             b == SumFunctionOnSet(f, online)
  <2>3. u \in Int /\ w \in Int /\ u >= 0 /\ w = s.want - d /\ u = s.run[i] - d
    BY <1>0, <2>1, SMT
  <2>4. ReclaimFrom(s, c, i) = [run |-> f, want |-> w]
    BY <2>1, Zenon
  <2>5. w = 0 \/ (w > 0 /\ s.want > 0 /\ u = 0)
    <3>1. s.run[i] >= 0 /\ s.run[i] \in Int
      BY <1>0, <2>2, Zenon DEF Kept
    <3>2. d \in Int /\ (d = s.want \/ (d = s.run[i] /\ s.want - d > 0))
      BY <2>1, Zenon
    <3> QED BY <1>0, <3>1, <3>2, SMT
  <2> HIDE DEF u, w
  <2>6. f \in [CPU -> Int] /\ f[i] = u /\ \A j \in CPU : j # i => f[j] = s.run[j]
    BY <1>0, <2>3, Zenon
  <2> HIDE DEF f
  <2>7. \A j \in online : j # i => s.run[j] = f[j]
    BY <1>0, <2>6, Zenon
  <2>8. b = a - s.run[i] + f[i]
    <3> DEFINE g == s.run
    <3>1. g \in [CPU -> Int] /\ \A j \in online : j # i => g[j] = f[j]
      BY <1>0, <2>7, Zenon
    <3> HIDE DEF g
    <3>2. f \in [CPU -> Int] /\ IsFiniteSet(CPU) /\ online \in SUBSET CPU
      BY <1>0, <2>6, Zenon
    <3>3. SumFunctionOnSet(f, online) = SumFunctionOnSet(g, online) - g[i] + f[i]
      BY <2>2, <3>1, <3>2, SumUpdate
    <3> QED BY <3>3, Zenon DEF g
  <2>9. a \in Int
    BY <1>0, SumPick
  <2>10. a - s.want = Total(c)
    BY Zenon DEF Kept
  <2>11. s.run[i] \in Int /\ d \in Int
    BY <1>0, <2>1, Zenon
  <2> HIDE DEF a, b
  <2>12. b - w = Total(c)
    BY <1>0, <2>3, <2>6, <2>8, <2>9, <2>10, <2>11, SMT
  <2>13. SumFunctionOnSet(f, online) - w = Total(c)
    BY <2>12, Zenon DEF b
  <2>14. f[c] = rt_runtime[c] /\ \A j \in CPU : j \notin online => f[j] = RUNTIME_INF
    BY <1>0, <1>3, <2>2, <2>6, Zenon DEF Kept
  <2>15. \A j \in online : f[j] >= 0
    BY <2>3, <2>6, <2>7, Zenon DEF Kept
  <2>16. w > 0 => \A j \in online : j <= i /\ j # c => f[j] = 0
    <3>1. w > 0 => s.want > 0 /\ u = 0
      BY <2>5, SMT
    <3> QED BY <1>1, <2>6, <2>7, <3>1, Zenon DEF Kept
  <2>17. ~(w < 0)
    BY <2>3, <2>5, SMT
  <2> DEFINE r == [run |-> f, want |-> w]
  <2>18. r.run = f /\ r.want = w
    BY Zenon
  <2> HIDE DEF r
  <2>19. Kept(c, i, r)
    BY <2>13, <2>14, <2>15, <2>16, <2>17, <2>18, Zenon DEF Kept
  <2> QED BY <2>4, <2>19, Zenon DEF r
<1> QED BY <1>2, <1>3, Zenon

\* What is left when c is taken out of the borrowing.
LEMMA LeaveOwned ==
    ASSUME TypeOK, NEW c \in online, rt_b.runtime # RUNTIME_INF, NEW run \in Shares,
           run[c] = rt_runtime[c],
           \A j \in CPU : j \notin online => run[j] = RUNTIME_INF,
           \A j \in online : run[j] >= 0,
           SumFunctionOnSet(run, online) = Total(c)
    PROVE  Owned([run EXCEPT ![c] = RUNTIME_INF], online \ {c}, rt_b.runtime)
<1> DEFINE f == [run EXCEPT ![c] = RUNTIME_INF]
           T == online \ {c}
           R == rt_b.runtime
           n == Cardinality(online)
<1>1. /\ online \in SUBSET CPU /\ n \in Nat /\ Cardinality(T) = n - 1 /\ c \in CPU /\ T \in SUBSET CPU
      /\ IsFiniteSet(CPU) /\ run \in [CPU -> Int] /\ run[c] \in Int
  BY OnlineCount, Cpus, SharesFacts, Zenon
<1>2. R \in Int
  BY <1>1, ReclaimStart, ShareFacts, Zenon
<1>3. f \in Shares /\ f[c] = RUNTIME_INF /\ \A j \in CPU : j # c => f[j] = run[j]
  BY <1>1, ShareFacts, Zenon DEF Shares
<1>4. SumFunctionOnSet(run, online) = run[c] + SumFunctionOnSet(run, T)
  BY <1>1, SumAdd
<1> HIDE DEF f, T
<1>5. f \in [CPU -> Int] /\ \A j \in T : run[j] = f[j]
  BY <1>1, <1>3, SharesFacts, Zenon DEF T
<1>6. SumFunctionOnSet(run, T) = SumFunctionOnSet(f, T)
  BY <1>1, <1>5, SumCongruent
<1>7. SumFunctionOnSet(f, T) \in Int
  BY <1>1, <1>5, SumPick
<1>8. SumFunctionOnSet(f, T) = Cardinality(T) * R
  <2> DEFINE x == SumFunctionOnSet(f, T)
             y == run[c]
             k == n * R
  <2>1. x \in Int /\ y \in Int /\ k \in Int /\ y + x = k - R + y
    <3>1. k \in Int
      BY <1>1, <1>2, SMT
    <3> QED BY <1>1, <1>4, <1>6, <1>7, <3>1, Zenon DEF Total
  <2>2. k - R = (n - 1) * R
    BY <1>1, <1>2, Distribute
  <2> HIDE DEF x, y, k
  <2>3. x = k - R
    BY <1>2, <2>1, SMT
  <2> QED BY <1>1, <2>2, <2>3, Zenon DEF x
<1>9. \A j \in CPU : j \notin T => f[j] = RUNTIME_INF
  BY <1>3, Zenon DEF T
<1>10. \A j \in T : f[j] >= 0
  BY <1>5, Zenon DEF T
<1>11. Owned(f, T, R)
  BY <1>3, <1>8, <1>9, <1>10, Zenon DEF Owned
<1> QED BY <1>11, Zenon DEF f, T

LEMMA ReclaimOwned ==
    ASSUME TypeOK, NEW c \in online, online # {c}, Owned(rt_runtime, online, rt_b.runtime)
    PROVE  /\ Reclaim(c).want = 0
           /\ Owned([Reclaim(c).run EXCEPT ![c] = RUNTIME_INF], online \ {c}, rt_b.runtime)
<1> DEFINE R == rt_b.runtime
           n == Cardinality(online)
           r == Reclaim(c)
<1>0. /\ online \in SUBSET CPU /\ n \in Nat /\ n >= 1 /\ c \in CPU /\ IsFiniteSet(CPU)
      /\ rt_runtime \in Shares /\ rt_runtime \in [CPU -> Int] /\ rt_runtime[c] \in Int /\ R \in Share /\ R \in Int
  BY OnlineCount, Cpus, SharesFacts, ReclaimStart, ShareFacts, Zenon
<1>1. CASE R = RUNTIME_INF
  <2>1. \A j \in CPU : rt_runtime[j] = RUNTIME_INF
    BY <1>1, Zenon DEF Owned
  <2>2. r = [run |-> rt_runtime, want |-> 0]
    BY <1>0, <2>1, Zenon DEF Reclaim
  <2>3. [rt_runtime EXCEPT ![c] = RUNTIME_INF] = rt_runtime
    BY <1>0, <2>1, Zenon
  <2>4. Owned(rt_runtime, online \ {c}, R)
    BY <1>0, <1>1, <2>1, Zenon DEF Owned
  <2>5. r.run = rt_runtime /\ r.want = 0
    BY <2>2
  <2> QED BY <2>3, <2>4, <2>5, Zenon
<1>2. CASE R # RUNTIME_INF /\ rt_runtime[c] \in {RUNTIME_INF, R}
  <2>1. rt_runtime[c] = R
    <3>1. rt_runtime[c] >= 0
      BY <1>2, Zenon DEF Owned
    <3>2. rt_runtime[c] # RUNTIME_INF
      BY <1>0, <3>1, ShareFacts, Zenon
    <3> QED BY <1>2, <3>2, Zenon
  <2>2. r = [run |-> rt_runtime, want |-> 0]
    BY <1>2, Zenon DEF Reclaim
  <2>3. SumFunctionOnSet(rt_runtime, online) = Total(c)
    <3>1. SumFunctionOnSet(rt_runtime, online) = n * R
      BY <1>2, Zenon DEF Owned
    <3>2. n * R = n * R - R + R
      BY <1>0, SMT
    <3> QED BY <2>1, <3>1, <3>2, Zenon DEF Total
  <2>4. Owned([rt_runtime EXCEPT ![c] = RUNTIME_INF], online \ {c}, R)
    BY <1>0, <1>2, <2>3, LeaveOwned DEF Owned
  <2>5. r.run = rt_runtime /\ r.want = 0
    BY <2>2
  <2> QED BY <2>4, <2>5, Zenon
<1>3. CASE R # RUNTIME_INF /\ rt_runtime[c] \notin {RUNTIME_INF, R}
  <2> DEFINE J == [i \in -1 .. N - 1 |-> {s \in Moves : Kept(c, i, s)}]
  <2>1. N \in Nat /\ -1 \in -1 .. N - 1 /\ N - 1 \in -1 .. N - 1
        /\ \A i \in CPU : i \in -1 .. N - 1 /\ i - 1 \in -1 .. N - 1
    BY Cpus, SMT DEF CPU
  <2>2. Kept(c, -1, ReclaimInit(c))
    <3> DEFINE s == ReclaimInit(c)
    <3>1. s.run = rt_runtime /\ s.want = R - rt_runtime[c]
      BY Zenon DEF ReclaimInit
    <3> HIDE DEF s
    <3>2. SumFunctionOnSet(rt_runtime, online) = n * R
      BY <1>3, Zenon DEF Owned
    <3>3. n * R - (R - rt_runtime[c]) = n * R - R + rt_runtime[c]
      BY <1>0, SMT
    <3>4. \A j \in online : ~(j <= -1)
      <4>1. online \subseteq Nat
        BY <1>0, Cpus, Zenon
      <4> QED BY <4>1, SMT
    <3>5. SumFunctionOnSet(s.run, online) - s.want = Total(c)
      BY <3>1, <3>2, <3>3, Zenon DEF Total
    <3>6. (\A j \in CPU : j \notin online => rt_runtime[j] = RUNTIME_INF) /\ \A j \in online : rt_runtime[j] >= 0
      BY <1>3, Zenon DEF Owned
    <3>7. Kept(c, -1, s)
      BY <3>1, <3>4, <3>5, <3>6, Zenon DEF Kept
    <3> QED BY <3>7, Zenon DEF s
  <2>3. ReclaimInit(c) \in J[-1]
    BY <1>0, <2>1, <2>2, ReclaimStart, Zenon
  <2>4. \A i \in CPU : \A s \in J[i - 1] : ReclaimFrom(s, c, i) \in J[i]
    BY <1>0, <2>1, KeptStep, ReclaimMoves, Zenon
  <2>5. J[N - 1] = {s \in Moves : Kept(c, N - 1, s)}
    BY <2>1, Zenon
  <2> HIDE DEF J
  <2>6. r \in J[N - 1]
    BY <1>0, <1>3, <2>3, <2>4, ReclaimKeeps
  <2>7. r \in Moves /\ Kept(c, N - 1, r)
    BY <2>5, <2>6, Zenon
  <2> HIDE DEF r
  <2>8. r.run \in Shares /\ r.want \in Int /\ r.run \in [CPU -> Int] /\ r.run[c] = rt_runtime[c]
    BY <2>7, SharesFacts, Zenon DEF Moves, Kept
  <2>9. \A j \in online : j <= N - 1
    <3>1. \A j \in CPU : j <= N - 1
      BY <2>1, SMT DEF CPU
    <3> QED BY <1>0, <3>1, Zenon
  <2>10. ~(r.want < 0)
    BY <2>7, <2>9, Zenon DEF Kept
  <2>11. ~(r.want > 0)
    <3> SUFFICES ASSUME r.want > 0 PROVE FALSE
      BY Zenon
    <3> DEFINE T == online \ {c}
               f == r.run
               x == SumFunctionOnSet(f, T)
               y == SumFunctionOnSet(f, online)
    <3>1. T \in SUBSET CPU /\ f \in [CPU -> Int] /\ 0 \in Int
      BY <1>0, <2>8, SMT
    <3>2. \A j \in T : f[j] = 0
      BY <2>7, <2>9, Zenon DEF Kept
    <3>3. y - r.want = Total(c) /\ f[c] = rt_runtime[c]
      BY <2>7, Zenon DEF Kept
    <3> HIDE DEF f
    <3>4. y = f[c] + x
      BY <1>0, <3>1, SumAdd
    <3>5. Cardinality(T) = n - 1
      BY OnlineCount, Zenon
    <3> HIDE DEF T
    <3>6. x = Cardinality(T) * 0
      BY <1>0, <3>1, <3>2, SumConstant
    <3>7. n * R - R >= 0 /\ n * R \in Int
      <4>1. n - 1 \in Nat /\ R \in Nat
        BY <1>0, <1>3, SMT DEF Share, RUNTIME_INF
      <4>2. n * R - R = (n - 1) * R
        BY <1>0, Distribute
      <4>3. (n - 1) * R >= 0
        BY <4>1, SMT
      <4>4. n * R \in Int
        BY <1>0, SMT
      <4> QED BY <4>2, <4>3, <4>4, Zenon
    <3>8. x = 0
      BY <1>0, <3>5, <3>6, SMT
    <3> DEFINE k == n * R
    <3>9. k - R >= 0 /\ k \in Int /\ y - r.want = k - R + rt_runtime[c]
      BY <3>3, <3>7, Zenon DEF Total
    <3> HIDE DEF x, y, k
    <3> QED BY <1>0, <2>8, <3>3, <3>4, <3>8, <3>9, SMT
  <2>12. r.want = 0
    BY <2>8, <2>10, <2>11, SMT
  <2>13. SumFunctionOnSet(r.run, online) = Total(c)
    <3> DEFINE y == SumFunctionOnSet(r.run, online)
    <3>1. y - r.want = Total(c)
      BY <2>7, Zenon DEF Kept
    <3>2. y \in Int
      BY <1>0, <2>8, SumPick
    <3> HIDE DEF y
    <3>3. y = Total(c)
      BY <2>12, <3>1, <3>2, SMT
    <3> QED BY <3>3, Zenon DEF y
  <2> DEFINE g == r.run
  <2>14. /\ g \in Shares /\ g[c] = rt_runtime[c] /\ SumFunctionOnSet(g, online) = Total(c)
         /\ (\A j \in CPU : j \notin online => g[j] = RUNTIME_INF) /\ \A j \in online : g[j] >= 0
    BY <2>7, <2>8, <2>13, Zenon DEF Kept
  <2> HIDE DEF g
  <2>15. Owned([g EXCEPT ![c] = RUNTIME_INF], online \ {c}, rt_b.runtime)
    BY <1>3, <2>14, LeaveOwned
  <2> QED BY <2>12, <2>15, Zenon DEF g, r
<1> QED BY <1>1, <1>2, <1>3, Zenon

LEMMA JoinOwned ==
    ASSUME TypeOK, NEW c \in CPU, c \notin online, Owned(rt_runtime, online, rt_b.runtime)
    PROVE  Owned([rt_runtime EXCEPT ![c] = rt_b.runtime], online \cup {c}, rt_b.runtime)
<1> DEFINE f == [rt_runtime EXCEPT ![c] = rt_b.runtime]
           T == online \cup {c}
           R == rt_b.runtime
           n == Cardinality(online)
<1>1. /\ online \in SUBSET CPU /\ n \in Nat /\ T \in SUBSET CPU /\ c \in T /\ T \ {c} = online
      /\ IsFiniteSet(CPU) /\ rt_runtime \in Shares /\ R \in Share
  BY OnlineCount, Cpus, ReclaimStart, Zenon
<1>2. R \in Int /\ rt_runtime \in [CPU -> Int]
  BY <1>1, ShareFacts, SharesFacts, Zenon
<1>3. Cardinality(T) = n + 1
  BY OnlineCount, FS_AddElement
<1>4. f \in Shares /\ f[c] = R /\ \A j \in CPU : j # c => f[j] = rt_runtime[j]
  BY <1>1, Zenon DEF Shares
<1> HIDE DEF f, T
<1>5. f \in [CPU -> Int] /\ \A j \in online : rt_runtime[j] = f[j]
  BY <1>1, <1>4, SharesFacts, Zenon
<1>6. CASE R = RUNTIME_INF
  <2>1. \A j \in CPU : f[j] = RUNTIME_INF
    BY <1>4, <1>6, Zenon DEF Owned
  <2>2. Owned(f, T, R)
    BY <1>4, <1>6, <2>1, Zenon DEF Owned
  <2> QED BY <2>2, Zenon DEF f, T
<1>7. CASE R # RUNTIME_INF
  <2>1. SumFunctionOnSet(f, T) = f[c] + SumFunctionOnSet(f, T \ {c})
    BY <1>1, <1>5, SumAdd
  <2>2. SumFunctionOnSet(rt_runtime, online) = SumFunctionOnSet(f, online)
    BY <1>1, <1>2, <1>5, SumCongruent
  <2>3. SumFunctionOnSet(rt_runtime, online) = n * R
    BY <1>7, Zenon DEF Owned
  <2>4. R + n * R = (n + 1) * R
    BY <1>1, <1>2, SMT
  <2>5. SumFunctionOnSet(f, T) = Cardinality(T) * R
    BY <1>1, <1>3, <1>4, <2>1, <2>2, <2>3, <2>4, Zenon
  <2>6. R >= 0
    BY <1>1, <1>7, SMT DEF Share, RUNTIME_INF
  <2>7. \A j \in T : f[j] >= 0
    BY <1>1, <1>4, <1>5, <1>7, <2>6, Zenon DEF Owned, T
  <2>8. \A j \in CPU : j \notin T => f[j] = RUNTIME_INF
    BY <1>4, Zenon DEF Owned, T
  <2>9. Owned(f, T, R)
    BY <1>4, <1>7, <2>5, <2>7, <2>8, Zenon DEF Owned
  <2> QED BY <2>9, Zenon DEF f, T
<1> QED BY <1>6, <1>7, Zenon

LEMMA AllOwned ==
    ASSUME NEW R \in Share
    PROVE  Owned([c \in CPU |-> R], CPU, R)
<1> DEFINE f == [c \in CPU |-> R]
<1>1. f \in Shares /\ f \in [CPU -> Int] /\ R \in Int /\ IsFiniteSet(CPU) /\ \A c \in CPU : f[c] = R
  BY ShareFacts, Cpus, Zenon DEF Shares
<1> HIDE DEF f
<1>2. SumFunctionOnSet(f, CPU) = Cardinality(CPU) * R
  BY <1>1, SumConstant
<1>3. R # RUNTIME_INF => R >= 0
  BY SMT DEF Share, RUNTIME_INF
<1>4. Owned(f, CPU, R)
  BY <1>1, <1>2, <1>3, Zenon DEF Owned
<1> QED BY <1>4, Zenon DEF f

-----------------------------------------------------------------------------
\* The invariant, action by action.

LEMMA InitInv == Init => IInv
<1> SUFFICES ASSUME Init PROVE IInv
  BY Zenon
<1>1. /\ 0 \in 0 .. MaxTime /\ 0 \in 0 .. MaxTasks /\ Runtime \in RUNTIME_INF .. Period
      /\ Runtime \in Int /\ Runtime >= RUNTIME_INF
  BY BandwidthAssumption, SMT DEF BandwidthAssumption, RUNTIME_INF
<1>2. Runtime \in Share
  BY <1>1, Zenon DEF Share
<1>3. TypeOK
  BY <1>1, Zenon DEF Init, TypeOK
<1>4. OwnInv
  BY <1>2, AllOwned, Zenon DEF Init, OwnInv, Limit
<1>5. ~(0 > 0)
  BY SMT
<1>6. OffInv /\ BusyInv /\ TimeInv /\ CountedIffRunnable /\ TimerInv
  BY <1>5, Zenon DEF Init, OffInv, BusyInv, TimeInv, CountedIffRunnable, TimerInv, Behind
<1> QED BY <1>3, <1>4, <1>6, Zenon DEF IInv

LEMMA SetActive ==
    ASSUME NEW S, NEW b \in [runtime : S, active : BOOLEAN], NEW a \in BOOLEAN
    PROVE  /\ [b EXCEPT !.active = a] \in [runtime : S, active : BOOLEAN]
           /\ [b EXCEPT !.active = a].runtime = b.runtime
           /\ [b EXCEPT !.active = a].active = a
BY SMT

LEMMA SetRuntime ==
    ASSUME NEW S, NEW b \in [runtime : S, active : BOOLEAN], NEW r \in S
    PROVE  /\ [b EXCEPT !.runtime = r] \in [runtime : S, active : BOOLEAN]
           /\ [b EXCEPT !.runtime = r].runtime = r
           /\ [b EXCEPT !.runtime = r].active = b.active
BY SMT

LEMMA SetPc ==
    ASSUME NEW P, NEW S, NEW b \in [pc : P, runtime : S], NEW q \in P
    PROVE  /\ [b EXCEPT !.pc = q] \in [pc : P, runtime : S]
           /\ [b EXCEPT !.pc = q].pc = q
           /\ [b EXCEPT !.pc = q].runtime = b.runtime
BY SMT

LEMMA StartTimer ==
    ASSUME TypeOK, TimerInv, NEW c \in CPU, start_rt_bandwidth(c)
    PROVE  /\ rt_b' \in [runtime : RUNTIME_INF .. Period, active : BOOLEAN]
           /\ rt_b'.runtime = rt_b.runtime /\ (rt_b.active => rt_b'.active)
           /\ missed' \subseteq CPU
           /\ \/ rt_b'.active /\ ~timer.on
              \/ missed \subseteq missed' /\ rt_b' = rt_b /\ (Behind(c) \/ ~rt_b.active => c \in missed')
<1>1. missed \subseteq CPU /\ rt_b \in [runtime : RUNTIME_INF .. Period, active : BOOLEAN]
  BY Zenon DEF TypeOK
<1>2. CASE ~rt_bandwidth_enabled \/ rt_b.runtime = RUNTIME_INF
  BY <1>1, <1>2, Zenon DEF start_rt_bandwidth
<1>3. CASE ~(~rt_bandwidth_enabled \/ rt_b.runtime = RUNTIME_INF) /\ rt_b.active
  <2>1. rt_b' = rt_b /\ missed' = IF Behind(c) THEN missed \cup {c} ELSE missed
    BY <1>3, Zenon DEF start_rt_bandwidth
  <2> QED BY <1>1, <1>3, <2>1, Zenon
<1>4. CASE ~(~rt_bandwidth_enabled \/ rt_b.runtime = RUNTIME_INF) /\ ~rt_b.active
  <2>1. missed' = {} /\ rt_b' = [rt_b EXCEPT !.active = TRUE]
    BY <1>4, Zenon DEF start_rt_bandwidth
  <2>2. ~timer.on
    BY <1>4, Zenon DEF TimerInv
  <2>3. rt_b' \in [runtime : RUNTIME_INF .. Period, active : BOOLEAN] /\ rt_b'.runtime = rt_b.runtime /\ rt_b'.active
    BY <1>1, <2>1, SetActive
  <2> QED BY <1>4, <2>1, <2>2, <2>3, Zenon
<1> QED BY <1>2, <1>3, <1>4, Zenon

\* Outside rq->nr_running the queue is not counted, inside it is counted
\* once.
LEMMA Uncounted ==
    ASSUME IInv, NEW c \in CPU
    PROVE  /\ dequeue_top_rt_rq(c) = 0
           /\ rt_nr_running[c] \in 0 .. MaxTasks /\ nr_running[c] \in 0 .. MaxTasks
           /\ rt_nr_running[c] \in Nat /\ nr_running[c] \in Nat
           /\ (rt_queued[c] <=> rt_nr_running[c] > 0 /\ ~rt_throttled[c])
           /\ nr_running[c] = IF rt_queued[c] THEN rt_nr_running[c] ELSE 0
<1>1. rt_nr_running[c] \in 0 .. MaxTasks /\ nr_running[c] \in 0 .. MaxTasks
  BY Zenon DEF IInv, TypeOK
<1>2. rt_nr_running[c] \in Nat /\ nr_running[c] \in Nat
  BY <1>1, BandwidthAssumption, SMT DEF BandwidthAssumption
<1>3. /\ (rt_queued[c] <=> rt_nr_running[c] > 0 /\ ~rt_throttled[c])
      /\ nr_running[c] = IF rt_queued[c] THEN rt_nr_running[c] ELSE 0
  BY Zenon DEF IInv, CountedIffRunnable
<1>4. dequeue_top_rt_rq(c) = 0
  BY <1>2, <1>3, SMT DEF dequeue_top_rt_rq
<1> QED BY <1>1, <1>2, <1>3, <1>4, Zenon

\* A CPU whose queue is left alone stays correctly counted.
LEMMA StillCounted ==
    ASSUME IInv, NEW d \in CPU, rt_nr_running'[d] = rt_nr_running[d], nr_running'[d] = nr_running[d],
           rt_queued'[d] = rt_queued[d], rt_throttled'[d] = rt_throttled[d]
    PROVE  /\ rt_queued'[d] <=> rt_nr_running'[d] > 0 /\ ~rt_throttled'[d]
           /\ nr_running'[d] = IF rt_queued'[d] THEN rt_nr_running'[d] ELSE 0
<1>1. /\ (rt_queued[d] <=> rt_nr_running[d] > 0 /\ ~rt_throttled[d])
      /\ nr_running[d] = IF rt_queued[d] THEN rt_nr_running[d] ELSE 0
  BY Zenon DEF IInv, CountedIffRunnable
<1> QED BY <1>1, Zenon

\* sched_rt_rq_enqueue counts the whole queue, once.
LEMMA Requeue ==
    ASSUME IInv, NEW c \in CPU, sched_rt_rq_enqueue(c)
    PROVE  /\ rt_queued' \in [CPU -> BOOLEAN] /\ nr_running' \in [CPU -> 0 .. MaxTasks]
           /\ (rt_queued'[c] <=> rt_nr_running[c] > 0)
           /\ nr_running'[c] = IF rt_queued'[c] THEN rt_nr_running[c] ELSE 0
           /\ \A d \in CPU : d # c => rt_queued'[d] = rt_queued[d] /\ nr_running'[d] = nr_running[d]
<1> DEFINE q == rt_queued[c] \/ rt_nr_running[c] > 0
           n == IF ~rt_queued[c] THEN nr_running[c] + rt_nr_running[c] ELSE nr_running[c]
<1>0. rt_queued \in [CPU -> BOOLEAN] /\ nr_running \in [CPU -> 0 .. MaxTasks]
  BY Zenon DEF IInv, TypeOK
<1>1. rt_queued' = [rt_queued EXCEPT ![c] = q] /\ nr_running' = [nr_running EXCEPT ![c] = n]
  BY Zenon DEF sched_rt_rq_enqueue
<1>2. /\ rt_nr_running[c] \in 0 .. MaxTasks /\ rt_nr_running[c] \in Nat /\ nr_running[c] \in Nat
      /\ (rt_queued[c] <=> rt_nr_running[c] > 0 /\ ~rt_throttled[c])
      /\ nr_running[c] = IF rt_queued[c] THEN rt_nr_running[c] ELSE 0
  BY Uncounted, Zenon
<1>3. n = rt_nr_running[c]
  BY <1>2, SMT
<1>4. q \in BOOLEAN /\ (q <=> rt_nr_running[c] > 0)
  BY <1>2, Zenon
<1>5. rt_nr_running[c] > 0 \/ rt_nr_running[c] = 0
  BY <1>2, SMT
<1> HIDE DEF q, n
<1>6. /\ rt_queued'[c] = q /\ nr_running'[c] = rt_nr_running[c]
      /\ rt_queued' \in [CPU -> BOOLEAN] /\ nr_running' \in [CPU -> 0 .. MaxTasks]
      /\ \A d \in CPU : d # c => rt_queued'[d] = rt_queued[d] /\ nr_running'[d] = nr_running[d]
  BY <1>0, <1>1, <1>2, <1>3, <1>4, Zenon
<1> QED BY <1>4, <1>5, <1>6, Zenon

LEMMA EnqueueInv ==
    ASSUME IInv, NEW c \in CPU, enqueue_task_rt(c)
    PROVE  IInv'
<1> DEFINE nr == rt_nr_running[c] + 1
<1>1. nr \in 0 .. MaxTasks /\ nr > 0 /\ 0 \in 0 .. MaxTasks
  <2>1. rt_nr_running[c] < MaxTasks
    BY Zenon DEF enqueue_task_rt
  <2> QED BY <2>1, Uncounted, BandwidthAssumption, SMT DEF BandwidthAssumption
<1>2. dequeue_top_rt_rq(c) + enqueue_top_rt_rq(c, nr) = IF rt_throttled[c] THEN 0 ELSE nr
  BY <1>1, Uncounted, BandwidthAssumption, SMT DEF enqueue_top_rt_rq, BandwidthAssumption
<1>3. /\ rt_nr_running' = [rt_nr_running EXCEPT ![c] = nr]
      /\ rt_queued' = [rt_queued EXCEPT ![c] = ~rt_throttled[c]]
      /\ nr_running' = [nr_running EXCEPT ![c] = IF rt_throttled[c] THEN 0 ELSE nr]
      /\ start_rt_bandwidth(c) /\ pc[c] = "unlocked"
      /\ UNCHANGED <<rt_time, rt_runtime, rt_throttled, curr, pc, online, timer, sysctl, leaked, wanting>>
  BY <1>2, Zenon DEF enqueue_task_rt, leakVars
<1> HIDE DEF nr
<1>4. /\ rt_b' \in [runtime : RUNTIME_INF .. Period, active : BOOLEAN]
      /\ rt_b'.runtime = rt_b.runtime /\ (rt_b.active => rt_b'.active)
      /\ missed' \subseteq CPU
      /\ \/ rt_b'.active /\ ~timer.on
         \/ missed \subseteq missed' /\ rt_b' = rt_b /\ (Behind(c) \/ ~rt_b.active => c \in missed')
  BY <1>3, StartTimer, Zenon DEF IInv
<1>5. TypeOK'
  <2>1. rt_nr_running' \in [CPU -> 0 .. MaxTasks] /\ nr_running' \in [CPU -> 0 .. MaxTasks] /\ rt_queued' \in [CPU -> BOOLEAN]
    BY <1>1, <1>3, Zenon DEF IInv, TypeOK
  <2> QED BY <1>3, <1>4, <2>1, Zenon DEF IInv, TypeOK
<1>6. OwnInv' /\ OffInv' /\ TimeInv'
  BY <1>3, <1>4, Zenon DEF IInv, OwnInv, Limit, OffInv, TimeInv
<1>7. \A d \in CPU : /\ d # c => rt_nr_running'[d] = rt_nr_running[d] /\ nr_running'[d] = nr_running[d]
                                 /\ rt_queued'[d] = rt_queued[d]
                     /\ rt_nr_running'[c] = nr
                     /\ rt_queued'[c] = ~rt_throttled[c]
                     /\ nr_running'[c] = IF rt_throttled[c] THEN 0 ELSE nr
  BY <1>3, Zenon DEF IInv, TypeOK
<1>8. BusyInv'
  BY <1>1, <1>3, <1>7, Zenon DEF IInv, BusyInv
<1>9. CountedIffRunnable'
  <2> SUFFICES ASSUME NEW d \in CPU
               PROVE  /\ rt_queued'[d] <=> rt_nr_running'[d] > 0 /\ ~rt_throttled'[d]
                      /\ nr_running'[d] = IF rt_queued'[d] THEN rt_nr_running'[d] ELSE 0
    BY Zenon DEF CountedIffRunnable
  <2>1. CASE d = c
    BY <1>1, <1>3, <1>7, <2>1, Zenon
  <2>2. CASE d # c
    BY <1>3, <1>7, <2>2, Uncounted, Zenon
  <2> QED BY <2>1, <2>2, Zenon
<1>10. TimerInv'
  <2>1. (timer'.todo # {} => timer'.on) /\ (timer'.on => rt_b'.active)
    BY <1>3, <1>4, Zenon DEF IInv, TimerInv
  <2>2. ASSUME NEW d \in CPU
        PROVE  /\ (rt_nr_running'[d] > 0 \/ rt_throttled'[d]) /\ ~rt_b'.active => d \in missed'
               /\ Behind(d)' /\ rt_nr_running'[d] > 0 /\ timer'.idle => d \in missed'
               /\ Behind(d)' /\ rt_throttled'[d] => d \in missed' \/ (timer'.throttled /\ ~timer'.idle)
    <3>1. Behind(d)' = Behind(d) /\ timer' = timer /\ rt_throttled' = rt_throttled
      BY <1>3, Zenon DEF Behind
    <3>2. /\ (rt_nr_running[d] > 0 \/ rt_throttled[d]) /\ ~rt_b.active => d \in missed
          /\ Behind(d) /\ rt_nr_running[d] > 0 /\ timer.idle => d \in missed
          /\ Behind(d) /\ rt_throttled[d] => d \in missed \/ (timer.throttled /\ ~timer.idle)
      BY Zenon DEF IInv, TimerInv
    <3>3. CASE rt_b'.active /\ ~timer.on
      BY <3>1, <3>3, Zenon DEF Behind
    <3>4. CASE missed \subseteq missed' /\ rt_b' = rt_b /\ (Behind(c) \/ ~rt_b.active => c \in missed')
      BY <1>7, <3>1, <3>2, <3>4, Zenon
    <3> QED BY <1>4, <3>3, <3>4, Zenon
  <2> QED BY <2>1, <2>2, Zenon DEF TimerInv
<1> QED BY <1>5, <1>6, <1>8, <1>9, <1>10, Zenon DEF IInv

LEMMA PickInv ==
    ASSUME IInv, NEW c \in CPU, pick_next_task_rt(c)
    PROVE  IInv'
<1>1. /\ curr' = [curr EXCEPT ![c] = rt_queued[c]]
      /\ UNCHANGED <<rt_time, rt_runtime, rt_throttled, rt_queued, rt_nr_running, nr_running, pc,
                     online, rt_b, timer, sysctl, missed, leaked, wanting>>
  BY Zenon DEF pick_next_task_rt, leakVars
<1>2. curr' \in [CPU -> BOOLEAN] /\ \A d \in CPU : curr'[d] => curr[d] \/ rt_queued[d]
  BY <1>1, Zenon DEF IInv, TypeOK
<1>3. TypeOK'
  BY <1>1, <1>2, Zenon DEF IInv, TypeOK
<1>4. BusyInv'
  BY <1>1, <1>2, Uncounted, Zenon DEF IInv, BusyInv
<1>5. OwnInv' /\ OffInv' /\ TimeInv' /\ CountedIffRunnable' /\ TimerInv'
  BY <1>1, Zenon DEF IInv, OwnInv, Limit, OffInv, TimeInv, CountedIffRunnable, TimerInv, Behind
<1> QED BY <1>3, <1>4, <1>5, Zenon DEF IInv

LEMMA DequeueInv ==
    ASSUME IInv, NEW c \in CPU, dequeue_task_rt(c)
    PROVE  IInv'
<1> DEFINE nr == rt_nr_running[c] - 1
           counts == nr > 0 /\ ~rt_throttled[c]
<1>1. nr \in 0 .. MaxTasks /\ nr \in Nat /\ 0 \in 0 .. MaxTasks /\ (nr > 0 => rt_nr_running[c] > 0)
  <2>1. rt_nr_running[c] > 0
    BY Zenon DEF dequeue_task_rt
  <2> QED BY <2>1, Uncounted, BandwidthAssumption, SMT DEF BandwidthAssumption
<1>2. dequeue_top_rt_rq(c) + enqueue_top_rt_rq(c, nr) = IF rt_throttled[c] THEN 0 ELSE nr
  BY <1>1, Uncounted, SMT DEF enqueue_top_rt_rq
<1>3. /\ rt_nr_running' = [rt_nr_running EXCEPT ![c] = nr]
      /\ rt_queued' = [rt_queued EXCEPT ![c] = counts]
      /\ nr_running' = [nr_running EXCEPT ![c] = IF rt_throttled[c] THEN 0 ELSE nr]
      /\ curr' = [curr EXCEPT ![c] = counts]
      /\ pc[c] = "unlocked"
      /\ UNCHANGED <<rt_time, rt_runtime, rt_throttled, pc, online, rt_b, timer, sysctl, missed, leaked, wanting>>
  BY <1>2, Zenon DEF dequeue_task_rt, leakVars
<1>5. counts <=> nr > 0 /\ ~rt_throttled[c]
  BY Zenon
<1>a. counts \in BOOLEAN
  BY Zenon
<1> HIDE DEF nr, counts
<1>4. nr > 0 \/ nr = 0
  BY <1>1, SMT
<1>6. TypeOK'
  <2>1. /\ rt_nr_running' \in [CPU -> 0 .. MaxTasks] /\ nr_running' \in [CPU -> 0 .. MaxTasks]
        /\ rt_queued' \in [CPU -> BOOLEAN] /\ curr' \in [CPU -> BOOLEAN]
    BY <1>1, <1>3, <1>a, Zenon DEF IInv, TypeOK
  <2> QED BY <1>3, <2>1, Zenon DEF IInv, TypeOK
<1>7. OwnInv' /\ OffInv' /\ TimeInv'
  BY <1>3, Zenon DEF IInv, OwnInv, Limit, OffInv, TimeInv
<1>8. \A d \in CPU : /\ d # c => rt_nr_running'[d] = rt_nr_running[d] /\ nr_running'[d] = nr_running[d]
                                 /\ rt_queued'[d] = rt_queued[d] /\ curr'[d] = curr[d]
                     /\ rt_nr_running'[c] = nr /\ rt_queued'[c] = counts /\ curr'[c] = counts
                     /\ nr_running'[c] = IF rt_throttled[c] THEN 0 ELSE nr
  BY <1>3, Zenon DEF IInv, TypeOK
<1>9. BusyInv'
  <2> SUFFICES ASSUME NEW d \in CPU
               PROVE  /\ curr'[d] => rt_nr_running'[d] > 0
                      /\ pc'[d] # "unlocked" => rt_nr_running'[d] > 0 /\ ~rt_throttled'[d]
    BY Zenon DEF BusyInv
  <2>1. CASE d = c
    <3>1. curr'[c] => nr > 0
      BY <1>5, <1>8, Zenon
    <3>2. rt_nr_running'[c] = nr /\ pc'[c] = "unlocked"
      BY <1>3, <1>8, Zenon
    <3> QED BY <2>1, <3>1, <3>2, Zenon
  <2>2. CASE d # c
    BY <1>3, <1>8, <2>2, Zenon DEF IInv, BusyInv
  <2> QED BY <2>1, <2>2, Zenon
<1>10. CountedIffRunnable'
  <2> SUFFICES ASSUME NEW d \in CPU
               PROVE  /\ rt_queued'[d] <=> rt_nr_running'[d] > 0 /\ ~rt_throttled'[d]
                      /\ nr_running'[d] = IF rt_queued'[d] THEN rt_nr_running'[d] ELSE 0
    BY Zenon DEF CountedIffRunnable
  <2>1. CASE d = c
    BY <1>3, <1>4, <1>5, <1>8, <2>1, Zenon
  <2>2. CASE d # c
    <3>1. /\ rt_nr_running'[d] = rt_nr_running[d] /\ nr_running'[d] = nr_running[d]
          /\ rt_queued'[d] = rt_queued[d] /\ rt_throttled'[d] = rt_throttled[d]
      BY <1>3, <1>8, <2>2, Zenon
    <3> QED BY <3>1, StillCounted, Zenon
  <2> QED BY <2>1, <2>2, Zenon
<1>11. \A d \in CPU : rt_nr_running'[d] > 0 => rt_nr_running[d] > 0
  BY <1>1, <1>8, Zenon
<1>12. TimerInv'
  BY <1>3, <1>11, Zenon DEF IInv, TimerInv, Behind
<1> QED BY <1>6, <1>7, <1>9, <1>10, <1>12, Zenon DEF IInv

\* Only a CPU that takes part is accounted.
LEMMA AccountedOnline ==
    ASSUME IInv, NEW c \in CPU, ~leaked, rt_runtime[c] # RUNTIME_INF \/ pc[c] # "unlocked" \/ rt_throttled[c]
    PROVE  c \in online
BY Zenon DEF IInv, OwnInv, Owned, OffInv

LEMMA Times ==
    ASSUME IInv, NEW c \in CPU
    PROVE  rt_time[c] \in 0 .. MaxTime /\ rt_time[c] \in Nat /\ rt_runtime \in Shares
           /\ rt_runtime[c] \in Share /\ rt_runtime[c] \in Int
<1>1. rt_time[c] \in 0 .. MaxTime
  BY Zenon DEF IInv, TypeOK
<1>2. rt_time[c] \in Nat
  BY <1>1, BandwidthAssumption, SMT DEF BandwidthAssumption
<1> QED BY <1>1, <1>2, ReclaimStart, SharesFacts, Zenon DEF IInv

LEMMA UpdateInv ==
    ASSUME IInv, NEW c \in CPU, NEW delta \in Delta, update_curr_rt(c, delta)
    PROVE  IInv'
<1> DEFINE time == rt_time[c] + delta
           next == IF rt_throttled[c] \/ rt_runtime[c] >= Period \/ time <= rt_runtime[c]
                   THEN "unlocked" ELSE "balance"
<1>1. /\ pc[c] = "unlocked" /\ curr[c] /\ rt_runtime[c] # RUNTIME_INF /\ time <= MaxTime
      /\ rt_time' = [rt_time EXCEPT ![c] = time] /\ pc' = [pc EXCEPT ![c] = next]
      /\ UNCHANGED <<rt_runtime, rt_throttled, rt_queued, rt_nr_running, nr_running, curr, online,
                     rt_b, timer, sysctl, missed, leaked, wanting>>
  BY Zenon DEF update_curr_rt, leakVars
<1>2. time \in 0 .. MaxTime /\ time # 0
  <2>1. delta \in Nat /\ delta # 0
    BY BandwidthAssumption, SMT DEF BandwidthAssumption
  <2> QED BY <1>1, <2>1, Times, BandwidthAssumption, SMT DEF BandwidthAssumption
<1>3. next \in {"unlocked", "balance", "exceeded"} /\ (next # "unlocked" => ~rt_throttled[c])
  BY Zenon
<1> HIDE DEF time, next
<1>4. \A d \in CPU : /\ d # c => rt_time'[d] = rt_time[d] /\ pc'[d] = pc[d]
                     /\ rt_time'[c] = time /\ pc'[c] = next
  BY <1>1, Zenon DEF IInv, TypeOK
<1>5. TypeOK'
  <2>1. rt_time' \in [CPU -> 0 .. MaxTime] /\ pc' \in [CPU -> {"unlocked", "balance", "exceeded"}]
    BY <1>1, <1>2, <1>3, Zenon DEF IInv, TypeOK
  <2> QED BY <1>1, <2>1, Zenon DEF IInv, TypeOK
<1>6. OwnInv' /\ CountedIffRunnable' /\ TimerInv'
  BY <1>1, Zenon DEF IInv, OwnInv, Limit, CountedIffRunnable, TimerInv, Behind
<1>7. OffInv'
  <2>1. ~leaked => c \in online
    BY <1>1, AccountedOnline, Zenon
  <2> QED BY <1>1, <1>4, <2>1, Zenon DEF IInv, OffInv
<1>8. BusyInv'
  <2>1. rt_nr_running[c] > 0
    BY <1>1, Zenon DEF IInv, BusyInv
  <2> QED BY <1>1, <1>3, <1>4, <2>1, Zenon DEF IInv, BusyInv
<1>9. TimeInv'
  BY <1>1, <1>2, <1>4, Zenon DEF IInv, TimeInv
<1> QED BY <1>5, <1>6, <1>7, <1>8, <1>9, Zenon DEF IInv

\* What do_balance_runtime does for a CPU that takes part in the borrowing.
LEMMA BalancedInv ==
    ASSUME IInv, NEW c \in CPU, ~leaked => c \in online, NEW run, run = do_balance_runtime(rt_runtime, c)
    PROVE  run \in Shares /\ (~leaked => Owned(run, online, Limit))
<1>1. rt_runtime \in Shares /\ online \in SUBSET CPU
  BY Times, Zenon DEF IInv, TypeOK
<1>2. ~leaked => Owned(rt_runtime, online, Limit)
  BY Zenon DEF IInv, OwnInv
<1> QED BY <1>1, <1>2, BalanceOwned, Zenon DEF IInv

LEMMA SharesTyped ==
    ASSUME NEW run \in Shares
    PROVE  run \in [CPU -> Int] /\ \A c \in CPU : run[c] >= RUNTIME_INF
BY SharesFacts, Zenon DEF Share

LEMMA BalanceInv ==
    ASSUME IInv, NEW c \in CPU, balance_runtime(c)
    PROVE  IInv'
<1>1. /\ pc[c] = "balance" /\ rt_runtime' = do_balance_runtime(rt_runtime, c)
      /\ pc' = [pc EXCEPT ![c] = "exceeded"]
      /\ UNCHANGED <<rt_time, rt_throttled, rt_queued, rt_nr_running, nr_running, curr, online,
                     rt_b, timer, sysctl, missed, leaked, wanting>>
  BY Zenon DEF balance_runtime, leakVars
<1>2. pc[c] # "unlocked"
  BY <1>1, Zenon
<1>3. ~leaked => c \in online
  BY <1>2, AccountedOnline, Zenon
<1>4. rt_runtime' \in Shares /\ (~leaked => Owned(rt_runtime', online, Limit))
  BY <1>1, <1>3, BalancedInv
<1>5. \A d \in CPU : d # c => pc'[d] = pc[d]
  BY <1>1, Zenon DEF IInv, TypeOK
<1>6. TypeOK'
  <2>1. rt_runtime' \in [CPU -> Int] /\ \A d \in CPU : rt_runtime'[d] >= RUNTIME_INF
    BY <1>4, SharesTyped
  <2>2. pc' \in [CPU -> {"unlocked", "balance", "exceeded"}]
    BY <1>1, Zenon DEF IInv, TypeOK
  <2> QED BY <1>1, <2>1, <2>2, Zenon DEF IInv, TypeOK
<1>7. OwnInv'
  BY <1>1, <1>4, Zenon DEF IInv, OwnInv, Limit
<1>8. CountedIffRunnable' /\ TimerInv' /\ TimeInv'
  BY <1>1, Zenon DEF IInv, TimeInv, CountedIffRunnable, TimerInv, Behind
<1>9. OffInv'
  BY <1>1, <1>3, <1>5, Zenon DEF IInv, OffInv
<1>10. BusyInv'
  BY <1>1, <1>2, <1>5, Zenon DEF IInv, BusyInv
<1> QED BY <1>6, <1>7, <1>8, <1>9, <1>10, Zenon DEF IInv

LEMMA ExceededInv ==
    ASSUME IInv, NEW c \in CPU, sched_rt_runtime_exceeded(c)
    PROVE  IInv'
<1> DEFINE exceeded == rt_runtime[c] # RUNTIME_INF /\ rt_time[c] > rt_runtime[c]
           throttle == exceeded /\ rt_b.runtime # 0
           time == IF exceeded /\ ~throttle THEN 0 ELSE rt_time[c]
           queued == rt_queued[c] /\ ~throttle
           count == IF throttle THEN 0 ELSE nr_running[c]
<1>1. /\ pc[c] = "exceeded" /\ rt_throttled' = [rt_throttled EXCEPT ![c] = throttle]
      /\ rt_time' = [rt_time EXCEPT ![c] = time]
      /\ rt_queued' = [rt_queued EXCEPT ![c] = queued]
      /\ nr_running' = [nr_running EXCEPT ![c] = count]
      /\ pc' = [pc EXCEPT ![c] = "unlocked"]
      /\ missed' = IF throttle /\ Behind(c) THEN missed \cup {c} ELSE missed
      /\ UNCHANGED <<rt_runtime, rt_nr_running, curr, online, rt_b, timer, sysctl, leaked, wanting>>
  BY Uncounted, Zenon DEF sched_rt_runtime_exceeded, leakVars
<1>2. rt_nr_running[c] > 0 /\ ~rt_throttled[c] /\ pc[c] # "unlocked"
  BY <1>1, Zenon DEF IInv, BusyInv
<1>3. ~leaked => c \in online
  BY <1>2, AccountedOnline, Zenon
<1>4. throttle \in BOOLEAN /\ queued \in BOOLEAN /\ (queued <=> rt_queued[c] /\ ~throttle)
      /\ count = IF throttle THEN 0 ELSE nr_running[c]
  BY Zenon
<1>5. throttle => time # 0
  <2>1. throttle => rt_time[c] > rt_runtime[c] /\ rt_runtime[c] # RUNTIME_INF /\ time = rt_time[c]
    BY Zenon
  <2> HIDE DEF throttle, time
  <2> QED BY <2>1, Times, SMT DEF Share, RUNTIME_INF
<1>6. time \in 0 .. MaxTime /\ count \in 0 .. MaxTasks
  <2>1. 0 \in 0 .. MaxTime /\ 0 \in 0 .. MaxTasks
    BY BandwidthAssumption, SMT DEF BandwidthAssumption
  <2> QED BY <2>1, Times, Uncounted, Zenon
<1> HIDE DEF exceeded, throttle, time, queued, count
<1>7. \A d \in CPU : d # c => /\ rt_throttled'[d] = rt_throttled[d] /\ rt_time'[d] = rt_time[d]
                              /\ rt_queued'[d] = rt_queued[d] /\ nr_running'[d] = nr_running[d]
                              /\ pc'[d] = pc[d]
  BY <1>1, Zenon DEF IInv, TypeOK
<1>8. /\ rt_throttled'[c] = throttle /\ rt_time'[c] = time /\ rt_queued'[c] = queued
      /\ nr_running'[c] = count /\ pc'[c] = "unlocked"
  BY <1>1, Zenon DEF IInv, TypeOK
<1>9. TypeOK'
  <2>1. /\ rt_time' \in [CPU -> 0 .. MaxTime] /\ pc' \in [CPU -> {"unlocked", "balance", "exceeded"}]
        /\ rt_throttled' \in [CPU -> BOOLEAN] /\ rt_queued' \in [CPU -> BOOLEAN]
        /\ nr_running' \in [CPU -> 0 .. MaxTasks] /\ missed' \subseteq CPU
    BY <1>1, <1>4, <1>6, Zenon DEF IInv, TypeOK
  <2> QED BY <1>1, <2>1, Zenon DEF IInv, TypeOK
<1>10. OwnInv'
  BY <1>1, Zenon DEF IInv, OwnInv, Limit
<1>11. OffInv'
  BY <1>1, <1>3, <1>7, Zenon DEF IInv, OffInv
<1>12. BusyInv'
  BY <1>1, <1>7, <1>8, Zenon DEF IInv, BusyInv
<1>13. TimeInv'
  BY <1>5, <1>7, <1>8, Zenon DEF IInv, TimeInv
<1>14. CountedIffRunnable'
  <2> SUFFICES ASSUME NEW d \in CPU
               PROVE  /\ rt_queued'[d] <=> rt_nr_running'[d] > 0 /\ ~rt_throttled'[d]
                      /\ nr_running'[d] = IF rt_queued'[d] THEN rt_nr_running'[d] ELSE 0
    BY Zenon DEF CountedIffRunnable
  <2>1. CASE d = c
    <3>1. CASE throttle
      BY <1>1, <1>4, <1>8, <2>1, <3>1, Zenon
    <3>2. CASE ~throttle
      BY <1>1, <1>2, <1>4, <1>8, <2>1, <3>2, Uncounted, Zenon
    <3> QED BY <3>1, <3>2, Zenon
  <2>2. CASE d # c
    BY <1>1, <1>7, <2>2, Uncounted, Zenon
  <2> QED BY <2>1, <2>2, Zenon
<1>15. TimerInv'
  <2>1. missed \subseteq missed' /\ (throttle /\ Behind(c) => c \in missed')
    BY <1>1, Zenon
  <2>2. \A d \in CPU : rt_throttled'[d] => rt_throttled[d] \/ (d = c /\ throttle)
    BY <1>7, <1>8, Zenon
  <2>3. timer' = timer /\ rt_b' = rt_b /\ rt_nr_running' = rt_nr_running /\ \A d \in CPU : Behind(d)' = Behind(d)
    BY <1>1, Zenon DEF Behind
  <2> QED BY <1>2, <2>1, <2>2, <2>3, Zenon DEF IInv, TimerInv
<1> QED BY <1>9, <1>10, <1>11, <1>12, <1>13, <1>14, <1>15, Zenon DEF IInv

-----------------------------------------------------------------------------
\* The period timer.

LEMMA TimerStartInv ==
    ASSUME IInv, sched_rt_period_timer
    PROVE  IInv'
<1>1. /\ rt_b.active /\ timer' = [on |-> TRUE, todo |-> CPU, idle |-> TRUE, throttled |-> FALSE]
      /\ missed' = {}
      /\ UNCHANGED <<rt_time, rt_runtime, rt_throttled, rt_queued, rt_nr_running, nr_running, curr, pc,
                     online, rt_b, sysctl, leaked, wanting>>
  BY Zenon DEF sched_rt_period_timer, rqVars, leakVars
<1>2. TypeOK'
  BY <1>1, Zenon DEF IInv, TypeOK
<1>3. OwnInv' /\ OffInv' /\ BusyInv' /\ TimeInv' /\ CountedIffRunnable'
  BY <1>1, Zenon DEF IInv, OwnInv, Limit, OffInv, BusyInv, TimeInv, CountedIffRunnable
<1>4. timer'.on /\ timer'.todo = CPU
  BY <1>1, Zenon
<1>5. TimerInv'
  BY <1>1, <1>4, Zenon DEF TimerInv, Behind
<1> QED BY <1>2, <1>3, <1>5, Zenon DEF IInv

LEMMA MaxWithZero ==
    ASSUME NEW a \in Int
    PROVE  /\ Max({0, a}) \in Nat /\ Max({0, a}) >= a /\ (Max({0, a}) = 0 \/ Max({0, a}) = a)
<1>1. 0 >= a \/ a >= 0
  BY SMT
<1>2. 0 >= 0 /\ a >= a
  BY SMT
<1>3. \E x \in {0, a} : \A y \in {0, a} : x >= y
  BY <1>1, <1>2, Zenon
<1>4. Max({0, a}) \in {0, a} /\ \A y \in {0, a} : Max({0, a}) >= y
  BY <1>3, Zenon DEF Max
<1> DEFINE m == Max({0, a})
<1>5. (m = 0 \/ m = a) /\ m >= 0 /\ m >= a
  BY <1>4, Zenon
<1> HIDE DEF m
<1>6. m \in Nat /\ m >= a /\ (m = 0 \/ m = a)
  BY <1>5, SMT
<1> QED BY <1>6, Zenon DEF m

\* The time a CPU keeps: none, or what it had without a multiple of its
\* runtime.
LEMMA GivenBack ==
    ASSUME NEW a \in 0 .. MaxTime, NEW k \in {1, 2}, NEW r \in Share, r # RUNTIME_INF
    PROVE  LET t == Max({0, a - k * r}) IN
           t \in 0 .. MaxTime /\ (t = 0 /\ a # 0 => t < r)
<1> DEFINE t == Max({0, a - k * r})
<1>1. a \in Nat /\ a <= MaxTime /\ r \in Nat /\ MaxTime \in Nat
  BY BandwidthAssumption, SMT DEF BandwidthAssumption, Share, RUNTIME_INF
<1> DEFINE x == k * r
<1>2. x \in Nat /\ (r = 0 => x = 0)
  <2>1. CASE k = 1
    BY <1>1, <2>1, SMT
  <2>2. CASE k = 2
    BY <1>1, <2>2, SMT
  <2> QED BY <2>1, <2>2, Zenon
<1> HIDE DEF x
<1>3. a - x \in Int
  BY <1>1, <1>2, SMT
<1>4. t = Max({0, a - x})
  BY Zenon DEF x
<1>5. t \in Nat /\ t >= a - x /\ (t = 0 \/ t = a - x)
  BY <1>3, <1>4, MaxWithZero, Zenon
<1> HIDE DEF t
<1>6. t \in 0 .. MaxTime /\ (t = 0 /\ a # 0 => t < r)
  BY <1>1, <1>2, <1>5, SMT
<1> QED BY <1>6, Zenon DEF t

LEMMA FirstToVisit ==
    ASSUME TypeOK, timer.todo # {}
    PROVE  Min(timer.todo) \in timer.todo /\ Min(timer.todo) \in CPU
<1>1. timer.todo \in SUBSET CPU
  BY Zenon DEF TypeOK
<1>2. timer.todo \in SUBSET Nat
  BY <1>1, Cpus, Zenon
<1>3. \E m \in timer.todo : \A n \in timer.todo : m <= n
  BY <1>2, LeastNatural
<1> QED BY <1>1, <1>3, Zenon DEF Min

LEMMA VisitInv ==
    ASSUME IInv, NEW overrun \in {1, 2}, do_sched_rt_period_timer(overrun)
    PROVE  IInv'
<1> DEFINE c == Min(timer.todo)
           skipped == rt_time[c] = 0 /\ rt_nr_running[c] = 0
           run == IF rt_throttled[c] /\ rt_time[c] > rt_runtime[c] /\ rt_runtime[c] # RUNTIME_INF
                  THEN do_balance_runtime(rt_runtime, c) ELSE rt_runtime
           time == IF run[c] = RUNTIME_INF THEN 0 ELSE Max({0, rt_time[c] - overrun * run[c]})
           unthrottle == rt_throttled[c] /\ rt_time[c] # 0 /\ (time < run[c] \/ run[c] = RUNTIME_INF)
           enqueue == unthrottle \/ (rt_time[c] = 0 /\ rt_nr_running[c] # 0 /\ ~rt_throttled[c])
           still == rt_throttled[c] /\ ~unthrottle
           idle == timer.idle /\ time = 0 /\ rt_nr_running[c] = 0
           throttled == timer.throttled \/ (rt_throttled[c] /\ ~unthrottle /\ ~skipped)
<1>1. /\ timer.todo # {}
      /\ rt_runtime' = run
      /\ rt_time' = [rt_time EXCEPT ![c] = time]
      /\ rt_throttled' = [rt_throttled EXCEPT ![c] = still]
      /\ IF enqueue THEN sched_rt_rq_enqueue(c) ELSE UNCHANGED <<rt_queued, nr_running>>
      /\ timer' = [on |-> timer.on, todo |-> timer.todo \ {c}, idle |-> idle, throttled |-> throttled]
      /\ UNCHANGED <<rt_nr_running, curr, pc, online, rt_b, sysctl, missed, leaked, wanting>>
  BY Zenon DEF do_sched_rt_period_timer, leakVars
<1>2. c \in timer.todo /\ c \in CPU
  BY <1>1, FirstToVisit, Zenon DEF IInv
<1> HIDE DEF c
<1>3. run \in Shares /\ (~leaked => Owned(run, online, Limit))
  <2>1. CASE rt_throttled[c] /\ rt_time[c] > rt_runtime[c] /\ rt_runtime[c] # RUNTIME_INF
    <3>1. run = do_balance_runtime(rt_runtime, c)
      BY <2>1, Zenon
    <3>2. ~leaked => c \in online
      BY <1>2, <2>1, AccountedOnline, Zenon
    <3> HIDE DEF run
    <3> QED BY <1>2, <3>1, <3>2, BalancedInv
  <2>2. CASE ~(rt_throttled[c] /\ rt_time[c] > rt_runtime[c] /\ rt_runtime[c] # RUNTIME_INF)
    BY <1>2, <2>2, Times, Zenon DEF IInv, OwnInv
  <2> QED BY <2>1, <2>2, Zenon
<1> HIDE DEF run
<1>4. run[c] \in Share /\ rt_time[c] \in 0 .. MaxTime /\ rt_time[c] \in Nat
  BY <1>2, <1>3, Times, SharesFacts, Zenon
<1>5. time \in 0 .. MaxTime /\ (time = 0 /\ rt_time[c] # 0 => time < run[c] \/ run[c] = RUNTIME_INF)
  <2>1. CASE run[c] = RUNTIME_INF
    <3>1. 0 \in 0 .. MaxTime
      BY BandwidthAssumption, SMT DEF BandwidthAssumption
    <3> QED BY <2>1, <3>1, Zenon
  <2>2. CASE run[c] # RUNTIME_INF
    <3>1. time = Max({0, rt_time[c] - overrun * run[c]})
      BY <2>2, Zenon
    <3> QED BY <1>4, <2>2, <3>1, GivenBack
  <2> QED BY <2>1, <2>2, Zenon
<1>6. rt_throttled[c] => rt_time[c] # 0
  BY <1>2, Zenon DEF IInv, TimeInv
<1>7. still => rt_throttled[c] /\ time # 0 /\ throttled /\ ~idle
  <2>1. still => ~(time < run[c] \/ run[c] = RUNTIME_INF)
    BY <1>6, Zenon
  <2>2. still => time # 0
    BY <1>5, <1>6, <2>1, Zenon
  <2> HIDE DEF time
  <2> QED BY <1>6, <2>2, Zenon
<1>8. /\ still \in BOOLEAN /\ idle \in BOOLEAN /\ throttled \in BOOLEAN
      /\ (idle => timer.idle /\ rt_nr_running[c] = 0) /\ (timer.throttled => throttled)
      /\ (enqueue => ~still /\ (rt_throttled[c] \/ rt_nr_running[c] # 0))
      /\ (~enqueue => (still <=> rt_throttled[c]))
  <2> HIDE DEF time, skipped
  <2>1. timer.idle \in BOOLEAN /\ timer.throttled \in BOOLEAN
    BY Zenon DEF IInv, TypeOK
  <2> QED BY <2>1, Zenon
<1> HIDE DEF skipped, time, unthrottle, enqueue, still, idle, throttled
<1>9. /\ rt_queued' \in [CPU -> BOOLEAN] /\ nr_running' \in [CPU -> 0 .. MaxTasks]
      /\ (rt_queued'[c] <=> rt_nr_running[c] > 0 /\ ~still)
      /\ nr_running'[c] = IF rt_queued'[c] THEN rt_nr_running[c] ELSE 0
      /\ \A d \in CPU : d # c => rt_queued'[d] = rt_queued[d] /\ nr_running'[d] = nr_running[d]
  <2>0. rt_queued \in [CPU -> BOOLEAN] /\ nr_running \in [CPU -> 0 .. MaxTasks]
    BY Zenon DEF IInv, TypeOK
  <2>a. /\ rt_nr_running[c] \in 0 .. MaxTasks /\ rt_nr_running[c] \in Nat /\ nr_running[c] \in Nat
        /\ (rt_queued[c] <=> rt_nr_running[c] > 0 /\ ~rt_throttled[c])
        /\ nr_running[c] = IF rt_queued[c] THEN rt_nr_running[c] ELSE 0
    BY <1>2, Uncounted, Zenon
  <2>1. CASE ~enqueue
    <3>1. rt_queued' = rt_queued /\ nr_running' = nr_running
      BY <1>1, <2>1, Zenon
    <3> QED BY <1>8, <2>0, <2>a, <2>1, <3>1, Zenon
  <2>2. CASE enqueue
    <3>1. sched_rt_rq_enqueue(c)
      BY <1>1, <2>2, Zenon
    <3>2. /\ rt_queued' \in [CPU -> BOOLEAN] /\ nr_running' \in [CPU -> 0 .. MaxTasks]
          /\ (rt_queued'[c] <=> rt_nr_running[c] > 0)
          /\ nr_running'[c] = IF rt_queued'[c] THEN rt_nr_running[c] ELSE 0
          /\ \A d \in CPU : d # c => rt_queued'[d] = rt_queued[d] /\ nr_running'[d] = nr_running[d]
      BY <1>2, <3>1, Requeue, Zenon
    <3> QED BY <1>8, <2>2, <3>2, Zenon
  <2> QED BY <2>1, <2>2, Zenon
<1>10. /\ rt_time'[c] = time /\ rt_throttled'[c] = still
       /\ \A d \in CPU : d # c => rt_time'[d] = rt_time[d] /\ rt_throttled'[d] = rt_throttled[d]
  BY <1>1, <1>2, Zenon DEF IInv, TypeOK
<1>11. TypeOK'
  <2>1. rt_runtime' \in [CPU -> Int] /\ \A d \in CPU : rt_runtime'[d] >= RUNTIME_INF
    BY <1>1, <1>3, SharesTyped
  <2>2. rt_time' \in [CPU -> 0 .. MaxTime] /\ rt_throttled' \in [CPU -> BOOLEAN]
    BY <1>1, <1>5, <1>8, Zenon DEF IInv, TypeOK
  <2>3. timer' \in [on : BOOLEAN, todo : SUBSET CPU, idle : BOOLEAN, throttled : BOOLEAN]
    <3>1. timer.on \in BOOLEAN /\ timer.todo \ {c} \in SUBSET CPU
      BY Zenon DEF IInv, TypeOK
    <3> QED BY <1>1, <1>8, <3>1, Zenon
  <2> QED BY <1>1, <1>9, <2>1, <2>2, <2>3, Zenon DEF IInv, TypeOK
<1>12. OwnInv'
  BY <1>1, <1>3, Zenon DEF IInv, OwnInv, Limit
<1>13. \A d \in CPU : rt_throttled'[d] => rt_throttled[d]
  BY <1>7, <1>10, Zenon
<1>14. OffInv'
  BY <1>1, <1>13, Zenon DEF IInv, OffInv
<1>15. BusyInv'
  BY <1>1, <1>13, Zenon DEF IInv, BusyInv
<1>16. TimeInv'
  BY <1>7, <1>10, Zenon DEF IInv, TimeInv
<1>17. CountedIffRunnable'
  <2> SUFFICES ASSUME NEW d \in CPU
               PROVE  /\ rt_queued'[d] <=> rt_nr_running'[d] > 0 /\ ~rt_throttled'[d]
                      /\ nr_running'[d] = IF rt_queued'[d] THEN rt_nr_running'[d] ELSE 0
    BY Zenon DEF CountedIffRunnable
  <2>1. CASE d = c
    BY <1>1, <1>9, <1>10, <2>1, Zenon
  <2>2. CASE d # c
    <3>1. /\ rt_nr_running'[d] = rt_nr_running[d] /\ nr_running'[d] = nr_running[d]
          /\ rt_queued'[d] = rt_queued[d] /\ rt_throttled'[d] = rt_throttled[d]
      BY <1>1, <1>9, <1>10, <2>2, Zenon
    <3> QED BY <3>1, StillCounted, Zenon
  <2> QED BY <2>1, <2>2, Zenon
<1>18. TimerInv'
  <2>1. timer'.on = timer.on /\ timer'.todo = timer.todo \ {c} /\ timer'.idle = idle /\ timer'.throttled = throttled
    BY <1>1, Zenon
  <2>2. timer.on /\ rt_b.active
    BY <1>1, Zenon DEF IInv, TimerInv
  <2>3. \A d \in CPU : d # c /\ Behind(d)' => Behind(d)
    BY <2>1, Zenon DEF Behind
  <2>4. ~(0 > 0)
    BY SMT
  <2>5. idle => timer.idle /\ ~(rt_nr_running[c] > 0)
    BY <1>8, <2>4, Zenon
  <2>6. ASSUME NEW d \in CPU
        PROVE  /\ Behind(d)' /\ rt_nr_running'[d] > 0 /\ timer'.idle => d \in missed'
               /\ Behind(d)' /\ rt_throttled'[d] => d \in missed' \/ (timer'.throttled /\ ~timer'.idle)
    <3>1. CASE d = c
      BY <1>1, <1>7, <1>10, <2>1, <2>5, <3>1, Zenon
    <3>2. CASE d # c
      <4>1. /\ Behind(d) /\ rt_nr_running[d] > 0 /\ timer.idle => d \in missed
            /\ Behind(d) /\ rt_throttled[d] => d \in missed \/ (timer.throttled /\ ~timer.idle)
        BY Zenon DEF IInv, TimerInv
      <4> QED BY <1>1, <1>8, <1>13, <2>1, <2>3, <2>5, <3>2, <4>1, Zenon
    <3> QED BY <3>1, <3>2, Zenon
  <2> QED BY <1>1, <2>1, <2>2, <2>6, Zenon DEF TimerInv
<1> QED BY <1>11, <1>12, <1>14, <1>15, <1>16, <1>17, <1>18, Zenon DEF IInv

LEMMA TimerDoneInv ==
    ASSUME IInv, rt_period_timer_done
    PROVE  IInv'
<1> DEFINE off == ~timer.throttled /\ (~rt_bandwidth_enabled \/ rt_b.runtime = RUNTIME_INF)
           active == ~(timer.idle \/ off)
<1>1. /\ timer.on /\ timer.todo = {}
      /\ rt_b' = [rt_b EXCEPT !.active = active]
      /\ missed' = IF off THEN missed \cup {c \in CPU : rt_nr_running[c] > 0} ELSE missed
      /\ timer' = [on |-> FALSE, todo |-> {}, idle |-> TRUE, throttled |-> FALSE]
      /\ UNCHANGED <<rt_time, rt_runtime, rt_throttled, rt_queued, rt_nr_running, nr_running, curr, pc,
                     online, sysctl, leaked, wanting>>
  BY Zenon DEF rt_period_timer_done, rqVars, leakVars
<1>2. active \in BOOLEAN /\ (~active => timer.idle \/ off) /\ (off => ~timer.throttled)
  BY Zenon
<1> HIDE DEF off, active
<1>3. /\ rt_b' \in [runtime : RUNTIME_INF .. Period, active : BOOLEAN]
      /\ rt_b'.runtime = rt_b.runtime /\ rt_b'.active = active
  <2>1. rt_b \in [runtime : RUNTIME_INF .. Period, active : BOOLEAN]
    BY Zenon DEF IInv, TypeOK
  <2> QED BY <1>1, <1>2, <2>1, SetActive
<1>4. TypeOK'
  <2>1. missed' \subseteq CPU
    BY <1>1, Zenon DEF IInv, TypeOK
  <2> QED BY <1>1, <1>3, <2>1, Zenon DEF IInv, TypeOK
<1>5. OwnInv' /\ OffInv' /\ BusyInv' /\ TimeInv' /\ CountedIffRunnable'
  BY <1>1, <1>3, Zenon DEF IInv, OwnInv, Limit, OffInv, BusyInv, TimeInv, CountedIffRunnable
<1>6. timer'.todo = {} /\ ~timer'.on
  BY <1>1, Zenon
<1>7. ASSUME NEW d \in CPU, rt_nr_running[d] > 0 \/ rt_throttled[d], ~active
      PROVE  d \in missed'
  <2>1. Behind(d)
    BY <1>1, Zenon DEF Behind
  <2>2. /\ rt_nr_running[d] > 0 /\ timer.idle => d \in missed
        /\ rt_throttled[d] => d \in missed \/ (timer.throttled /\ ~timer.idle)
    BY <2>1, Zenon DEF IInv, TimerInv
  <2>3. missed \subseteq missed' /\ (off /\ rt_nr_running[d] > 0 => d \in missed')
    BY <1>1, Zenon
  <2> QED BY <1>2, <1>7, <2>2, <2>3, Zenon
<1>8. TimerInv'
  BY <1>1, <1>3, <1>6, <1>7, Zenon DEF TimerInv, Behind
<1> QED BY <1>4, <1>5, <1>8, Zenon DEF IInv

\* A CPU leaves: what it lent comes back, what it borrowed is returned, and
\* BUG_ON(want) is not reached.
LEMMA OfflineInv ==
    ASSUME IInv, NEW c \in CPU, rq_offline_rt(c)
    PROVE  IInv'
<1> DEFINE r == Reclaim(c)
           new == [r.run EXCEPT ![c] = RUNTIME_INF]
<1>1. /\ c \in online /\ online # {c} /\ pc[c] = "unlocked" /\ ~leaked
      /\ online' = online \ {c}
      /\ rt_runtime' = new
      /\ rt_throttled' = [rt_throttled EXCEPT ![c] = FALSE]
      /\ sched_rt_rq_enqueue(c)
      /\ wanting' = (wanting \/ r.want # 0)
      /\ leaked' = (leaked \/ sysctl.pc = "global")
      /\ UNCHANGED <<rt_time, rt_nr_running, curr, pc, rt_b, timer, sysctl, missed>>
  BY Zenon DEF rq_offline_rt
<1>2. r \in Moves
  BY ReclaimType, Zenon DEF IInv
<1>3. ~leaked' => r.want = 0 /\ Owned(new, online \ {c}, rt_b.runtime)
  <2>1. ~leaked' => Owned(rt_runtime, online, rt_b.runtime)
    BY <1>1, Zenon DEF IInv, OwnInv, Limit
  <2> QED BY <1>1, <2>1, ReclaimOwned, Zenon DEF IInv
<1> HIDE DEF r
<1>4. new \in Shares
  <2>1. r.run \in Shares
    BY <1>2, Zenon DEF Moves
  <2> QED BY <2>1, ShareFacts, Zenon DEF Shares
<1> HIDE DEF new
<1>5. /\ rt_queued' \in [CPU -> BOOLEAN] /\ nr_running' \in [CPU -> 0 .. MaxTasks]
      /\ (rt_queued'[c] <=> rt_nr_running[c] > 0)
      /\ nr_running'[c] = IF rt_queued'[c] THEN rt_nr_running[c] ELSE 0
      /\ \A d \in CPU : d # c => rt_queued'[d] = rt_queued[d] /\ nr_running'[d] = nr_running[d]
  BY <1>1, Requeue, Zenon
<1>6. /\ ~rt_throttled'[c] /\ rt_throttled' \in [CPU -> BOOLEAN]
      /\ \A d \in CPU : d # c => rt_throttled'[d] = rt_throttled[d]
  BY <1>1, Zenon DEF IInv, TypeOK
<1>7. \A d \in CPU : rt_throttled'[d] => rt_throttled[d]
  BY <1>6, Zenon
<1>8. TypeOK'
  <2>1. rt_runtime' \in [CPU -> Int] /\ \A d \in CPU : rt_runtime'[d] >= RUNTIME_INF
    BY <1>1, <1>4, SharesTyped
  <2>2. online' \subseteq CPU /\ leaked' \in BOOLEAN /\ wanting' \in BOOLEAN
    BY <1>1, Zenon DEF IInv, TypeOK
  <2> QED BY <1>1, <1>5, <1>6, <2>1, <2>2, Zenon DEF IInv, TypeOK
<1>9. OwnInv'
  BY <1>1, <1>3, Zenon DEF IInv, OwnInv, Limit
<1>10. OffInv'
  BY <1>1, <1>6, Zenon DEF IInv, OffInv
<1>11. BusyInv' /\ TimeInv'
  BY <1>1, <1>7, Zenon DEF IInv, BusyInv, TimeInv
<1>12. CountedIffRunnable'
  <2> SUFFICES ASSUME NEW d \in CPU
               PROVE  /\ rt_queued'[d] <=> rt_nr_running'[d] > 0 /\ ~rt_throttled'[d]
                      /\ nr_running'[d] = IF rt_queued'[d] THEN rt_nr_running'[d] ELSE 0
    BY Zenon DEF CountedIffRunnable
  <2>1. CASE d = c
    BY <1>1, <1>5, <1>6, <2>1, Zenon
  <2>2. CASE d # c
    BY <1>1, <1>5, <1>6, <2>2, Uncounted, Zenon
  <2> QED BY <2>1, <2>2, Zenon
<1>13. TimerInv'
  BY <1>1, <1>7, Zenon DEF IInv, TimerInv, Behind
<1> QED BY <1>8, <1>9, <1>10, <1>11, <1>12, <1>13, Zenon DEF IInv

\* A CPU joins with the limit as its runtime and nothing used.
LEMMA OnlineInv ==
    ASSUME IInv, NEW c \in CPU, rq_online_rt(c)
    PROVE  IInv'
<1>1. /\ c \notin online /\ pc[c] = "unlocked" /\ ~leaked
      /\ online' = online \cup {c}
      /\ rt_runtime' = [rt_runtime EXCEPT ![c] = rt_b.runtime]
      /\ rt_time' = [rt_time EXCEPT ![c] = 0]
      /\ rt_throttled' = [rt_throttled EXCEPT ![c] = FALSE]
      /\ leaked' = (leaked \/ sysctl.pc = "global")
      /\ UNCHANGED <<rt_queued, rt_nr_running, nr_running, curr, pc, rt_b, timer, sysctl, missed, wanting>>
  BY Zenon DEF rq_online_rt
<1>2. ~rt_throttled[c]
  BY <1>1, Zenon DEF IInv, OffInv
<1>3. rt_throttled \in [CPU -> BOOLEAN] /\ rt_time \in [CPU -> 0 .. MaxTime]
  BY Zenon DEF IInv, TypeOK
<1>4. \A d \in CPU : rt_throttled'[d] = rt_throttled[d] /\ (d # c => rt_time'[d] = rt_time[d])
  BY <1>1, <1>2, <1>3, Zenon
<1>5. rt_runtime' \in Shares
  <2>1. rt_runtime \in Shares /\ rt_b.runtime \in Share
    BY ReclaimStart, Zenon DEF IInv
  <2> QED BY <1>1, <2>1, Zenon DEF Shares
<1>6. TypeOK'
  <2>1. rt_runtime' \in [CPU -> Int] /\ \A d \in CPU : rt_runtime'[d] >= RUNTIME_INF
    BY <1>5, SharesTyped
  <2>2. 0 \in 0 .. MaxTime
    BY BandwidthAssumption, SMT DEF BandwidthAssumption
  <2>3. rt_time' \in [CPU -> 0 .. MaxTime] /\ rt_throttled' \in [CPU -> BOOLEAN]
    BY <1>1, <1>3, <2>2, Zenon
  <2>4. online' \subseteq CPU /\ leaked' \in BOOLEAN
    BY <1>1, Zenon DEF IInv, TypeOK
  <2> QED BY <1>1, <2>1, <2>3, <2>4, Zenon DEF IInv, TypeOK
<1>7. OwnInv'
  <2>1. ~leaked' => Owned(rt_runtime, online, rt_b.runtime)
    BY <1>1, Zenon DEF IInv, OwnInv, Limit
  <2>2. ~leaked' => Owned(rt_runtime', online', rt_b.runtime)
    BY <1>1, <2>1, JoinOwned, Zenon DEF IInv
  <2> QED BY <1>1, <2>2, Zenon DEF IInv, OwnInv, Limit
<1>8. OffInv' /\ BusyInv' /\ CountedIffRunnable'
  BY <1>1, <1>4, Zenon DEF IInv, OffInv, BusyInv, CountedIffRunnable
<1>9. TimeInv'
  BY <1>2, <1>4, Zenon DEF IInv, TimeInv
<1>10. TimerInv'
  BY <1>1, <1>4, Zenon DEF IInv, TimerInv, Behind
<1> QED BY <1>6, <1>7, <1>8, <1>9, <1>10, Zenon DEF IInv

\* sched_rt_handler stores the new limit in the sysctl only.
LEMMA HandlerInv ==
    ASSUME IInv, NEW runtime \in NewRuntime \cup {RUNTIME_INF}, sched_rt_handler(runtime)
    PROVE  IInv'
<1>1. /\ sysctl.pc = "done" /\ sysctl' = [pc |-> "constraints", runtime |-> runtime]
      /\ UNCHANGED <<rt_time, rt_runtime, rt_throttled, rt_queued, rt_nr_running, nr_running, curr, pc,
                     online, rt_b, timer, missed, leaked, wanting>>
  BY Zenon DEF sched_rt_handler, rqVars, leakVars
<1>2. runtime \in RUNTIME_INF .. Period
  BY BandwidthAssumption, SMT DEF BandwidthAssumption, RUNTIME_INF
<1>3. TypeOK'
  BY <1>1, <1>2, Zenon DEF IInv, TypeOK
<1>4. sysctl'.pc = "constraints"
  BY <1>1, Zenon
<1>5. OwnInv'
  BY <1>1, <1>4, Zenon DEF IInv, OwnInv, Limit
<1>6. OffInv' /\ BusyInv' /\ TimeInv' /\ CountedIffRunnable' /\ TimerInv'
  BY <1>1, Zenon DEF IInv, OffInv, BusyInv, TimeInv, CountedIffRunnable, TimerInv, Behind
<1> QED BY <1>3, <1>5, <1>6, Zenon DEF IInv

\* Every possible CPU gets the new limit; that is sound as long as all of
\* them take part.
LEMMA ConstraintsInv ==
    ASSUME IInv, sched_rt_global_constraints
    PROVE  IInv'
<1>1. /\ rt_runtime' = [c \in CPU |-> sysctl.runtime]
      /\ sysctl' = [sysctl EXCEPT !.pc = "global"]
      /\ leaked' = (leaked \/ online # CPU)
      /\ UNCHANGED <<rt_time, rt_throttled, rt_queued, rt_nr_running, nr_running, curr, pc,
                     online, rt_b, timer, missed, wanting>>
  BY Zenon DEF sched_rt_global_constraints
<1>2. sysctl \in [pc : {"done", "constraints", "global"}, runtime : RUNTIME_INF .. Period]
  BY Zenon DEF IInv, TypeOK
<1>3. /\ sysctl' \in [pc : {"done", "constraints", "global"}, runtime : RUNTIME_INF .. Period]
      /\ sysctl'.pc = "global" /\ sysctl'.runtime = sysctl.runtime
  BY <1>1, <1>2, SetPc
<1>4. sysctl.runtime \in Share
  BY <1>2, BandwidthAssumption, SMT DEF Share, RUNTIME_INF, BandwidthAssumption
<1>5. Owned(rt_runtime', CPU, sysctl.runtime) /\ rt_runtime' \in Shares
  BY <1>1, <1>4, AllOwned, Zenon DEF Owned
<1>6. TypeOK'
  <2>1. rt_runtime' \in [CPU -> Int] /\ \A d \in CPU : rt_runtime'[d] >= RUNTIME_INF
    BY <1>5, SharesTyped
  <2>2. leaked' \in BOOLEAN
    BY <1>1, Zenon
  <2> QED BY <1>1, <1>3, <2>1, <2>2, Zenon DEF IInv, TypeOK
<1>7. OwnInv'
  BY <1>1, <1>3, <1>5, Zenon DEF IInv, OwnInv, Limit
<1>8. OffInv' /\ BusyInv' /\ TimeInv' /\ CountedIffRunnable' /\ TimerInv'
  BY <1>1, Zenon DEF IInv, OffInv, BusyInv, TimeInv, CountedIffRunnable, TimerInv, Behind
<1> QED BY <1>6, <1>7, <1>8, Zenon DEF IInv

\* def_rt_bandwidth catches up with what the CPUs were given.
LEMMA DoGlobalInv ==
    ASSUME IInv, sched_rt_do_global
    PROVE  IInv'
<1>1. /\ sysctl.pc = "global"
      /\ rt_b' = [rt_b EXCEPT !.runtime = sysctl.runtime]
      /\ sysctl' = [sysctl EXCEPT !.pc = "done"]
      /\ UNCHANGED <<rt_time, rt_runtime, rt_throttled, rt_queued, rt_nr_running, nr_running, curr, pc,
                     online, timer, missed, leaked, wanting>>
  BY Zenon DEF sched_rt_do_global, rqVars, leakVars
<1>2. /\ sysctl \in [pc : {"done", "constraints", "global"}, runtime : RUNTIME_INF .. Period]
      /\ rt_b \in [runtime : RUNTIME_INF .. Period, active : BOOLEAN]
      /\ sysctl.runtime \in RUNTIME_INF .. Period
  BY Zenon DEF IInv, TypeOK
<1>3. /\ sysctl' \in [pc : {"done", "constraints", "global"}, runtime : RUNTIME_INF .. Period]
      /\ sysctl'.pc = "done"
  BY <1>1, <1>2, SetPc
<1>4. /\ rt_b' \in [runtime : RUNTIME_INF .. Period, active : BOOLEAN]
      /\ rt_b'.runtime = sysctl.runtime /\ rt_b'.active = rt_b.active
  BY <1>1, <1>2, SetRuntime
<1>5. TypeOK'
  BY <1>1, <1>3, <1>4, Zenon DEF IInv, TypeOK
<1>6. Limit' = Limit
  BY <1>1, <1>3, <1>4, Zenon DEF Limit
<1>7. OwnInv'
  BY <1>1, <1>6, Zenon DEF IInv, OwnInv
<1>8. OffInv' /\ BusyInv' /\ TimeInv' /\ CountedIffRunnable' /\ TimerInv'
  BY <1>1, <1>4, Zenon DEF IInv, OffInv, BusyInv, TimeInv, CountedIffRunnable, TimerInv, Behind
<1> QED BY <1>5, <1>7, <1>8, Zenon DEF IInv

LEMMA NextInv == IInv /\ [Next]_vars => IInv'
<1> SUFFICES ASSUME IInv, [Next]_vars PROVE IInv'
  BY Zenon
<1>1. CASE UNCHANGED vars
  <2>1. UNCHANGED <<rt_time, rt_runtime, rt_throttled, rt_queued, rt_nr_running, nr_running, curr, pc,
                    online, rt_b, timer, sysctl, missed, leaked, wanting>>
    BY <1>1, Zenon DEF vars, rqVars, leakVars
  <2>2. TypeOK' /\ OwnInv'
    BY <2>1, Zenon DEF IInv, TypeOK, OwnInv, Limit
  <2>3. OffInv' /\ BusyInv' /\ TimeInv' /\ CountedIffRunnable' /\ TimerInv'
    BY <2>1, Zenon DEF IInv, OffInv, BusyInv, TimeInv, CountedIffRunnable, TimerInv, Behind
  <2> QED BY <2>2, <2>3, Zenon DEF IInv
<1>2. CASE TimerStep
  BY <1>2, TimerStartInv, VisitInv, TimerDoneInv, Zenon DEF TimerStep
<1>3. ASSUME NEW c \in CPU, CpuStep(c)
      PROVE  IInv'
  BY <1>3, UpdateInv, BalanceInv, ExceededInv, PickInv, Zenon DEF CpuStep
<1>4. ASSUME NEW c \in CPU,
             enqueue_task_rt(c) \/ dequeue_task_rt(c) \/ rq_offline_rt(c) \/ rq_online_rt(c)
      PROVE  IInv'
  BY <1>4, EnqueueInv, DequeueInv, OfflineInv, OnlineInv, Zenon
<1>5. ASSUME NEW runtime \in NewRuntime \cup {RUNTIME_INF}, sched_rt_handler(runtime)
      PROVE  IInv'
  BY <1>5, HandlerInv, Zenon
<1>6. CASE sched_rt_global_constraints \/ sched_rt_do_global
  BY <1>6, ConstraintsInv, DoGlobalInv, Zenon
<1> QED BY <1>1, <1>2, <1>3, <1>4, <1>5, <1>6, Zenon DEF Next

\* The inductive invariant holds in every reachable state.
THEOREM BandwidthInvariant == Spec => []IInv
<1> QED BY InitInv, NextInv, PTL DEF Spec

\* Every variable keeps its type: rt_runtime never falls below RUNTIME_INF,
\* whatever is borrowed, lent and reclaimed.
THEOREM BandwidthTypeOK == Spec => []TypeOK
<1>1. IInv => TypeOK
  BY Zenon DEF IInv
<1> QED BY <1>1, BandwidthInvariant, PTL

\* __disable_runtime is never left wanting: do_balance_runtime,
\* __disable_runtime and __enable_runtime conserve the runtime of the online
\* CPUs, for any number of them, unless the limit changes while CPUs come or
\* go.
THEOREM RuntimeIsConserved == Spec => []RuntimeConserved
<1>1. IInv => RuntimeConserved
  <2> SUFFICES ASSUME IInv, ~leaked PROVE RuntimeConserved
    BY Zenon DEF RuntimeConserved
  <2>1. ~wanting /\ Owned(rt_runtime, online, Limit)
    BY Zenon DEF IInv, OwnInv
  <2>2. sysctl.pc # "global" => Limit = rt_b.runtime
    BY Zenon DEF Limit
  <2> QED BY <2>1, <2>2, Zenon DEF RuntimeConserved, Owned
<1> QED BY <1>1, BandwidthInvariant, PTL

\* sched_rt_period_timer stops only when no throttled CPU depends on it,
\* except for those the race with start_rt_bandwidth leaves behind.
THEOREM ThrottledCpusAreTimed == Spec => []ThrottledIsTimed
<1>1. IInv => ThrottledIsTimed
  BY Zenon DEF IInv, TimerInv, ThrottledIsTimed
<1> QED BY <1>1, BandwidthInvariant, PTL

\* enqueue_top_rt_rq, dequeue_top_rt_rq and sched_rt_rq_enqueue keep
\* rq->nr_running exact, for any number of CPUs and tasks.
THEOREM RunnableAreCounted == Spec => []CountedIffRunnable
<1>1. IInv => CountedIffRunnable
  BY Zenon DEF IInv
<1> QED BY <1>1, BandwidthInvariant, PTL
=============================================================================
