----------------------------- MODULE FoldLemmas -----------------------------
(***************************************************************************)
(* Lemmas about the two recursions the models use: the sum of a function   *)
(* over a finite set (SumFunctionOnSet), and a loop over 0 .. n-1 that     *)
(* carries a value from one iteration to the next.                         *)
(***************************************************************************)
EXTENDS Integers, FiniteSets, Functions, FiniteSetTheorems, WellFoundedInduction, NaturalsInduction, TLAPS

-----------------------------------------------------------------------------
(* Sums over finite sets *)

\* A nonempty collection of subsets of a finite set has a minimal member.
LEMMA MinimalSet ==
    ASSUME NEW S, IsFiniteSet(S), NEW T \in SUBSET (SUBSET S), T # {}
    PROVE  \E m \in T : \A n \in T : n \subseteq m => n = m
<1>1. IsWellFoundedOn(StrictSubsetOrdering(S), SUBSET S)
  BY FS_StrictSubsetOrderingWellFounded, FS_FiniteSubsetsOfFinite, Zenon
<1>2. PICK m \in T : \A n \in T : ~(<<n, m>> \in StrictSubsetOrdering(S))
  BY <1>1, WFMin, Zenon
<1>3. \A n \in T : n \subseteq m /\ n # m => <<n, m>> \in StrictSubsetOrdering(S)
  BY SMT DEF StrictSubsetOrdering
<1>4. \A n \in T : n \subseteq m => n = m
  <2> SUFFICES ASSUME NEW n \in T, n \subseteq m, n # m PROVE FALSE
    BY Zenon
  <2> QED BY <1>2, <1>3
<1> QED BY <1>4, Zenon

\* A nonempty set of naturals has a least member.
LEMMA LeastNatural ==
    ASSUME NEW T \in SUBSET Nat, T # {}
    PROVE  \E m \in T : \A n \in T : m <= n
<1>1. PICK m \in T : \A n \in T : ~(<<n, m>> \in OpToRel(<, Nat))
  BY NatLessThanWellFounded, WFMin, Zenon
<1>2. \A n \in T : n < m => <<n, m>> \in OpToRel(<, Nat)
  BY SMT DEF OpToRel
<1>3. \A n \in T : ~(n < m)
  BY <1>1, <1>2, Zenon
<1>4. \A n \in T : m <= n
  BY <1>3, SMT
<1> QED BY <1>4, Zenon

-----------------------------------------------------------------------------
Pick(s) == CHOOSE x \in s : TRUE

\* The recursion of SumFunctionOnSet, on a collection D of sets.
Adds(h, f, D) ==
    h = [s \in D |-> IF s = {} THEN 0 ELSE f[Pick(s)] + h[s \ {Pick(s)}]]

Solves(h, f, S) == Adds(h, f, SUBSET S)

UpTo(S, n) == {s \in SUBSET S : Cardinality(s) <= n}

\* What a sum has left to add up is a smaller set.
LEMMA PickSmaller ==
    ASSUME NEW S, IsFiniteSet(S), NEW s \in SUBSET S, s # {}
    PROVE  /\ Pick(s) \in s /\ Pick(s) \in S
           /\ s \ {Pick(s)} \in SUBSET S
           /\ Cardinality(s) \in Nat
           /\ Cardinality(s \ {Pick(s)}) = Cardinality(s) - 1
<1>1. Pick(s) \in s
  BY Zenon DEF Pick
<1>2. IsFiniteSet(s)
  BY FS_Subset, Zenon
<1>3. Cardinality(s) \in Nat
  BY <1>2, FS_CardinalityType, Zenon
<1>4. Cardinality(s \ {Pick(s)}) = Cardinality(s) - 1
  BY <1>1, <1>2, FS_RemoveElement, Zenon
<1> QED BY <1>1, <1>3, <1>4, Zenon

\* The recursion has a solution: level by level.
LEMMA AddsUpTo ==
    ASSUME NEW S, IsFiniteSet(S), NEW f, \A x \in S : f[x] \in Int, NEW n \in Nat
    PROVE  \E h \in [UpTo(S, n) -> Int] : Adds(h, f, UpTo(S, n))
<1> DEFINE Bad == {k \in Nat : ~ \E h \in [UpTo(S, k) -> Int] : Adds(h, f, UpTo(S, k))}
<1>1. SUFFICES ASSUME Bad # {} PROVE FALSE
  BY Zenon
<1>2. PICK k \in Bad : \A j \in Bad : k <= j
  <2>1. Bad \in SUBSET Nat
    BY Zenon
  <2> HIDE DEF Bad
  <2> QED BY <1>1, <2>1, LeastNatural, Zenon
<1>3. k \in Nat
  BY Zenon
<1>4. CASE k = 0
  <2>1. \A s \in UpTo(S, 0) : s = {}
    <3> SUFFICES ASSUME NEW s \in UpTo(S, 0) PROVE s = {}
      BY Zenon
    <3>1. s \in SUBSET S /\ Cardinality(s) <= 0
      BY Zenon DEF UpTo
    <3>2. IsFiniteSet(s) /\ Cardinality(s) \in Nat
      BY <3>1, FS_Subset, FS_CardinalityType, Zenon
    <3>3. Cardinality(s) = 0
      BY <3>1, <3>2, SMT
    <3> QED BY <3>2, <3>3, FS_EmptySet, Zenon
  <2> DEFINE h == [s \in UpTo(S, 0) |-> 0]
  <2>2. h \in [UpTo(S, 0) -> Int]
    BY SMT
  <2>3. Adds(h, f, UpTo(S, 0))
    BY <2>1, Zenon DEF Adds
  <2> QED BY <1>4, <2>2, <2>3, Zenon
<1>5. CASE k # 0
  <2>1. k - 1 \in Nat /\ ~(k <= k - 1)
    BY <1>3, <1>5, SMT
  <2>2. k - 1 \notin Bad
    BY <1>2, <2>1, Zenon
  <2>3. PICK g \in [UpTo(S, k - 1) -> Int] : Adds(g, f, UpTo(S, k - 1))
    BY <2>1, <2>2, Zenon
  <2> DEFINE h == [s \in UpTo(S, k) |-> IF s = {} THEN 0 ELSE f[Pick(s)] + g[s \ {Pick(s)}]]
  <2>4. \A s \in UpTo(S, k) : s # {} => /\ f[Pick(s)] \in Int
                                       /\ s \ {Pick(s)} \in UpTo(S, k - 1)
                                       /\ s \ {Pick(s)} \in UpTo(S, k)
    <3> SUFFICES ASSUME NEW s \in UpTo(S, k), s # {}
                 PROVE  /\ f[Pick(s)] \in Int
                        /\ s \ {Pick(s)} \in UpTo(S, k - 1)
                        /\ s \ {Pick(s)} \in UpTo(S, k)
      BY Zenon
    <3>1. s \in SUBSET S /\ Cardinality(s) <= k
      BY Zenon DEF UpTo
    <3>2. /\ Pick(s) \in S /\ s \ {Pick(s)} \in SUBSET S
          /\ Cardinality(s) \in Nat /\ Cardinality(s \ {Pick(s)}) = Cardinality(s) - 1
      BY <3>1, PickSmaller, Zenon
    <3>3. Cardinality(s \ {Pick(s)}) <= k - 1 /\ Cardinality(s \ {Pick(s)}) <= k
      BY <1>3, <3>1, <3>2, SMT
    <3> QED BY <3>2, <3>3, Zenon DEF UpTo
  <2>5. h \in [UpTo(S, k) -> Int]
    <3> SUFFICES ASSUME NEW s \in UpTo(S, k)
                 PROVE  (IF s = {} THEN 0 ELSE f[Pick(s)] + g[s \ {Pick(s)}]) \in Int
      BY Zenon
    <3>1. CASE s = {}
      BY <3>1, SMT
    <3>2. CASE s # {}
      <4>1. f[Pick(s)] \in Int /\ g[s \ {Pick(s)}] \in Int
        BY <2>3, <2>4, <3>2, Zenon
      <4>2. f[Pick(s)] + g[s \ {Pick(s)}] \in Int
        BY <4>1, SMT
      <4> QED BY <3>2, <4>2, Zenon
    <3> QED BY <3>1, <3>2, Zenon
  <2>6. \A s \in UpTo(S, k - 1) : s \in UpTo(S, k) /\ h[s] = g[s]
    <3> SUFFICES ASSUME NEW s \in UpTo(S, k - 1) PROVE s \in UpTo(S, k) /\ h[s] = g[s]
      BY Zenon
    <3>1. s \in SUBSET S /\ Cardinality(s) <= k - 1
      BY Zenon DEF UpTo
    <3>2. Cardinality(s) \in Nat
      BY <3>1, FS_Subset, FS_CardinalityType, Zenon
    <3>3. Cardinality(s) <= k
      BY <1>3, <3>1, <3>2, SMT
    <3>4. s \in UpTo(S, k)
      BY <3>1, <3>3, Zenon DEF UpTo
    <3>5. g[s] = IF s = {} THEN 0 ELSE f[Pick(s)] + g[s \ {Pick(s)}]
      BY <2>3, Zenon DEF Adds
    <3> QED BY <3>4, <3>5, Zenon
  <2>7. \A s \in UpTo(S, k) : s # {} => h[s \ {Pick(s)}] = g[s \ {Pick(s)}]
    BY <2>4, <2>6, Zenon
  <2>8. Adds(h, f, UpTo(S, k))
    BY <2>7, Zenon DEF Adds
  <2> QED BY <2>5, <2>8, Zenon
<1> QED BY <1>4, <1>5, Zenon

\* ... and two solutions agree where both are defined.
LEMMA AddsAgree ==
    ASSUME NEW A, IsFiniteSet(A), NEW B \in SUBSET A, NEW f,
           NEW g, Solves(g, f, A), NEW h, Solves(h, f, B)
    PROVE  \A s \in SUBSET B : g[s] = h[s]
<1> DEFINE Bad == {t \in SUBSET B : g[t] # h[t]}
<1>1. SUFFICES ASSUME Bad # {} PROVE FALSE
  BY Zenon
<1>2. PICK m \in Bad : \A n \in Bad : n \subseteq m => n = m
  <2>1. Bad \in SUBSET (SUBSET A)
    BY SMT
  <2> HIDE DEF Bad
  <2> QED BY <1>1, <2>1, MinimalSet, SMT
<1>3. m \in SUBSET B /\ m \in SUBSET A /\ g[m] # h[m]
  BY Zenon
<1>4. /\ g[m] = IF m = {} THEN 0 ELSE f[Pick(m)] + g[m \ {Pick(m)}]
      /\ h[m] = IF m = {} THEN 0 ELSE f[Pick(m)] + h[m \ {Pick(m)}]
  BY <1>3, Zenon DEF Solves, Adds
<1>5. m # {} /\ g[m \ {Pick(m)}] # h[m \ {Pick(m)}]
  BY <1>3, <1>4, Zenon
<1>6. Pick(m) \in m
  BY <1>5, Zenon DEF Pick
<1>7. /\ m \ {Pick(m)} \in SUBSET B
      /\ m \ {Pick(m)} \subseteq m /\ m \ {Pick(m)} # m
  BY <1>3, <1>6, Zenon
<1>8. m \ {Pick(m)} \in Bad
  BY <1>5, <1>7, Zenon
<1> QED BY <1>2, <1>7, <1>8, Zenon

\* The sum is what the recursion says.
LEMMA SumIsAdds ==
    ASSUME NEW S, IsFiniteSet(S), NEW f, \A x \in S : f[x] \in Int
    PROVE  \E h \in [SUBSET S -> Int] : Solves(h, f, S) /\ SumFunctionOnSet(f, S) = h[S]
<1>1. Cardinality(S) \in Nat
  BY FS_CardinalityType, Zenon
<1>2. UpTo(S, Cardinality(S)) = SUBSET S
  BY FS_Subset, Zenon DEF UpTo
<1>3. PICK h \in [SUBSET S -> Int] : Solves(h, f, S)
  <2>1. \E h \in [UpTo(S, Cardinality(S)) -> Int] : Adds(h, f, UpTo(S, Cardinality(S)))
    BY <1>1, AddsUpTo, Zenon
  <2> QED BY <1>2, <2>1, Zenon DEF Solves
<1> DEFINE iter == CHOOSE g : Solves(g, f, S)
<1>4. Solves(iter, f, S)
  BY <1>3, Zenon
<1>5. SumFunctionOnSet(f, S) = iter[S]
  BY Zenon DEF SumFunctionOnSet, FoldFunctionOnSet, MapThenFoldSet, Solves, Adds, Pick
<1>6. iter[S] = h[S]
  <2> HIDE DEF iter
  <2>1. S \in SUBSET S
    BY Zenon
  <2>2. \A s \in SUBSET S : iter[s] = h[s]
    <3>1. Solves(iter, f, S) /\ Solves(h, f, S)
      BY <1>3, <1>4, Zenon
    <3> QED BY <2>1, <3>1, AddsAgree
  <2> QED BY <2>1, <2>2, Zenon
<1> QED BY <1>3, <1>5, <1>6, Zenon

\* The sum of an empty set, and one step of the recursion.
LEMMA SumPick ==
    ASSUME NEW G, IsFiniteSet(G), NEW f \in [G -> Int], NEW S \in SUBSET G
    PROVE  /\ SumFunctionOnSet(f, S) \in Int
           /\ S = {} => SumFunctionOnSet(f, S) = 0
           /\ S # {} => SumFunctionOnSet(f, S)
                          = f[Pick(S)] + SumFunctionOnSet(f, S \ {Pick(S)})
<1> DEFINE c == Pick(S)
<1>1. IsFiniteSet(S) /\ \A x \in S : f[x] \in Int
  BY FS_Subset, Zenon
<1>2. PICK h \in [SUBSET S -> Int] : Solves(h, f, S) /\ SumFunctionOnSet(f, S) = h[S]
  BY <1>1, SumIsAdds, Zenon
<1>3. S \in SUBSET S
  BY Zenon
<1>4. h[S] = IF S = {} THEN 0 ELSE f[c] + h[S \ {c}]
  BY <1>2, <1>3, Zenon DEF Solves, Adds
<1>5. ASSUME S # {} PROVE SumFunctionOnSet(f, S \ {c}) = h[S \ {c}]
  <2>1. S \ {c} \in SUBSET S
    BY Zenon
  <2>2. IsFiniteSet(S \ {c}) /\ \A x \in S \ {c} : f[x] \in Int
    BY <1>1, <2>1, FS_Subset, Zenon
  <2>3. PICK g \in [SUBSET (S \ {c}) -> Int] :
           Solves(g, f, S \ {c}) /\ SumFunctionOnSet(f, S \ {c}) = g[S \ {c}]
    BY <2>2, SumIsAdds, Zenon
  <2>4. \A s \in SUBSET (S \ {c}) : h[s] = g[s]
    <3> HIDE DEF c
    <3> QED BY <1>1, <1>2, <2>1, <2>3, AddsAgree
  <2>5. S \ {c} \in SUBSET (S \ {c})
    BY Zenon
  <2> QED BY <2>3, <2>4, <2>5, Zenon
<1> QED BY <1>2, <1>3, <1>4, <1>5, Zenon

\* The sum over one element more, whichever it is.
LEMMA SumAdd ==
    ASSUME NEW G, IsFiniteSet(G), NEW f \in [G -> Int], NEW S \in SUBSET G, NEW x \in S
    PROVE  SumFunctionOnSet(f, S) = f[x] + SumFunctionOnSet(f, S \ {x})
<1> DEFINE Sum(T) == SumFunctionOnSet(f, T)
<1> DEFINE Bad == {T \in SUBSET G : \E y \in T : Sum(T) # f[y] + Sum(T \ {y})}
<1>1. SUFFICES ASSUME Bad # {} PROVE FALSE
  BY Zenon
<1>2. PICK T \in Bad : \A U \in Bad : U \subseteq T => U = T
  <2>1. Bad \in SUBSET (SUBSET G)
    BY Zenon
  <2> HIDE DEF Bad
  <2> QED BY <1>1, <2>1, MinimalSet, SMT
<1>3. PICK y \in T : Sum(T) # f[y] + Sum(T \ {y})
  BY Zenon
<1> DEFINE c == Pick(T)
<1>4. T \in SUBSET G /\ c \in T /\ f[c] \in Int /\ f[y] \in Int
  BY Zenon DEF Pick
<1>5. Sum(T) = f[c] + Sum(T \ {c}) /\ c # y
  <2>1. T # {}
    BY <1>3, Zenon
  <2>2. Sum(T) = f[c] + Sum(T \ {c})
    BY <1>4, <2>1, SumPick
  <2> QED BY <1>3, <2>2, Zenon
<1>6. /\ T \ {c} \in SUBSET G /\ T \ {c} \subseteq T /\ T \ {c} # T /\ y \in T \ {c}
      /\ T \ {y} \in SUBSET G /\ T \ {y} \subseteq T /\ T \ {y} # T /\ c \in T \ {y}
      /\ (T \ {c}) \ {y} = (T \ {y}) \ {c} /\ (T \ {c}) \ {y} \in SUBSET G
  BY <1>4, <1>5, Zenon
<1>7. T \ {c} \notin Bad /\ T \ {y} \notin Bad
  BY <1>2, <1>6, Zenon
<1>8. /\ Sum(T \ {c}) = f[y] + Sum((T \ {c}) \ {y})
      /\ Sum(T \ {y}) = f[c] + Sum((T \ {y}) \ {c})
  BY <1>6, <1>7, Zenon
<1>9. Sum((T \ {c}) \ {y}) \in Int
  BY <1>6, SumPick, Zenon
<1>10. Sum(T) = f[y] + Sum(T \ {y})
  <2> DEFINE r == Sum((T \ {c}) \ {y})
  <2>1. Sum(T \ {y}) = f[c] + r
    BY <1>6, <1>8, Zenon
  <2>2. Sum(T) = f[c] + (f[y] + r)
    BY <1>5, <1>8, Zenon
  <2>3. f[c] \in Int /\ f[y] \in Int /\ r \in Int
    BY <1>4, <1>9, Zenon
  <2>4. f[c] + (f[y] + r) = f[y] + (f[c] + r)
    <3> HIDE DEF r, c
    <3> QED BY <2>3, SMT
  <2> QED BY <2>1, <2>2, <2>4, Zenon
<1> QED BY <1>3, <1>10, Zenon

\* Functions that agree on a set have the same sum over it.
LEMMA SumCongruent ==
    ASSUME NEW G, IsFiniteSet(G), NEW f \in [G -> Int], NEW g \in [G -> Int],
           NEW S \in SUBSET G, \A x \in S : f[x] = g[x]
    PROVE  SumFunctionOnSet(f, S) = SumFunctionOnSet(g, S)
<1> DEFINE Bad == {T \in SUBSET S : SumFunctionOnSet(f, T) # SumFunctionOnSet(g, T)}
<1>1. SUFFICES ASSUME Bad # {} PROVE FALSE
  BY Zenon
<1>2. PICK T \in Bad : \A U \in Bad : U \subseteq T => U = T
  <2>1. Bad \in SUBSET (SUBSET G)
    BY SMT
  <2> HIDE DEF Bad
  <2> QED BY <1>1, <2>1, MinimalSet, SMT
<1> DEFINE c == Pick(T)
<1>3. T \in SUBSET S /\ T \in SUBSET G /\ SumFunctionOnSet(f, T) # SumFunctionOnSet(g, T)
  BY Zenon
<1>4. T # {}
  BY <1>3, SumPick, Zenon
<1>5. c \in T
  BY <1>4, Zenon DEF Pick
<1>6. T \ {c} \in SUBSET S /\ T \ {c} \subseteq T /\ T \ {c} # T /\ f[c] = g[c]
  BY <1>3, <1>5, Zenon
<1>7. T \ {c} \notin Bad
  BY <1>2, <1>6, Zenon
<1>8. SumFunctionOnSet(f, T \ {c}) = SumFunctionOnSet(g, T \ {c})
  BY <1>6, <1>7, Zenon
<1>9. /\ SumFunctionOnSet(f, T) = f[c] + SumFunctionOnSet(f, T \ {c})
      /\ SumFunctionOnSet(g, T) = g[c] + SumFunctionOnSet(g, T \ {c})
  BY <1>3, <1>4, SumPick
<1> QED BY <1>3, <1>6, <1>8, <1>9, Zenon

\* The sum after one value has changed.
LEMMA SumUpdate ==
    ASSUME NEW G, IsFiniteSet(G), NEW f \in [G -> Int], NEW g \in [G -> Int], NEW S \in SUBSET G,
           NEW x \in S, \A y \in S : y # x => f[y] = g[y]
    PROVE  SumFunctionOnSet(g, S) = SumFunctionOnSet(f, S) - f[x] + g[x]
<1> DEFINE T == S \ {x}
<1>1. x \in G /\ T \in SUBSET G /\ f[x] \in Int /\ g[x] \in Int
  BY Zenon
<1>2. \A y \in T : f[y] = g[y]
  BY Zenon
<1>3. SumFunctionOnSet(f, S) = f[x] + SumFunctionOnSet(f, T)
  BY SumAdd
<1>4. SumFunctionOnSet(g, S) = g[x] + SumFunctionOnSet(g, T)
  BY SumAdd
<1> HIDE DEF T
<1>5. SumFunctionOnSet(f, T) = SumFunctionOnSet(g, T)
  BY <1>1, <1>2, SumCongruent
<1>6. SumFunctionOnSet(f, T) \in Int
  BY <1>1, SumPick, Zenon
<1> DEFINE a == SumFunctionOnSet(f, T)
           b == SumFunctionOnSet(f, S)
           d == SumFunctionOnSet(g, S)
<1>7. a \in Int /\ b = f[x] + a /\ d = g[x] + a
  BY <1>3, <1>4, <1>5, <1>6, Zenon
<1> HIDE DEF a, b, d
<1>8. d = b - f[x] + g[x]
  BY <1>1, <1>7, SMT
<1> QED BY <1>8, Zenon DEF b, d

LEMMA Distribute ==
    ASSUME NEW n \in Int, NEW k \in Int
    PROVE  k + (n - 1) * k = n * k /\ n * k + k = (n + 1) * k /\ n * k - k = (n - 1) * k
OBVIOUS

\* The sum of a constant.
LEMMA SumConstant ==
    ASSUME NEW G, IsFiniteSet(G), NEW f \in [G -> Int], NEW S \in SUBSET G, NEW k \in Int,
           \A x \in S : f[x] = k
    PROVE  SumFunctionOnSet(f, S) = Cardinality(S) * k
<1> DEFINE Bad == {T \in SUBSET S : SumFunctionOnSet(f, T) # Cardinality(T) * k}
<1>1. SUFFICES ASSUME Bad # {} PROVE FALSE
  BY Zenon
<1>2. PICK T \in Bad : \A U \in Bad : U \subseteq T => U = T
  <2>1. Bad \in SUBSET (SUBSET G)
    BY SMT
  <2> HIDE DEF Bad
  <2> QED BY <1>1, <2>1, MinimalSet, SMT
<1>3. T \in SUBSET S /\ T \in SUBSET G /\ SumFunctionOnSet(f, T) # Cardinality(T) * k
  BY Zenon
<1>4. CASE T = {}
  <2>1. SumFunctionOnSet(f, T) = 0
    BY <1>3, <1>4, SumPick, Zenon
  <2>2. Cardinality(T) = 0
    BY <1>4, FS_EmptySet, Zenon
  <2>3. 0 * k = 0
    OBVIOUS
  <2> QED BY <1>3, <2>1, <2>2, <2>3, Zenon
<1>5. CASE T # {}
  <2> DEFINE c == Pick(T)
             U == T \ {c}
  <2>1. c \in T /\ f[c] = k /\ U \in SUBSET S /\ U \subseteq T /\ U # T /\ U \in SUBSET G
    BY <1>3, <1>5, Zenon DEF Pick
  <2>2. SumFunctionOnSet(f, U) = Cardinality(U) * k
    BY <1>2, <2>1, Zenon
  <2>3. IsFiniteSet(T) /\ Cardinality(T) \in Nat
    BY <1>3, FS_Subset, FS_CardinalityType, Zenon
  <2>4. Cardinality(U) = Cardinality(T) - 1
    BY <2>1, <2>3, FS_RemoveElement, Zenon
  <2>5. SumFunctionOnSet(f, T) = f[c] + SumFunctionOnSet(f, U)
    BY <1>3, <2>1, SumAdd
  <2>6. SumFunctionOnSet(f, T) = k + (Cardinality(T) - 1) * k
    BY <2>1, <2>2, <2>4, <2>5, Zenon
  <2>7. Cardinality(T) \in Int
    BY <2>3, SMT
  <2>8. k + (Cardinality(T) - 1) * k = Cardinality(T) * k
    BY <2>7, Distribute, Zenon
  <2> QED BY <1>3, <2>6, <2>8, Zenon
<1> QED BY <1>4, <1>5, Zenon

-----------------------------------------------------------------------------
(* Loops *)

\* f[i] is what a loop over 0 .. n-1 has made of x after iteration i; G[i] is
\* the body of iteration i.
Loops(f, G, x, n) == f = [i \in -1 .. n - 1 |-> IF i = -1 THEN x ELSE G[i][f[i - 1]]]

\* A loop has a result ...
LEMMA LoopExists ==
    ASSUME NEW n \in Nat, NEW X, NEW x \in X, NEW G, \A i \in 0 .. n - 1 : G[i] \in [X -> X]
    PROVE  \E f \in [-1 .. n - 1 -> X] : Loops(f, G, x, n)
<1> DEFINE Bad == {k \in Nat : k <= n /\ ~ \E f \in [-1 .. k - 1 -> X] : Loops(f, G, x, k)}
<1>0. n <= n
  BY SMT
<1>1. SUFFICES ASSUME Bad # {} PROVE FALSE
  BY <1>0, Zenon
<1>2. PICK k \in Bad : \A j \in Bad : k <= j
  <2>1. Bad \in SUBSET Nat
    BY Zenon
  <2> HIDE DEF Bad
  <2> QED BY <1>1, <2>1, LeastNatural, Zenon
<1>3. k \in Nat /\ k <= n /\ ~ \E f \in [-1 .. k - 1 -> X] : Loops(f, G, x, k)
  BY Zenon
<1>4. CASE k = 0
  <2>1. \A i \in -1 .. k - 1 : i = -1
    BY <1>4, SMT
  <2> DEFINE f == [i \in -1 .. k - 1 |-> x]
  <2>2. f \in [-1 .. k - 1 -> X] /\ Loops(f, G, x, k)
    BY <2>1, Zenon DEF Loops
  <2> QED BY <1>3, <2>2, Zenon
<1>5. CASE k # 0
  <2> DEFINE m == k - 1
  <2>1. /\ m \in Nat /\ m <= n /\ ~(k <= m) /\ m \in 0 .. n - 1
        /\ \A i \in -1 .. k - 1 : (i # m => i \in -1 .. m - 1) /\ (i # -1 => i - 1 \in -1 .. m - 1 /\ i - 1 \in -1 .. k - 1 /\ i - 1 # m)
        /\ m # -1 /\ m - 1 \in -1 .. m - 1
    BY <1>3, <1>5, SMT
  <2> HIDE DEF m
  <2>2. PICK g \in [-1 .. m - 1 -> X] : Loops(g, G, x, m)
    BY <1>2, <2>1, Zenon
  <2> DEFINE f == [i \in -1 .. k - 1 |-> IF i = m THEN G[m][g[m - 1]] ELSE g[i]]
  <2>3. G[m][g[m - 1]] \in X
    BY <2>1, <2>2, Zenon
  <2>4. f \in [-1 .. k - 1 -> X]
    BY <2>1, <2>2, <2>3, Zenon
  <2>5. \A i \in -1 .. k - 1 : i # -1 => f[i - 1] = g[i - 1]
    BY <2>1, Zenon
  <2>6. \A i \in -1 .. k - 1 : f[i] = IF i = -1 THEN x ELSE G[i][f[i - 1]]
    <3> SUFFICES ASSUME NEW i \in -1 .. k - 1
                 PROVE  f[i] = IF i = -1 THEN x ELSE G[i][f[i - 1]]
      BY Zenon
    <3>1. CASE i = m
      <4>1. f[i] = G[m][g[m - 1]] /\ f[i - 1] = g[i - 1]
        BY <2>1, <2>5, <3>1, Zenon
      <4> QED BY <2>1, <3>1, <4>1, Zenon
    <3>2. CASE i # m
      <4>1. f[i] = g[i] /\ i \in -1 .. m - 1
        BY <2>1, <3>2, Zenon
      <4>2. g[i] = IF i = -1 THEN x ELSE G[i][g[i - 1]]
        BY <2>2, <4>1, Zenon DEF Loops
      <4> QED BY <2>5, <4>1, <4>2, Zenon
    <3> QED BY <3>1, <3>2, Zenon
  <2>7. f = [i \in -1 .. k - 1 |-> IF i = -1 THEN x ELSE G[i][f[i - 1]]]
    BY <2>4, <2>6, Zenon
  <2>8. Loops(f, G, x, k)
    BY <2>7, Zenon DEF Loops
  <2> QED BY <1>3, <2>4, <2>8, Zenon
<1> QED BY <1>4, <1>5, Zenon

\* ... and keeps what every iteration establishes for the next: J[i] holds
\* after iteration i.
LEMMA LoopKeeps ==
    ASSUME NEW n \in Nat, NEW f, NEW J, f[-1] \in J[-1],
           \A i \in 0 .. n - 1 : f[i - 1] \in J[i - 1] => f[i] \in J[i]
    PROVE  f[n - 1] \in J[n - 1]
<1> DEFINE Bad == {k \in Nat : k <= n /\ f[k - 1] \notin J[k - 1]}
<1>0. n <= n
  BY SMT
<1>1. SUFFICES ASSUME Bad # {} PROVE FALSE
  BY <1>0, Zenon
<1>2. PICK k \in Bad : \A j \in Bad : k <= j
  <2>1. Bad \in SUBSET Nat
    BY Zenon
  <2> HIDE DEF Bad
  <2> QED BY <1>1, <2>1, LeastNatural, Zenon
<1> DEFINE m == k - 1
<1>3. k \in Nat /\ k <= n /\ f[m] \notin J[m]
  BY Zenon
<1>4. k # 0
  <2> SUFFICES ASSUME k = 0 PROVE FALSE
    BY Zenon
  <2>1. m = -1
    BY SMT
  <2> QED BY <1>3, <2>1, Zenon
<1>5. m \in Nat /\ m <= n /\ ~(k <= m) /\ m \in 0 .. n - 1
  BY <1>3, <1>4, SMT
<1>6. f[m - 1] \in J[m - 1]
  <2> HIDE DEF m
  <2> QED BY <1>2, <1>5, Zenon
<1> QED BY <1>3, <1>5, <1>6, Zenon

\* A division by n > 0.
LEMMA Quotient ==
    ASSUME NEW a \in Nat, NEW n \in Nat \ {0}
    PROVE  a \div n \in Nat /\ a \div n <= a
BY SMT
=============================================================================
