--------------------------- MODULE Counting_proofs ---------------------------
(***************************************************************************)
(* Induction and recursion over the natural numbers, in a form that takes no   *)
(* operator as a parameter, and what they say of the loops of Counting.       *)
(***************************************************************************)
EXTENDS Counting, Integers, FiniteSetTheorems, SequenceTheorems, WellFoundedInduction, TLAPS

-----------------------------------------------------------------------------
(* Induction: a set of counterexamples has a least element.                *)

\* Every non-empty set of natural numbers has a least element.
LEMMA LeastNumber ==
  ASSUME NEW T \in SUBSET Nat, T # {}
  PROVE  \E m \in T : \A k \in T : m <= k
<1>1. PICK m \in T : \A k \in T : ~(<<k, m>> \in OpToRel(<, Nat))
  BY NatLessThanWellFounded, WFMin
<1>2. \A k \in T : ~(k < m)
  BY <1>1 DEF OpToRel
<1> QED
  BY <1>2

\* A set that holds 0 and, with a number, its successor holds every number.
LEMMA Induction ==
  ASSUME NEW S, 0 \in S, \A n \in Nat : n \in S => n + 1 \in S
  PROVE  Nat \subseteq S
<1> SUFFICES ASSUME Nat \ S # {} PROVE FALSE
  OBVIOUS
<1>1. PICK m \in Nat \ S : \A k \in Nat \ S : m <= k
  BY LeastNumber
<1>2. m - 1 \in Nat /\ m = (m - 1) + 1
  BY <1>1
<1>3. m - 1 \in S
  BY <1>1, <1>2
<1> QED
  BY <1>1, <1>2, <1>3

-----------------------------------------------------------------------------
(* Recursion: a step is a function of the index and the value before.      *)

\* f runs from a through the steps G up to n.
Runs(f, a, G, n) ==
  /\ f[0] = a
  /\ \A k \in 0..(n - 1) : f[k + 1] = G[k][f[k]]

\* f runs from a through the steps G without end.
RunsOn(f, a, G) ==
  /\ f[0] = a
  /\ \A n \in Nat : f[n + 1] = G[n][f[n]]

\* Two runs agree as far as both go.
LEMMA RunsAgree ==
  ASSUME NEW a, NEW G, NEW n \in Nat, NEW m \in Nat, NEW f, NEW g,
         Runs(f, a, G, n), Runs(g, a, G, m)
  PROVE  \A k \in Nat : k <= n /\ k <= m => f[k] = g[k]
<1> DEFINE S == {k \in Nat : k <= n /\ k <= m => f[k] = g[k]}
<1>1. 0 \in S
  BY DEF Runs
<1>2. ASSUME NEW k \in Nat, k \in S PROVE k + 1 \in S
  <2> SUFFICES ASSUME k + 1 <= n, k + 1 <= m PROVE f[k + 1] = g[k + 1]
    OBVIOUS
  <2>1. f[k] = g[k] /\ k \in 0..(n - 1) /\ k \in 0..(m - 1)
    BY <1>2
  <2> QED
    BY <2>1 DEF Runs
<1>3. Nat \subseteq S
  BY <1>1, <1>2, Induction
<1> QED
  BY <1>3

\* There is a run of every length.
LEMMA RunsExist ==
  ASSUME NEW V, NEW a \in V, NEW G \in [Nat -> [V -> V]]
  PROVE  \A n \in Nat : \E f \in [0..n -> V] : Runs(f, a, G, n)
<1> DEFINE S == {n \in Nat : \E f \in [0..n -> V] : Runs(f, a, G, n)}
<1>1. 0 \in S
  <2> DEFINE f == [k \in 0..0 |-> a]
  <2>1. f \in [0..0 -> V] /\ Runs(f, a, G, 0)
    BY DEF Runs
  <2> QED
    BY <2>1
<1>2. ASSUME NEW n \in Nat, n \in S PROVE n + 1 \in S
  <2>1. PICK f \in [0..n -> V] : Runs(f, a, G, n)
    BY <1>2
  <2> DEFINE g == [k \in 0..(n + 1) |-> IF k <= n THEN f[k] ELSE G[n][f[n]]]
  <2>2. G[n][f[n]] \in V
    BY <2>1
  <2>3. g \in [0..(n + 1) -> V]
    BY <2>1, <2>2
  <2>4. g[0] = a
    BY <2>1 DEF Runs
  <2>5. ASSUME NEW k \in 0..n PROVE g[k + 1] = G[k][g[k]]
    BY <2>1, <2>5 DEF Runs
  <2> HIDE DEF g
  <2>6. Runs(g, a, G, n + 1)
    <3>1. 0..((n + 1) - 1) = 0..n
      OBVIOUS
    <3> QED
      BY <2>4, <2>5, <3>1 DEF Runs
  <2> HIDE DEF g
  <2> QED
    BY <2>3, <2>6
<1>3. Nat \subseteq S
  BY <1>1, <1>2, Induction
<1> QED
  BY <1>3

\* Every step function has a run without end.
LEMMA Recursion ==
  ASSUME NEW V, NEW a \in V, NEW G \in [Nat -> [V -> V]]
  PROVE  \E f \in [Nat -> V] : RunsOn(f, a, G)
<1> DEFINE F(n) == CHOOSE f \in [0..n -> V] : Runs(f, a, G, n)
           f == [n \in Nat |-> F(n)[n]]
<1>1. \A n \in Nat : F(n) \in [0..n -> V] /\ Runs(F(n), a, G, n)
  BY RunsExist
<1> HIDE DEF F
<1>2. f \in [Nat -> V] /\ f[0] = a
  BY <1>1 DEF Runs
<1>3. ASSUME NEW n \in Nat PROVE f[n + 1] = G[n][f[n]]
  <2>1. F(n + 1)[n] = F(n)[n]
    BY <1>1, RunsAgree
  <2>2. F(n + 1)[n + 1] = G[n][F(n + 1)[n]]
    BY <1>1 DEF Runs
  <2> QED
    BY <2>1, <2>2
<1> HIDE DEF f
<1> QED
  BY <1>2, <1>3 DEF RunsOn

-----------------------------------------------------------------------------
(* The loop over the terminals.                                            *)

\* The loop, one terminal at a time.
LEMMA InOrderStep ==
  ASSUME NEW M
  PROVE  /\ InOrder(M, 0) = <<>>
         /\ \A n \in Nat :
              /\ InOrder(M, n) \in Seq(Nat)
              /\ InOrder(M, n + 1) = IF n + 1 \in M THEN Append(InOrder(M, n), n + 1)
                                     ELSE InOrder(M, n)
<1> DEFINE V == Seq(Nat)
           G == [n \in Nat |-> [s \in V |-> IF n + 1 \in M THEN Append(s, n + 1) ELSE s]]
           P(f) == [k \in Nat |-> IF k = 0 THEN <<>>
                                  ELSE IF k \in M THEN Append(f[k - 1], k) ELSE f[k - 1]]
           p == CHOOSE f : f = P(f)
<1>1. G \in [Nat -> [V -> V]] /\ <<>> \in V
  <2> SUFFICES ASSUME NEW n \in Nat, NEW s \in V
               PROVE  (IF n + 1 \in M THEN Append(s, n + 1) ELSE s) \in V
    OBVIOUS
  <2> QED
    OBVIOUS
<1> HIDE DEF V
<1>2. PICK f \in [Nat -> V] : RunsOn(f, <<>>, G)
  <2> HIDE DEF G
  <2> QED
    BY <1>1, Recursion
<1>3. /\ f[0] = <<>>
      /\ \A n \in Nat : f[n + 1] = IF n + 1 \in M THEN Append(f[n], n + 1) ELSE f[n]
  BY <1>2 DEF RunsOn
<1>4. f = P(f)
  <2>1. ASSUME NEW k \in Nat PROVE f[k] = P(f)[k]
    <3>1. CASE k = 0
      BY <1>3, <3>1
    <3>2. CASE k # 0
      <4>1. k - 1 \in Nat /\ (k - 1) + 1 = k
        BY <3>2
      <4> QED
        BY <1>3, <3>2, <4>1
    <3> QED
      BY <3>1, <3>2
  <2> QED
    BY <1>2, <2>1
<1>5. p = P(p)
  BY <1>4
<1>6. \A n : InOrder(M, n) = p[n]
  BY DEF InOrder
<1> HIDE DEF p
<1>7. p[0] = <<>>
  BY <1>5
<1>8. ASSUME NEW n \in Nat
      PROVE  p[n + 1] = IF n + 1 \in M THEN Append(p[n], n + 1) ELSE p[n]
  <2>1. n + 1 \in Nat /\ n + 1 # 0 /\ (n + 1) - 1 = n
    OBVIOUS
  <2>2. p[n + 1] = P(p)[n + 1]
    BY <1>5
  <2> QED
    BY <2>1, <2>2
<1>9. \A n \in Nat : p[n] \in V
  <2> DEFINE S == {n \in Nat : p[n] \in V}
  <2>1. 0 \in S
    BY <1>1, <1>7
  <2>2. ASSUME NEW n \in Nat, n \in S PROVE n + 1 \in S
    BY <1>1, <1>8, <2>2
  <2> HIDE DEF S
  <2>3. Nat \subseteq S
    BY <2>1, <2>2, Induction
  <2> QED
    BY <2>3 DEF S
<1> QED
  BY <1>6, <1>7, <1>8, <1>9 DEF V

\* The counter, one terminal at a time.
LEMMA PassedStep ==
  ASSUME NEW M \in SUBSET (Nat \ {0}), NEW n \in Nat
  PROVE  /\ Passed(M, 0) = 0
         /\ Passed(M, n) \in Nat
         /\ Passed(M, n + 1) = IF n + 1 \in M THEN Passed(M, n) + 1 ELSE Passed(M, n)
<1> DEFINE U(k) == {u \in M : u <= k}
<1>0. /\ \A u \in M : ~(u <= 0) /\ (u <= n => u \in 1..n)
      /\ \A u \in M : u <= n + 1 <=> u <= n \/ u = n + 1
      /\ n + 1 <= n + 1 /\ ~(n + 1 <= n)
  OBVIOUS
<1>1. U(0) = {} /\ U(n) \subseteq 1..n
  BY <1>0, Zenon
<1>2. IsFiniteSet(1..n)
  BY FS_Interval
<1>3. IsFiniteSet(U(n)) /\ Cardinality(U(n)) \in Nat /\ Cardinality(U(0)) = 0
  BY <1>1, <1>2, FS_Subset, FS_CardinalityType, FS_EmptySet
<1>4. CASE n + 1 \in M
  <2>1. U(n + 1) = U(n) \cup {n + 1} /\ n + 1 \notin U(n)
    BY <1>0, <1>4, Zenon
  <2> HIDE DEF U
  <2>2. Cardinality(U(n + 1)) = Cardinality(U(n)) + 1
    BY <1>3, <2>1, FS_AddElement
  <2> QED
    BY <1>3, <1>4, <2>2 DEF Passed, U
<1>5. CASE n + 1 \notin M
  <2>1. U(n + 1) = U(n)
    BY <1>0, <1>5, Zenon
  <2> QED
    BY <1>3, <1>5, <2>1 DEF Passed
<1> QED
  BY <1>4, <1>5

\* The counter never goes back.
LEMMA PassedMonotone ==
  ASSUME NEW M \in SUBSET (Nat \ {0}), NEW n \in Nat, NEW t \in Nat, t <= n
  PROVE  Passed(M, t) <= Passed(M, n)
<1> DEFINE S == {k \in Nat : t <= k => Passed(M, t) <= Passed(M, k)}
<1>1. Passed(M, t) \in Nat
  BY PassedStep
<1>2. 0 \in S
  BY <1>1
<1>3. ASSUME NEW k \in Nat, k \in S PROVE k + 1 \in S
  <2>1. /\ Passed(M, k) \in Nat
        /\ Passed(M, k + 1) = Passed(M, k) + 1 \/ Passed(M, k + 1) = Passed(M, k)
    BY PassedStep
  <2>2. CASE t <= k
    BY <1>1, <1>3, <2>1, <2>2
  <2>3. CASE ~(t <= k)
    <3>1. t <= k + 1 => t = k + 1
      BY <2>3
    <3> QED
      BY <1>1, <3>1
  <2> QED
    BY <2>2, <2>3
<1> HIDE DEF S
<1>4. Nat \subseteq S
  BY <1>2, <1>3, Induction
<1> QED
  BY <1>4 DEF S

\* The sequence a loop pushes and the counter it could keep agree: the element of
\* each counted terminal is at its count, and there are no others.
LEMMA OrderIsCount ==
  ASSUME NEW M \in SUBSET (Nat \ {0}), NEW n \in Nat
  PROVE  /\ Len(InOrder(M, n)) = Passed(M, n)
         /\ \A t \in M : t <= n => /\ Passed(M, t) \in 1..Passed(M, n)
                                   /\ InOrder(M, n)[Passed(M, t)] = t
         /\ \A p \in 1..Passed(M, n) : /\ InOrder(M, n)[p] \in M
                                       /\ InOrder(M, n)[p] <= n
                                       /\ Passed(M, InOrder(M, n)[p]) = p
<1> DEFINE s(k) == InOrder(M, k)
           c(k) == Passed(M, k)
           Agree(k) == /\ Len(s(k)) = c(k)
                       /\ \A t \in M : t <= k => c(t) \in 1..c(k) /\ s(k)[c(t)] = t
                       /\ \A p \in 1..c(k) : s(k)[p] \in M /\ s(k)[p] <= k /\ c(s(k)[p]) = p
           S == {k \in Nat : Agree(k)}
<1>1. /\ s(0) = <<>> /\ c(0) = 0
      /\ \A k \in Nat : /\ s(k) \in Seq(Nat) /\ c(k) \in Nat
                        /\ k + 1 \in M => s(k + 1) = Append(s(k), k + 1) /\ c(k + 1) = c(k) + 1
                        /\ k + 1 \notin M => s(k + 1) = s(k) /\ c(k + 1) = c(k)
  BY InOrderStep, PassedStep
<1> HIDE DEF s, c
<1>2. Agree(0)
  <2>1. \A t \in M : ~(t <= 0)
    OBVIOUS
  <2>2. Len(s(0)) = 0 /\ c(0) = 0
    BY <1>1
  <2> QED
    BY <2>1, <2>2
<1>3. ASSUME NEW k \in Nat, Agree(k) PROVE Agree(k + 1)
  <2>1. CASE k + 1 \in M
    <3>1. /\ s(k + 1) = Append(s(k), k + 1) /\ c(k + 1) = c(k) + 1
          /\ s(k) \in Seq(Nat) /\ c(k) \in Nat /\ Len(s(k)) = c(k)
      BY <1>1, <1>3, <2>1
    <3> DEFINE q == s(k)
    <3>2. /\ Len(s(k + 1)) = c(k + 1) /\ s(k + 1)[c(k + 1)] = k + 1
          /\ \A p \in 1..c(k) : s(k + 1)[p] = s(k)[p]
      <4>1. q \in Seq(Nat) /\ k + 1 \in Nat /\ Len(q) = c(k)
        BY <3>1
      <4>2. /\ Len(Append(q, k + 1)) = Len(q) + 1
            /\ Append(q, k + 1)[Len(q) + 1] = k + 1
            /\ \A p \in 1..Len(q) : Append(q, k + 1)[p] = q[p]
        <5> HIDE DEF q
        <5> QED
          BY <4>1
      <4> QED
        BY <3>1, <4>1, <4>2
    <3>3. \A t \in M : t <= k + 1 => t <= k \/ t = k + 1
      OBVIOUS
    <3>4. \A t \in M : t <= k => c(t) \in 1..c(k) /\ s(k)[c(t)] = t
      BY <1>3
    <3>5. \A t \in M : t <= k + 1 => c(t) \in 1..c(k + 1) /\ s(k + 1)[c(t)] = t
      BY <3>1, <3>2, <3>3, <3>4
    <3>6. \A p \in 1..c(k + 1) : p \in 1..c(k) \/ p = c(k + 1)
      BY <3>1
    <3>7. \A p \in 1..c(k) : s(k)[p] \in M /\ s(k)[p] <= k /\ c(s(k)[p]) = p
      BY <1>3
    <3>8. \A p \in 1..c(k + 1) : /\ s(k + 1)[p] \in M /\ s(k + 1)[p] <= k + 1
                                 /\ c(s(k + 1)[p]) = p
      <4>1. \A u \in M : u <= k => u <= k + 1
        OBVIOUS
      <4>2. ASSUME NEW p \in 1..c(k)
            PROVE  s(k + 1)[p] \in M /\ s(k + 1)[p] <= k + 1 /\ c(s(k + 1)[p]) = p
        BY <3>2, <3>7, <4>1
      <4>3. /\ s(k + 1)[c(k + 1)] \in M /\ s(k + 1)[c(k + 1)] <= k + 1
            /\ c(s(k + 1)[c(k + 1)]) = c(k + 1)
        BY <2>1, <3>2
      <4> QED
        BY <3>6, <4>2, <4>3
    <3> QED
      BY <3>2, <3>5, <3>8
  <2>2. CASE k + 1 \notin M
    <3>1. s(k + 1) = s(k) /\ c(k + 1) = c(k)
      BY <1>1, <2>2
    <3>2. \A t \in M : t <= k + 1 => t <= k
      BY <2>2
    <3>3. \A t \in M : t <= k => t <= k + 1
      OBVIOUS
    <3> QED
      BY <1>3, <3>1, <3>2, <3>3
  <2> QED
    BY <2>1, <2>2
<1> HIDE DEF Agree
<1>4. 0 \in S /\ \A k \in Nat : k \in S => k + 1 \in S
  BY <1>2, <1>3
<1> HIDE DEF S
<1>5. Nat \subseteq S
  BY <1>4, Induction
<1>6. Agree(n)
  BY <1>5 DEF S
<1> QED
  BY <1>6 DEF Agree, s, c

-----------------------------------------------------------------------------
(* Numbered records.                                                       *)

\* A block of consecutive entries is taken in its order.
LEMMA BlockInOrder ==
  ASSUME NEW a \in Nat, NEW n \in Nat, NEW last \in Nat, a + n <= last
  PROVE  /\ Len(InOrder(a + 1 .. a + n, last)) = n
         /\ \A p \in 1 .. n : InOrder(a + 1 .. a + n, last)[p] = a + p
<1> DEFINE M == a + 1 .. a + n
<1>1. M \in SUBSET (Nat \ {0}) /\ \A u \in M : u <= last
  OBVIOUS
<1>2. ASSUME NEW p \in 0 .. n, NEW t \in Nat, t = a + p \/ (p = n /\ t = last)
      PROVE  Passed(M, t) = p
  <2>1. {u \in M : u <= t} = a + 1 .. a + p
    BY <1>2
  <2>2. Cardinality(a + 1 .. a + p) = p
    <3>1. a + 1 \in Int /\ a + p \in Int
      OBVIOUS
    <3>2. Cardinality(a + 1 .. a + p)
            = IF a + 1 > a + p THEN 0 ELSE (a + p) - (a + 1) + 1
      BY <3>1, FS_Interval
    <3> QED
      BY <3>2
  <2> QED
    BY <2>1, <2>2 DEF Passed
<1>3. Passed(M, last) = n /\ \A p \in 1 .. n : a + p \in M /\ Passed(M, a + p) = p
  <2>1. n \in 0 .. n /\ \A p \in 1 .. n : p \in 0 .. n /\ a + p \in Nat /\ a + p \in M
    OBVIOUS
  <2> HIDE DEF M
  <2> QED
    BY <1>2, <2>1
<1> HIDE DEF M
<1>4. M \in SUBSET (Nat \ {0})
  BY <1>1
<1>5. /\ Len(InOrder(M, last)) = Passed(M, last)
      /\ \A t \in M : t <= last => /\ Passed(M, t) \in 1..Passed(M, last)
                                  /\ InOrder(M, last)[Passed(M, t)] = t
  BY <1>4, OrderIsCount
<1>6. ASSUME NEW p \in 1 .. n PROVE InOrder(M, last)[p] = a + p
  BY <1>1, <1>3, <1>5
<1> QED
  BY <1>3, <1>5, <1>6 DEF M

\* k values that differ are a set of k elements.
LEMMA DistinctCount ==
  ASSUME NEW k \in Nat, NEW a, \A i, j \in 1..k : a[i] = a[j] => i = j
  PROVE  Cardinality({a[i] : i \in 1..k}) = k
<1> DEFINE T == 1..k
           U == {a[i] : i \in T}
           f == [i \in T |-> a[i]]
<1>1. \A i, j \in T : a[i] = a[j] => i = j
  OBVIOUS
<1>2. IsFiniteSet(T) /\ Cardinality(T) = k
  BY FS_Interval
<1> HIDE DEF T
<1>3. f \in [T -> U] /\ (\A i, j \in T : f[i] = f[j] => i = j)
      /\ (\A u \in U : \E i \in T : f[i] = u)
  BY <1>1
<1> HIDE DEF f, U
<1>4. f \in Bijection(T, U)
  BY <1>3 DEF Bijection, Injection, Surjection, IsInjective
<1>5. ExistsBijection(T, U)
  BY <1>4, Zenon DEF ExistsBijection
<1>6. Cardinality(U) = Cardinality(T)
  BY <1>2, <1>5, FS_Bijection
<1> QED BY <1>2, <1>6 DEF U, T

\* A set of k records that carry their numbers has k elements.
LEMMA NumberedCount ==
  ASSUME NEW k \in Nat, NEW a, \A i \in 1..k : a[i].item = i
  PROVE  Cardinality({a[i] : i \in 1..k}) = k
<1>1. \A i, j \in 1..k : a[i] = a[j] => i = j
  OBVIOUS
<1> QED
  BY <1>1, DistinctCount

-----------------------------------------------------------------------------
(* Ranks in a finite set of numbers.                                       *)

Below(S, f) == {g \in S : g < f}

\* No two elements have the same rank, and ranks are below the size of the set.
LEMMA RankInjective ==
  ASSUME NEW S \in SUBSET Nat, IsFiniteSet(S), NEW f \in S
  PROVE  /\ Cardinality(Below(S, f)) \in 0..(Cardinality(S) - 1)
         /\ \A g \in S : Cardinality(Below(S, f)) = Cardinality(Below(S, g)) => f = g
<1>1. ASSUME NEW e \in S, NEW U \in SUBSET S, Below(S, e) \subseteq U, e \in U
      PROVE  /\ Cardinality(Below(S, e)) \in Nat /\ Cardinality(U) \in Nat
             /\ Cardinality(Below(S, e)) < Cardinality(U)
  <2>1. IsFiniteSet(U) /\ Cardinality(U) \in Nat
    BY FS_Subset, FS_CardinalityType
  <2>2. Below(S, e) \in SUBSET U /\ Below(S, e) # U
    BY <1>1 DEF Below
  <2>3. /\ Cardinality(Below(S, e)) <= Cardinality(U)
        /\ Cardinality(Below(S, e)) # Cardinality(U)
        /\ IsFiniteSet(Below(S, e))
    BY <2>1, <2>2, FS_Subset
  <2>4. Cardinality(Below(S, e)) \in Nat
    BY <2>3, FS_CardinalityType
  <2> QED BY <2>1, <2>3, <2>4
<1>2. ASSUME NEW e \in S, NEW g \in S, e < g
      PROVE  Cardinality(Below(S, e)) # Cardinality(Below(S, g))
  <2>0. \A h \in Below(S, e) : h \in S /\ h < g
    BY <1>2 DEF Below
  <2>1. Below(S, g) \in SUBSET S /\ Below(S, e) \subseteq Below(S, g) /\ e \in Below(S, g)
    BY <1>2, <2>0 DEF Below
  <2>2. Cardinality(Below(S, e)) < Cardinality(Below(S, g))
        /\ Cardinality(Below(S, e)) \in Nat /\ Cardinality(Below(S, g)) \in Nat
    BY <2>1, <1>1
  <2> QED BY <2>2
<1>3. Cardinality(Below(S, f)) \in 0..(Cardinality(S) - 1)
  <2>1. Below(S, f) \subseteq S
    BY DEF Below
  <2>2. Cardinality(Below(S, f)) \in Nat /\ Cardinality(Below(S, f)) < Cardinality(S)
        /\ Cardinality(S) \in Nat
    BY <1>1, <2>1
  <2> QED BY <2>2
<1>4. ASSUME NEW g \in S, Cardinality(Below(S, f)) = Cardinality(Below(S, g)) PROVE f = g
  <2>1. f < g \/ g < f \/ f = g
    OBVIOUS
  <2> QED BY <1>2, <1>4, <2>1
<1> QED BY <1>3, <1>4

\* The element of each rank exists: the rank is an injection into 0..|S|-1, hence
\* onto it.
LEMMA RankExists ==
  ASSUME NEW S \in SUBSET Nat, IsFiniteSet(S)
  PROVE  \A i \in 1..Cardinality(S) : \E f \in S : Cardinality(Below(S, f)) = i - 1
<1> DEFINE n == Cardinality(S)
           T == 0..(n - 1)
           r == [f \in S |-> Cardinality(Below(S, f))]
<1>1. n \in Nat
  BY FS_CardinalityType
<1>2. r \in Injection(S, T)
  <2>1. \A f \in S : r[f] \in T
    BY RankInjective
  <2>2. \A f, g \in S : r[f] = r[g] => f = g
    BY RankInjective
  <2> HIDE DEF T
  <2>3. r \in [S -> T]
    BY <2>1
  <2> HIDE DEF r
  <2> QED BY <2>2, <2>3 DEF Injection, IsInjective
<1>3. IsFiniteSet(T) /\ Cardinality(T) = n
  <2>1. 0 \in Int /\ n - 1 \in Int /\ (0 > n - 1 <=> n = 0)
    BY <1>1
  <2>2. IsFiniteSet(T) /\ Cardinality(T) = IF 0 > n - 1 THEN 0 ELSE n - 1 - 0 + 1
    BY <2>1, FS_Interval
  <2> QED BY <2>1, <2>2, <1>1
<1>4. r \in Surjection(S, T)
  BY <1>2, <1>3, FS_Injection
<1> SUFFICES ASSUME NEW i \in 1..n PROVE \E f \in S : Cardinality(Below(S, f)) = i - 1
  OBVIOUS
<1>5. i - 1 \in T
  BY <1>1
<1>6. \E f \in S : r[f] = i - 1
  BY <1>4, <1>5 DEF Surjection
<1> QED BY <1>6

-----------------------------------------------------------------------------
(* Division.                                                               *)

\* Quotient and remainder, and that there is only one of each.
LEMMA Division ==
  ASSUME NEW a \in Nat, NEW n \in Nat \ {0}
  PROVE  /\ a \div n \in Nat /\ a % n \in 0..(n - 1)
         /\ a = n * (a \div n) + (a % n)
         /\ \A q \in Nat, r \in 0..(n - 1) : a = n * q + r => q = a \div n /\ r = a % n
<1> DEFINE p == a \div n
           s == a % n
<1>1. p \in Int /\ n * p <= a /\ a < n * p + n
  BY SMT
<1>2. s \in 0..(n - 1) /\ a = n * p + s
  BY SMT
<1> HIDE DEF p, s
<1>3. p >= 0
  <2>1. SUFFICES ASSUME p <= -1 PROVE FALSE
    BY <1>1
  <2>2. n * (p + 1) <= 0
    BY <1>1, <2>1, SMT
  <2> QED BY <1>1, <2>2, SMT
<1>4. ASSUME NEW q \in Nat, NEW r \in 0..(n - 1), a = n * q + r
      PROVE  q = p /\ r = s
  <2>1. ~(q < p)
    <3>1. SUFFICES ASSUME q + 1 <= p PROVE FALSE
      BY <1>1
    <3>2. n * (q + 1) <= n * p
      BY <1>1, <3>1, SMT
    <3>3. n * q + n <= n * p
      BY <3>2, <1>1, SMT
    <3> QED BY <1>1, <1>4, <3>3, SMT
  <2>2. ~(p < q)
    <3>1. SUFFICES ASSUME p + 1 <= q PROVE FALSE
      BY <1>1
    <3>2. n * (p + 1) <= n * q
      BY <1>1, <3>1, SMT
    <3>3. n * p + n <= n * q
      BY <3>2, <1>1, SMT
    <3> QED BY <1>1, <1>4, <3>3, SMT
  <2>3. q = p
    BY <1>1, <2>1, <2>2
  <2> QED BY <1>2, <1>4, <2>3, SMT
<1> QED BY <1>1, <1>2, <1>3, <1>4 DEF p, s

\* Quotient and remainder of the next number.
LEMMA DivisionStep ==
  ASSUME NEW a \in Nat, NEW n \in Nat \ {0}
  PROVE  /\ (a % n) + 1 = n => (a + 1) \div n = (a \div n) + 1 /\ (a + 1) % n = 0
         /\ (a % n) + 1 # n => (a + 1) \div n = a \div n /\ (a + 1) % n = (a % n) + 1
<1> DEFINE p == a \div n
           s == a % n
           b == a + 1
<1>0. p \in Nat /\ s \in 0..(n - 1) /\ a = n * p + s
  BY Division, Zenon
<1>1. p \in Nat /\ s \in 0..(n - 1) /\ a = n * p + s /\ b \in Nat
  BY <1>0
<1>2. \A q \in Nat, r \in 0..(n - 1) : b = n * q + r => q = b \div n /\ r = b % n
  <2> HIDE DEF b
  <2> QED BY <1>1, Division, Zenon
<1> HIDE DEF p, s
<1>3. CASE s + 1 = n
  <2>1. p + 1 \in Nat /\ 0 \in 0..(n - 1) /\ b = n * (p + 1) + 0
    BY <1>1, <1>3, SMT
  <2> HIDE DEF b
  <2>2. p + 1 = b \div n /\ 0 = b % n
    BY <1>2, <2>1
  <2> QED BY <1>3, <2>2 DEF b, p, s
<1>4. CASE s + 1 # n
  <2>1. s + 1 \in 0..(n - 1) /\ b = n * p + (s + 1)
    BY <1>1, <1>4, SMT
  <2> HIDE DEF b
  <2>2. p = b \div n /\ s + 1 = b % n
    BY <1>1, <1>2, <2>1
  <2> QED BY <1>4, <2>2 DEF b, p, s
<1> QED BY <1>3, <1>4 DEF p, s

\* The quotient by n of a number below c n is below c.
LEMMA Quotients ==
  ASSUME NEW a \in Nat, NEW n \in Nat \ {0}, NEW c \in Nat, a < c * n
  PROVE  (a \div n) + 1 \in 1..c
<1> DEFINE q == a \div n
<1>1. q \in Int /\ n * q <= a /\ a < n * q + n
  BY SMT
<1>2. q >= 0
  <2>1. SUFFICES ASSUME q <= -1 PROVE FALSE
    BY <1>1
  <2>2. n * (q + 1) <= 0
    BY <1>1, <2>1, SMT
  <2> QED BY <1>1, <2>2, SMT
<1>3. q < c
  <2>1. SUFFICES ASSUME q >= c PROVE FALSE
    BY <1>1
  <2>2. n * q >= n * c
    BY <1>1, <2>1, SMT
  <2> QED BY <1>1, <2>2, SMT
<1> QED BY <1>1, <1>2, <1>3

\* Where item a + 1 of c rows of n stands: after the quotient's rows, and in the next
\* row, if the quotient does not complete them, at the remainder.
LEMMA GridPoint ==
  ASSUME NEW a \in Nat, NEW n \in Nat \ {0}, NEW c \in Nat
  PROVE  /\ a \div n \in Nat /\ a % n \in 0..(n - 1)
         /\ a < c * n => (a \div n) + 1 <= c
         /\ a = c * n => a \div n = c /\ a % n = 0
         /\ a <= c * n => (a \div n) + (IF a % n = 0 THEN 0 ELSE 1) <= c
<1>1. /\ a \div n \in Nat /\ a % n \in 0..(n - 1)
      /\ \A q \in Nat, r \in 0..(n - 1) : a = n * q + r => q = a \div n /\ r = a % n
  BY Division, Zenon
<1>2. a = c * n => a \div n = c /\ a % n = 0
  <2>1. ASSUME a = c * n PROVE a = n * c + 0 /\ 0 \in 0..(n - 1)
    BY <2>1, SMT
  <2> QED BY <1>1, <2>1
<1>3. a < c * n => (a \div n) + 1 \in 1..c
  BY Quotients
<1> DEFINE q == a \div n
           r == a % n
           m == c * n
<1>4. m \in Nat
  BY SMT
<1>5. q \in Nat /\ (a = m => q = c /\ r = 0) /\ (a < m => q + 1 \in 1..c)
  BY <1>1, <1>2, <1>3
<1> HIDE DEF q, r, m
<1>6. a <= m => q + (IF r = 0 THEN 0 ELSE 1) <= c
  BY <1>4, <1>5
<1>7. a < m => q + 1 <= c
  BY <1>4, <1>5
<1> QED BY <1>1, <1>2, <1>6, <1>7 DEF q, r, m

-----------------------------------------------------------------------------
(* A sequence built one element at a time.                                 *)

\* What appending the next value of an operator's table yields.
LEMMA TableGrows ==
  ASSUME NEW q \in Nat, NEW e
  PROVE  Append([i \in 1..q |-> e[i]], e[q + 1]) = [i \in 1..(q + 1) |-> e[i]]
<1> DEFINE a == [i \in 1..q |-> e[i]]
           x == e[q + 1]
           R == {a[i] : i \in 1..q} \cup {x}
           y == Append(a, x)
<1>1. a \in [1..q -> R] /\ x \in R
  OBVIOUS
<1>2. \A i \in 1..q : a[i] = e[i]
  OBVIOUS
<1> HIDE DEF R, a, x
<1>3. a \in Seq(R) /\ Len(a) = q
  BY <1>1
<1>4. y \in Seq(R) /\ Len(y) = q + 1 /\ (\A i \in 1..q : y[i] = a[i]) /\ y[q + 1] = x
  BY <1>1, <1>3, AppendProperties
<1> HIDE DEF y
<1>5. y = [i \in 1..(q + 1) |-> y[i]]
  BY <1>4
<1>6. ASSUME NEW i \in 1..(q + 1) PROVE y[i] = e[i]
  <2>1. i \in 1..q \/ i = q + 1
    OBVIOUS
  <2> QED BY <1>2, <1>4, <2>1 DEF x
<1>7. y = [i \in 1..(q + 1) |-> e[i]]
  BY <1>5, <1>6
<1> QED BY <1>7 DEF y, a, x

-----------------------------------------------------------------------------
(* A finite set of numbers by rank.                                        *)

\* The elements taken by rank ascend, and all of them are taken.
LEMMA ByRank ==
  ASSUME NEW S \in SUBSET Nat, IsFiniteSet(S), NEW at,
         \A i \in 1..Cardinality(S) :
           at[i] = CHOOSE f \in S : Cardinality(Below(S, f)) = i - 1
  PROVE  /\ \A i \in 1..Cardinality(S) : at[i] \in S
         /\ \A i, j \in 1..Cardinality(S) : i < j => at[i] < at[j]
         /\ \A f \in S : \E i \in 1..Cardinality(S) : at[i] = f
<1> DEFINE n == Cardinality(S)
           r == [f \in S |-> Cardinality(Below(S, f))]
<1>1. n \in Nat
  BY FS_CardinalityType
<1>2. \A i \in 1..n : at[i] \in S /\ r[at[i]] = i - 1
  BY RankExists
<1>3. ASSUME NEW f \in S, NEW g \in S, r[f] < r[g] PROVE f < g
  <2>1. SUFFICES ASSUME ~(f < g) PROVE Cardinality(Below(S, g)) <= Cardinality(Below(S, f))
                                       /\ Cardinality(Below(S, f)) \in Nat
                                       /\ Cardinality(Below(S, g)) \in Nat
    BY <1>3
  <2>2. Below(S, f) \in SUBSET S /\ Below(S, g) \in SUBSET S
    BY DEF Below
  <2>3. IsFiniteSet(Below(S, f)) /\ IsFiniteSet(Below(S, g))
    BY <2>2, FS_Subset
  <2>4. \A h \in Below(S, g) : h \in S /\ h < f
    BY <2>1 DEF Below
  <2>5. Below(S, g) \in SUBSET Below(S, f)
    BY <2>4 DEF Below
  <2> QED BY <2>3, <2>5, FS_Subset, FS_CardinalityType
<1>4. ASSUME NEW f \in S PROVE r[f] \in 0..(n - 1) /\ \A g \in S : r[f] = r[g] => f = g
  BY RankInjective
<1>5. \A f \in S : \E i \in 1..n : at[i] = f
  <2> TAKE f \in S
  <2>1. r[f] + 1 \in 1..n /\ (r[f] + 1) - 1 = r[f]
    BY <1>1, <1>4
  <2>2. at[r[f] + 1] \in S /\ r[at[r[f] + 1]] = r[f]
    BY <1>2, <2>1
  <2> QED BY <1>4, <2>1, <2>2
<1> HIDE DEF n, r
<1>6. \A i, j \in 1..n : i < j => at[i] < at[j]
  <2> TAKE i, j \in 1..n
  <2>1. i < j => i - 1 < j - 1
    BY <1>1
  <2> QED BY <1>2, <1>3, <2>1
<1> QED BY <1>2, <1>5, <1>6 DEF n

-----------------------------------------------------------------------------
(* Sums over some of the entries of a list.                                *)

\* The loop, one entry at a time.
LEMMA SumStep ==
  ASSUME NEW M, NEW v, \A k \in M : v[k] \in Nat
  PROVE  /\ SumUpTo(M, v, 0) = 0
         /\ \A n \in Nat :
              /\ SumUpTo(M, v, n) \in Nat
              /\ SumUpTo(M, v, n + 1) = IF n + 1 \in M THEN SumUpTo(M, v, n) + v[n + 1]
                                        ELSE SumUpTo(M, v, n)
<1> DEFINE G == [n \in Nat |-> [s \in Nat |-> IF n + 1 \in M THEN s + v[n + 1] ELSE s]]
           P(f) == [k \in Nat |-> IF k = 0 THEN 0
                                  ELSE IF k \in M THEN f[k - 1] + v[k] ELSE f[k - 1]]
           p == CHOOSE f : f = P(f)
<1>1. G \in [Nat -> [Nat -> Nat]] /\ 0 \in Nat
  <2> SUFFICES ASSUME NEW n \in Nat, NEW s \in Nat
               PROVE  (IF n + 1 \in M THEN s + v[n + 1] ELSE s) \in Nat
    OBVIOUS
  <2> QED
    OBVIOUS
<1>2. PICK f \in [Nat -> Nat] : RunsOn(f, 0, G)
  <2> HIDE DEF G
  <2> QED
    BY <1>1, Recursion
<1>3. /\ f[0] = 0
      /\ \A n \in Nat : f[n + 1] = IF n + 1 \in M THEN f[n] + v[n + 1] ELSE f[n]
  BY <1>2 DEF RunsOn
<1>4. f = P(f)
  <2>1. ASSUME NEW k \in Nat PROVE f[k] = P(f)[k]
    <3>1. CASE k = 0
      BY <1>3, <3>1
    <3>2. CASE k # 0
      <4>1. k - 1 \in Nat /\ (k - 1) + 1 = k
        BY <3>2
      <4> QED
        BY <1>3, <3>2, <4>1
    <3> QED
      BY <3>1, <3>2
  <2> QED
    BY <1>2, <2>1
<1>5. p = P(p)
  BY <1>4
<1>6. \A n : SumUpTo(M, v, n) = p[n]
  BY DEF SumUpTo
<1> HIDE DEF p
<1>7. p[0] = 0
  BY <1>5
<1>8. ASSUME NEW n \in Nat
      PROVE  p[n + 1] = IF n + 1 \in M THEN p[n] + v[n + 1] ELSE p[n]
  <2>1. n + 1 \in Nat /\ n + 1 # 0 /\ (n + 1) - 1 = n
    OBVIOUS
  <2>2. p[n + 1] = P(p)[n + 1]
    BY <1>5
  <2> QED
    BY <2>1, <2>2
<1>9. \A n \in Nat : p[n] \in Nat
  <2> DEFINE S == {n \in Nat : p[n] \in Nat}
  <2>1. 0 \in S
    BY <1>7
  <2>2. ASSUME NEW n \in Nat, n \in S PROVE n + 1 \in S
    BY <1>8, <2>2
  <2> HIDE DEF S
  <2>3. Nat \subseteq S
    BY <2>1, <2>2, Induction
  <2> QED
    BY <2>3 DEF S
<1> QED
  BY <1>6, <1>7, <1>8, <1>9

\* One entry more adds its value.
LEMMA SumAdd ==
  ASSUME NEW N \in Nat, NEW v, \A k \in 1..N : v[k] \in Nat,
         NEW M \in SUBSET (1..N), NEW e \in (1..N) \ M
  PROVE  SumUpTo(M \cup {e}, v, N) = SumUpTo(M, v, N) + v[e]
<1> DEFINE B == M \cup {e}
           a(k) == SumUpTo(M, v, k)
           b(k) == SumUpTo(B, v, k)
           S == {k \in Nat : b(k) = IF e <= k THEN a(k) + v[e] ELSE a(k)}
<1>1. /\ \A k \in M : v[k] \in Nat
      /\ \A k \in B : v[k] \in Nat
      /\ e \in 1..N /\ e \notin M /\ v[e] \in Nat
  OBVIOUS
<1>2. /\ a(0) = 0
      /\ \A n \in Nat : a(n) \in Nat /\ a(n + 1) = IF n + 1 \in M THEN a(n) + v[n + 1] ELSE a(n)
  BY <1>1, SumStep, Zenon
<1>3. /\ b(0) = 0
      /\ \A n \in Nat : b(n) \in Nat /\ b(n + 1) = IF n + 1 \in B THEN b(n) + v[n + 1] ELSE b(n)
  <2> HIDE DEF B
  <2> QED
    BY <1>1, SumStep, Zenon
<1> HIDE DEF a, b
<1>4. 0 \in S
  BY <1>1, <1>2, <1>3
<1>5. ASSUME NEW n \in Nat, n \in S PROVE n + 1 \in S
  <2>1. n + 1 \in B <=> n + 1 \in M \/ n + 1 = e
    OBVIOUS
  <2>2. n + 1 \in M => v[n + 1] \in Nat
    BY <1>1
  <2>5. /\ a(n) \in Nat /\ b(n) \in Nat
        /\ a(n + 1) = IF n + 1 \in M THEN a(n) + v[n + 1] ELSE a(n)
        /\ b(n + 1) = IF n + 1 \in B THEN b(n) + v[n + 1] ELSE b(n)
    BY <1>2, <1>3
  <2>6. b(n) = IF e <= n THEN a(n) + v[e] ELSE a(n)
    BY <1>5
  <2> HIDE DEF B
  <2>3. CASE n + 1 = e
    BY <1>1, <2>5, <2>6, <2>1, <2>3
  <2>4. CASE n + 1 # e
    BY <1>1, <2>5, <2>6, <2>1, <2>2, <2>4
  <2> QED
    BY <2>3, <2>4
<1> HIDE DEF S
<1>6. N \in S
  BY <1>4, <1>5, Induction
<1> QED
  BY <1>1, <1>6 DEF S, a, b

\* A sum is at least each of its terms, and zero if they all are.
LEMMA SumBounds ==
  ASSUME NEW N \in Nat, NEW v, \A k \in 1..N : v[k] \in Nat,
         NEW M \in SUBSET (1..N)
  PROVE  /\ SumUpTo(M, v, N) \in Nat
         /\ \A e \in M : v[e] <= SumUpTo(M, v, N)
         /\ (\A e \in M : v[e] = 0) => SumUpTo(M, v, N) = 0
<1>1. /\ SumUpTo(M, v, 0) = 0
      /\ \A n \in Nat :
           /\ SumUpTo(M, v, n) \in Nat
           /\ SumUpTo(M, v, n + 1) = IF n + 1 \in M THEN SumUpTo(M, v, n) + v[n + 1]
                                     ELSE SumUpTo(M, v, n)
  <2>1. \A k \in M : v[k] \in Nat
    OBVIOUS
  <2> QED
    BY <2>1, SumStep, Zenon
<1>2. ASSUME NEW e \in M PROVE v[e] <= SumUpTo(M, v, N)
  <2> DEFINE R == M \ {e}
  <2>1. R \in SUBSET (1..N) /\ e \in (1..N) \ R /\ R \cup {e} = M /\ v[e] \in Nat
    OBVIOUS
  <2> HIDE DEF R
  <2>2. SumUpTo(R \cup {e}, v, N) = SumUpTo(R, v, N) + v[e]
    BY <2>1, SumAdd
  <2>3. SumUpTo(R, v, N) \in Nat
    <3>1. \A k \in R : v[k] \in Nat
      BY <2>1
    <3> QED
      BY <3>1, SumStep
  <2> QED
    BY <2>1, <2>2, <2>3
<1>3. ASSUME \A e \in M : v[e] = 0 PROVE SumUpTo(M, v, N) = 0
  <2> DEFINE s(k) == SumUpTo(M, v, k)
             S == {k \in Nat : s(k) = 0}
  <2>1. \A n \in Nat : s(n + 1) = IF n + 1 \in M THEN s(n) + v[n + 1] ELSE s(n)
    BY <1>1
  <2>2. s(0) = 0
    BY <1>1
  <2> HIDE DEF s
  <2>3. \A n \in Nat : n \in S => n + 1 \in S
    BY <1>3, <2>1
  <2>4. 0 \in S
    BY <2>2
  <2> HIDE DEF S
  <2>5. N \in S
    BY <2>3, <2>4, Induction
  <2> QED
    BY <2>5 DEF S, s
<1> QED
  BY <1>1, <1>2, <1>3

\* More entries have no smaller sum.
LEMMA SumMonotone ==
  ASSUME NEW N \in Nat, NEW v, \A k \in 1..N : v[k] \in Nat,
         NEW M \in SUBSET (1..N), NEW T \in SUBSET M
  PROVE  SumUpTo(T, v, N) <= SumUpTo(M, v, N)
<1> DEFINE a(k) == SumUpTo(T, v, k)
           b(k) == SumUpTo(M, v, k)
           S == {k \in Nat : a(k) <= b(k)}
<1>1. (\A k \in M : v[k] \in Nat) /\ (\A k \in T : v[k] \in Nat)
  OBVIOUS
<1>2. /\ a(0) = 0
      /\ \A n \in Nat :
           /\ a(n) \in Nat
           /\ a(n + 1) = IF n + 1 \in T THEN a(n) + v[n + 1] ELSE a(n)
  BY <1>1, SumStep, Zenon
<1>3. /\ b(0) = 0
      /\ \A n \in Nat :
           /\ b(n) \in Nat
           /\ b(n + 1) = IF n + 1 \in M THEN b(n) + v[n + 1] ELSE b(n)
  BY <1>1, SumStep, Zenon
<1> HIDE DEF a, b
<1>4. 0 \in S
  BY <1>2, <1>3
<1>5. ASSUME NEW n \in Nat, n \in S PROVE n + 1 \in S
  <2>1. /\ a(n) \in Nat /\ b(n) \in Nat /\ a(n) <= b(n)
        /\ a(n + 1) = IF n + 1 \in T THEN a(n) + v[n + 1] ELSE a(n)
        /\ b(n + 1) = IF n + 1 \in M THEN b(n) + v[n + 1] ELSE b(n)
        /\ n + 1 \in M => v[n + 1] \in Nat
        /\ n + 1 \in T => n + 1 \in M
    BY <1>1, <1>2, <1>3, <1>5
  <2> QED
    BY <2>1
<1> HIDE DEF S
<1>6. N \in S
  BY <1>4, <1>5, Induction
<1> QED
  BY <1>6 DEF S, a, b

\* Of all the sets with no more entries, one that holds the largest has the largest sum:
\* an entry it lacks can be exchanged for one that it has.
LEMMA LargestSum ==
  ASSUME NEW N \in Nat, NEW v, \A k \in 1..N : v[k] \in Nat,
         NEW M \in SUBSET (1..N), NEW T \in SUBSET (1..N),
         \A m \in M : \A u \in (1..N) \ M : v[u] <= v[m],
         Cardinality(T) <= Cardinality(M)
  PROVE  SumUpTo(T, v, N) <= SumUpTo(M, v, N)
<1> DEFINE U == 1..N
           sum(S) == SumUpTo(S, v, N)
           Fits(S, k) == Cardinality(S) <= Cardinality(M) /\ Cardinality(S \ M) = k
           K == {k \in Nat : \A S \in SUBSET U : Fits(S, k) => sum(S) <= sum(M)}
<1>1. IsFiniteSet(U) /\ \A S \in SUBSET U : IsFiniteSet(S) /\ Cardinality(S) \in Nat
  <2>1. IsFiniteSet(U)
    BY FS_Interval
  <2> HIDE DEF U
  <2>2. \A S \in SUBSET U : IsFiniteSet(S)
    BY <2>1, FS_Subset
  <2> QED
    BY <2>1, <2>2, FS_CardinalityType
<1>2. /\ \A S \in SUBSET U : sum(S) \in Nat
      /\ \A S \in SUBSET M : sum(S) <= sum(M)
      /\ \A S \in SUBSET U : \A e \in U \ S : sum(S \cup {e}) = sum(S) + v[e]
  BY SumBounds, SumMonotone, SumAdd
<1> HIDE DEF sum
<1>3. 0 \in K
  <2> SUFFICES ASSUME NEW S \in SUBSET U, Fits(S, 0) PROVE sum(S) <= sum(M)
    OBVIOUS
  <2>1. S \ M = {}
    <3>1. S \ M \in SUBSET U /\ Cardinality(S \ M) = 0
      OBVIOUS
    <3> QED
      BY <1>1, <3>1, FS_EmptySet
  <2> QED
    BY <1>2, <2>1
<1>4. ASSUME NEW k \in Nat, k \in K PROVE k + 1 \in K
  <2> SUFFICES ASSUME NEW S \in SUBSET U, Fits(S, k + 1) PROVE sum(S) <= sum(M)
    OBVIOUS
  <2>1. PICK s \in S : s \notin M
    <3>1. Cardinality(S \ M) # 0
      OBVIOUS
    <3>2. S \ M # {}
      BY <3>1, FS_EmptySet
    <3> QED
      BY <3>2
  <2> DEFINE R == S \ {s}
  <2>2. /\ R \in SUBSET U /\ s \in U \ R /\ R \cup {s} = S
        /\ Cardinality(R) = Cardinality(S) - 1
    BY <1>1, <2>1, FS_RemoveElement
  <2>3. PICK m \in M : m \notin R
    <3> SUFFICES ASSUME M \subseteq R PROVE FALSE
      OBVIOUS
    <3>1. Cardinality(M) <= Cardinality(R)
      BY <1>1, <2>2, FS_Subset
    <3> QED
      BY <1>1, <2>2, <3>1
  <2> DEFINE Q == R \cup {m}
  <2>4. Q \in SUBSET U /\ m \in U \ R /\ Cardinality(Q) = Cardinality(S)
    <3>1. Cardinality(Q) = Cardinality(R) + 1
      BY <1>1, <2>2, <2>3, FS_AddElement
    <3> QED
      BY <1>1, <2>2, <2>3, <3>1
  <2>5. Cardinality(Q \ M) = k
    <3>1. Q \ M = (S \ M) \ {s}
      BY <2>1, <2>2, <2>3
    <3> DEFINE D == S \ M
    <3>2. IsFiniteSet(D) /\ Cardinality(D) = k + 1 /\ s \in D
      BY <1>1, <2>1
    <3> HIDE DEF D, Q
    <3>3. Cardinality(D \ {s}) = Cardinality(D) - 1
      BY <3>2, FS_RemoveElement
    <3> QED
      BY <3>1, <3>2, <3>3 DEF D
  <2>6. sum(Q) <= sum(M)
    BY <1>4, <2>4, <2>5
  <2>7. sum(S) = sum(R) + v[s] /\ sum(Q) = sum(R) + v[m]
    BY <1>2, <2>2, <2>4
  <2>8. v[s] <= v[m] /\ v[s] \in Nat /\ v[m] \in Nat
    BY <2>1, <2>2, <2>3, <2>4
  <2> QED
    BY <1>2, <2>2, <2>6, <2>7, <2>8
<1> HIDE DEF K
<1>5. Cardinality(T \ M) \in K
  <2>1. Cardinality(T \ M) \in Nat
    BY <1>1
  <2> QED
    BY <1>3, <1>4, <2>1, Induction
<1> QED
  BY <1>5 DEF K, sum
==============================================================================
