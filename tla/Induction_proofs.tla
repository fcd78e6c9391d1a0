-------------------------- MODULE Induction_proofs --------------------------
(***************************************************************************)
(* Induction over the numbers and over finite sets, and the existence of   *)
(* functions defined by recursion, folds over sequences among them: what   *)
(* the theorems about recursive operators rest on.  All of it follows from *)
(* a least number.                                                         *)
(***************************************************************************)
EXTENDS Integers, FiniteSets, Sequences, SequencesExt,
        FiniteSetTheorems, WellFoundedInduction, TLAPS

(* Any numbers at all, one of them is the least.                           *)
LEMMA LeastNatural ==
  ASSUME NEW T \in SUBSET Nat, T # {}
  PROVE  \E n \in T : \A m \in T : n <= m
<1> DEFINE R == OpToRel(<, Nat)
<1>1. IsWellFoundedOn(R, Nat)
  BY NatLessThanWellFounded
<1>2. PICK n \in T : \A m \in T : <<m, n>> \notin R
  <2> HIDE DEF R
  <2> QED
    BY <1>1, WFMin
<1>3. ASSUME NEW m \in T
      PROVE  n <= m
  <2>1. <<m, n>> \in Nat \X Nat /\ <<m, n>> \notin R
    BY <1>2
  <2> QED
    BY <2>1 DEF OpToRel
<1> QED
  BY <1>3

(* Complete induction.                                                     *)
LEMMA Induction ==
  ASSUME NEW P \in SUBSET Nat,
         \A n \in Nat : (0 .. n - 1) \subseteq P => n \in P
  PROVE  P = Nat
<1> SUFFICES ASSUME Nat \ P # {}
             PROVE  FALSE
  OBVIOUS
<1>1. PICK n \in Nat \ P : \A m \in Nat \ P : n <= m
  BY LeastNatural
<1>2. (0 .. n - 1) \subseteq P
  BY <1>1
<1> QED
  BY <1>1, <1>2

WellFoundedRecursion(F, D, A, rank, N) ==
  /\ A # {}
  /\ N \in Nat /\ rank \in [D -> 0 .. N]
  /\ F \in [[D -> A] -> [D -> A]]
  /\ \A g, h \in [D -> A] : \A x \in D :
       (\A y \in D : rank[y] < rank[x] => g[y] = h[y]) => F[g][x] = F[h][x]

(* A recursion whose calls descend in rank defines a function.             *)
LEMMA RecursionExists ==
  ASSUME NEW F, NEW D, NEW A, NEW rank, NEW N, WellFoundedRecursion(F, D, A, rank, N)
  PROVE  \E f \in [D -> A] : F[f] = f
<1> DEFINE Good(n, g) == \A x \in D : rank[x] < n => F[g][x] = g[x]
           P == {n \in Nat : \E g \in [D -> A] : Good(n, g)}
<1> USE DEF WellFoundedRecursion
<1>1. ASSUME NEW n \in Nat, (0 .. n - 1) \subseteq P
      PROVE  n \in P
  <2>1. CASE n = 0
    <3>1. PICK a \in A : TRUE
      OBVIOUS
    <3>2. [x \in D |-> a] \in [D -> A] /\ Good(0, [x \in D |-> a])
      OBVIOUS
    <3> QED
      BY <2>1, <3>2
  <2>2. CASE n # 0
    <3>1. PICK g \in [D -> A] : Good(n - 1, g)
      BY <1>1, <2>2
    <3>2. F[g] \in [D -> A]
      OBVIOUS
    <3>3. Good(n, F[g])
      <4> SUFFICES ASSUME NEW x \in D, rank[x] < n
                   PROVE  F[F[g]][x] = F[g][x]
        OBVIOUS
      <4>1. \A y \in D : rank[y] < rank[x] => rank[y] < n - 1
        OBVIOUS
      <4>2. \A y \in D : rank[y] < rank[x] => F[g][y] = g[y]
        BY <4>1, <3>1
      <4> QED
        BY <4>2, <3>2
    <3> QED
      BY <3>2, <3>3
  <2> QED
    BY <2>1, <2>2
<1>2. P = Nat
  <2> HIDE DEF P
  <2>1. P \in SUBSET Nat
    BY DEF P
  <2> QED
    BY <2>1, <1>1, Induction
<1>3. PICK f \in [D -> A] : Good(N + 1, f)
  <2>1. N + 1 \in P
    <3> HIDE DEF P
    <3> QED
      BY <1>2
  <2> QED
    BY <2>1
<1>4. \A x \in D : F[f][x] = f[x]
  BY <1>3
<1> QED
  BY <1>4

(* Induction over the subsets of a finite set.                             *)
LEMMA SubsetInduction ==
  ASSUME NEW S, IsFiniteSet(S), NEW P \in SUBSET SUBSET S,
         \A T \in SUBSET S : (\A x \in T : T \ {x} \in P) => T \in P
  PROVE  P = SUBSET S
<1> DEFINE sizes == {Cardinality(T) : T \in (SUBSET S) \ P}
<1> SUFFICES ASSUME NEW T \in SUBSET S, T \notin P
             PROVE  FALSE
  OBVIOUS
<1>1. \A U \in SUBSET S : IsFiniteSet(U) /\ Cardinality(U) \in Nat
  BY FS_Subset, FS_CardinalityType
<1>2. sizes \in SUBSET Nat /\ sizes # {}
  BY <1>1
<1>3. PICK n \in sizes : \A m \in sizes : n <= m
  <2> HIDE DEF sizes
  <2> QED
    BY <1>2, LeastNatural
<1>4. PICK U \in SUBSET S : U \notin P /\ n = Cardinality(U)
  BY <1>3
<1>5. ASSUME NEW x \in U
      PROVE  U \ {x} \in P
  <2>1. U \ {x} \in SUBSET S /\ Cardinality(U \ {x}) = n - 1
    BY <1>1, <1>4, FS_RemoveElement
  <2>2. n - 1 \notin sizes
    <3> HIDE DEF sizes
    <3> QED
      BY <1>2, <1>3
  <2> QED
    BY <2>1, <2>2
<1> QED
  BY <1>4, <1>5

(* Induction along an interval.                                            *)
LEMMA IntervalInduction ==
  ASSUME NEW n \in Nat, NEW P \in SUBSET (0 .. n), 0 \in P,
         \A m \in 1 .. n : m - 1 \in P => m \in P
  PROVE  P = 0 .. n
<1> DEFINE Q == {m \in Nat : m <= n => m \in P}
<1>1. ASSUME NEW m \in Nat, (0 .. m - 1) \subseteq Q
      PROVE  m \in Q
  <2>1. CASE m = 0
    BY <2>1
  <2>2. CASE m # 0
    <3>1. m - 1 \in Q
      BY <1>1, <2>2
    <3> QED
      BY <2>2, <3>1
  <2> QED
    BY <2>1, <2>2
<1>2. Q \in SUBSET Nat
  OBVIOUS
<1>3. Q = Nat
  <2> HIDE DEF Q
  <2> QED
    BY <1>1, <1>2, Induction
<1>4. ASSUME NEW m \in 0 .. n
      PROVE  m \in P
  <2>1. m \in Nat /\ m <= n
    OBVIOUS
  <2> QED
    BY <1>3, <2>1
<1> QED
  <2> HIDE DEF Q
  <2> QED
    BY <1>4

(* The same from its end.                                                  *)
LEMMA DownwardInduction ==
  ASSUME NEW n \in Nat, NEW P \in SUBSET (0 .. n),
         \A m \in 0 .. n : m + 1 .. n \subseteq P => m \in P
  PROVE  P = 0 .. n
<1> DEFINE Q == {k \in Nat : k <= n => n - k \in P}
<1>1. ASSUME NEW k \in Nat, (0 .. k - 1) \subseteq Q
      PROVE  k \in Q
  <2> SUFFICES ASSUME k <= n
               PROVE  n - k \in P
    OBVIOUS
  <2>1. ASSUME NEW m \in n - k + 1 .. n
        PROVE  m \in P
    <3>1. n - m \in Q /\ n - m <= n /\ n - (n - m) = m
      BY <1>1
    <3> QED
      BY <3>1
  <2>2. n - k \in 0 .. n /\ n - k + 1 .. n \subseteq P
    BY <2>1
  <2> QED
    BY <2>2
<1>2. Q \in SUBSET Nat
  OBVIOUS
<1>3. Q = Nat
  <2> HIDE DEF Q
  <2> QED
    BY <1>1, <1>2, Induction
<1>4. ASSUME NEW m \in 0 .. n
      PROVE  m \in P
  <2>1. n - m \in Nat /\ n - m <= n /\ n - (n - m) = m
    OBVIOUS
  <2>2. n - (n - m) \in P
    BY <1>3, <2>1
  <2> QED
    BY <2>1, <2>2
<1> QED
  <2> HIDE DEF Q
  <2> QED
    BY <1>4

(* Primitive recursion along an interval: a step and the value before it   *)
(* give the next.                                                          *)
Steps(f, n, A, a, step) ==
  /\ f \in [0 .. n -> A]
  /\ f[0] = a
  /\ \A m \in 1 .. n : f[m] = step[m][f[m - 1]]

(* Such functions exist.                                                   *)
LEMMA StepsExist ==
  ASSUME NEW n \in Nat, NEW A, NEW a \in A, NEW step \in [1 .. n -> [A -> A]]
  PROVE  \E f : Steps(f, n, A, a, step)
<1> DEFINE D == 0 .. n
           rank == [m \in D |-> m]
           Body(f, m) == IF m = 0 THEN a ELSE step[m][f[m - 1]]
           F == [f \in [D -> A] |-> [m \in D |-> Body(f, m)]]
<1>1. F \in [[D -> A] -> [D -> A]]
  <2>1. ASSUME NEW f \in [D -> A], NEW m \in D
        PROVE  Body(f, m) \in A
    <3>1. CASE m = 0
      BY <3>1
    <3>2. CASE m # 0
      <4>1. m \in 1 .. n /\ m - 1 \in D
        BY <3>2
      <4>2. f[m - 1] \in A
        BY <4>1
      <4> QED
        BY <3>2, <4>1, <4>2
    <3> QED
      BY <3>1, <3>2
  <2> HIDE DEF Body, D
  <2> QED
    BY <2>1
<1>2. \A g, h \in [D -> A] : \A m \in D :
        (\A k \in D : rank[k] < rank[m] => g[k] = h[k]) => F[g][m] = F[h][m]
  <2> SUFFICES ASSUME NEW g \in [D -> A], NEW h \in [D -> A], NEW m \in D,
                      \A k \in D : rank[k] < rank[m] => g[k] = h[k]
               PROVE  F[g][m] = F[h][m]
    OBVIOUS
  <2>1. m # 0 => g[m - 1] = h[m - 1]
    OBVIOUS
  <2>2. Body(g, m) = Body(h, m)
    BY <2>1
  <2> QED
    BY <2>2
<1>3. WellFoundedRecursion(F, D, A, rank, n)
  <2>1. A # {} /\ rank \in [D -> 0 .. n]
    OBVIOUS
  <2> HIDE DEF D, rank, F
  <2> QED
    BY <1>1, <1>2, <2>1 DEF WellFoundedRecursion
<1>4. PICK f \in [D -> A] : F[f] = f
  <2> HIDE DEF D, rank, F
  <2> QED
    BY <1>3, RecursionExists
<1>5. \A m \in D : f[m] = Body(f, m)
  BY <1>4
<1>6. f[0] = a
  <2>1. 0 \in D
    OBVIOUS
  <2> QED
    BY <1>5, <2>1
<1>7. \A m \in 1 .. n : f[m] = step[m][f[m - 1]]
  BY <1>5
<1> QED
  BY <1>6, <1>7 DEF Steps
(* A running total: f[m] is amount[1] + ... + amount[m].                   *)
Total(f, n, amount) == f = [m \in 0 .. n |-> IF m = 0 THEN 0 ELSE f[m - 1] + amount[m]]

(* Running totals exist.                                                   *)
LEMMA TotalExists ==
  ASSUME NEW n \in Nat, NEW amount \in [1 .. n -> Nat]
  PROVE  \E f : Total(f, n, amount)
<1> DEFINE step == [m \in 1 .. n |-> [k \in Nat |-> k + amount[m]]]
<1>1. step \in [1 .. n -> [Nat -> Nat]]
  OBVIOUS
<1>2. PICK f : Steps(f, n, Nat, 0, step)
  <2> HIDE DEF step
  <2> QED
    BY <1>1, StepsExist
<1>3. ASSUME NEW m \in 1 .. n
      PROVE  f[m] = f[m - 1] + amount[m]
  <2>1. f[m - 1] \in Nat /\ f[m] = step[m][f[m - 1]]
    <3> HIDE DEF step
    <3> QED
      BY <1>2 DEF Steps
  <2> QED
    BY <2>1
<1>4. Total(f, n, amount)
  <2> HIDE DEF step
  <2>1. f \in [0 .. n -> Nat] /\ f[0] = 0
    BY <1>2 DEF Steps
  <2> QED
    BY <1>3, <2>1 DEF Total
<1> QED
  BY <1>4

(* A running total, unfolded.                                              *)
LEMMA TotalSteps ==
  ASSUME NEW n \in Nat, NEW amount \in [1 .. n -> Nat], NEW f, Total(f, n, amount)
  PROVE  /\ f \in [0 .. n -> Nat]
         /\ f[0] = 0
         /\ \A m \in 1 .. n : f[m] = f[m - 1] + amount[m]
<1>1. f[0] = 0 /\ \A m \in 1 .. n : f[m] = f[m - 1] + amount[m]
  BY DEF Total
<1> DEFINE P == {m \in 0 .. n : f[m] \in Nat}
<1>2. 0 \in P
  BY <1>1
<1>3. \A m \in 1 .. n : m - 1 \in P => m \in P
  BY <1>1
<1>4. P = 0 .. n
  <2>1. P \in SUBSET (0 .. n)
    OBVIOUS
  <2> HIDE DEF P
  <2> QED
    BY <1>2, <1>3, <2>1, IntervalInduction
<1> QED
  BY <1>1, <1>4 DEF Total

(* A total never falls.                                                    *)
LEMMA TotalGrows ==
  ASSUME NEW n \in Nat, NEW f \in [0 .. n -> Int], \A m \in 1 .. n : f[m - 1] <= f[m],
         NEW k \in 0 .. n
  PROVE  \A m \in k .. n : f[k] <= f[m]
<1> DEFINE P == {m \in 0 .. n : k <= m => f[k] <= f[m]}
<1>1. 0 \in P
  OBVIOUS
<1>2. ASSUME NEW m \in 1 .. n, m - 1 \in P
      PROVE  m \in P
  <2>1. f[m] \in Int /\ f[m - 1] \in Int /\ f[k] \in Int /\ f[m - 1] <= f[m]
    OBVIOUS
  <2>2. CASE k <= m - 1
    <3>1. f[k] <= f[m - 1]
      BY <1>2, <2>2
    <3> QED
      BY <2>1, <3>1
  <2>3. CASE ~(k <= m - 1)
    BY <2>1, <2>3
  <2> QED
    BY <2>2, <2>3
<1>3. P = 0 .. n
  <2>1. P \in SUBSET (0 .. n)
    OBVIOUS
  <2> HIDE DEF P
  <2> QED
    BY <1>1, <1>2, <2>1, IntervalInduction
<1>4. ASSUME NEW m \in k .. n
      PROVE  f[k] <= f[m]
  <2>1. m \in 0 .. n /\ k <= m
    OBVIOUS
  <2> QED
    BY <1>3, <2>1
<1> QED
  BY <1>4

(* The largest of the numbers a non-empty part of an interval holds.       *)
LEMMA LastOf ==
  ASSUME NEW n \in Nat, NEW s \in SUBSET (1 .. n), s # {}
  PROVE  Max(s) \in s /\ \A m \in s : m <= Max(s)
<1> DEFINE T == {n - m : m \in s}
<1>1. T \in SUBSET Nat /\ T # {}
  <2>1. ASSUME NEW m \in s
        PROVE  n - m \in Nat
    OBVIOUS
  <2> QED
    BY <2>1
<1>2. PICK t \in T : \A u \in T : t <= u
  <2> HIDE DEF T
  <2> QED
    BY <1>1, LeastNatural
<1>3. PICK k \in s : t = n - k
  BY <1>2
<1>8. \A i \in s : i \in Int
  <2> HIDE DEF T
  <2>1. s \subseteq 1 .. n
    OBVIOUS
  <2> QED
    BY <2>1
<1>4. ASSUME NEW m \in s
      PROVE  m <= k
  <2>1. n - k <= n - m
    BY <1>2, <1>3
  <2>2. m \in Int /\ k \in Int
    BY <1>3, <1>8
  <2> QED
    BY <2>1, <2>2
<1>5. k \in s /\ \A m \in s : k >= m
  BY <1>4
<1>6. Max(s) \in s /\ \A m \in s : Max(s) >= m
  BY <1>5 DEF Max
<1>7. ASSUME NEW m \in s
      PROVE  m <= Max(s)
  <2>1. m \in Int /\ Max(s) \in Int /\ Max(s) >= m
    <3> HIDE DEF T
    <3> QED
      BY <1>6, <1>8
  <2> QED
    BY <2>1
<1> QED
  BY <1>6, <1>7

(* FoldLeft goes through a sequence by its places, the last one first.     *)
Iterates(it, base, step, n) ==
  it = [s \in SUBSET (1 .. n) |-> IF s = {} THEN base ELSE step[Max(s)][it[s \ {Max(s)}]]]

(* Such functions exist.                                                   *)
LEMMA FoldExists ==
  ASSUME NEW A, NEW base \in A, NEW n \in Nat, NEW step \in [1 .. n -> [A -> A]]
  PROVE  \E it \in [SUBSET (1 .. n) -> A] : Iterates(it, base, step, n)
<1> DEFINE D == SUBSET (1 .. n)
           rank == [s \in D |-> Cardinality(s)]
           Body(it, s) == IF s = {} THEN base ELSE step[Max(s)][it[s \ {Max(s)}]]
           F == [it \in [D -> A] |-> [s \in D |-> Body(it, s)]]
<1>1. \A s \in D : s # {} => Max(s) \in s /\ Max(s) \in 1 .. n
  BY LastOf
<1>2. \A s \in D : IsFiniteSet(s) /\ Cardinality(s) \in Nat /\ Cardinality(s) <= Cardinality(1 .. n)
  <2>1. IsFiniteSet(1 .. n)
    BY FS_Interval
  <2> QED
    BY <2>1, FS_Subset, FS_CardinalityType
<1> DEFINE N == Cardinality(1 .. n)
<1>3. rank \in [D -> 0 .. N] /\ N \in Nat /\ A # {}
  <2>1. N \in Nat
    BY FS_Interval, FS_CardinalityType
  <2> HIDE DEF D, N
  <2>2. \A s \in D : Cardinality(s) \in 0 .. N
    BY <1>2, <2>1 DEF N
  <2>3. A # {}
    OBVIOUS
  <2> QED
    BY <2>1, <2>2, <2>3
<1>4. F \in [[D -> A] -> [D -> A]]
  <2>1. ASSUME NEW it \in [D -> A], NEW s \in D
        PROVE  Body(it, s) \in A
    <3>1. CASE s = {}
      BY <3>1
    <3>2. CASE s # {}
      <4>1. it[s \ {Max(s)}] \in A /\ step[Max(s)] \in [A -> A]
        BY <1>1, <3>2
      <4>2. step[Max(s)][it[s \ {Max(s)}]] \in A
        BY <4>1
      <4> QED
        BY <3>2, <4>2
    <3> QED
      BY <3>1, <3>2
  <2> HIDE DEF Body, D
  <2> QED
    BY <2>1
<1>5. \A g, h \in [D -> A] : \A s \in D :
        (\A t \in D : rank[t] < rank[s] => g[t] = h[t]) => F[g][s] = F[h][s]
  <2> SUFFICES ASSUME NEW g \in [D -> A], NEW h \in [D -> A], NEW s \in D,
                      \A t \in D : rank[t] < rank[s] => g[t] = h[t]
               PROVE  F[g][s] = F[h][s]
    <3> HIDE DEF F, rank, D
    <3> QED
      OBVIOUS
  <2>1. Body(g, s) = Body(h, s)
    <3>1. CASE s = {}
      BY <3>1
    <3>2. CASE s # {}
      <4> DEFINE t == s \ {Max(s)}
      <4>1. t \in D /\ rank[t] < rank[s]
        <5>1. t \in D /\ Max(s) \in s
          BY <1>1, <3>2
        <5>2. Cardinality(t) = Cardinality(s) - 1
          <6> HIDE DEF D
          <6> QED
            BY <1>2, <5>1, FS_RemoveElement
        <5> HIDE DEF D, t
        <5>3. rank[t] = Cardinality(t) /\ rank[s] = Cardinality(s)
          BY <5>1
        <5> HIDE DEF rank
        <5> QED
          BY <1>2, <5>1, <5>2, <5>3
      <4>2. g[t] = h[t]
        <5> HIDE DEF rank, D, t
        <5> QED
          BY <4>1
      <4> QED
        BY <4>2, <3>2
    <3> QED
      BY <3>1, <3>2
  <2> HIDE DEF Body, D
  <2> QED
    BY <2>1
<1>7. WellFoundedRecursion(F, D, A, rank, N)
  <2> HIDE DEF D, rank, F, N
  <2> QED
    BY <1>3, <1>4, <1>5 DEF WellFoundedRecursion
<1>8. PICK it \in [D -> A] : F[it] = it
  <2> HIDE DEF D, rank, F, N
  <2> QED
    BY <1>7, RecursionExists
<1> QED
  BY <1>8 DEF Iterates

(* The places up to one are those before it, and that one last.            *)
LEMMA Segments ==
  ASSUME NEW n \in Nat
  PROVE  /\ 1 .. 0 = {} /\ 1 .. 0 \in SUBSET (1 .. n)
         /\ \A k \in 1 .. n : /\ 1 .. k \in SUBSET (1 .. n) /\ 1 .. k # {}
                              /\ Max(1 .. k) = k
                              /\ (1 .. k) \ {k} = 1 .. k - 1
<1>1. ASSUME NEW k \in 1 .. n
      PROVE  /\ 1 .. k \in SUBSET (1 .. n) /\ 1 .. k # {}
             /\ Max(1 .. k) = k
             /\ (1 .. k) \ {k} = 1 .. k - 1
  <2> DEFINE s == 1 .. k
  <2>1. k \in Int /\ 1 <= k /\ k <= n
    OBVIOUS
  <2>2. s \in SUBSET (1 .. n) /\ k \in s /\ \A m \in s : m <= k
    BY <2>1
  <2>3. s \ {k} = 1 .. k - 1
    BY <2>1
  <2>4. Max(s) \in s /\ \A m \in s : m <= Max(s)
    <3> HIDE DEF s
    <3> QED
      BY <2>2, LastOf
  <2>5. Max(s) = k
    <3>1. Max(s) <= k /\ k <= Max(s) /\ Max(s) \in Int
      BY <2>2, <2>4
    <3> HIDE DEF s
    <3> QED
      BY <2>1, <3>1
  <2> QED
    BY <2>2, <2>3, <2>5
<1> QED
  BY <1>1
=============================================================================
