--------------------------- MODULE Utility_proofs ---------------------------
(***************************************************************************)
(* The safety properties of StatefulTimer, DeviceIndex, NumericHelpers and *)
(* StringHelpers, for every value of their constants.                      *)
(***************************************************************************)
EXTENDS DeviceIndex, StatefulTimer, NumericHelpers, StringHelpers,
        Induction_proofs, SequenceTheorems

-----------------------------------------------------------------------------
(***************************************************************************)
(* The sum of a function over a finite set.                                *)
(***************************************************************************)
Some(s) == CHOOSE x \in s : TRUE
Adds(it, f, S) ==
  it = [s \in SUBSET S |-> IF s = {} THEN 0 ELSE f[Some(s)] + it[s \ {Some(s)}]]

(* Such functions exist.                                                   *)
LEMMA SumExists ==
  ASSUME NEW S, IsFiniteSet(S), NEW f, \A x \in S : f[x] \in Int
  PROVE  \E it \in [SUBSET S -> Int] : Adds(it, f, S)
<1> DEFINE D == SUBSET S
           rank == [s \in D |-> Cardinality(s)]
           Body(it, s) == IF s = {} THEN 0 ELSE f[Some(s)] + it[s \ {Some(s)}]
           F == [it \in [D -> Int] |-> [s \in D |-> Body(it, s)]]
<1>1. \A s \in D : s # {} => Some(s) \in s /\ Some(s) \in S
  BY DEF Some
<1>2. \A s \in D : IsFiniteSet(s) /\ Cardinality(s) \in Nat /\ Cardinality(s) <= Cardinality(S)
  BY FS_Subset, FS_CardinalityType
<1>3. rank \in [D -> Nat]
  BY <1>2
<1>4. F \in [[D -> Int] -> [D -> Int]]
  <2>1. ASSUME NEW it \in [D -> Int], NEW s \in D
        PROVE  Body(it, s) \in Int
    BY <1>1
  <2> HIDE DEF Body, D
  <2> QED
    BY <2>1
<1>5. \A s \in D : rank[s] <= Cardinality(S)
  BY <1>2
<1>6. \A g, h \in [D -> Int] : \A s \in D :
        (\A t \in D : rank[t] < rank[s] => g[t] = h[t]) => F[g][s] = F[h][s]
  <2> SUFFICES ASSUME NEW g \in [D -> Int], NEW h \in [D -> Int], NEW s \in D,
                      \A t \in D : rank[t] < rank[s] => g[t] = h[t]
               PROVE  F[g][s] = F[h][s]
    OBVIOUS
  <2>1. CASE s = {}
    BY <2>1
  <2>2. CASE s # {}
    <3> DEFINE t == s \ {Some(s)}
    <3>1. t \in D /\ rank[t] < rank[s]
      BY <1>1, <1>2, <2>2, FS_RemoveElement
    <3>2. g[t] = h[t]
      BY <3>1
    <3> QED
      BY <3>2, <2>2
  <2> QED
    BY <2>1, <2>2
<1>7. Cardinality(S) \in Nat /\ Int # {}
  BY FS_CardinalityType
<1>8. WellFoundedRecursion(F, D, Int, rank, Cardinality(S))
  <2> HIDE DEF D, rank, F
  <2> QED
    BY <1>3, <1>4, <1>5, <1>6, <1>7 DEF WellFoundedRecursion
<1>9. PICK it \in [D -> Int] : F[it] = it
  <2> HIDE DEF D, rank, F
  <2> QED
    BY <1>8, RecursionExists
<1> QED
  BY <1>9 DEF Adds

(* Two that add up the same function agree on what both can.               *)
LEMMA SumAgrees ==
  ASSUME NEW S, NEW R \in SUBSET S, IsFiniteSet(R), NEW f, NEW it, NEW rt,
         Adds(it, f, S), Adds(rt, f, R)
  PROVE  rt[R] = it[R]
<1> DEFINE P == {s \in SUBSET R : rt[s] = it[s]}
<1>1. \A s \in SUBSET R : (\A x \in s : s \ {x} \in P) => s \in P
  <2> SUFFICES ASSUME NEW s \in SUBSET R, \A x \in s : s \ {x} \in P
               PROVE  rt[s] = it[s]
    OBVIOUS
  <2>1. s # {} => Some(s) \in s
    BY DEF Some
  <2> QED
    BY <2>1 DEF Adds
<1>2. P \in SUBSET SUBSET R
  OBVIOUS
<1>3. P = SUBSET R
  <2> HIDE DEF P
  <2> QED
    BY <1>1, <1>2, SubsetInduction
<1>4. R \in P
  BY <1>3
<1> QED
  BY <1>4

(* What SumFunctionOnSet's fold chooses is such a function.                *)
LEMMA SumIs ==
  ASSUME NEW S, IsFiniteSet(S), NEW f, \A x \in S : f[x] \in Int
  PROVE  \E it \in [SUBSET S -> Int] : Adds(it, f, S) /\ SumFunctionOnSet(f, S) = it[S]
<1> DEFINE found == CHOOSE it : Adds(it, f, S)
<1>1. PICK it \in [SUBSET S -> Int] : Adds(it, f, S)
  BY SumExists
<1>2. Adds(found, f, S)
  BY <1>1
<1>3. SumFunctionOnSet(f, S) = found[S]
  BY DEF SumFunctionOnSet, FoldFunctionOnSet, MapThenFoldSet, Adds, Some
<1>4. found[S] = it[S]
  <2> HIDE DEF found
  <2> QED
    BY <1>1, <1>2, SumAgrees
<1> QED
  BY <1>1, <1>3, <1>4

(* A sum, one element taken out.                                           *)
LEMMA SumBasics ==
  ASSUME NEW S, IsFiniteSet(S), NEW f, \A x \in S : f[x] \in Int
  PROVE  /\ SumFunctionOnSet(f, S) \in Int
         /\ S = {} => SumFunctionOnSet(f, S) = 0
         /\ S # {} => SumFunctionOnSet(f, S) = f[Some(S)] + SumFunctionOnSet(f, S \ {Some(S)})
<1>1. PICK it \in [SUBSET S -> Int] : Adds(it, f, S) /\ SumFunctionOnSet(f, S) = it[S]
  BY SumIs
<1>2. SumFunctionOnSet(f, S \ {Some(S)}) = it[S \ {Some(S)}]
  <2>1. IsFiniteSet(S \ {Some(S)})
    BY FS_Subset
  <2>2. PICK rt : /\ Adds(rt, f, S \ {Some(S)})
                  /\ SumFunctionOnSet(f, S \ {Some(S)}) = rt[S \ {Some(S)}]
    BY <2>1, SumIs
  <2> QED
    BY <1>1, <2>1, <2>2, SumAgrees
<1> QED
  BY <1>1, <1>2 DEF Adds

(* Whichever element is taken out.                                         *)
LEMMA SumRemove ==
  ASSUME NEW S, IsFiniteSet(S), NEW f, \A x \in S : f[x] \in Int, NEW z \in S
  PROVE  SumFunctionOnSet(f, S) = f[z] + SumFunctionOnSet(f, S \ {z})
<1> DEFINE Sums(s) == SumFunctionOnSet(f, s)
           P == {s \in SUBSET S : \A x \in s : Sums(s) = f[x] + Sums(s \ {x})}
<1>1. ASSUME NEW s \in SUBSET S
      PROVE  /\ IsFiniteSet(s) /\ Sums(s) \in Int
             /\ s # {} => Some(s) \in s /\ Sums(s) = f[Some(s)] + Sums(s \ {Some(s)})
  BY FS_Subset, SumBasics DEF Some
<1>2. ASSUME NEW s \in SUBSET S, \A x \in s : s \ {x} \in P
      PROVE  s \in P
  <2> SUFFICES ASSUME NEW x \in s
               PROVE  Sums(s) = f[x] + Sums(s \ {x})
    OBVIOUS
  <2> DEFINE c == Some(s)
  <2>1. c \in s /\ Sums(s) = f[c] + Sums(s \ {c})
    BY <1>1
  <2>2. CASE x = c
    BY <2>1, <2>2
  <2>3. CASE x # c
    <3> HIDE DEF c
    <3>1. Sums(s \ {c}) = f[x] + Sums((s \ {c}) \ {x})
      BY <1>2, <2>1, <2>3
    <3>2. Sums(s \ {x}) = f[c] + Sums((s \ {x}) \ {c})
      BY <1>2, <2>1, <2>3
    <3>3. (s \ {x}) \ {c} = (s \ {c}) \ {x}
      OBVIOUS
    <3>4. /\ Sums((s \ {c}) \ {x}) \in Int /\ Sums(s \ {x}) \in Int
          /\ Sums(s \ {c}) \in Int /\ f[c] \in Int /\ f[x] \in Int
      BY <1>1, <2>1
    <3>5. Sums((s \ {x}) \ {c}) = Sums((s \ {c}) \ {x})
      BY <3>3
    <3> HIDE DEF Sums
    <3> QED
      BY <2>1, <3>1, <3>2, <3>5, <3>4
  <2> QED
    BY <2>2, <2>3
<1>3. P = SUBSET S
  <2>1. P \in SUBSET SUBSET S
    OBVIOUS
  <2> HIDE DEF P
  <2> QED
    BY <1>2, <2>1, SubsetInduction
<1>4. S \in P
  BY <1>3
<1> QED
  BY <1>4

-----------------------------------------------------------------------------
(***************************************************************************)
(* StatefulTimer.                                                          *)
(***************************************************************************)
(* The sum is that of the values.                                          *)
LEMMA SumAgree ==
  ASSUME NEW S, IsFiniteSet(S), NEW f, NEW g, \A x \in S : f[x] \in Int /\ g[x] = f[x]
  PROVE  SumFunctionOnSet(f, S) = SumFunctionOnSet(g, S)
<1> DEFINE P == {s \in SUBSET S : SumFunctionOnSet(f, s) = SumFunctionOnSet(g, s)}
<1>1. \A s \in SUBSET S : (\A x \in s : s \ {x} \in P) => s \in P
  <2> SUFFICES ASSUME NEW s \in SUBSET S, \A x \in s : s \ {x} \in P
               PROVE  SumFunctionOnSet(f, s) = SumFunctionOnSet(g, s)
    OBVIOUS
  <2>1. IsFiniteSet(s) /\ \A x \in s : f[x] \in Int /\ g[x] \in Int /\ g[x] = f[x]
    BY FS_Subset
  <2>2. CASE s = {}
    BY <2>1, <2>2, SumBasics
  <2>3. CASE s # {}
    <3>1. PICK x \in s : TRUE
      BY <2>3
    <3>2. SumFunctionOnSet(f, s) = f[x] + SumFunctionOnSet(f, s \ {x})
      BY <2>1, SumRemove
    <3>3. SumFunctionOnSet(g, s) = g[x] + SumFunctionOnSet(g, s \ {x})
      BY <2>1, SumRemove
    <3> QED
      BY <2>1, <3>2, <3>3
  <2> QED
    BY <2>2, <2>3
<1>2. P \in SUBSET SUBSET S
  OBVIOUS
<1>3. P = SUBSET S
  <2> HIDE DEF P
  <2> QED
    BY <1>1, <1>2, SubsetInduction
<1>4. S \in P
  BY <1>3
<1> QED
  BY <1>4

(* One value changed, the sum changes by as much.                          *)
LEMMA SumUpdate ==
  ASSUME NEW S, IsFiniteSet(S), NEW f \in [S -> Int], NEW x \in S, NEW v \in Int
  PROVE  SumFunction([f EXCEPT ![x] = v]) = SumFunction(f) + v - f[x]
<1> DEFINE g == [f EXCEPT ![x] = v]
<1>1. g \in [S -> Int] /\ g[x] = v /\ \A y \in S \ {x} : g[y] = f[y]
  OBVIOUS
<1> HIDE DEF g
<1>2. IsFiniteSet(S \ {x}) /\ (\A y \in S : g[y] \in Int /\ f[y] \in Int)
  BY <1>1, FS_Subset
<1>3. SumFunctionOnSet(f, S) = f[x] + SumFunctionOnSet(f, S \ {x})
  BY <1>2, SumRemove
<1>4. SumFunctionOnSet(g, S) = g[x] + SumFunctionOnSet(g, S \ {x})
  BY <1>2, SumRemove
<1>5. SumFunctionOnSet(f, S \ {x}) = SumFunctionOnSet(g, S \ {x})
  BY <1>1, <1>2, SumAgree
<1>6. SumFunctionOnSet(f, S \ {x}) \in Int
  BY <1>2, SumBasics
<1>7. SumFunction(f) = SumFunctionOnSet(f, S) /\ SumFunction(g) = SumFunctionOnSet(g, S)
  BY <1>1 DEF SumFunction
<1>8. SumFunction(g) = SumFunction(f) + v - f[x]
  BY <1>1, <1>2, <1>3, <1>4, <1>5, <1>6, <1>7
<1> QED
  BY <1>8 DEF g

(* The magnitude of the negative values of a function.                     *)
Losses(f) == [x \in DOMAIN f |-> IF f[x] < 0 THEN -f[x] ELSE 0]

(* The positive values alone add up to the sum and what is lost below zero.*)
LEMMA SumPositive ==
  ASSUME NEW S, IsFiniteSet(S), NEW f \in [S -> Int]
  PROVE  SumFunctionOnSet(f, {x \in S : f[x] > 0}) = SumFunction(f) + SumFunction(Losses(f))
<1> DEFINE Pos(s) == {x \in s : f[x] > 0}
           Sums(s) == SumFunctionOnSet(f, s)
           Loss(s) == SumFunctionOnSet(Losses(f), s)
           P == {s \in SUBSET S : Sums(Pos(s)) = Sums(s) + Loss(s)}
<1>0. Losses(f) \in [S -> Int] /\ \A x \in S : Losses(f)[x] = IF f[x] < 0 THEN -f[x] ELSE 0
  BY DEF Losses
<1>1. \A s \in SUBSET S : (\A x \in s : s \ {x} \in P) => s \in P
  <2> SUFFICES ASSUME NEW s \in SUBSET S, \A x \in s : s \ {x} \in P
               PROVE  Sums(Pos(s)) = Sums(s) + Loss(s)
    OBVIOUS
  <2>1. IsFiniteSet(s) /\ IsFiniteSet(Pos(s)) /\ Pos(s) \subseteq s
    BY FS_Subset
  <2>2. CASE s = {}
    <3>1. Pos(s) = {}
      BY <2>2
    <3>2. Sums({}) = 0 /\ Loss({}) = 0
      BY FS_EmptySet, SumBasics
    <3> QED
      BY <2>2, <3>1, <3>2
  <2>3. CASE s # {}
    <3>1. PICK x \in s : TRUE
      BY <2>3
    <3> DEFINE r == s \ {x}
    <3>2. Sums(Pos(r)) = Sums(r) + Loss(r)
      OBVIOUS
    <3>3. Sums(s) = f[x] + Sums(r)
      BY <2>1, SumRemove
    <3>4. Loss(s) = Losses(f)[x] + Loss(r)
      BY <1>0, <2>1, SumRemove
    <3>5. Sums(Pos(s)) = (IF f[x] > 0 THEN f[x] ELSE 0) + Sums(Pos(r))
      <4>1. CASE f[x] > 0
        <5>1. Pos(r) = Pos(s) \ {x} /\ x \in Pos(s)
          BY <4>1
        <5>2. Sums(Pos(s)) = f[x] + Sums(Pos(s) \ {x})
          BY <2>1, <5>1, SumRemove
        <5> QED
          BY <4>1, <5>1, <5>2
      <4>2. CASE ~(f[x] > 0)
        <5>1. Pos(r) = Pos(s)
          BY <4>2
        <5>2. Sums(Pos(s)) \in Int
          BY <2>1, SumBasics
        <5> HIDE DEF Sums, Pos, r
        <5> QED
          BY <4>2, <5>1, <5>2
      <4> QED
        BY <4>1, <4>2
    <3>6. Sums(r) \in Int /\ Loss(r) \in Int
      <4>1. IsFiniteSet(r)
        BY <2>1, FS_Subset
      <4> QED
        BY <1>0, <4>1, SumBasics
    <3>7. f[x] \in Int /\ Losses(f)[x] = IF f[x] < 0 THEN -f[x] ELSE 0
      BY <1>0
    <3> HIDE DEF Sums, Loss, Pos, r
    <3> QED
      BY <3>2, <3>3, <3>4, <3>5, <3>6, <3>7
  <2> QED
    BY <2>2, <2>3
<1>2. P \in SUBSET SUBSET S
  OBVIOUS
<1>3. P = SUBSET S
  <2> HIDE DEF P
  <2> QED
    BY <1>1, <1>2, SubsetInduction
<1>4. S \in P
  BY <1>3
<1>5. DOMAIN f = S /\ DOMAIN Losses(f) = S
  BY <1>0
<1> QED
  BY <1>4, <1>5 DEF SumFunction

(* Zeros add up to zero.                                                   *)
LEMMA SumZero ==
  ASSUME NEW S, IsFiniteSet(S)
  PROVE  SumFunction([x \in S |-> 0]) = 0
<1> DEFINE zero == [x \in S |-> 0]
           P == {s \in SUBSET S : SumFunctionOnSet(zero, s) = 0}
<1>1. \A s \in SUBSET S : (\A x \in s : s \ {x} \in P) => s \in P
  <2> SUFFICES ASSUME NEW s \in SUBSET S, \A x \in s : s \ {x} \in P
               PROVE  SumFunctionOnSet(zero, s) = 0
    OBVIOUS
  <2>1. IsFiniteSet(s) /\ \A x \in s : zero[x] \in Int /\ zero[x] = 0
    BY FS_Subset
  <2> HIDE DEF zero
  <2>2. CASE s = {}
    BY <2>1, <2>2, SumBasics
  <2>3. CASE s # {}
    <3>1. PICK x \in s : TRUE
      BY <2>3
    <3>2. SumFunctionOnSet(zero, s) = zero[x] + SumFunctionOnSet(zero, s \ {x})
      BY <2>1, SumRemove
    <3> QED
      BY <2>1, <3>2
  <2> QED
    BY <2>2, <2>3
<1>2. P \in SUBSET SUBSET S
  OBVIOUS
<1>3. P = SUBSET S
  <2> HIDE DEF P
  <2> QED
    BY <1>1, <1>2, SubsetInduction
<1>4. S \in P
  BY <1>3
<1> QED
  BY <1>4 DEF SumFunction

(* How far the readings exceed the time they are about; how far they were  *)
(* charged backwards; and how far the next check will be.                  *)
Surplus == printed + SumFunction(timeByState) - (last - born)
Lost == SumFunction(Losses(timeByState))
Behind == IF last > now THEN last - now ELSE 0

TimerTypeOK == /\ now \in Int /\ last \in Int /\ born \in Int
               /\ printed \in Int /\ back \in Nat
               /\ enabled \in BOOLEAN /\ exists \in BOOLEAN
               /\ prefix \in PrefixNames \cup {<<>>}
               /\ timeByState \in [Names -> Int]
Unmade == ~exists => last = 0 /\ born = 0 /\ printed = 0 /\ timeByState = NoTimes
Accounted == 0 <= Surplus /\ Surplus + Lost + Behind <= back
TimerInv == TimerTypeOK /\ Unmade /\ Accounted

(* Prefixes and states make finitely many names.                           *)
LEMMA NamesFinite == IsFiniteSet(Names)
<1> DEFINE Starts == PrefixNames \cup {<<>>}
           name == [pair \in Starts \X States |-> pair[1] \o pair[2]]
<1>1. IsFiniteSet(Starts \X States)
  <2>1. IsFiniteSet(Starts)
    BY TimerAssumption, FS_AddElement
  <2> QED
    BY <2>1, TimerAssumption, FS_Product
<1>2. \A p \in Starts, state \in States : p \o state = name[<<p, state>>]
  OBVIOUS
<1>3. Names = {name[pair] : pair \in Starts \X States}
  <2>1. ASSUME NEW n \in Names
        PROVE  \E pair \in Starts \X States : n = name[pair]
    <3>1. PICK p \in Starts, state \in States : n = p \o state
      BY DEF Names
    <3> HIDE DEF name
    <3> QED
      BY <1>2, <3>1
  <2>2. ASSUME NEW pair \in Starts \X States
        PROVE  name[pair] \in Names
    BY DEF Names
  <2> HIDE DEF name, Starts
  <2> QED
    BY <2>1, <2>2
<1>4. name \in Surjection(Starts \X States, Names)
  <2>1. name \in [Starts \X States -> Names]
    <3>1. DOMAIN name = Starts \X States /\ \A pair \in DOMAIN name : name[pair] \in Names
      <4>1. DOMAIN name = Starts \X States
        OBVIOUS
      <4> HIDE DEF name, Starts
      <4> QED
        BY <1>3, <4>1
    <3>2. name = [pair \in DOMAIN name |-> name[pair]]
      OBVIOUS
    <3> HIDE DEF name, Starts
    <3> QED
      BY <3>1, <3>2
  <2> HIDE DEF name, Starts
  <2> QED
    BY <1>3, <2>1 DEF Surjection
<1> QED
  <2> HIDE DEF name, Starts
  <2> QED
    BY <1>1, <1>4, FS_Surjection

(* The times by name add up to a number.                                   *)
LEMMA TimesSum ==
  ASSUME NEW f \in [Names -> Int]
  PROVE  /\ SumFunction(f) \in Int
         /\ Losses(f) \in [Names -> Nat] /\ SumFunction(Losses(f)) \in Nat
<1>1. IsFiniteSet(Names) /\ DOMAIN f = Names
  BY NamesFinite
<1>2. SumFunction(f) \in Int
  BY <1>1, SumBasics DEF SumFunction
<1>3. Losses(f) \in [Names -> Nat]
  BY <1>1 DEF Losses
<1> DEFINE g == Losses(f)
           P == {s \in SUBSET Names : SumFunctionOnSet(g, s) \in Nat}
<1> HIDE DEF g
<1>4. \A s \in SUBSET Names : (\A x \in s : s \ {x} \in P) => s \in P
  <2> SUFFICES ASSUME NEW s \in SUBSET Names, \A x \in s : s \ {x} \in P
               PROVE  SumFunctionOnSet(g, s) \in Nat
    OBVIOUS
  <2>1. IsFiniteSet(s) /\ \A x \in s : g[x] \in Nat /\ g[x] \in Int
    BY <1>1, <1>3, FS_Subset DEF g
  <2>2. CASE s = {}
    <3>1. SumFunctionOnSet(g, s) = 0
      BY <2>1, <2>2, SumBasics
    <3> QED
      BY <3>1
  <2>3. CASE s # {}
    <3>1. PICK x \in s : TRUE
      BY <2>3
    <3>2. SumFunctionOnSet(g, s) = g[x] + SumFunctionOnSet(g, s \ {x})
      BY <2>1, SumRemove
    <3>3. SumFunctionOnSet(g, s \ {x}) \in Nat /\ g[x] \in Nat
      BY <2>1
    <3> QED
      BY <3>2, <3>3
  <2> QED
    BY <2>2, <2>3
<1>5. P \in SUBSET SUBSET Names
  OBVIOUS
<1>6. P = SUBSET Names
  <2> HIDE DEF P
  <2> QED
    BY <1>1, <1>4, <1>5, SubsetInduction
<1>7. SumFunctionOnSet(g, Names) \in Nat
  BY <1>6
<1>8. DOMAIN Losses(f) = Names
  BY <1>3
<1> QED
  BY <1>2, <1>3, <1>7, <1>8 DEF g, SumFunction

(* No times add up to none.                                                *)
LEMMA NoTimesSum ==
  /\ NoTimes \in [Names -> Int]
  /\ SumFunction(NoTimes) = 0 /\ SumFunction(Losses(NoTimes)) = 0
<1>1. Losses(NoTimes) = NoTimes
  BY DEF Losses, NoTimes
<1> QED
  BY <1>1, NamesFinite, SumZero DEF NoTimes

(* What timeCheck charges: the sum grows by it, what is below zero by no   *)
(* more than what is charged backwards.                                    *)
LEMMA ChargeSum ==
  ASSUME NEW f \in [Names -> Int], NEW name \in Names, NEW d \in Int
  PROVE  LET g == [f EXCEPT ![name] = @ + d]
         IN  /\ g \in [Names -> Int]
             /\ SumFunction(g) = SumFunction(f) + d
             /\ SumFunction(Losses(g)) <= SumFunction(Losses(f)) + (IF d < 0 THEN -d ELSE 0)
<1> DEFINE v == f[name] + d
           g == [f EXCEPT ![name] = v]
           w == IF v < 0 THEN -v ELSE 0
<1>1. v \in Int /\ w \in Int /\ f[name] \in Int
  OBVIOUS
<1>2. SumFunction(f) \in Int /\ SumFunction(Losses(f)) \in Nat /\ Losses(f) \in [Names -> Int]
  BY TimesSum
<1>3. SumFunction(g) = SumFunction(f) + v - f[name]
  <2> HIDE DEF v
  <2> QED
    BY <1>1, NamesFinite, SumUpdate
<1>4. Losses(g) = [Losses(f) EXCEPT ![name] = w]
  BY DEF Losses
<1>5. SumFunction([Losses(f) EXCEPT ![name] = w]) = SumFunction(Losses(f)) + w - Losses(f)[name]
  <2> HIDE DEF w
  <2> QED
    BY <1>1, <1>2, NamesFinite, SumUpdate
<1>6. Losses(f)[name] = IF f[name] < 0 THEN -f[name] ELSE 0
  BY DEF Losses
<1>7. SumFunction(g) = SumFunction(f) + d
  <2> HIDE DEF g
  <2> QED
    BY <1>1, <1>2, <1>3
<1>8. SumFunction(Losses(g)) <= SumFunction(Losses(f)) + (IF d < 0 THEN -d ELSE 0)
  <2> HIDE DEF g
  <2> QED
    BY <1>1, <1>2, <1>4, <1>5, <1>6
<1> QED
  BY <1>7, <1>8

(* What one call makes of the object before it does anything else.         *)
LEMMA InstanceAccounted ==
  ASSUME TimerInv, Instance
  PROVE  /\ exists' = TRUE /\ born' \in Int /\ LastCheck \in Int
         /\ 0 <= printed + SumFunction(timeByState) - (LastCheck - born')
         /\ printed + SumFunction(timeByState) - (LastCheck - born') + Lost
              + (IF LastCheck > now THEN LastCheck - now ELSE 0) <= back
<1> USE DEF TimerInv, TimerTypeOK
<1>1. SumFunction(timeByState) \in Int /\ Lost \in Nat
  BY TimesSum DEF Lost
<1>2. CASE exists
  BY <1>1, <1>2 DEF Instance, LastCheck, Accounted, Surplus, Behind
<1>3. CASE ~exists
  <2>1. SumFunction(timeByState) = 0 /\ Lost = 0 /\ printed = 0
    BY <1>3, NoTimesSum DEF Unmade, Lost
  <2> QED
    BY <1>3, <2>1 DEF Instance, LastCheck
<1> QED
  BY <1>2, <1>3

(* Nothing is measured yet.                                                *)
LEMMA TimerInitInv ==
  ASSUME TimerInit
  PROVE  TimerInv
<1>1. SumFunction(timeByState) = 0 /\ Lost = 0 /\ timeByState \in [Names -> Int]
  BY NoTimesSum DEF TimerInit, Lost
<1>2. Surplus = 0 /\ Behind = 0
  BY <1>1 DEF TimerInit, Surplus, Behind
<1>3. TimerTypeOK
  <2>1. /\ now = 0 /\ last = 0 /\ born = 0 /\ printed = 0 /\ back = 0
        /\ prefix = <<>> /\ enabled \in BOOLEAN /\ exists \in BOOLEAN
    BY DEF TimerInit
  <2> QED
    BY <1>1, <2>1 DEF TimerTypeOK
<1>4. Accounted
  BY <1>1, <1>2 DEF TimerInit, Accounted
<1> QED
  BY <1>3, <1>4 DEF TimerInv, TimerInit, Unmade

(* The clock may be set back, and every step of the timer charges the time *)
(* since the last check to a name or prints what is charged.               *)
LEMMA TimerNextInv ==
  ASSUME TimerInv, [TimerNext]_timerVars
  PROVE  TimerInv'
<1>0. /\ TimerTypeOK /\ Unmade /\ Accounted
      /\ SumFunction(timeByState) \in Int /\ Lost \in Nat
  BY TimesSum DEF TimerInv, TimerTypeOK, Lost
<1>a. /\ now \in Int /\ last \in Int /\ born \in Int /\ printed \in Int /\ back \in Nat
  BY <1>0 DEF TimerTypeOK
<1>1. CASE Tick
  <2>1. UNCHANGED <<printed, timeByState, last, born, enabled, exists, prefix>>
    BY <1>1 DEF Tick
  <2>2. Surplus' = Surplus /\ Lost' = Lost
    BY <2>1 DEF Surplus, Lost
  <2>3. now' \in Int /\ back' \in Nat
    BY <1>1, <1>a DEF Tick
  <2>4. Surplus \in Int /\ Behind \in Int /\ Behind' \in Int
    BY <1>0, <1>a, <2>1, <2>3 DEF Surplus, Behind
  <2>5. Accounted'
    <3> DEFINE behind == Behind'
               allowed == back'
    <3>1. behind \in Int /\ allowed \in Nat /\ behind - Behind <= allowed - back
      <4> DEFINE time == now'
      <4>1. behind = IF last > time THEN last - time ELSE 0
        BY <2>1 DEF Behind
      <4>2. /\ time \in Int /\ allowed \in Nat
            /\ \/ time = now + 1 /\ allowed = back
               \/ time = now - 1 /\ allowed = back + 1
        BY <1>1, <2>3 DEF Tick
      <4> HIDE DEF time, behind, allowed
      <4> QED
        BY <1>a, <4>1, <4>2 DEF Behind
    <3> HIDE DEF behind, allowed
    <3>2. 0 <= Surplus /\ Surplus + Lost + behind <= allowed
      BY <1>0, <1>a, <2>4, <3>1 DEF Accounted
    <3> QED
      BY <2>2, <3>2 DEF Accounted, behind, allowed
  <2> QED
    BY <1>0, <2>1, <2>3, <2>5 DEF TimerInv, TimerTypeOK, Unmade
<1>2. ASSUME NEW on \in BOOLEAN, SetEnabled(on)
      PROVE  TimerInv'
  <2>1. UNCHANGED <<now, exists, prefix, last, timeByState, born, back, printed>>
        /\ enabled' \in BOOLEAN
    BY <1>2 DEF SetEnabled
  <2>2. Accounted' = Accounted
    BY <2>1 DEF Accounted, Surplus, Lost, Behind
  <2> QED
    BY <1>0, <2>1, <2>2 DEF TimerInv, TimerTypeOK, Unmade
<1>3. ASSUME NEW p \in PrefixNames, SetPrefix(p)
      PROVE  TimerInv'
  <2>1. /\ Instance /\ last' = LastCheck /\ UNCHANGED <<now, enabled, timeByState, back, printed>>
        /\ prefix' \in PrefixNames \cup {<<>>}
    BY <1>0, <1>3 DEF SetPrefix, TimerTypeOK
  <2>2. Accounted'
    BY <1>0, <1>a, <2>1, InstanceAccounted DEF Accounted, Surplus, Lost, Behind
  <2>3. exists' = TRUE /\ born' \in Int /\ last' \in Int
    BY <2>1, InstanceAccounted
  <2> QED
    BY <1>0, <2>1, <2>2, <2>3 DEF TimerInv, TimerTypeOK, Unmade
<1>4. ASSUME NEW state \in States, TimeCheck(state)
      PROVE  TimerInv'
  <2> DEFINE d == now - LastCheck
  <2>1. Instance /\ UNCHANGED <<now, enabled, prefix, back, printed>>
    BY <1>4 DEF TimeCheck
  <2>2. last' = now /\ timeByState' = [timeByState EXCEPT ![prefix \o state] = @ + now - LastCheck]
    BY <1>4 DEF TimeCheck, Charge
  <2>3. prefix \o state \in Names
    <3>1. prefix \in PrefixNames \cup {<<>>}
      BY <1>0 DEF TimerTypeOK
    <3> QED
      BY <3>1 DEF Names
  <2>4. /\ exists' = TRUE /\ born' \in Int /\ LastCheck \in Int /\ d \in Int
        /\ 0 <= printed + SumFunction(timeByState) - (LastCheck - born')
        /\ printed + SumFunction(timeByState) - (LastCheck - born') + Lost
             + (IF LastCheck > now THEN LastCheck - now ELSE 0) <= back
    BY <1>a, <2>1, InstanceAccounted
  <2>5. /\ timeByState' \in [Names -> Int]
        /\ SumFunction(timeByState') = SumFunction(timeByState) + d
        /\ Lost' <= Lost + (IF d < 0 THEN -d ELSE 0)
    <3>1. timeByState \in [Names -> Int]
      BY <1>0 DEF TimerTypeOK
    <3>2. timeByState' = [timeByState EXCEPT ![prefix \o state] = @ + d]
      BY <1>a, <2>2, <2>3, <2>4, <3>1
    <3> HIDE DEF d
    <3> QED
      BY <2>3, <2>4, <3>1, <3>2, ChargeSum DEF Lost
  <2>6. Lost' \in Nat
    BY <2>5, TimesSum DEF Lost
  <2>7. Accounted'
    <3>1. /\ Surplus' = printed + SumFunction(timeByState) - (LastCheck - born')
          /\ Behind' = 0
      BY <1>0, <1>a, <2>1, <2>2, <2>4, <2>5 DEF Surplus, Behind
    <3> QED
      BY <1>0, <1>a, <2>1, <2>4, <2>5, <2>6, <3>1 DEF Accounted
  <2> QED
    BY <1>0, <1>a, <2>1, <2>2, <2>4, <2>5, <2>7 DEF TimerInv, TimerTypeOK, Unmade
<1>5. ASSUME NEW force \in BOOLEAN, Dump(force)
      PROVE  TimerInv'
  <2>1. Instance /\ last' = LastCheck /\ UNCHANGED <<now, enabled, prefix, back>>
    BY <1>5 DEF Dump
  <2>2. /\ exists' = TRUE /\ born' \in Int /\ LastCheck \in Int
        /\ 0 <= printed + SumFunction(timeByState) - (LastCheck - born')
        /\ printed + SumFunction(timeByState) - (LastCheck - born') + Lost
             + (IF LastCheck > now THEN LastCheck - now ELSE 0) <= back
    BY <2>1, InstanceAccounted
  <2>3. CASE UNCHANGED <<printed, timeByState>>
    <3>1. Accounted'
      BY <1>0, <1>a, <2>1, <2>2, <2>3 DEF Accounted, Surplus, Lost, Behind
    <3> QED
      BY <1>0, <2>1, <2>2, <2>3, <3>1 DEF TimerInv, TimerTypeOK, Unmade
  <2>4. CASE PrintTimes
    <3>1. /\ printed' = printed + SumFunction(timeByState) + Lost
          /\ timeByState' = NoTimes
      <4>1. SumFunctionOnSet(timeByState, {name \in Names : timeByState[name] > 0})
            = SumFunction(timeByState) + Lost
        BY <1>0, NamesFinite, SumPositive DEF Lost, TimerTypeOK
      <4> QED
        BY <1>0, <1>a, <2>4, <4>1 DEF PrintTimes
    <3>2. timeByState' \in [Names -> Int] /\ SumFunction(timeByState') = 0 /\ Lost' = 0
      BY <3>1, NoTimesSum DEF Lost
    <3>3. Surplus' = printed + SumFunction(timeByState) - (LastCheck - born') + Lost
      BY <1>0, <1>a, <2>1, <2>2, <3>1, <3>2 DEF Surplus
    <3>4. Accounted'
      BY <1>0, <1>a, <2>1, <2>2, <3>2, <3>3 DEF Accounted, Behind
    <3> QED
      <4>1. printed' \in Int
        BY <1>0, <1>a, <3>1
      <4>2. TimerTypeOK'
        BY <1>0, <2>1, <2>2, <3>2, <4>1 DEF TimerTypeOK
      <4>3. Unmade'
        BY <2>2 DEF Unmade
      <4> QED
        BY <3>4, <4>2, <4>3 DEF TimerInv
  <2> QED
    BY <1>5, <2>3, <2>4 DEF Dump
<1>6. CASE UNCHANGED timerVars
  BY <1>0, <1>6 DEF timerVars, TimerInv, TimerTypeOK, Unmade, Accounted, Surplus, Lost, Behind
<1> QED
  BY <1>1, <1>2, <1>3, <1>4, <1>5, <1>6 DEF TimerNext

(* What dump printed and the timer still holds exceeds the time since the  *)
(* object was made by no more than the clock was set back, and never falls *)
(* short of it.                                                            *)
THEOREM TimeIsAccounted == TimerSpec => []ReadingsAddUp
<1>1. TimerInv => ReadingsAddUp
  <2> SUFFICES ASSUME TimerInv
               PROVE  ReadingsAddUp
    OBVIOUS
  <2>1. SumFunction(timeByState) \in Int /\ Lost \in Nat
    BY TimesSum DEF TimerInv, TimerTypeOK, Lost
  <2> QED
    BY <2>1 DEF TimerInv, TimerTypeOK, Accounted, Surplus, Behind, ReadingsAddUp
<1> QED
  BY <1>1, TimerInitInv, TimerNextInv, PTL DEF TimerSpec

-----------------------------------------------------------------------------
(***************************************************************************)
(* DeviceIndex.                                                            *)
(***************************************************************************)
(* Device i of platform p is of this type; the devices of the type.        *)
Wanted(p, types, i) == types = "all" \/ platforms[p][i] = "gpu"
Devices(p, types) == {<<p, i>> : i \in {j \in DOMAIN platforms[p] : Wanted(p, types, j)}}

(* ids holds what the loop over the devices has found after each.          *)
FoundBy(ids, p, types, n) ==
  /\ ids \in [0 .. n -> Seq(Devices(p, types))]
  /\ ids[0] = <<>>
  /\ \A i \in 1 .. n : ids[i] = IF Wanted(p, types, i) THEN Append(ids[i - 1], <<p, i>>)
                                                       ELSE ids[i - 1]

(* Platform p has n devices.                                               *)
Sized(p, n) == n = Len(platforms[p]) /\ DOMAIN platforms[p] = 1 .. n

(* The recursion of DeviceIds is that loop.                                *)
LEMMA DeviceIdsSteps ==
  ASSUME NEW p, NEW types, NEW n \in Nat, Sized(p, n)
  PROVE  \E ids : FoundBy(ids, p, types, n) /\ ids[n] = DeviceIds(p, types)
<1> DEFINE A == Seq(Devices(p, types))
           Next(i, s) == IF Wanted(p, types, i) THEN Append(s, <<p, i>>) ELSE s
           step == [i \in 1 .. n |-> [s \in A |-> Next(i, s)]]
           Body(ids, i) == IF i = 0 THEN <<>> ELSE Next(i, ids[i - 1])
           Def(ids) == ids = [i \in 0 .. n |-> Body(ids, i)]
           found == CHOOSE ids : Def(ids)
<1>1. DeviceIds(p, types) = found[n]
  BY DEF DeviceIds, Wanted, Sized
<1>2. <<>> \in A
  OBVIOUS
<1>3. ASSUME NEW i \in 1 .. n, NEW s \in A
      PROVE  Next(i, s) \in A
  <2>1. Wanted(p, types, i) => <<p, i>> \in Devices(p, types)
    BY DEF Devices, Sized
  <2> QED
    BY <2>1
<1>4. PICK g : Steps(g, n, A, <<>>, step)
  <2>1. step \in [1 .. n -> [A -> A]]
    <3> HIDE DEF A, Next
    <3> QED
      BY <1>3
  <2> HIDE DEF A, step
  <2> QED
    BY <1>2, <2>1, StepsExist
<1>5. ASSUME NEW i \in 1 .. n
      PROVE  g[i] = Next(i, g[i - 1])
  <2> HIDE DEF A, Next
  <2>1. i - 1 \in 0 .. n /\ g[i - 1] \in A
    BY <1>4 DEF Steps
  <2> QED
    BY <1>4, <2>1 DEF Steps
<1>6. Def(g)
  <2>1. ASSUME NEW i \in 0 .. n
        PROVE  g[i] = Body(g, i)
    <3>1. CASE i = 0
      BY <1>4, <3>1 DEF Steps
    <3>2. CASE i # 0
      <4>1. i \in 1 .. n
        BY <3>2
      <4> HIDE DEF Next, A
      <4> QED
        BY <1>5, <3>2, <4>1
    <3> QED
      BY <3>1, <3>2
  <2> HIDE DEF Body, A
  <2> QED
    BY <1>4, <2>1 DEF Steps
<1>7. Def(found)
  <2> HIDE DEF Def
  <2> QED
    BY <1>6
<1> HIDE DEF found
<1>8. found[0] = <<>>
  BY <1>7
<1>9. ASSUME NEW i \in 1 .. n
      PROVE  found[i] = Next(i, found[i - 1])
  <2>1. found[i] = Body(found, i)
    <3> HIDE DEF Body, A, step
    <3>1. i \in 0 .. n
      OBVIOUS
    <3> QED
      BY <1>7, <3>1
  <2> HIDE DEF Next
  <2> QED
    BY <2>1
<1>10. ASSUME NEW i \in 0 .. n
       PROVE  found[i] \in A
  <2> DEFINE P == {j \in 0 .. n : found[j] \in A}
  <2>1. 0 \in P
    <3> HIDE DEF A
    <3> QED
      BY <1>2, <1>8
  <2>2. ASSUME NEW j \in 1 .. n, j - 1 \in P
        PROVE  j \in P
    <3> HIDE DEF A, Next
    <3> QED
      BY <1>3, <1>9, <2>2
  <2>3. P \in SUBSET (0 .. n)
    OBVIOUS
  <2>4. P = 0 .. n
    <3> HIDE DEF P
    <3> QED
      BY <2>1, <2>2, <2>3, IntervalInduction
  <2> HIDE DEF A
  <2> QED
    BY <2>4
<1>11. found \in [0 .. n -> A]
  <2> HIDE DEF A, Body
  <2> QED
    BY <1>7, <1>10
<1> QED
  BY <1>1, <1>8, <1>9, <1>11 DEF FoundBy

(* The platforms are sequences of kinds.                                   *)
Attached == platforms \in Seq(Seq(Kinds))

(* Every platform has some number of devices.                              *)
LEMMA PlatformSized ==
  ASSUME Attached, NEW p \in DOMAIN platforms
  PROVE  \E n \in Nat : Sized(p, n)
<1>1. platforms[p] \in Seq(Kinds)
  BY DEF Attached
<1> QED
  BY <1>1 DEF Sized

(* clGetDeviceIDs gives devices of the platform, of the type it was asked  *)
(* for; asked for all of a platform that has some it gives some.           *)
LEMMA DeviceIdsType ==
  ASSUME Attached, NEW p \in DOMAIN platforms, NEW types
  PROVE  DeviceIds(p, types) \in Seq(Devices(p, types))
<1>1. PICK n \in Nat : Sized(p, n)
  BY PlatformSized
<1>2. PICK ids : FoundBy(ids, p, types, n) /\ ids[n] = DeviceIds(p, types)
  BY <1>1, DeviceIdsSteps
<1> QED
  BY <1>2 DEF FoundBy

(* A platform with a device has one of any type.                           *)
LEMMA AllOfPlatform ==
  ASSUME Attached, NEW p \in DOMAIN platforms, platforms[p] # <<>>
  PROVE  DeviceIds(p, "all") # <<>>
<1>1. PICK n \in Nat : Sized(p, n)
  BY PlatformSized
<1>2. PICK ids : FoundBy(ids, p, "all", n) /\ ids[n] = DeviceIds(p, "all")
  BY <1>1, DeviceIdsSteps
<1>3. n \in 1 .. n
  <2>1. platforms[p] \in Seq(Kinds)
    BY DEF Attached
  <2> QED
    BY <1>1, <2>1 DEF Sized
<1>4. ids[n] = Append(ids[n - 1], <<p, n>>)
  BY <1>2, <1>3 DEF FoundBy, Wanted
<1>5. ids[n - 1] \in Seq(Devices(p, "all"))
  BY <1>2, <1>3 DEF FoundBy
<1> QED
  BY <1>2, <1>4, <1>5

(* Devices are none of the answers that stand for no device.               *)
LEMMA DeviceIsDevice ==
  ASSUME Attached, NEW p \in DOMAIN platforms, NEW types, NEW d \in Devices(p, types)
  PROVE  /\ d # NoDevice /\ d # Undefined
         /\ d[1] = p /\ d[2] \in DOMAIN platforms[p]
         /\ types # "all" => platforms[p][d[2]] = "gpu"
<1>1. PICK i \in DOMAIN platforms[p] : d = <<p, i>> /\ Wanted(p, types, i)
  BY DEF Devices
<1>2. p # 0
  BY DEF Attached
<1> QED
  BY <1>1, <1>2 DEF Wanted, NoDevice, Undefined

(* How many devices of the type each platform has, and how many have been  *)
(* passed after each of them.                                              *)
Counts(types) == [p \in 1 .. Len(platforms) |-> Len(DeviceIds(p, types))]

(* The counts are numbers.                                                 *)
LEMMA CountsType ==
  ASSUME Attached, NEW types
  PROVE  Counts(types) \in [1 .. Len(platforms) -> Nat]
<1>1. ASSUME NEW p \in 1 .. Len(platforms)
      PROVE  Len(DeviceIds(p, types)) \in Nat
  <2>1. DeviceIds(p, types) \in Seq(Devices(p, types))
    <3>1. p \in DOMAIN platforms
      BY DEF Attached
    <3> QED
      BY <3>1, DeviceIdsType
  <2> QED
    BY <2>1
<1> QED
  BY <1>1 DEF Counts

(* Passed is their running total.                                          *)
LEMMA PassedSteps ==
  ASSUME Attached, NEW types
  PROVE  /\ Passed(types) \in [0 .. Len(platforms) -> Nat]
         /\ Passed(types)[0] = 0
         /\ \A p \in 1 .. Len(platforms) :
              Passed(types)[p] = Passed(types)[p - 1] + Len(DeviceIds(p, types))
<1> DEFINE L == Len(platforms)
           Def(f) == f = [p \in 0 .. L |-> IF p = 0 THEN 0
                                           ELSE f[p - 1] + Len(DeviceIds(p, types))]
<1>1. L \in Nat
  BY DEF Attached
<1>2. \A f : Total(f, L, Counts(types)) <=> Def(f)
  <2>1. ASSUME NEW f
        PROVE  [p \in 0 .. L |-> IF p = 0 THEN 0 ELSE f[p - 1] + Counts(types)[p]]
                 = [p \in 0 .. L |-> IF p = 0 THEN 0 ELSE f[p - 1] + Len(DeviceIds(p, types))]
    <3>1. ASSUME NEW p \in 0 .. L, p # 0
          PROVE  Counts(types)[p] = Len(DeviceIds(p, types))
      BY <1>1, <3>1 DEF Counts
    <3> HIDE DEF L
    <3> QED
      BY <3>1
  <2> HIDE DEF L
  <2> QED
    BY <2>1 DEF Total
<1>3. PICK f : Total(f, L, Counts(types))
  <2> HIDE DEF Def
  <2> QED
    BY <1>1, CountsType, TotalExists
<1>4. Passed(types) = CHOOSE g : Def(g)
  BY DEF Passed
<1>5. Def(Passed(types))
  <2> HIDE DEF Def
  <2> QED
    BY <1>2, <1>3, <1>4
<1>6. Total(Passed(types), L, Counts(types))
  <2> HIDE DEF Def
  <2> QED
    BY <1>2, <1>5
<1>7. /\ Passed(types) \in [0 .. L -> Nat] /\ Passed(types)[0] = 0
      /\ \A p \in 1 .. L : Passed(types)[p] = Passed(types)[p - 1] + Counts(types)[p]
  <2> HIDE DEF Def, L
  <2> QED
    BY <1>1, <1>6, CountsType, TotalSteps DEF L
<1> QED
  BY <1>7 DEF Counts

(* Which never falls.                                                      *)
LEMMA PassedGrows ==
  ASSUME Attached, NEW types, NEW p \in 0 .. Len(platforms), NEW q \in p .. Len(platforms)
  PROVE  Passed(types)[p] <= Passed(types)[q]
<1> DEFINE L == Len(platforms)
           C == Passed(types)
<1>1. L \in Nat
  BY DEF Attached
<1>2. ASSUME NEW k \in 1 .. L
      PROVE  C[k - 1] <= C[k]
  <2>1. Counts(types)[k] \in Nat /\ Counts(types)[k] = Len(DeviceIds(k, types))
    BY CountsType DEF Counts
  <2>2. C[k - 1] \in Nat /\ C[k] = C[k - 1] + Counts(types)[k]
    <3>1. k - 1 \in 0 .. L
      BY <1>1
    <3> HIDE DEF C
    <3> QED
      BY <2>1, <3>1, PassedSteps DEF C
  <2> HIDE DEF C
  <2> QED
    BY <2>1, <2>2
<1>3. C \in [0 .. L -> Int]
  BY PassedSteps
<1> HIDE DEF C, L
<1> QED
  BY <1>1, <1>2, <1>3, TotalGrows DEF C, L

(* The list of all devices: one platform after the other.                  *)
Flattens(h, n, seqs) ==
  h[0] = <<>> /\ \A i \in 1 .. n : h[i] = h[i - 1] \o seqs[i]

(* FlattenSeq is that loop.                                                *)
LEMMA FlattenSteps ==
  ASSUME NEW S, NEW n \in Nat, NEW seqs \in [1 .. n -> Seq(S)]
  PROVE  \E h \in [0 .. n -> Seq(S)] : Flattens(h, n, seqs) /\ h[n] = FlattenSeq(seqs)
<1> DEFINE A == Seq(S)
           step == [i \in 1 .. n |-> [s \in A |-> s \o seqs[i]]]
           Body(f, i) == IF i = 1 THEN seqs[i] ELSE f[i - 1] \o seqs[i]
           Def(f) == f = [i \in 1 .. n |-> Body(f, i)]
           found == CHOOSE f : Def(f)
<1>1. seqs \in Seq(A) /\ Len(seqs) = n
  OBVIOUS
<1>2. PICK h : Steps(h, n, A, <<>>, step)
  <2>1. step \in [1 .. n -> [A -> A]] /\ <<>> \in A
    OBVIOUS
  <2> HIDE DEF A, step
  <2> QED
    BY <2>1, StepsExist
<1>3. h \in [0 .. n -> A] /\ h[0] = <<>>
  BY <1>2 DEF Steps
<1>4. ASSUME NEW i \in 1 .. n
      PROVE  h[i] = h[i - 1] \o seqs[i]
  <2>1. h[i - 1] \in A /\ h[i] = step[i][h[i - 1]]
    <3> HIDE DEF A, step
    <3> QED
      BY <1>2 DEF Steps
  <2> QED
    BY <2>1
<1>5. ASSUME n # 0
      PROVE  h[1] = seqs[1]
  <2>1. 1 \in 1 .. n /\ 1 - 1 = 0 /\ seqs[1] \in Seq(S)
    BY <1>5
  <2>2. h[1] = h[1 - 1] \o seqs[1]
    BY <1>4, <2>1
  <2>3. h[1] = <<>> \o seqs[1]
    BY <1>3, <2>1, <2>2
  <2> QED
    BY <2>1, <2>3
<1>6. CASE n = 0
  <2>1. FlattenSeq(seqs) = <<>>
    BY <1>1, <1>6 DEF FlattenSeq
  <2> QED
    BY <1>3, <1>4, <1>6, <2>1 DEF Flattens
<1>7. CASE n # 0
  <2> DEFINE g == [i \in 1 .. n |-> h[i]]
  <2>1. FlattenSeq(seqs) = found[n]
    BY <1>1, <1>7 DEF FlattenSeq
  <2>2. ASSUME NEW i \in 1 .. n
        PROVE  g[i] = Body(g, i)
    <3>1. CASE i = 1
      BY <1>5, <1>7, <3>1
    <3>2. CASE i # 1
      <4>1. i - 1 \in 1 .. n
        BY <3>2
      <4> QED
        BY <1>4, <3>2, <4>1
    <3> QED
      BY <3>1, <3>2
  <2>3. Def(g)
    <3> HIDE DEF Body
    <3>1. g = [i \in 1 .. n |-> g[i]]
      OBVIOUS
    <3> HIDE DEF g
    <3> QED
      BY <2>2, <3>1
  <2>4. Def(found)
    <3> HIDE DEF Def
    <3> QED
      BY <2>3
  <2> HIDE DEF found
  <2> DEFINE P == {i \in 0 .. n : i # 0 => found[i] = h[i]}
  <2>5. 0 \in P
    OBVIOUS
  <2>6. ASSUME NEW i \in 1 .. n, i - 1 \in P
        PROVE  i \in P
    <3>1. found[i] = Body(found, i)
      <4> HIDE DEF Body
      <4> QED
        BY <2>4
    <3>2. CASE i = 1
      <4>1. found[1] = seqs[1]
        BY <3>1, <3>2
      <4> QED
        BY <1>5, <1>7, <3>2, <4>1
    <3>3. CASE i # 1
      <4>1. i - 1 \in 1 .. n /\ found[i - 1] = h[i - 1]
        BY <2>6, <3>3
      <4>2. found[i] = found[i - 1] \o seqs[i]
        BY <3>1, <3>3
      <4>3. found[i] = h[i]
        <5> HIDE DEF P
        <5> QED
          BY <1>4, <4>1, <4>2
      <4> QED
        BY <4>3
    <3> QED
      BY <3>2, <3>3
  <2>7. P = 0 .. n
    <3>1. P \in SUBSET (0 .. n)
      OBVIOUS
    <3> HIDE DEF P
    <3> QED
      BY <2>5, <2>6, <3>1, IntervalInduction
  <2>8. found[n] = h[n]
    BY <1>7, <2>7
  <2> QED
    BY <1>3, <1>4, <2>1, <2>8 DEF Flattens
<1> QED
  BY <1>6, <1>7

(* What a flattened prefix holds stays where it is.                        *)
Placed(h, S, n, seqs, p, j) ==
  /\ n \in Nat /\ seqs \in [1 .. n -> Seq(S)] /\ h \in [0 .. n -> Seq(S)]
  /\ Flattens(h, n, seqs) /\ p \in 0 .. n /\ j \in 1 .. Len(h[p])
Kept(h, n, p, j) == h[n][j] = h[p][j]

(* It does.                                                                *)
LEMMA FlattenKeeps ==
  ASSUME NEW S, NEW n, NEW seqs, NEW h, NEW p, NEW j, Placed(h, S, n, seqs, p, j)
  PROVE  Kept(h, n, p, j)
<1> USE DEF Kept
<1>0. /\ n \in Nat /\ seqs \in [1 .. n -> Seq(S)] /\ h \in [0 .. n -> Seq(S)]
      /\ Flattens(h, n, seqs) /\ p \in 0 .. n /\ j \in 1 .. Len(h[p])
  BY DEF Placed
<1> USE <1>0
<1> DEFINE P == {k \in 0 .. n : p <= k => Len(h[p]) <= Len(h[k]) /\ h[k][j] = h[p][j]}
<1>1. 0 \in P
  OBVIOUS
<1>2. ASSUME NEW k \in 1 .. n, k - 1 \in P
      PROVE  k \in P
  <2>1. CASE p <= k - 1
    <3> DEFINE a == h[k - 1]
               b == seqs[k]
    <3>1. a \in Seq(S) /\ b \in Seq(S) /\ h[k] = a \o b /\ Len(h[p]) \in Nat
      <4>1. a \in Seq(S) /\ b \in Seq(S) /\ h[p] \in Seq(S)
        BY k - 1 \in 0 .. n
      <4>2. h[k] = a \o b
        BY DEF Flattens
      <4> QED
        BY <4>1, <4>2
    <3>2. Len(h[p]) <= Len(a) /\ a[j] = h[p][j]
      BY <1>2, <2>1
    <3> HIDE DEF a, b
    <3>3. Len(h[k]) = Len(a) + Len(b) /\ Len(a) \in Nat /\ Len(b) \in Nat
      BY <3>1
    <3>4. j \in 1 .. Len(a)
      BY <3>1, <3>2, <3>3
    <3>5. (a \o b)[j] = a[j]
      BY <3>1, <3>4
    <3>6. Len(h[p]) <= Len(h[k]) /\ h[k][j] = h[p][j]
      BY <3>1, <3>2, <3>3, <3>5
    <3> QED
      BY <3>6
  <2>2. CASE ~(p <= k - 1)
    <3>1. Len(h[p]) \in Nat
      OBVIOUS
    <3>2. p <= k => p = k
      BY <2>2
    <3> QED
      BY <3>1, <3>2
  <2> QED
    BY <2>1, <2>2
<1>3. P = 0 .. n
  <2>1. P \in SUBSET (0 .. n)
    OBVIOUS
  <2> HIDE DEF P
  <2> QED
    BY <1>1, <1>2, <2>1, IntervalInduction
<1> QED
  <2>1. n \in P
    <3> HIDE DEF P
    <3> QED
      BY <1>3
  <2> QED
    BY <2>1

(* How many platforms are known.                                           *)
Room == IF Len(platforms) <= Capacity THEN Len(platforms) ELSE Capacity

(* The known platforms are the first ones, as many as there is room for.   *)
LEMMA KnownIsRoom ==
  ASSUME Attached
  PROVE  /\ Room \in Nat /\ Room <= Len(platforms) /\ Room <= Capacity /\ Known = 1 .. Room
         /\ Len(platforms) \in Nat /\ Capacity \in Nat /\ DOMAIN platforms = 1 .. Len(platforms)
<1>1. Len(platforms) \in Nat /\ DOMAIN platforms = 1 .. Len(platforms)
  BY DEF Attached
<1>2. Capacity \in Nat
  BY IndexAssumption
<1>3. Room \in Nat /\ Room <= Len(platforms) /\ Room <= Capacity
  BY <1>1, <1>2 DEF Room
<1>4. Known = 1 .. Room
  BY <1>1, <1>2 DEF Room, Known
<1> QED
  BY <1>1, <1>2, <1>3, <1>4

(* Arrays that hold all devices of a platform, or some of them; and the    *)
(* list they make.                                                         *)
Arrays(devices, types) ==
  \A p \in DOMAIN platforms :
    /\ devices[p] \in Seq(Devices(p, types) \cup {Undefined})
    /\ Len(devices[p]) = Len(DeviceIds(p, types))
    /\ \A i \in 1 .. Len(devices[p]) : devices[p][i] \in {DeviceIds(p, types)[i], Undefined}
ListOf(devices) == FlattenSeq([p \in Known |-> devices[p]])

(* The arrays of the code are such arrays.                                 *)
LEMMA ArraysOf ==
  ASSUME Attached, NEW types
  PROVE  /\ Arrays(Measured(types), types) /\ Arrays(Fixed(types), types)
         /\ \A p \in DOMAIN platforms :
              /\ Measured(types)[p] = DeviceIds(p, types)
              /\ \A i \in 1 .. Len(Fixed(types)[p]) :
                   i <= DeviceRoom => Fixed(types)[p][i] = DeviceIds(p, types)[i]
<1>1. ASSUME NEW p \in DOMAIN platforms
      PROVE  /\ Measured(types)[p] = DeviceIds(p, types)
             /\ Measured(types)[p] \in Seq(Devices(p, types) \cup {Undefined})
             /\ Fixed(types)[p] \in Seq(Devices(p, types) \cup {Undefined})
             /\ Len(Fixed(types)[p]) = Len(DeviceIds(p, types))
             /\ \A i \in 1 .. Len(Fixed(types)[p]) :
                  Fixed(types)[p][i] = IF i <= DeviceRoom THEN DeviceIds(p, types)[i] ELSE Undefined
  <2> DEFINE s == DeviceIds(p, types)
             D == Devices(p, types)
  <2>1. s \in Seq(D)
    BY DeviceIdsType
  <2>2. /\ Measured(types)[p] = s
        /\ Fixed(types)[p] = [i \in DOMAIN s |-> IF i <= DeviceRoom THEN s[i] ELSE Undefined]
    BY DEF Measured, Fixed
  <2> HIDE DEF s, D
  <2>3. Fixed(types)[p] \in Seq(D \cup {Undefined}) /\ Len(Fixed(types)[p]) = Len(s)
    BY <2>1, <2>2
  <2>4. s \in Seq(D \cup {Undefined})
    BY <2>1
  <2>5. \A i \in 1 .. Len(s) : Fixed(types)[p][i] = IF i <= DeviceRoom THEN s[i] ELSE Undefined
    BY <2>1, <2>2
  <2> QED
    BY <2>2, <2>3, <2>4, <2>5 DEF s, D
<1>2. Arrays(Measured(types), types)
  BY <1>1 DEF Arrays
<1>3. Arrays(Fixed(types), types)
  BY <1>1 DEF Arrays
<1> QED
  BY <1>1, <1>2, <1>3

(* The list has as many devices as the loops pass, and the one a loop      *)
(* looks for is at its place.                                              *)
LEMMA ListedPlaces ==
  ASSUME Attached, NEW types, NEW devices, Arrays(devices, types)
  PROVE  /\ Len(ListOf(devices)) = Passed(types)[Room]
         /\ \A p \in 1 .. Room, index \in Int :
              Passed(types)[p - 1] <= index /\ index < Passed(types)[p] =>
                ListOf(devices)[index + 1] = devices[p][index - Passed(types)[p - 1] + 1]
<1> DEFINE U == UNION {Devices(p, types) : p \in 1 .. Room}
           S == U \cup {Undefined}
           ids == [p \in 1 .. Room |-> devices[p]]
           C == Passed(types)
<1>1. ids \in [1 .. Room -> Seq(S)]
  <2>1. ASSUME NEW p \in 1 .. Room
        PROVE  devices[p] \in Seq(S)
    <3>1. devices[p] \in Seq(Devices(p, types) \cup {Undefined})
      <4>1. p \in DOMAIN platforms
        BY KnownIsRoom
      <4> QED
        BY <4>1 DEF Arrays
    <3>2. Devices(p, types) \cup {Undefined} \subseteq S
      <4>1. Devices(p, types) \subseteq U
        OBVIOUS
      <4> HIDE DEF U
      <4> QED
        BY <4>1
    <3> HIDE DEF S
    <3> QED
      BY <3>1, <3>2
  <2> HIDE DEF S
  <2> QED
    BY <2>1
<1>2. ListOf(devices) = FlattenSeq(ids)
  BY KnownIsRoom DEF ListOf
<1>3. PICK h \in [0 .. Room -> Seq(S)] :
        Flattens(h, Room, ids) /\ h[Room] = FlattenSeq(ids)
  <2> HIDE DEF S, ids
  <2> QED
    BY <1>1, KnownIsRoom, FlattenSteps
<1>4. /\ C \in [0 .. Len(platforms) -> Nat] /\ C[0] = 0
      /\ \A p \in 1 .. Len(platforms) : C[p] = C[p - 1] + Len(DeviceIds(p, types))
  BY PassedSteps
<1>5. ASSUME NEW p \in 1 .. Room
      PROVE  /\ ids[p] \in Seq(S) /\ h[p - 1] \in Seq(S) /\ h[p] = h[p - 1] \o ids[p]
             /\ ids[p] = devices[p]
             /\ C[p] \in Nat /\ C[p - 1] \in Nat /\ C[p] = C[p - 1] + Len(ids[p])
             /\ Len(ids[p]) \in Nat /\ Len(h[p - 1]) \in Nat
             /\ Len(h[p]) = Len(h[p - 1]) + Len(ids[p])
  <2>1. ids[p] = devices[p] /\ Len(devices[p]) = Len(DeviceIds(p, types))
    <3>1. p \in DOMAIN platforms
      BY KnownIsRoom
    <3> QED
      BY <3>1 DEF Arrays
  <2>2. /\ p \in 1 .. Len(platforms) /\ p \in 0 .. Room
        /\ p - 1 \in 0 .. Room /\ p - 1 \in 0 .. Len(platforms)
    BY KnownIsRoom
  <2> HIDE DEF S, ids, C
  <2>3. h[p - 1] \in Seq(S) /\ h[p] = h[p - 1] \o ids[p]
    BY <1>3, <2>2 DEF Flattens
  <2>4. C[p] \in Nat /\ C[p - 1] \in Nat /\ C[p] = C[p - 1] + Len(ids[p])
    <3>1. C[p] \in Nat /\ C[p - 1] \in Nat
      BY <1>4, <2>2
    <3>2. C[p] = C[p - 1] + Len(DeviceIds(p, types))
      BY <1>4, <2>2
    <3>3. Len(DeviceIds(p, types)) = Len(ids[p])
      BY <2>1
    <3> QED
      BY <3>1, <3>2, <3>3
  <2>5. ids[p] \in Seq(S)
    BY <1>1
  <2>6. /\ Len(ids[p]) \in Nat /\ Len(h[p - 1]) \in Nat
        /\ Len(h[p]) = Len(h[p - 1]) + Len(ids[p])
    <3> DEFINE a == h[p - 1]
               b == ids[p]
    <3>1. a \in Seq(S) /\ b \in Seq(S) /\ h[p] = a \o b
      BY <2>3, <2>5
    <3> HIDE DEF a, b
    <3>2. Len(b) \in Nat /\ Len(a) \in Nat /\ Len(h[p]) = Len(a) + Len(b)
      BY <3>1
    <3> QED
      BY <3>2 DEF a, b
  <2> QED
    BY <2>1, <2>3, <2>4, <2>5, <2>6
<1> HIDE DEF S, ids, C
<1>6. \A p \in 0 .. Room : Len(h[p]) = C[p]
  <2> DEFINE P == {p \in 0 .. Room : Len(h[p]) = C[p]}
  <2>1. 0 \in P
    BY <1>3, <1>4, KnownIsRoom DEF Flattens
  <2>2. ASSUME NEW p \in 1 .. Room, p - 1 \in P
        PROVE  p \in P
    <3>2. Len(h[p - 1]) = C[p - 1] /\ p \in 0 .. Room
      BY <2>2, KnownIsRoom
    <3>3. Len(h[p]) = C[p]
      <4> HIDE DEF P
      <4> QED
        BY <1>5, <3>2
    <3> QED
      BY <3>2, <3>3
  <2>3. P = 0 .. Room
    <3>1. P \in SUBSET (0 .. Room) /\ Room \in Nat
      BY KnownIsRoom
    <3> HIDE DEF P
    <3> QED
      BY <2>1, <2>2, <3>1, IntervalInduction
  <2> QED
    BY <2>3
<1>7. Len(ListOf(devices)) = C[Room]
  BY <1>2, <1>3, <1>6, KnownIsRoom
<1>8. ASSUME NEW p \in 1 .. Room, NEW index \in Int, C[p - 1] <= index, index < C[p]
      PROVE  ListOf(devices)[index + 1] = devices[p][index - C[p - 1] + 1]
  <2> DEFINE a == h[p - 1]
             b == ids[p]
             k == index - C[p - 1] + 1
  <2>1. a \in Seq(S) /\ b \in Seq(S) /\ h[p] = a \o b
    BY <1>5
  <2>7. p - 1 \in 0 .. Room
    BY KnownIsRoom
  <2>2. Len(a) = C[p - 1] /\ Len(b) \in Nat /\ C[p - 1] \in Nat /\ C[p] = C[p - 1] + Len(b)
    <3>1. Len(h[p - 1]) = C[p - 1]
      BY <1>6, <2>7
    <3> QED
      BY <1>5, <3>1
  <2> DEFINE c == C[p - 1]
             l == Len(b)
  <2>3. k \in 1 .. Len(b) /\ index + 1 = Len(a) + k
    <3>1. k = index - c + 1 /\ c <= index /\ index < c + l /\ c \in Nat /\ l \in Nat
          /\ Len(a) = c
      BY <1>8, <2>2
    <3> HIDE DEF a, b, c, l, k, C
    <3>2. k \in 1 .. l /\ index + 1 = c + k
      BY <3>1
    <3> QED
      BY <3>1, <3>2 DEF l
  <2> HIDE DEF a, b, k
  <2>4. (a \o b)[index + 1] = b[k] /\ index + 1 \in 1 .. Len(a \o b)
    <3> DEFINE i == index + 1
    <3>1. i = Len(a) + k /\ k \in 1 .. Len(b)
      BY <2>3
    <3> HIDE DEF i, C
    <3>2. (a \o b)[i] = b[k] /\ i \in 1 .. Len(a \o b)
      BY <2>1, <3>1
    <3> QED
      BY <3>2 DEF i
  <2>5. h[Room][index + 1] = h[p][index + 1]
    <3>1. index + 1 \in 1 .. Len(h[p]) /\ p \in 0 .. Room
      BY <2>1, <2>4
    <3> QED
      <4> DEFINE i == index + 1
      <4>1. Room \in Nat /\ i \in 1 .. Len(h[p])
        BY <3>1, KnownIsRoom
      <4> HIDE DEF i
      <4>2. h[Room][i] = h[p][i]
        <5>1. Placed(h, S, Room, ids, p, i)
          BY <1>1, <1>3, <3>1, <4>1, Zenon DEF Placed
        <5>2. Kept(h, Room, p, i)
          BY <5>1, FlattenKeeps
        <5> QED
          BY <5>2 DEF Kept
      <4> QED
        BY <4>2 DEF i
  <2> QED
    BY <1>2, <1>3, <1>5, <2>1, <2>4, <2>5 DEF b, k
<1> QED
  BY <1>7, <1>8 DEF C

(* getNumDevices counts the devices of the known platforms.                *)
LEMMA NumDevicesCounts ==
  ASSUME Attached, NEW types
  PROVE  GetNumDevices(types) = Passed(types)[Room]
<1> DEFINE L == Len(platforms)
           C == Passed(types)
           amount == [p \in 1 .. L |-> IF p > Capacity THEN 0 ELSE Len(DeviceIds(p, types))]
           Def(f) == f = [p \in 0 .. L |->
                            IF p = 0 THEN 0
                            ELSE f[p - 1] + (IF p > Capacity THEN 0 ELSE Len(DeviceIds(p, types)))]
           found == CHOOSE f : Def(f)
<1>1. amount \in [1 .. L -> Nat]
  <2>1. \A p \in 1 .. L : Len(DeviceIds(p, types)) \in Nat
    BY CountsType DEF Counts
  <2> QED
    BY <2>1
<1>2. \A f : Total(f, L, amount) <=> Def(f)
  <2>1. ASSUME NEW f
        PROVE  [p \in 0 .. L |-> IF p = 0 THEN 0 ELSE f[p - 1] + amount[p]]
                 = [p \in 0 .. L |->
                      IF p = 0 THEN 0
                      ELSE f[p - 1] + (IF p > Capacity THEN 0 ELSE Len(DeviceIds(p, types)))]
    <3>1. ASSUME NEW p \in 0 .. L, p # 0
          PROVE  amount[p] = (IF p > Capacity THEN 0 ELSE Len(DeviceIds(p, types)))
      BY <3>1, KnownIsRoom
    <3> HIDE DEF L, amount
    <3> QED
      BY <3>1
  <2> HIDE DEF L, amount
  <2> QED
    BY <2>1 DEF Total
<1>3. GetNumDevices(types) = found[L]
  BY DEF GetNumDevices
<1>4. Total(found, L, amount)
  <2>1. PICK f : Total(f, L, amount)
    <3> HIDE DEF Def, amount, L, found
    <3> QED
      BY <1>1, KnownIsRoom, TotalExists DEF L
  <2> HIDE DEF Def, amount, L
  <2> QED
    BY <1>2, <2>1
<1>5. /\ found \in [0 .. L -> Nat] /\ found[0] = 0
      /\ \A p \in 1 .. L : found[p] = found[p - 1] + amount[p]
  <2> HIDE DEF Def, L, found, amount
  <2> QED
    BY <1>1, <1>4, KnownIsRoom, TotalSteps DEF L
<1>6. /\ C \in [0 .. L -> Nat] /\ C[0] = 0
      /\ \A p \in 1 .. L : C[p] = C[p - 1] + Len(DeviceIds(p, types))
  BY PassedSteps
<1> DEFINE P == {p \in 0 .. L : found[p] = C[IF p <= Room THEN p ELSE Room]}
<1>7. 0 \in P
  <2> HIDE DEF found, C
  <2> QED
    BY <1>5, <1>6, KnownIsRoom
<1>8. ASSUME NEW p \in 1 .. L, p - 1 \in P
      PROVE  p \in P
  <2>1. /\ p \in Int /\ L \in Nat /\ Room \in Nat /\ Capacity \in Nat /\ p \in 0 .. L
        /\ Room = IF L <= Capacity THEN L ELSE Capacity
    BY KnownIsRoom DEF Room
  <2>2. CASE p <= Room
    <3>1. ~(p > Capacity) /\ p - 1 <= Room
      BY <2>1, <2>2
    <3>2. amount[p] = Len(DeviceIds(p, types))
      BY <3>1
    <3>3. found[p - 1] = C[p - 1]
      <4> HIDE DEF found, C, L, amount
      <4> QED
        BY <1>8, <3>1
    <3>4. found[p] = C[p]
      <4> HIDE DEF found, C, L, amount
      <4> QED
        BY <1>5, <1>6, <3>2, <3>3
    <3> QED
      BY <2>1, <2>2, <3>4
  <2>3. CASE ~(p <= Room)
    <3>1. p > Capacity /\ Room <= p - 1
      BY <2>1, <2>3
    <3>2. amount[p] = 0
      BY <3>1
    <3>3. found[p - 1] = C[Room]
      <4>1. p - 1 = Room \/ ~(p - 1 <= Room)
        BY <2>1, <3>1
      <4> HIDE DEF found, C, L, amount
      <4> QED
        BY <1>8, <4>1
    <3>4. found[p] = C[Room]
      <4>1. found[p] = found[p - 1] + 0 /\ found[p - 1] \in Nat
        <5> HIDE DEF found, C, L, amount
        <5> QED
          BY <1>5, <2>1, <3>2
      <4> HIDE DEF found, C, L, amount
      <4> QED
        BY <3>3, <4>1
    <3> QED
      BY <2>1, <2>3, <3>4
  <2> QED
    BY <2>2, <2>3
<1>9. P = 0 .. L
  <2>1. P \in SUBSET (0 .. L) /\ L \in Nat
    BY KnownIsRoom
  <2> HIDE DEF P, L
  <2> QED
    BY <1>7, <1>8, <2>1, IntervalInduction
<1>10. found[L] = C[Room]
  <2>1. L \in P
    <3> HIDE DEF P
    <3> QED
      BY <1>9, KnownIsRoom
  <2>2. (IF L <= Room THEN L ELSE Room) = Room
    BY KnownIsRoom
  <2> HIDE DEF found, C
  <2> QED
    BY <2>1, <2>2
<1> QED
  BY <1>3, <1>10

(* A loop that has not ended has passed no more devices than the index.    *)
LEMMA NotOffered ==
  ASSUME Attached, NEW types, NEW index \in Nat, NEW q \in 0 .. Len(platforms),
         \A p \in 1 .. q : ~Offers(p, index, types)
  PROVE  Passed(types)[q] <= index
<1> DEFINE C == Passed(types)
           P == {k \in 0 .. q : C[k] <= index}
<1>1. /\ C \in [0 .. Len(platforms) -> Nat] /\ C[0] = 0
      /\ \A p \in 1 .. Len(platforms) : C[p] = C[p - 1] + Len(DeviceIds(p, types))
  BY PassedSteps
<1>2. 0 \in P
  <2> HIDE DEF C
  <2> QED
    BY <1>1, KnownIsRoom
<1>3. ASSUME NEW k \in 1 .. q, k - 1 \in P
      PROVE  k \in P
  <2>1. ~Offers(k, index, types)
    OBVIOUS
  <2>2. k \in 1 .. Len(platforms) /\ k - 1 \in 0 .. Len(platforms) /\ k \in 0 .. q
    BY KnownIsRoom
  <2>3. DeviceIds(k, types) \in Seq(Devices(k, types))
    <3>1. k \in DOMAIN platforms
      BY <2>2, KnownIsRoom
    <3> QED
      BY <3>1, DeviceIdsType
  <2> DEFINE s == DeviceIds(k, types)
  <2>4. C[k] = C[k - 1] + Len(s) /\ C[k - 1] \in Nat /\ C[k - 1] <= index
    <3>1. C[k - 1] <= index
      BY <1>3
    <3> HIDE DEF C
    <3> QED
      BY <1>1, <2>2, <3>1
  <2>5. s = <<>> \/ ~(index - C[k - 1] < Len(s))
    BY <2>1 DEF Offers, Remaining
  <2>6. Len(s) \in Nat /\ (s = <<>> => Len(s) = 0)
    <3> HIDE DEF s
    <3>1. s \in Seq(Devices(k, types))
      BY <2>3 DEF s
    <3> QED
      BY <3>1
  <2>7. C[k] <= index
    <3> HIDE DEF C, s
    <3> QED
      BY <2>4, <2>5, <2>6
  <2> QED
    BY <2>2, <2>7
<1>4. P = 0 .. q
  <2>1. P \in SUBSET (0 .. q) /\ q \in Nat
    BY KnownIsRoom
  <2> HIDE DEF P
  <2> QED
    BY <1>2, <1>3, <2>1, IntervalInduction
<1>5. q \in P
  <2>1. q \in 0 .. q
    BY KnownIsRoom
  <2> HIDE DEF P
  <2> QED
    BY <1>4, <2>1
<1> QED
  BY <1>5

(* The smallest of some numbers.                                           *)
LEMMA FirstOf ==
  ASSUME NEW T \in SUBSET Nat, T # {}
  PROVE  Min(T) \in T /\ \A n \in T : Min(T) <= n
<1>1. \E n \in T : \A m \in T : n <= m
  BY LeastNatural
<1> QED
  BY <1>1 DEF Min

(* Where the loops that skip platforms end, and where the others do.       *)
SkippingEnds(index, types) ==
  {p \in DOMAIN platforms : p > Capacity \/ Offers(p, index, types)}
ThrowingEnds(index, types) ==
  {p \in DOMAIN platforms : \/ p > Capacity \/ DeviceIds(p, types) = <<>>
                            \/ Offers(p, index, types)}

(* The platform a skipping loop ends at comes after those that have no     *)
(* more devices than the index.                                            *)
LEMMA SkippingPasses ==
  ASSUME Attached, NEW types, NEW index \in Nat, SkippingEnds(index, types) # {}
  PROVE  LET p == Min(SkippingEnds(index, types))
         IN  /\ p \in 1 .. Len(platforms) /\ p <= Capacity + 1
             /\ p <= Capacity => Offers(p, index, types)
             /\ Passed(types)[p - 1] <= index
<1> DEFINE T == SkippingEnds(index, types)
           p == Min(T)
<1>1. T \in SUBSET Nat /\ T \subseteq 1 .. Len(platforms) /\ T # {}
  BY KnownIsRoom DEF SkippingEnds
<1>2. p \in T /\ \A q \in T : p <= q
  <2> HIDE DEF T
  <2> QED
    BY <1>1, FirstOf
<1>3. p \in 1 .. Len(platforms)
  <2> HIDE DEF T, p
  <2> QED
    BY <1>1, <1>2
<1> HIDE DEF p
<1>4. p > Capacity \/ Offers(p, index, types)
  BY <1>2 DEF SkippingEnds
<1>5. p <= Capacity + 1
  <2> SUFFICES ASSUME ~(p <= Capacity + 1)
               PROVE  FALSE
    OBVIOUS
  <2>1. Capacity + 1 \in DOMAIN platforms /\ Capacity + 1 > Capacity
    BY <1>3, KnownIsRoom
  <2>2. Capacity + 1 \in T
    BY <2>1 DEF SkippingEnds
  <2> HIDE DEF T
  <2> QED
    BY <1>2, <1>3, <2>2, KnownIsRoom
<1>6. \A q \in 1 .. p - 1 : ~Offers(q, index, types)
  <2> SUFFICES ASSUME NEW q \in 1 .. p - 1, Offers(q, index, types)
               PROVE  FALSE
    OBVIOUS
  <2>1. q \in DOMAIN platforms /\ q \in Int /\ p \in Int /\ ~(p <= q)
    BY <1>3, KnownIsRoom
  <2>2. q \in T
    BY <2>1 DEF SkippingEnds
  <2> HIDE DEF T
  <2> QED
    BY <1>2, <2>1, <2>2
<1>7. Passed(types)[p - 1] <= index
  <2>1. p - 1 \in 0 .. Len(platforms)
    BY <1>3, KnownIsRoom
  <2> QED
    BY <1>6, <2>1, NotOffered
<1> QED
  <2>1. p <= Capacity => Offers(p, index, types)
    <3>1. p \in Int /\ Capacity \in Int
      BY <1>3, KnownIsRoom
    <3> QED
      BY <1>4, <3>1
  <2> QED
    BY <1>3, <1>5, <1>7, <2>1 DEF p

(* The loop that skips platforms, with any such arrays.                    *)
Search(index, types, devices) == Ending(SkippingEnds(index, types), index, types, devices)

(* It gives entry index of their list; beyond its end, no device if all    *)
(* platforms are known and else what an entry nothing has filled holds.    *)
LEMMA SearchIsListed ==
  ASSUME Attached, NEW types, NEW index \in Nat, NEW devices, Arrays(devices, types)
  PROVE  /\ index < Passed(types)[Room] =>
              /\ Search(index, types, devices) = ListOf(devices)[index + 1]
              /\ \E p \in DOMAIN platforms : \E i \in 1 .. Len(devices[p]) :
                   Search(index, types, devices) = devices[p][i]
         /\ ~(index < Passed(types)[Room]) =>
              Search(index, types, devices) =
                IF Len(platforms) <= Capacity THEN NoDevice ELSE Undefined
<1> DEFINE C == Passed(types)
           L == Len(platforms)
           T == SkippingEnds(index, types)
           p == Min(T)
           s == devices[p]
<1>1. /\ C \in [0 .. L -> Nat] /\ C[0] = 0
      /\ \A q \in 1 .. L : C[q] = C[q - 1] + Len(DeviceIds(q, types))
  BY PassedSteps
<1>2. L \in Nat /\ Capacity \in Nat /\ Room \in Nat /\ Room = IF L <= Capacity THEN L ELSE Capacity
  BY KnownIsRoom DEF Room
<1>3. Search(index, types, devices) = Ending(T, index, types, devices)
  BY DEF Search
<1>4. CASE T = {}
  <2>1. Search(index, types, devices) = NoDevice
    BY <1>3, <1>4 DEF Ending
  <2>2. L <= Capacity
    <3> SUFFICES ASSUME ~(L <= Capacity)
                 PROVE  FALSE
      OBVIOUS
    <3>1. L \in DOMAIN platforms /\ L > Capacity
      BY <1>2, KnownIsRoom
    <3> QED
      BY <1>4, <3>1 DEF SkippingEnds
  <2>3. \A q \in 1 .. L : ~Offers(q, index, types)
    BY <1>4, KnownIsRoom DEF SkippingEnds
  <2>4. C[L] <= index
    <3>1. L \in 0 .. Len(platforms)
      BY <1>2
    <3> QED
      BY <2>3, <3>1, NotOffered
  <2>5. Room = L /\ C[L] \in Nat
    <3> HIDE DEF C, L
    <3> QED
      BY <1>1, <1>2, <2>2
  <2> HIDE DEF C, L
  <2> QED
    BY <2>1, <2>2, <2>4, <2>5 DEF C, L
<1>5. CASE T # {}
  <2> HIDE DEF p
  <2>1. /\ p \in 1 .. L /\ p <= Capacity + 1 /\ (p <= Capacity => Offers(p, index, types))
        /\ C[p - 1] <= index
    <3> HIDE DEF C, L
    <3> QED
      BY <1>5, SkippingPasses DEF C, L, p
  <2>2. CASE p > Capacity
    <3>1. Search(index, types, devices) = Undefined
      BY <1>3, <1>5, <2>2 DEF Ending, p
    <3>2. p = Capacity + 1 /\ ~(L <= Capacity) /\ Room = p - 1
      <4> HIDE DEF L
      <4> QED
        BY <1>2, <2>1, <2>2
    <3>3. C[Room] \in Nat
      <4> HIDE DEF C, L
      <4> QED
        BY <1>1, <1>2
    <3>4. ~(index < C[Room])
      <4> HIDE DEF C
      <4> QED
        BY <2>1, <3>2, <3>3
    <3> QED
      BY <3>1, <3>2, <3>4
  <2>3. CASE ~(p > Capacity)
    <3>1. p <= Capacity /\ p \in 1 .. Room /\ p \in DOMAIN platforms
      <4>1. p <= Capacity /\ p \in 1 .. Room
        <5> HIDE DEF L
        <5> QED
          BY <1>2, <2>1, <2>3
      <4> QED
        BY <2>1, <4>1, KnownIsRoom
    <3>3. s \in Seq(Devices(p, types) \cup {Undefined}) /\ Len(s) = Len(DeviceIds(p, types))
      BY <3>1 DEF Arrays
    <3>2. s # <<>> /\ index - C[p - 1] < Len(s)
      <4>1. DeviceIds(p, types) # <<>> /\ index - C[p - 1] < Len(DeviceIds(p, types))
        BY <2>1, <3>1 DEF Offers, Remaining
      <4>2. DeviceIds(p, types) \in Seq(Devices(p, types))
        BY <3>1, DeviceIdsType
      <4>3. Len(DeviceIds(p, types)) # 0
        BY <4>1, <4>2
      <4> HIDE DEF C
      <4> QED
        BY <3>3, <4>1, <4>3
    <3>4. C[p] = C[p - 1] + Len(s) /\ C[p - 1] \in Nat /\ C[p] \in Nat /\ C[Room] \in Nat
      <4>1. p - 1 \in 0 .. L /\ p \in 0 .. L /\ p \in 1 .. L /\ Room \in 0 .. L
        <5> HIDE DEF L
        <5> QED
          BY <1>2, <2>1
      <4> HIDE DEF C, L
      <4> QED
        BY <1>1, <3>3, <4>1
    <3> DEFINE k == index - C[p - 1] + 1
    <3>5. Search(index, types, devices) = s[k]
      <4>1. Search(index, types, devices) = Entry(s, index - C[p - 1])
        <5> HIDE DEF C
        <5> QED
          BY <1>3, <1>5, <2>3, <3>2 DEF Ending, Remaining, p, C
      <4>2. ~(index - C[p - 1] < 0)
        <5> HIDE DEF C
        <5> QED
          BY <2>1, <3>4
      <4> QED
        BY <4>1, <4>2 DEF Entry
    <3>6. k \in 1 .. Len(s) /\ index < C[p]
      <4>1. Len(s) \in Nat
        <5> HIDE DEF s
        <5> QED
          BY <3>3
      <4> HIDE DEF C, s
      <4> QED
        BY <2>1, <3>2, <3>4, <4>1
    <3>7. \E i \in 1 .. Len(devices[p]) : Search(index, types, devices) = devices[p][i]
      <4> HIDE DEF k
      <4> QED
        BY <3>5, <3>6
    <3>8. ListOf(devices)[index + 1] = s[k]
      <4> HIDE DEF k
      <4> QED
        BY <2>1, <3>1, <3>6, ListedPlaces DEF k
    <3>9. index < C[Room]
      <4>1. C[p] <= C[Room]
        <5>1. p \in 0 .. L /\ Room \in p .. L
          <6> HIDE DEF L
          <6> QED
            BY <1>2, <2>1, <3>1
        <5> QED
          BY <5>1, PassedGrows
      <4> HIDE DEF C
      <4> QED
        BY <3>4, <3>6, <4>1
    <3> QED
      BY <3>1, <3>5, <3>7, <3>8, <3>9
  <2> QED
    BY <2>2, <2>3
<1> QED
  BY <1>4, <1>5

(* The loop that throws at a platform without devices gives what the other *)
(* gives that has the same arrays, or no device; where no platform is      *)
(* without it does not differ.                                             *)
LEMMA ThrowingIsSearch ==
  ASSUME Attached, NEW types, NEW index \in Nat
  PROVE  /\ GetDeviceIds(index, types) \in {NoDevice, Search(index, types, Measured(types))}
         /\ (\A p \in DOMAIN platforms : DeviceIds(p, types) # <<>>) =>
              GetDeviceIds(index, types) = Search(index, types, Measured(types))
<1> DEFINE T == SkippingEnds(index, types)
           U == ThrowingEnds(index, types)
           p == Min(U)
           devices == Measured(types)
<1>1. /\ Search(index, types, Measured(types)) = Ending(T, index, types, devices)
      /\ GetDeviceIds(index, types) = Ending(U, index, types, devices)
      /\ \A q \in DOMAIN platforms : devices[q] = DeviceIds(q, types)
  BY DEF Search, GetDeviceIds, ThrowingEnds, Measured
<1> HIDE DEF devices
<1>2. CASE \A q \in DOMAIN platforms : DeviceIds(q, types) # <<>>
  <2>1. T = U
    BY <1>2 DEF SkippingEnds, ThrowingEnds
  <2> QED
    BY <1>1, <2>1
<1>3. CASE U = {}
  <2>1. GetDeviceIds(index, types) = NoDevice
    BY <1>1, <1>3 DEF Ending
  <2> QED
    BY <1>2, <2>1
<1>4. CASE U # {}
  <2>1. U \in SUBSET Nat /\ U # {}
    BY <1>4, KnownIsRoom DEF ThrowingEnds
  <2>2. p \in U /\ \A q \in U : p <= q
    <3> HIDE DEF U
    <3> QED
      BY <2>1, FirstOf
  <2>3. CASE p \in T
    <3>1. T \subseteq U /\ T \in SUBSET Nat /\ T # {}
      BY <2>3, KnownIsRoom DEF SkippingEnds, ThrowingEnds
    <3>2. Min(T) \in T /\ \A q \in T : Min(T) <= q
      <4> HIDE DEF T
      <4> QED
        BY <3>1, FirstOf
    <3>3. p = Min(T)
      <4>1. p <= Min(T) /\ Min(T) <= p /\ p \in Nat /\ Min(T) \in Nat
        <5> HIDE DEF T, U, p
        <5> QED
          BY <2>2, <2>3, <3>1, <3>2
      <4> HIDE DEF T, p
      <4> QED
        BY <4>1
    <3>4. GetDeviceIds(index, types) = Search(index, types, Measured(types))
      <4> DEFINE at(q) == IF q > Capacity THEN Undefined
                          ELSE IF devices[q] = <<>> THEN NoDevice
                          ELSE Entry(devices[q], Remaining(q, index, types))
      <4>1. Search(index, types, Measured(types)) = at(Min(T))
        <5> HIDE DEF T
        <5> QED
          BY <1>1, <3>1 DEF Ending
      <4>2. GetDeviceIds(index, types) = at(p)
        <5> HIDE DEF U
        <5> QED
          BY <1>1, <2>1 DEF Ending
      <4> HIDE DEF at, p, T
      <4> QED
        BY <3>3, <4>1, <4>2
    <3> QED
      BY <3>4
  <2>4. CASE p \notin T
    <3>1. DeviceIds(p, types) = <<>> /\ ~(p > Capacity)
      <4> HIDE DEF p
      <4> QED
        BY <2>2, <2>4 DEF SkippingEnds, ThrowingEnds
    <3>4. devices[p] = <<>>
      <4>1. p \in DOMAIN platforms
        <5> HIDE DEF p
        <5> QED
          BY <2>2 DEF ThrowingEnds
      <4> QED
        BY <1>1, <3>1, <4>1
    <3>2. GetDeviceIds(index, types) = NoDevice
      <4> HIDE DEF U
      <4> QED
        BY <1>1, <2>1, <3>1, <3>4 DEF Ending
    <3>3. ~(\A q \in DOMAIN platforms : DeviceIds(q, types) # <<>>)
      <4>1. p \in DOMAIN platforms
        <5> HIDE DEF p
        <5> QED
          BY <2>2 DEF ThrowingEnds
      <4> QED
        BY <3>1, <4>1
    <3> QED
      BY <3>2, <3>3
  <2> QED
    BY <2>3, <2>4
<1> QED
  BY <1>3, <1>4

(* A platform on its own gives an entry of its array, or no device.        *)
LEMMA PlatformEntry ==
  ASSUME Attached, NEW types, NEW devices, Arrays(devices, types),
         NEW platform \in 0 .. Capacity - 1, NEW index \in Nat,
         PlatformDevice(platform, index, devices) # NoDevice
  PROVE  /\ platform + 1 \in DOMAIN platforms /\ platform + 1 \in 1 .. Room
         /\ index + 1 \in 1 .. Len(devices[platform + 1])
         /\ PlatformDevice(platform, index, devices) = devices[platform + 1][index + 1]
<1> DEFINE p == platform + 1
           s == devices[p]
<1>1. p \in DOMAIN platforms /\ p \in 1 .. Room /\ ~(platform >= Len(platforms)) /\ platforms # <<>>
  <2>1. ~(platform >= Len(platforms)) /\ platforms # <<>>
    BY DEF PlatformDevice
  <2> QED
    BY <2>1, KnownIsRoom DEF Room
<1>2. s \in Seq(Devices(p, types) \cup {Undefined})
  BY <1>1 DEF Arrays
<1>3. PlatformDevice(platform, index, devices) = Nth(s, index)
  BY <1>1 DEF PlatformDevice
<1> HIDE DEF s
<1>4. index < Len(s) /\ PlatformDevice(platform, index, devices) = s[index + 1]
  BY <1>3 DEF Nth, Entry
<1>5. index + 1 \in 1 .. Len(s)
  <2>1. Len(s) \in Nat
    BY <1>2
  <2> QED
    BY <1>4, <2>1
<1> QED
  BY <1>1, <1>4, <1>5 DEF s

(* Where every platform is known that entry is in the list, after those of *)
(* the platforms before it.                                                *)
LEMMA PlatformPlaces ==
  ASSUME Attached, NEW types, NEW devices, Arrays(devices, types), NEW platform \in Nat,
         NEW index \in Nat, Len(platforms) <= Capacity,
         PlatformDevice(platform, index, devices) # NoDevice
  PROVE  /\ platform \in 0 .. Len(platforms) /\ Passed(types)[platform] \in Nat
         /\ PlatformDevice(platform, index, devices) =
              Search(Passed(types)[platform] + index, types, devices)
<1> DEFINE p == platform + 1
           s == devices[p]
           C == Passed(types)
           L == Len(platforms)
           place == C[platform] + index
<1>0. platform \in 0 .. Capacity - 1
  <2>1. ~(platform >= Len(platforms))
    BY DEF PlatformDevice
  <2> QED
    BY <2>1, KnownIsRoom
<1>1. /\ p \in DOMAIN platforms /\ p \in 1 .. Room /\ p \in 1 .. L /\ p \in 0 .. L
      /\ platform \in 0 .. L /\ L \in Nat /\ Room \in p .. L /\ Room \in 0 .. L /\ p - 1 = platform
  <2>1. p \in DOMAIN platforms /\ p \in 1 .. Room
    BY <1>0, PlatformEntry
  <2>2. p - 1 = platform
    OBVIOUS
  <2>3. Room \in Nat /\ Room <= L /\ L \in Nat /\ DOMAIN platforms = 1 .. L
    BY KnownIsRoom
  <2> HIDE DEF L
  <2> QED
    BY <2>1, <2>2, <2>3
<1>2. s \in Seq(Devices(p, types) \cup {Undefined}) /\ Len(s) = Len(DeviceIds(p, types))
  BY <1>1 DEF Arrays
<1>5. /\ Len(s) \in Nat /\ index + 1 \in 1 .. Len(s)
      /\ PlatformDevice(platform, index, devices) = s[index + 1]
  <2>1. index + 1 \in 1 .. Len(s) /\ PlatformDevice(platform, index, devices) = s[index + 1]
    BY <1>0, PlatformEntry
  <2> HIDE DEF s, p
  <2> QED
    BY <1>2, <2>1
<1>4. index < Len(s)
  <2> HIDE DEF s
  <2> QED
    BY <1>5
<1> HIDE DEF s
<1>6. C[p] = C[platform] + Len(s) /\ C[platform] \in Nat /\ C[p] \in Nat /\ C[Room] \in Nat
  <2>1. C[p] = C[p - 1] + Len(DeviceIds(p, types)) /\ C \in [0 .. L -> Nat]
    <3> HIDE DEF p, L
    <3> QED
      BY <1>1, PassedSteps DEF L
  <2> HIDE DEF C, p, L
  <2> QED
    BY <1>1, <1>2, <2>1
<1>7. place \in Int /\ C[p - 1] <= place /\ place < C[p] /\ place - C[p - 1] + 1 = index + 1
  <2> DEFINE c == C[platform]
  <2>1. c \in Nat /\ C[p - 1] = c /\ C[p] = c + Len(s) /\ place = c + index
    <3> HIDE DEF p, C
    <3> QED
      BY <1>1, <1>6
  <2> HIDE DEF c, C, p, place
  <2> QED
    BY <1>4, <1>5, <2>1
<1>8. ListOf(devices)[place + 1] = s[index + 1]
  <2>1. ListOf(devices)[place + 1] = devices[p][place - C[p - 1] + 1]
    <3> HIDE DEF place, p
    <3> QED
      BY <1>1, <1>7, ListedPlaces
  <2> QED
    BY <1>7, <2>1 DEF s
<1>9. place \in Nat /\ place < C[Room]
  <2>1. C[p] <= C[Room]
    <3> HIDE DEF p
    <3> QED
      BY <1>1, PassedGrows
  <2> HIDE DEF C, p
  <2> QED
    BY <1>6, <1>7, <2>1
<1>10. Search(place, types, devices) = ListOf(devices)[place + 1]
  <2> HIDE DEF place
  <2> QED
    BY <1>9, SearchIsListed
<1> QED
  BY <1>1, <1>5, <1>6, <1>8, <1>10 DEF s

(* Arrays made to measure hold devices only.                               *)
LEMMA MeasuredIsDevice ==
  ASSUME Attached, NEW types, NEW p \in DOMAIN platforms, NEW i \in 1 .. Len(Measured(types)[p])
  PROVE  Measured(types)[p][i] \in Devices(p, types)
<1>1. Measured(types)[p] = DeviceIds(p, types) /\ DeviceIds(p, types) \in Seq(Devices(p, types))
  BY DeviceIdsType DEF Measured
<1> QED
  BY <1>1

(* So do the first entries of the others.                                  *)
LEMMA FixedIsDevice ==
  ASSUME Attached, NEW types, NEW p \in DOMAIN platforms, NEW i \in 1 .. Len(Fixed(types)[p]),
         i <= DeviceRoom
  PROVE  Fixed(types)[p][i] \in Devices(p, types)
<1>1. Fixed(types)[p][i] = DeviceIds(p, types)[i] /\ Len(Fixed(types)[p]) = Len(DeviceIds(p, types))
  BY ArraysOf DEF Arrays
<1>2. DeviceIds(p, types) \in Seq(Devices(p, types))
  BY DeviceIdsType
<1>3. i \in 1 .. Len(DeviceIds(p, types))
  BY <1>1
<1> QED
  BY <1>1, <1>2, <1>3

(* A platform has no more devices of a type than it has devices.           *)
LEMMA DeviceIdsFew ==
  ASSUME Attached, NEW p \in DOMAIN platforms, NEW types
  PROVE  Len(DeviceIds(p, types)) <= Len(platforms[p])
<1>1. PICK n \in Nat : Sized(p, n)
  BY PlatformSized
<1>2. PICK ids : FoundBy(ids, p, types, n) /\ ids[n] = DeviceIds(p, types)
  BY <1>1, DeviceIdsSteps
<1> DEFINE P == {i \in 0 .. n : Len(ids[i]) <= i}
<1>3. 0 \in P
  BY <1>2 DEF FoundBy
<1>4. ASSUME NEW i \in 1 .. n, i - 1 \in P
      PROVE  i \in P
  <2> DEFINE a == ids[i - 1]
  <2>1. a \in Seq(Devices(p, types)) /\ (ids[i] = Append(a, <<p, i>>) \/ ids[i] = a)
    <3>1. i - 1 \in 0 .. n
      OBVIOUS
    <3> QED
      BY <1>2, <3>1 DEF FoundBy
  <2>2. Len(a) <= i - 1
    BY <1>4
  <2> HIDE DEF a
  <2>3. Len(a) \in Nat /\ Len(Append(a, <<p, i>>)) = Len(a) + 1
    BY <2>1
  <2>4. Len(ids[i]) <= i
    BY <2>1, <2>2, <2>3
  <2> QED
    BY <2>4
<1>5. P = 0 .. n
  <2>1. P \in SUBSET (0 .. n)
    OBVIOUS
  <2> HIDE DEF P
  <2> QED
    BY <1>3, <1>4, <2>1, IntervalInduction
<1>6. n \in P
  <2> HIDE DEF P
  <2> QED
    BY <1>5
<1> QED
  BY <1>1, <1>2, <1>6 DEF Sized

(* With room for every device the arrays are the same.                     *)
LEMMA RoomyFixed ==
  ASSUME Attached, Roomy, NEW types
  PROVE  Fixed(types) = Measured(types)
<1>1. ASSUME NEW p \in DOMAIN platforms
      PROVE  Fixed(types)[p] = DeviceIds(p, types)
  <2> DEFINE s == DeviceIds(p, types)
             n == Len(s)
  <2>1. s \in Seq(Devices(p, types))
    BY DeviceIdsType
  <2>2. n \in Nat /\ n <= DeviceRoom
    <3>1. n <= Len(platforms[p]) /\ Len(platforms[p]) <= DeviceRoom
      BY DeviceIdsFew DEF Roomy
    <3>2. Len(platforms[p]) \in Nat /\ n \in Nat /\ DeviceRoom \in Nat
      <4>1. platforms[p] \in Seq(Kinds)
        BY DEF Attached
      <4>2. n \in Nat
        <5> HIDE DEF s
        <5> QED
          BY <2>1
      <4> QED
        BY <4>1, <4>2, IndexAssumption
    <3> HIDE DEF n
    <3> QED
      BY <3>1, <3>2
  <2>3. Fixed(types)[p] = [i \in DOMAIN s |-> IF i <= DeviceRoom THEN s[i] ELSE Undefined]
    BY DEF Fixed
  <2> HIDE DEF s
  <2>4. s = [i \in 1 .. n |-> s[i]] /\ DOMAIN s = 1 .. n
    BY <2>1
  <2>5. \A i \in 1 .. n : i <= DeviceRoom
    <3>1. DeviceRoom \in Nat
      BY IndexAssumption
    <3> HIDE DEF n
    <3> QED
      BY <2>2, <3>1
  <2> HIDE DEF n
  <2>6. Fixed(types)[p] = [i \in 1 .. n |-> s[i]]
    BY <2>3, <2>4, <2>5
  <2> QED
    BY <2>4, <2>6 DEF s
<1>2. Fixed(types) = [p \in DOMAIN platforms |-> Fixed(types)[p]]
  BY DEF Fixed
<1> QED
  BY <1>1, <1>2 DEF Measured

(* What is found with the arrays of fixed size is what is found with the   *)
(* others, or an entry nothing has filled.                                 *)
LEMMA FixedOrUndefined ==
  ASSUME Attached, NEW types, NEW index \in Nat
  PROVE  Search(index, types, Fixed(types)) \in {Search(index, types, Measured(types)), Undefined}
<1> DEFINE T == SkippingEnds(index, types)
           p == Min(T)
           f == Fixed(types)
           m == Measured(types)
           k == Remaining(p, index, types)
<1>0. Arrays(f, types) /\ Arrays(m, types) /\ \A q \in DOMAIN platforms : m[q] = DeviceIds(q, types)
  BY ArraysOf
<1> HIDE DEF f, m
<1>1. CASE T = {}
  BY <1>1 DEF Search, Ending
<1>2. CASE T # {} /\ p > Capacity
  BY <1>2 DEF Search, Ending
<1>3. CASE T # {} /\ ~(p > Capacity)
  <2>1. /\ p \in DOMAIN platforms /\ Offers(p, index, types)
        /\ Passed(types)[p - 1] <= index /\ Passed(types)[p - 1] \in Nat
    <3>1. /\ p \in 1 .. Len(platforms) /\ (p <= Capacity => Offers(p, index, types))
          /\ Passed(types)[p - 1] <= index
      BY <1>3, SkippingPasses
    <3> HIDE DEF p
    <3>2. p \in DOMAIN platforms /\ p <= Capacity /\ p - 1 \in 0 .. Len(platforms)
      BY <1>3, <3>1, KnownIsRoom
    <3> QED
      BY <3>1, <3>2, PassedSteps
  <2>2. DeviceIds(p, types) # <<>> /\ k < Len(DeviceIds(p, types)) /\ k \in Nat
    <3> HIDE DEF p
    <3> QED
      BY <2>1 DEF Offers, Remaining
  <2>3. /\ f[p] \in Seq(Devices(p, types) \cup {Undefined}) /\ Len(f[p]) = Len(m[p])
        /\ m[p] = DeviceIds(p, types) /\ m[p] \in Seq(Devices(p, types) \cup {Undefined})
        /\ \A i \in 1 .. Len(f[p]) : f[p][i] \in {m[p][i], Undefined}
    <3> HIDE DEF p
    <3> QED
      BY <1>0, <2>1 DEF Arrays
  <2>4. k + 1 \in 1 .. Len(f[p]) /\ f[p] # <<>> /\ m[p] # <<>>
    <3> DEFINE n == Len(f[p])
    <3>1. n \in Nat /\ k < n
      <4> HIDE DEF k, p
      <4> QED
        BY <2>2, <2>3
    <3>2. m[p] # <<>> /\ Len(m[p]) # 0
      <4> HIDE DEF k, p
      <4> QED
        BY <2>2, <2>3
    <3> HIDE DEF k, p
    <3> QED
      BY <2>2, <2>3, <3>1, <3>2
  <2>5. Entry(f[p], k) = f[p][k + 1] /\ Entry(m[p], k) = m[p][k + 1]
    <3> HIDE DEF k, p
    <3> QED
      BY <2>2 DEF Entry
  <2>6. Search(index, types, f) = Entry(f[p], k) /\ Search(index, types, m) = Entry(m[p], k)
    <3> HIDE DEF T
    <3> QED
      BY <1>3, <2>4 DEF Search, Ending, T
  <2> HIDE DEF k, p
  <2> QED
    BY <2>3, <2>4, <2>5, <2>6 DEF f, m
<1> QED
  BY <1>1, <1>2, <1>3

(* The last call was given what it asks for, and nothing else changes.     *)
Answered ==
  LET index == chosen.index
      platform == chosen.platform
      device == chosen.device
  IN  \/ chosen.call = "none" /\ device = NoDevice
      \/ /\ chosen.call = "createForFirstGpuOtherwiseCpu" /\ index = 0
         /\ device = CreateForFirstGpuOtherwiseCpu
      \/ chosen.call = "createForIndexedGpu" /\ device = CreateForIndexedGpu(index)
      \/ chosen.call = "createForIndexedDevice" /\ device = CreateForIndexedDevice(index)
      \/ chosen.call = "getGpuInfo" /\ device = GetIdForIndexedGpu(index)
      \/ chosen.call = "getDeviceInfo" /\ device = GetIdForIndexedDevice(index)
      \/ chosen.call = "gpu" /\ device = InitGpu(index)
      \/ /\ chosen.call = "createForPlatformDeviceIndexes"
         /\ device = CreateForPlatformDeviceIndexes(platform, index)
      \/ /\ chosen.call = "getIdForIndexedPlatformDevice"
         /\ device = GetIdForIndexedPlatformDevice(platform, index, chosen.types)

DeviceInv ==
  /\ platforms \in Configurations
  /\ gpuOffset \in -MaxOffset .. MaxOffset
  /\ chosen.index \in -1 .. MaxIndex /\ chosen.platform \in -1 .. MaxPlatforms
  /\ Answered

(* What the calls answer depends on the platforms and the offset alone.    *)
LEMMA AnswersStay ==
  ASSUME UNCHANGED <<platforms, gpuOffset>>
  PROVE  /\ CreateForFirstGpuOtherwiseCpu' = CreateForFirstGpuOtherwiseCpu
         /\ \A index :
              /\ CreateForIndexedGpu(index)' = CreateForIndexedGpu(index)
              /\ CreateForIndexedDevice(index)' = CreateForIndexedDevice(index)
              /\ GetIdForIndexedGpu(index)' = GetIdForIndexedGpu(index)
              /\ GetIdForIndexedDevice(index)' = GetIdForIndexedDevice(index)
              /\ InitGpu(index)' = InitGpu(index)
         /\ \A platform, index :
              /\ CreateForPlatformDeviceIndexes(platform, index)'
                   = CreateForPlatformDeviceIndexes(platform, index)
              /\ \A types : GetIdForIndexedPlatformDevice(platform, index, types)'
                              = GetIdForIndexedPlatformDevice(platform, index, types)
<1>0. ASSUME NEW types
      PROVE  /\ Measured(types)' = Measured(types) /\ Fixed(types)' = Fixed(types)
             /\ Passed(types)' = Passed(types)
             /\ \A p : DeviceIds(p, types)' = DeviceIds(p, types)
  BY SMT DEF Measured, Fixed, Passed, DeviceIds
<1>1. ASSUME NEW index, NEW types
      PROVE  Skipping(index, types)' = Skipping(index, types)
  <2> DEFINE T == SkippingEnds(index, types)
  <2>1. T' = T
    BY <1>0, SMT DEF SkippingEnds, Offers, Remaining
  <2>2. Skipping(index, types)' = Ending(T, index, types, Fixed(types))'
    BY DEF Skipping, SkippingEnds
  <2>3. Skipping(index, types) = Ending(T, index, types, Fixed(types))
    BY DEF Skipping, SkippingEnds
  <2> HIDE DEF T
  <2>4. Ending(T, index, types, Fixed(types))' = Ending(T, index, types, Fixed(types))
    BY <1>0, <2>1, SMT DEF Ending, Remaining, Entry, Min
  <2> QED
    BY <2>2, <2>3, <2>4
<1>2. ASSUME NEW index, NEW types
      PROVE  GetDeviceIds(index, types)' = GetDeviceIds(index, types)
  <2> DEFINE T == ThrowingEnds(index, types)
  <2>1. T' = T
    BY <1>0, SMT DEF ThrowingEnds, Offers, Remaining
  <2>2. GetDeviceIds(index, types)' = Ending(T, index, types, Measured(types))'
    BY DEF GetDeviceIds, ThrowingEnds
  <2>3. GetDeviceIds(index, types) = Ending(T, index, types, Measured(types))
    BY DEF GetDeviceIds, ThrowingEnds
  <2> HIDE DEF T
  <2>4. Ending(T, index, types, Measured(types))' = Ending(T, index, types, Measured(types))
    BY <1>0, <2>1, SMT DEF Ending, Remaining, Entry, Min
  <2> QED
    BY <2>2, <2>3, <2>4
<1>4. ASSUME NEW index
      PROVE  CreateForIndexedGpu(index)' = CreateForIndexedGpu(index)
  BY <1>1 DEF CreateForIndexedGpu
<1>5. ASSUME NEW platform, NEW index
      PROVE  CreateForPlatformDeviceIndexes(platform, index)'
               = CreateForPlatformDeviceIndexes(platform, index)
  BY <1>0, SMT DEF CreateForPlatformDeviceIndexes, PlatformDevice, Nth, Entry
<1>6. ASSUME NEW index
      PROVE  InitGpu(index)' = InitGpu(index)
  BY <1>0, SMT DEF InitGpu, PlatformDevice, Nth, Entry
<1>7. ASSUME NEW platform, NEW index, NEW types
      PROVE  GetIdForIndexedPlatformDevice(platform, index, types)'
               = GetIdForIndexedPlatformDevice(platform, index, types)
  BY <1>0, SMT DEF GetIdForIndexedPlatformDevice, PlatformDevice, Nth, Entry
<1>8. CreateForFirstGpuOtherwiseCpu' = CreateForFirstGpuOtherwiseCpu
  BY <1>4, <1>5 DEF CreateForFirstGpuOtherwiseCpu
<1> QED
  BY <1>1, <1>2, <1>4, <1>5, <1>6, <1>7, <1>8
     DEF CreateForIndexedDevice, GetIdForIndexedGpu, GetIdForIndexedDevice

(* No call was made.                                                       *)
LEMMA DeviceInitInv == DeviceInit => DeviceInv
<1> SUFFICES ASSUME DeviceInit
             PROVE  DeviceInv
  OBVIOUS
<1>1. 0 \in -1 .. MaxIndex /\ 0 \in -1 .. MaxPlatforms
  BY IndexAssumption
<1> QED
  BY <1>1 DEF DeviceInit, DeviceInv, Answered

(* Every call is answered from the platforms, which stay.                  *)
LEMMA DeviceNextInv == DeviceInv /\ [DeviceNext]_indexVars => DeviceInv'
<1> SUFFICES ASSUME DeviceInv, [DeviceNext]_indexVars
             PROVE  DeviceInv'
  OBVIOUS
<1>1. UNCHANGED <<platforms, gpuOffset>>
  BY DEF DeviceNext, Call, PlatformCall, indexVars
<1>2. (platforms \in Configurations)' /\ (gpuOffset \in -MaxOffset .. MaxOffset)'
  BY <1>1 DEF DeviceInv, Configurations
<1>3. CASE UNCHANGED indexVars
  <2>1. chosen' = chosen
    BY <1>3 DEF indexVars
  <2>2. Answered'
    BY <1>1, <2>1, AnswersStay DEF DeviceInv, Answered, NoDevice
  <2> QED
    BY <1>2, <2>1, <2>2 DEF DeviceInv
<1>4. ASSUME NEW index \in -1 .. MaxIndex, NEW platform \in -1 .. MaxPlatforms,
             NEW function, NEW types, NEW device,
             PlatformCall(function, platform, types, index, device),
             \/ /\ function = "createForFirstGpuOtherwiseCpu" /\ index = 0
                /\ device = CreateForFirstGpuOtherwiseCpu
             \/ function = "createForIndexedGpu" /\ device = CreateForIndexedGpu(index)
             \/ function = "createForIndexedDevice" /\ device = CreateForIndexedDevice(index)
             \/ function = "getGpuInfo" /\ device = GetIdForIndexedGpu(index)
             \/ function = "getDeviceInfo" /\ device = GetIdForIndexedDevice(index)
             \/ function = "gpu" /\ device = InitGpu(index)
             \/ /\ function = "createForPlatformDeviceIndexes"
                /\ device = CreateForPlatformDeviceIndexes(platform, index)
             \/ /\ function = "getIdForIndexedPlatformDevice"
                /\ device = GetIdForIndexedPlatformDevice(platform, index, types)
      PROVE  DeviceInv'
  <2>1. /\ chosen'.call = function /\ chosen'.index = index /\ chosen'.device = device
        /\ chosen'.platform = platform /\ chosen'.types = types
    BY <1>4 DEF PlatformCall
  <2>2. Answered'
    BY <1>1, <1>4, <2>1, AnswersStay DEF Answered
  <2> QED
    BY <1>2, <2>1, <2>2 DEF DeviceInv
<1>5. CASE DeviceNext
  <2>1. 0 \in -1 .. MaxIndex /\ 0 \in -1 .. MaxPlatforms
    BY IndexAssumption
  <2> QED
    BY <1>4, <1>5, <2>1 DEF DeviceNext, Call
<1> QED
  BY <1>3, <1>5

(* So the answers are always the last call's.                              *)
LEMMA DeviceInvariant == DeviceSpec => []DeviceInv
  BY DeviceInitInv, DeviceNextInv, PTL DEF DeviceSpec

(* What the loops give, in the words of the properties.                    *)
LEMMA SkippingAnswers ==
  ASSUME Attached, NEW types, NEW index \in Nat
  PROVE  /\ Len(Listed(types)) \in Nat /\ GetNumDevices(types) = Len(Listed(types))
         /\ Len(platforms) <= Capacity => Skipping(index, types) = Nth(Listed(types), index)
         /\ index < Len(Listed(types)) =>
              /\ Skipping(index, types) = Listed(types)[index + 1]
              /\ Skipping(index, types) # NoDevice
              /\ Roomy => \E p \in DOMAIN platforms : Skipping(index, types) \in Devices(p, types)
         /\ ~(index < Len(Listed(types))) =>
              Skipping(index, types) = IF Len(platforms) <= Capacity THEN NoDevice ELSE Undefined
<1> DEFINE f == Fixed(types)
<1>0. Arrays(f, types)
  BY ArraysOf
<1>1. /\ Len(Listed(types)) = Passed(types)[Room] /\ GetNumDevices(types) = Passed(types)[Room]
      /\ Listed(types) = ListOf(f) /\ Skipping(index, types) = Search(index, types, f)
  <2>1. Listed(types) = ListOf(f) /\ Skipping(index, types) = Search(index, types, f)
    BY DEF Listed, ListOf, Skipping, Search, SkippingEnds
  <2> HIDE DEF f
  <2> QED
    BY <1>0, <2>1, ListedPlaces, NumDevicesCounts
<1>2. Passed(types)[Room] \in Nat
  <2>1. Room \in 0 .. Len(platforms)
    BY KnownIsRoom
  <2> QED
    BY <2>1, PassedSteps
<1>3. /\ index < Len(Listed(types)) =>
           /\ Skipping(index, types) = Listed(types)[index + 1]
           /\ \E p \in DOMAIN platforms : \E i \in 1 .. Len(f[p]) : Skipping(index, types) = f[p][i]
      /\ ~(index < Len(Listed(types))) =>
           Skipping(index, types) = IF Len(platforms) <= Capacity THEN NoDevice ELSE Undefined
  <2> HIDE DEF f
  <2> QED
    BY <1>0, <1>1, SearchIsListed
<1>4. ASSUME index < Len(Listed(types))
      PROVE  /\ Skipping(index, types) # NoDevice
             /\ Roomy => \E p \in DOMAIN platforms : Skipping(index, types) \in Devices(p, types)
  <2>0. PICK p \in DOMAIN platforms : \E i \in 1 .. Len(f[p]) : Skipping(index, types) = f[p][i]
    BY <1>3, <1>4
  <2>1. PICK i \in 1 .. Len(f[p]) : Skipping(index, types) = f[p][i]
    BY <2>0
  <2>2. f[p][i] \in Devices(p, types) \cup {Undefined}
    <3>1. f[p] \in Seq(Devices(p, types) \cup {Undefined})
      <4> HIDE DEF f
      <4> QED
        BY <1>0 DEF Arrays
    <3> HIDE DEF f
    <3> QED
      BY <3>1
  <2>3. NoDevice # Undefined
    BY DEF NoDevice, Undefined
  <2>4. Roomy => f[p][i] \in Devices(p, types)
    BY RoomyFixed, MeasuredIsDevice
  <2> HIDE DEF f
  <2> QED
    BY <2>1, <2>2, <2>3, <2>4, DeviceIsDevice
<1>5. ~(index < 0)
  OBVIOUS
<1>6. Len(platforms) <= Capacity => Skipping(index, types) = Nth(Listed(types), index)
  BY <1>3, <1>5 DEF Nth, Entry
<1> QED
  BY <1>1, <1>2, <1>3, <1>4, <1>6

(* The same of DevicesInfo's.                                              *)
LEMMA ThrowingAnswers ==
  ASSUME Attached, NEW types, NEW index \in Nat
  PROVE  /\ GetDeviceIds(index, types) # NoDevice =>
              Skipping(index, types) \in {GetDeviceIds(index, types), Undefined}
         /\ GetDeviceIds(index, types) = Undefined => ~(index < Len(Listed(types)))
         /\ (\A p \in DOMAIN platforms : DeviceIds(p, types) # <<>>) /\ Len(platforms) <= Capacity =>
              (index < Len(Listed(types)) <=> GetDeviceIds(index, types) \notin {NoDevice, Undefined})
<1> DEFINE m == Measured(types)
           found == Search(index, types, m)
<1>1. Skipping(index, types) \in {found, Undefined}
  BY FixedOrUndefined DEF Skipping, Search, SkippingEnds
<1>2. /\ GetDeviceIds(index, types) \in {NoDevice, found}
      /\ (\A p \in DOMAIN platforms : DeviceIds(p, types) # <<>>) =>
           GetDeviceIds(index, types) = found
  BY ThrowingIsSearch
<1>3. Len(Listed(types)) = Passed(types)[Room]
  <2>1. Listed(types) = ListOf(Fixed(types))
    BY DEF Listed, ListOf
  <2> QED
    BY <2>1, ListedPlaces, ArraysOf
<1>4. NoDevice # Undefined
  BY DEF NoDevice, Undefined
<1>5. index < Len(Listed(types)) => found \notin {NoDevice, Undefined}
  <2> SUFFICES ASSUME index < Len(Listed(types))
               PROVE  found \notin {NoDevice, Undefined}
    OBVIOUS
  <2>0. PICK p \in DOMAIN platforms : \E i \in 1 .. Len(m[p]) : found = m[p][i]
    <3>1. Arrays(m, types) /\ index < Passed(types)[Room]
      BY <1>3, ArraysOf
    <3> HIDE DEF m
    <3> QED
      BY <3>1, SearchIsListed
  <2>1. PICK i \in 1 .. Len(m[p]) : found = m[p][i]
    BY <2>0
  <2>2. m[p][i] \in Devices(p, types)
    BY MeasuredIsDevice
  <2> QED
    BY <2>1, <2>2, DeviceIsDevice
<1>6. ~(index < Len(Listed(types))) /\ Len(platforms) <= Capacity => found = NoDevice
  BY <1>3, SearchIsListed, ArraysOf
<1> HIDE DEF found
<1> QED
  BY <1>1, <1>2, <1>4, <1>5, <1>6

(* The parts that are used below.                                          *)
LEMMA DeviceInvTypes ==
  ASSUME DeviceInv
  PROVE  /\ Attached /\ gpuOffset \in Int /\ chosen.index \in Int /\ chosen.platform \in Int
         /\ NoDevice # Undefined
<1>1. Attached
  <2>1. \A S, m : BoundedSeq(S, m) \subseteq Seq(S)
    BY DEF BoundedSeq, SeqOf
  <2>2. platforms \in Seq(BoundedSeq(Kinds, MaxDevices))
    BY <2>1 DEF DeviceInv, Configurations
  <2>3. \A i \in 1 .. Len(platforms) : platforms[i] \in Seq(Kinds)
    BY <2>1, <2>2
  <2> QED
    BY <2>2, <2>3 DEF Attached
<1>2. gpuOffset \in Int
  BY IndexAssumption DEF DeviceInv
<1>3. -1 .. MaxIndex \in SUBSET Int /\ -1 .. MaxPlatforms \in SUBSET Int
  BY IndexAssumption
<1>4. NoDevice # Undefined
  BY DEF NoDevice, Undefined
<1> QED
  BY <1>1, <1>2, <1>3, <1>4 DEF DeviceInv

(* A given index means the device at that place in the list.               *)
LEMMA ListedOfInv ==
  ASSUME DeviceInv
  PROVE  IndexedIsListed
<1>1. Attached
  BY DeviceInvTypes
<1> SUFFICES ASSUME Regular
             PROVE  IndexedIsListed
  BY DEF IndexedIsListed
<1>2. Position \in Nat /\ Len(platforms) <= Capacity
  BY DeviceInvTypes DEF Regular, Position
<1>3. CASE chosen.call = "createForIndexedGpu"
  <2>1. chosen.device = Skipping(Position, "gpu")
    BY <1>3 DEF DeviceInv, Answered, CreateForIndexedGpu, Position
  <2> QED
    BY <1>1, <1>2, <1>3, <2>1, SkippingAnswers DEF IndexedIsListed
<1>4. CASE chosen.call = "createForIndexedDevice"
  <2>1. chosen.device = Skipping(Position, "all")
    BY <1>4 DEF DeviceInv, Answered, CreateForIndexedDevice, Position
  <2> QED
    BY <1>1, <1>2, <1>4, <2>1, SkippingAnswers DEF IndexedIsListed
<1> QED
  BY <1>3, <1>4 DEF IndexedIsListed

(* What is counted is opened and nothing else.                             *)
LEMMA CountedOfInv ==
  ASSUME DeviceInv
  PROVE  CountedIsOpened
<1>1. Attached /\ gpuOffset \in Int /\ chosen.index \in Int /\ NoDevice # Undefined
  BY DeviceInvTypes
<1> SUFFICES ASSUME Regular
             PROVE  CountedIsOpened
  BY DEF CountedIsOpened
<1> DEFINE index == chosen.index
<1>2. index \in Nat /\ Position \in Nat /\ Len(platforms) <= Capacity
  BY <1>1 DEF Regular, Position
<1>3. ASSUME NEW types
      PROVE  Roomy => Skipping(Position, types) # Undefined
  <2> SUFFICES ASSUME Roomy
               PROVE  Skipping(Position, types) # Undefined
    OBVIOUS
  <2>1. CASE Position < Len(Listed(types))
    <3>1. PICK p \in DOMAIN platforms : Skipping(Position, types) \in Devices(p, types)
      BY <1>1, <1>2, <2>1, SkippingAnswers
    <3> QED
      BY <1>1, <3>1, DeviceIsDevice
  <2>2. CASE ~(Position < Len(Listed(types)))
    BY <1>1, <1>2, <2>2, SkippingAnswers
  <2> QED
    BY <2>1, <2>2
<1>4. ASSUME chosen.call \in {"createForIndexedGpu", "getGpuInfo"}
      PROVE  index < GetNumGpus <=> Position < Len(Listed("gpu"))
  <2> DEFINE n == GetNumDevices("gpu")
  <2>1. n \in Nat /\ n = Len(Listed("gpu"))
    BY <1>1, <1>2, SkippingAnswers
  <2>2. Position = index + gpuOffset
    BY <1>4 DEF Position
  <2>3. GetNumGpus = IF n - gpuOffset < 0 THEN 0 ELSE n - gpuOffset
    BY DEF GetNumGpus
  <2> HIDE DEF n, index
  <2>4. index < GetNumGpus <=> Position < n
    BY <1>1, <1>2, <2>1, <2>2, <2>3 DEF index
  <2> QED
    BY <2>1, <2>4 DEF index
<1>5. CASE chosen.call = "createForIndexedGpu"
  <2>1. chosen.device = Skipping(Position, "gpu")
    BY <1>5 DEF DeviceInv, Answered, CreateForIndexedGpu, Position
  <2>2. Position < Len(Listed("gpu")) <=> Skipping(Position, "gpu") # NoDevice
    BY <1>1, <1>2, SkippingAnswers
  <2> QED
    BY <1>3, <1>4, <1>5, <2>1, <2>2 DEF CountedIsOpened
<1>6. CASE chosen.call = "createForIndexedDevice"
  <2>1. chosen.device = Skipping(Position, "all") /\ Position = index
    BY <1>6 DEF DeviceInv, Answered, CreateForIndexedDevice, Position
  <2>2. Position < GetNumDevices("all") <=> Skipping(Position, "all") # NoDevice
    BY <1>1, <1>2, SkippingAnswers
  <2> QED
    BY <1>3, <1>6, <2>1, <2>2 DEF CountedIsOpened
<1>7. CASE chosen.call = "getGpuInfo"
  <2>1. chosen.device = GetDeviceIds(Position, "gpu")
    BY <1>7 DEF DeviceInv, Answered, GetIdForIndexedGpu, Position
  <2>2. (\A p \in DOMAIN platforms : DeviceIds(p, "gpu") # <<>>) =>
          (Position < Len(Listed("gpu")) <=> chosen.device \notin {NoDevice, Undefined})
    BY <1>1, <1>2, <2>1, ThrowingAnswers
  <2> QED
    BY <1>4, <1>7, <2>2 DEF CountedIsOpened
<1> QED
  BY <1>5, <1>6, <1>7 DEF CountedIsOpened

(* Loops that agree where they stop agree on the device.                   *)
LEMMA OneDeviceOfInv ==
  ASSUME DeviceInv
  PROVE  IndexMeansOneDevice
<1>1. Attached /\ gpuOffset \in Int /\ chosen.index \in Int /\ chosen.platform \in Int
  BY DeviceInvTypes
<1> SUFFICES ASSUME Regular, chosen.device # NoDevice
             PROVE  IndexMeansOneDevice
  BY DEF IndexMeansOneDevice
<1> DEFINE index == chosen.index
           platform == chosen.platform
<1>2. /\ index \in Nat /\ platform \in Nat /\ Position \in Nat /\ Len(platforms) <= Capacity
  BY <1>1 DEF Regular, Position
<1>3. CASE chosen.call = "getGpuInfo"
  <2>1. chosen.device = GetDeviceIds(Position, "gpu") /\ Position = index + gpuOffset
    BY <1>3 DEF DeviceInv, Answered, GetIdForIndexedGpu, Position
  <2>2. CreateForIndexedGpu(index) \in {chosen.device, Undefined}
    BY <1>1, <1>2, <2>1, ThrowingAnswers DEF CreateForIndexedGpu
  <2> QED
    BY <1>3, <2>2 DEF IndexMeansOneDevice
<1>4. CASE chosen.call = "getDeviceInfo"
  <2>1. chosen.device = GetDeviceIds(index, "all")
    BY <1>4 DEF DeviceInv, Answered, GetIdForIndexedDevice
  <2>2. CreateForIndexedDevice(index) \in {chosen.device, Undefined}
    BY <1>1, <1>2, <2>1, ThrowingAnswers DEF CreateForIndexedDevice
  <2> QED
    BY <1>4, <2>2 DEF IndexMeansOneDevice
<1>5. CASE chosen.call = "gpu" /\ gpuOffset = 0
  <2>1. chosen.device = PlatformDevice(0, index, Measured("gpu"))
    BY <1>5 DEF DeviceInv, Answered, InitGpu
  <2>2. chosen.device = Search(Passed("gpu")[0] + index, "gpu", Measured("gpu"))
    <3>1. 0 \in Nat /\ Arrays(Measured("gpu"), "gpu")
      BY <1>1, ArraysOf
    <3> HIDE DEF index
    <3> QED
      BY <1>1, <1>2, <2>1, <3>1, PlatformPlaces
  <2>3. Passed("gpu")[0] + index = index /\ index + gpuOffset = index
    <3>1. Passed("gpu")[0] = 0
      BY <1>1, PassedSteps
    <3> HIDE DEF index
    <3> QED
      BY <1>2, <1>5, <3>1
  <2>4. CreateForIndexedGpu(index) = Search(index, "gpu", Fixed("gpu"))
    BY <2>3 DEF CreateForIndexedGpu, Skipping, Search, SkippingEnds
  <2>5. CreateForIndexedGpu(index) \in {chosen.device, Undefined}
    <3> HIDE DEF index
    <3> QED
      BY <1>1, <1>2, <2>2, <2>3, <2>4, FixedOrUndefined
  <2> QED
    BY <1>5, <2>5 DEF IndexMeansOneDevice
<1>6. CASE chosen.call = "getIdForIndexedPlatformDevice" /\ chosen.types = "all"
  <2>1. chosen.device = CreateForPlatformDeviceIndexes(platform, index)
    BY <1>6 DEF DeviceInv, Answered, GetIdForIndexedPlatformDevice, CreateForPlatformDeviceIndexes
  <2> QED
    BY <1>6, <2>1 DEF IndexMeansOneDevice
<1>7. CASE chosen.call = "createForPlatformDeviceIndexes"
  <2>1. chosen.device = PlatformDevice(platform, index, Fixed("all"))
    BY <1>7 DEF DeviceInv, Answered, CreateForPlatformDeviceIndexes
  <2>2. chosen.device = Search(Passed("all")[platform] + index, "all", Fixed("all"))
    <3>1. Arrays(Fixed("all"), "all")
      BY <1>1, ArraysOf
    <3> HIDE DEF index, platform
    <3> QED
      BY <1>1, <1>2, <2>1, <3>1, PlatformPlaces
  <2>3. chosen.device = CreateForIndexedDevice(Passed("all")[platform] + index)
    BY <2>2 DEF CreateForIndexedDevice, Skipping, Search, SkippingEnds
  <2> QED
    BY <1>7, <2>3 DEF IndexMeansOneDevice
<1> QED
  BY <1>3, <1>4, <1>5, <1>6, <1>7 DEF IndexMeansOneDevice

(* A device of a platform is undefined only beyond what there is room for. *)
LEMMA PlatformUndefined ==
  ASSUME Attached, NEW types, NEW platform \in 0 .. Capacity - 1, NEW index \in Nat
  PROVE  /\ PlatformDevice(platform, index, Measured(types)) # Undefined
         /\ PlatformDevice(platform, index, Fixed(types)) = Undefined => index >= DeviceRoom
<1>1. NoDevice # Undefined
  BY DEF NoDevice, Undefined
<1>2. PlatformDevice(platform, index, Measured(types)) # Undefined
  <2> SUFFICES ASSUME PlatformDevice(platform, index, Measured(types)) = Undefined
               PROVE  FALSE
    OBVIOUS
  <2>1. /\ platform + 1 \in DOMAIN platforms
        /\ index + 1 \in 1 .. Len(Measured(types)[platform + 1])
        /\ Undefined = Measured(types)[platform + 1][index + 1]
    BY <1>1, ArraysOf, PlatformEntry
  <2> QED
    BY <2>1, MeasuredIsDevice, DeviceIsDevice
<1>3. ASSUME PlatformDevice(platform, index, Fixed(types)) = Undefined, ~(index >= DeviceRoom)
      PROVE  FALSE
  <2>1. /\ platform + 1 \in DOMAIN platforms
        /\ index + 1 \in 1 .. Len(Fixed(types)[platform + 1])
        /\ Undefined = Fixed(types)[platform + 1][index + 1]
    BY <1>1, <1>3, ArraysOf, PlatformEntry
  <2>2. index + 1 <= DeviceRoom
    BY <1>3, IndexAssumption
  <2> QED
    BY <2>1, <2>2, FixedIsDevice, DeviceIsDevice
<1> QED
  BY <1>2, <1>3

(* A search for a device there is room for ends before what is undefined.  *)
LEMMA KnownOfInv ==
  ASSUME DeviceInv
  PROVE  KnownDevicesReached
<1>1. /\ Attached /\ gpuOffset \in Int /\ chosen.index \in Int /\ chosen.platform \in Int
      /\ NoDevice # Undefined /\ Capacity \in Nat \ {0} /\ DeviceRoom \in Nat \ {0}
  BY DeviceInvTypes, IndexAssumption
<1> SUFFICES ASSUME chosen.device = Undefined
             PROVE  KnownDevicesReached
  BY DEF KnownDevicesReached
<1> DEFINE index == chosen.index
           platform == chosen.platform
<1>2. ASSUME chosen.call = "getIdForIndexedPlatformDevice"
      PROVE  platform >= Capacity \/ index >= DeviceRoom
  <2> SUFFICES ASSUME ~(platform >= Capacity)
               PROVE  index >= DeviceRoom
    OBVIOUS
  <2>1. GetIdForIndexedPlatformDevice(platform, index, chosen.types) = Undefined
    BY <1>2 DEF DeviceInv, Answered
  <2>2. ~(platform < 0 \/ (platform < Capacity /\ index < 0))
    BY <1>1, <2>1 DEF GetIdForIndexedPlatformDevice
  <2>3. PlatformDevice(platform, index, Fixed(chosen.types)) = Undefined
    BY <2>1, <2>2 DEF GetIdForIndexedPlatformDevice
  <2>4. platform \in 0 .. Capacity - 1 /\ index \in Nat
    BY <1>1, <2>2
  <2> QED
    BY <1>1, <2>3, <2>4, PlatformUndefined
<1>3. ASSUME chosen.call = "createForPlatformDeviceIndexes", Position >= 0
      PROVE  platform \notin 0 .. Capacity - 1 \/ index >= DeviceRoom
  <2> SUFFICES ASSUME platform \in 0 .. Capacity - 1
               PROVE  index >= DeviceRoom
    OBVIOUS
  <2>1. PlatformDevice(platform, index, Fixed("all")) = Undefined
    BY <1>3 DEF DeviceInv, Answered, CreateForPlatformDeviceIndexes
  <2>2. index \in Nat
    BY <1>1, <1>3 DEF Position
  <2> QED
    BY <1>1, <2>1, <2>2, PlatformUndefined
<1>4. ASSUME Position >= 0
      PROVE  chosen.call # "gpu"
  <2> SUFFICES ASSUME chosen.call = "gpu"
               PROVE  FALSE
    OBVIOUS
  <2>1. PlatformDevice(0, index, Measured("gpu")) = Undefined /\ index \in Nat
    BY <1>1, <1>4 DEF DeviceInv, Answered, InitGpu, Position
  <2>2. 0 \in 0 .. Capacity - 1
    BY <1>1
  <2> QED
    BY <1>1, <2>1, <2>2, PlatformUndefined
<1>5. Position \in Int
  BY <1>1 DEF Position
<1>6. ASSUME Position >= 0, NEW types, Skipping(Position, types) = Undefined
      PROVE  Beyond(types) /\ (Position >= Len(Listed(types)) => Len(platforms) > Capacity)
  <2>1. Position \in Nat
    BY <1>5, <1>6
  <2>2. Beyond(types)
    BY <1>1, <1>6, <2>1, SkippingAnswers DEF Beyond
  <2>3. Position >= Len(Listed(types)) => ~(Len(platforms) <= Capacity)
    BY <1>1, <1>6, <2>1, SkippingAnswers
  <2>4. Len(platforms) \in Nat
    BY <1>1, KnownIsRoom
  <2> QED
    BY <1>1, <2>2, <2>3, <2>4
<1>7. ASSUME Position >= 0, NEW types, GetDeviceIds(Position, types) = Undefined
      PROVE  Position >= Len(Listed(types))
  <2>1. Position \in Nat /\ ~(Position < Len(Listed(types))) /\ Len(Listed(types)) \in Nat
    BY <1>1, <1>5, <1>7, ThrowingAnswers, SkippingAnswers
  <2> QED
    BY <2>1
<1>8. ASSUME Position >= 0, chosen.call = "createForIndexedGpu"
      PROVE  Beyond("gpu")
  <2>1. Skipping(Position, "gpu") = Undefined
    BY <1>8 DEF DeviceInv, Answered, CreateForIndexedGpu, Position
  <2> QED
    BY <1>6, <1>8, <2>1
<1>9. ASSUME Position >= 0, chosen.call = "createForIndexedDevice"
      PROVE  Beyond("all")
  <2>1. Skipping(Position, "all") = Undefined
    BY <1>9 DEF DeviceInv, Answered, CreateForIndexedDevice, Position
  <2> QED
    BY <1>6, <1>9, <2>1
<1>10. ASSUME Position >= 0, chosen.call = "getGpuInfo"
       PROVE  Position >= Len(Listed("gpu"))
  <2>1. GetDeviceIds(Position, "gpu") = Undefined
    BY <1>10 DEF DeviceInv, Answered, GetIdForIndexedGpu, Position
  <2> QED
    BY <1>7, <1>10, <2>1
<1>11. ASSUME Position >= 0, chosen.call = "getDeviceInfo"
       PROVE  Position >= Len(Listed("all"))
  <2>1. GetDeviceIds(Position, "all") = Undefined
    BY <1>11 DEF DeviceInv, Answered, GetIdForIndexedDevice, Position
  <2> QED
    BY <1>7, <1>11, <2>1
<1>12. ASSUME Position >= 0, chosen.call = "createForFirstGpuOtherwiseCpu"
       PROVE  Beyond("gpu") /\ (Position >= Len(Listed("gpu")) => Len(platforms) > Capacity)
  <2>1. CreateForFirstGpuOtherwiseCpu = Undefined /\ index = 0
    BY <1>12 DEF DeviceInv, Answered
  <2>2. CreateForIndexedGpu(0) = Skipping(Position, "gpu")
    BY <1>12, <2>1 DEF CreateForIndexedGpu, Position
  <2>3. CreateForPlatformDeviceIndexes(0, 0) # Undefined
    <3>1. 0 \in 0 .. Capacity - 1 /\ 0 \in Nat /\ ~(0 >= DeviceRoom)
      BY <1>1
    <3> QED
      BY <1>1, <3>1, PlatformUndefined DEF CreateForPlatformDeviceIndexes
  <2>4. Skipping(Position, "gpu") = Undefined
    BY <2>1, <2>2, <2>3 DEF CreateForFirstGpuOtherwiseCpu
  <2> QED
    BY <1>6, <1>12, <2>4
<1> QED
  BY <1>2, <1>3, <1>4, <1>8, <1>9, <1>10, <1>11, <1>12 DEF KnownDevicesReached

(* The first GPU, or else a device of the first platform.                  *)
LEMMA FirstGpuOfInv ==
  ASSUME DeviceInv
  PROVE  FirstGpuOtherwiseCpu
<1>1. Attached /\ gpuOffset \in Int /\ chosen.index \in Int /\ NoDevice # Undefined
  BY DeviceInvTypes
<1> SUFFICES ASSUME Regular, chosen.call = "createForFirstGpuOtherwiseCpu"
             PROVE  FirstGpuOtherwiseCpu
  BY DEF FirstGpuOtherwiseCpu
<1>2. chosen.device = CreateForFirstGpuOtherwiseCpu /\ chosen.index = 0 /\ Len(platforms) <= Capacity
  BY DEF DeviceInv, Answered, Regular
<1>3. 0 + gpuOffset = gpuOffset /\ gpuOffset \in Nat
  BY <1>1, <1>2 DEF Regular, Position
<1>4. CreateForIndexedGpu(0) = Skipping(gpuOffset, "gpu")
  BY <1>3 DEF CreateForIndexedGpu
<1>5. ASSUME platforms # <<>>, platforms[1] # <<>>
      PROVE  chosen.device # NoDevice
  <2>1. CASE CreateForIndexedGpu(0) # NoDevice
    BY <1>2, <2>1 DEF CreateForFirstGpuOtherwiseCpu
  <2>2. CASE CreateForIndexedGpu(0) = NoDevice
    <3> DEFINE s == Fixed("all")[1]
    <3>1. 1 \in DOMAIN platforms /\ ~(0 >= Len(platforms)) /\ 0 \in 0 .. Capacity - 1
      BY <1>1, <1>5, IndexAssumption DEF Attached
    <3>2. /\ s \in Seq(Devices(1, "all") \cup {Undefined}) /\ Len(s) = Len(DeviceIds(1, "all"))
          /\ DeviceIds(1, "all") \in Seq(Devices(1, "all")) /\ DeviceIds(1, "all") # <<>>
      <4>1. DeviceIds(1, "all") \in Seq(Devices(1, "all")) /\ DeviceIds(1, "all") # <<>>
        BY <1>1, <1>5, <3>1, DeviceIdsType, AllOfPlatform
      <4> QED
        BY <1>1, <3>1, <4>1, ArraysOf DEF Arrays
    <3> HIDE DEF s
    <3>3. s # <<>> /\ 0 < Len(s) /\ s[1] \in Devices(1, "all") \cup {Undefined}
      BY <3>2
    <3>4. chosen.device = Nth(s, 0)
      <4>1. 0 + 1 = 1
        OBVIOUS
      <4> QED
        BY <1>2, <1>5, <2>2, <3>1, <3>3, <4>1
           DEF CreateForFirstGpuOtherwiseCpu, CreateForPlatformDeviceIndexes, PlatformDevice, s
    <3>5. Nth(s, 0) = s[1]
      <4>1. ~(0 < 0) /\ 0 + 1 = 1
        OBVIOUS
      <4> QED
        BY <3>3, <4>1 DEF Nth, Entry
    <3> QED
      BY <1>1, <3>1, <3>3, <3>4, <3>5, DeviceIsDevice
  <2> QED
    BY <2>1, <2>2
<1>6. ASSUME GetNumGpus > 0, Roomy
      PROVE  platforms[chosen.device[1]][chosen.device[2]] = "gpu"
  <2> DEFINE n == GetNumDevices("gpu")
  <2>1. n \in Nat /\ n = Len(Listed("gpu"))
    BY <1>1, <1>3, SkippingAnswers
  <2>2. gpuOffset < n
    <3>1. GetNumGpus = IF n - gpuOffset < 0 THEN 0 ELSE n - gpuOffset
      BY DEF GetNumGpus
    <3> HIDE DEF n
    <3> QED
      BY <1>1, <1>6, <2>1, <3>1
  <2>3. PICK p \in DOMAIN platforms : Skipping(gpuOffset, "gpu") \in Devices(p, "gpu")
    BY <1>1, <1>3, <1>6, <2>1, <2>2, SkippingAnswers
  <2>4. Skipping(gpuOffset, "gpu") # NoDevice
    BY <1>1, <2>3, DeviceIsDevice
  <2>5. chosen.device = Skipping(gpuOffset, "gpu")
    BY <1>2, <1>4, <2>4 DEF CreateForFirstGpuOtherwiseCpu
  <2> QED
    BY <1>1, <2>3, <2>5, DeviceIsDevice
<1> QED
  BY <1>5, <1>6 DEF FirstGpuOtherwiseCpu

(* createForIndexedGpu and createForIndexedDevice open the device at that  *)
(* place in the list of all, platform after platform, as far as there is   *)
(* room for it.                                                            *)
THEOREM IndexIsListed == DeviceSpec => []IndexedIsListed
  BY DeviceInvariant, ListedOfInv, PTL

(* Entries nothing has filled are read only by who asks for a platform or  *)
(* a device the arrays have no room for, or with a negative index.         *)
THEOREM KnownAreReached == DeviceSpec => []KnownDevicesReached
  BY DeviceInvariant, KnownOfInv, PTL

(* getNumGpus and getNumDevices count what can be opened.                  *)
THEOREM CountIsOpened == DeviceSpec => []CountedIsOpened
  BY DeviceInvariant, CountedOfInv, PTL

(* getGpuInfo, getDeviceInfo, getIdForIndexedPlatformDevice and gpu() mean *)
(* by an index the device that the createFor... functions open.            *)
THEOREM OneDevicePerIndex == DeviceSpec => []IndexMeansOneDevice
  BY DeviceInvariant, OneDeviceOfInv, PTL

(* createForFirstGpuOtherwiseCpu opens a GPU if there is one, and some     *)
(* device if the first platform has one.                                   *)
THEOREM GpuElseCpu == DeviceSpec => []FirstGpuOtherwiseCpu
  BY DeviceInvariant, FirstGpuOfInv, PTL

-----------------------------------------------------------------------------
(***************************************************************************)
(* NumericHelpers.                                                         *)
(***************************************************************************)
(* Division with a positive divisor.                                       *)
LEMMA Division ==
  ASSUME NEW n \in Int, NEW d \in Nat \ {0}
  PROVE  /\ n \div d \in Int /\ n % d \in 0 .. d - 1
         /\ n = d * (n \div d) + (n % d)
  OBVIOUS

(* A multiple of a positive number, once or more.                          *)
LEMMA TimesAtLeast ==
  ASSUME NEW d \in Nat \ {0}, NEW a \in Nat \ {0}
  PROVE  d * a \in Int /\ d * a >= d
<1>1. d * a = d * (a - 1) + d
  OBVIOUS
<1>2. d * (a - 1) >= 0
  OBVIOUS
<1> QED
  BY <1>1, <1>2

(* There is one quotient and one remainder.                                *)
LEMMA RemainderIs ==
  ASSUME NEW n \in Int, NEW d \in Nat \ {0}, NEW k \in Int, NEW r \in 0 .. d - 1,
         n = d * k + r
  PROVE  n % d = r
<1> DEFINE j == n \div d
           s == n % d
<1>1. j \in Int /\ s \in 0 .. d - 1 /\ n = d * j + s
  BY Division
<1> HIDE DEF j, s
<1>2. d * (k - j) = s - r /\ d * (j - k) = r - s
  BY <1>1
<1>3. ~(k - j >= 1)
  <2> SUFFICES ASSUME k - j >= 1
               PROVE  FALSE
    OBVIOUS
  <2>1. d * (k - j) >= d
    BY <1>1, TimesAtLeast
  <2> QED
    BY <1>1, <1>2, <2>1
<1>4. ~(j - k >= 1)
  <2> SUFFICES ASSUME j - k >= 1
               PROVE  FALSE
    OBVIOUS
  <2>1. d * (j - k) >= d
    BY <1>1, TimesAtLeast
  <2> QED
    BY <1>1, <1>2, <2>1
<1>5. j = k
  BY <1>1, <1>3, <1>4
<1>6. s = r
  BY <1>1, <1>5
<1> QED
  BY <1>6 DEF s

(* Powers of two.                                                          *)
LEMMA Powers ==
  /\ TwoTo \in [0 .. Width -> Nat \ {0}]
  /\ TwoTo[0] = 1
  /\ \A n \in 1 .. Width : TwoTo[n] = 2 * TwoTo[n - 1]
<1> DEFINE A == Nat \ {0}
           step == [n \in 1 .. Width |-> [k \in A |-> 2 * k]]
           Def(f) == f = [n \in 0 .. Width |-> IF n = 0 THEN 1 ELSE 2 * f[n - 1]]
<1>1. Width \in Nat
  BY WidthAssumption
<1>2. PICK g : Steps(g, Width, A, 1, step)
  <2>1. step \in [1 .. Width -> [A -> A]] /\ 1 \in A
    OBVIOUS
  <2> HIDE DEF step, A
  <2> QED
    BY <1>1, <2>1, StepsExist
<1>3. ASSUME NEW n \in 1 .. Width
      PROVE  g[n] = 2 * g[n - 1]
  <2>1. g[n - 1] \in A /\ g[n] = step[n][g[n - 1]]
    <3> HIDE DEF step, A
    <3> QED
      BY <1>1, <1>2 DEF Steps
  <2> QED
    BY <2>1
<1>4. Def(g)
  <2> HIDE DEF step
  <2> QED
    BY <1>2, <1>3 DEF Steps
<1>5. Def(TwoTo)
  <2>1. TwoTo = CHOOSE f : Def(f)
    BY DEF TwoTo
  <2> HIDE DEF Def
  <2> QED
    BY <1>4, <2>1
<1>6. TwoTo[0] = 1 /\ \A n \in 1 .. Width : TwoTo[n] = 2 * TwoTo[n - 1]
  <2>1. \A n \in 0 .. Width : TwoTo[n] = IF n = 0 THEN 1 ELSE 2 * TwoTo[n - 1]
    <3> HIDE DEF A, step
    <3> QED
      BY <1>5
  <2> HIDE DEF A, step, Def
  <2> QED
    BY <1>1, <2>1
<1> DEFINE P == {n \in 0 .. Width : TwoTo[n] \in A}
<1>7. P = 0 .. Width
  <2>1. 0 \in P
    BY <1>1, <1>6
  <2>2. \A n \in 1 .. Width : n - 1 \in P => n \in P
    BY <1>1, <1>6
  <2>3. P \in SUBSET (0 .. Width)
    OBVIOUS
  <2> HIDE DEF P
  <2> QED
    BY <1>1, <2>1, <2>2, <2>3, IntervalInduction
<1>8. \A n \in 0 .. Width : TwoTo[n] \in A
  BY <1>7
<1>9. TwoTo \in [0 .. Width -> A]
  <2> HIDE DEF A
  <2> QED
    BY <1>5, <1>8
<1> QED
  BY <1>6, <1>9

(* The powers of two grow.                                                 *)
LEMMA PowersGrow ==
  ASSUME NEW n \in 0 .. Width, NEW m \in n .. Width
  PROVE  TwoTo[n] <= TwoTo[m]
<1>1. Width \in Nat
  BY WidthAssumption
<1>2. TwoTo \in [0 .. Width -> Int]
  BY Powers
<1>3. ASSUME NEW k \in 1 .. Width
      PROVE  TwoTo[k - 1] <= TwoTo[k]
  <2>1. k - 1 \in 0 .. Width
    BY <1>1
  <2>2. TwoTo[k - 1] \in Nat /\ TwoTo[k] = 2 * TwoTo[k - 1]
    BY <2>1, Powers
  <2> QED
    BY <2>2
<1> QED
  BY <1>1, <1>2, <1>3, TotalGrows

(* The bounds of an int, and what wrapping around leaves alone.            *)
LEMMA Bounds ==
  /\ TwoTo[Width - 1] \in Nat /\ TwoTo[Width - 1] > 0
  /\ MaxInt = TwoTo[Width - 1] - 1
  /\ Ints = -TwoTo[Width - 1] .. TwoTo[Width - 1] - 1
  /\ TwoTo[Width] = 2 * TwoTo[Width - 1]
  /\ TwoTo[Width - 1] = 2 * TwoTo[Width - 2] /\ TwoTo[Width - 2] \in Nat
<1>1. /\ Width - 1 \in 0 .. Width /\ Width \in 1 .. Width
      /\ Width - 1 \in 1 .. Width /\ Width - 2 \in 0 .. Width /\ Width - 1 - 1 = Width - 2
  BY WidthAssumption
<1>2. /\ TwoTo[Width - 1] \in Nat \ {0} /\ TwoTo[Width - 2] \in Nat \ {0}
      /\ TwoTo[Width] = 2 * TwoTo[Width - 1] /\ TwoTo[Width - 1] = 2 * TwoTo[Width - 2]
  BY <1>1, Powers
<1> DEFINE b == TwoTo[Width - 1]
<1>3. b \in Int /\ MaxInt = b - 1 /\ Ints = (-MaxInt - 1) .. MaxInt
  BY <1>2 DEF MaxInt, Ints
<1> HIDE DEF b
<1>4. Ints = -b .. b - 1
  <2>1. -MaxInt - 1 = -b
    BY <1>3
  <2> QED
    BY <1>3, <2>1
<1> QED
  BY <1>2, <1>3, <1>4 DEF b

(* What wrapping around leaves of a number is the int it differs from by a *)
(* multiple of two to the width.                                           *)
LEMMA WrapIs ==
  ASSUME NEW n \in Int, NEW k \in Int, NEW r \in Ints, n = TwoTo[Width] * k + r
  PROVE  Wrap(n) = r
<1> DEFINE b == TwoTo[Width - 1]
<1>1. b \in Nat /\ b > 0 /\ MaxInt = b - 1 /\ Ints = -b .. b - 1 /\ TwoTo[Width] = 2 * b
  BY Bounds
<1> HIDE DEF b
<1>2. r + b \in 0 .. (2 * b) - 1 /\ n + b = (2 * b) * k + (r + b) /\ 2 * b \in Nat \ {0}
  BY <1>1
<1>3. (n + b) % (2 * b) = r + b
  <2> DEFINE d == 2 * b
             s == r + b
             m == n + b
  <2>1. d \in Nat \ {0} /\ s \in 0 .. d - 1 /\ m \in Int /\ m = d * k + s
    BY <1>1, <1>2
  <2> HIDE DEF d, s, m
  <2>2. m % d = s
    BY <2>1, RemainderIs
  <2> QED
    BY <2>2 DEF d, s, m
<1>4. n + MaxInt + 1 = n + b /\ MaxInt + 1 = b
  BY <1>1
<1>5. Wrap(n) = (r + b) - b
  BY <1>1, <1>3, <1>4 DEF Wrap
<1> QED
  BY <1>1, <1>5

(* An int stays what it is.                                                *)
LEMMA WrapKeeps ==
  ASSUME NEW n \in Ints
  PROVE  Wrap(n) = n
<1>1. n \in Int /\ 0 \in Int /\ TwoTo[Width] \in Int
  BY Bounds
<1>2. n = TwoTo[Width] * 0 + n
  BY <1>1
<1> QED
  BY <1>1, <1>2, WrapIs, Zenon

(* roundUp, taken apart by how often the quantization fits in.             *)
LEMMA RoundsUp ==
  ASSUME NEW q \in 1 .. MaxInt, NEW m \in Ints, LeastMultiple(q, m) <= MaxInt
  PROVE  RoundUp(q, m) = LeastMultiple(q, m)
<1>1. MaxInt \in Int /\ Ints = -(MaxInt + 1) .. MaxInt /\ q \in Nat \ {0} /\ m \in Int
  <2> DEFINE b == TwoTo[Width - 1]
  <2>1. b \in Nat /\ MaxInt = b - 1 /\ Ints = -b .. b - 1
    BY Bounds
  <2> HIDE DEF b
  <2>2. -(MaxInt + 1) = -b /\ MaxInt \in Int
    BY <2>1
  <2> QED
    BY <2>1, <2>2
<1>2. /\ (-m) % q \in 0 .. q - 1 /\ (-m) \div q \in Int
      /\ -m = q * ((-m) \div q) + ((-m) % q)
  <2> DEFINE n == -m
  <2>1. n \in Int
    BY <1>1
  <2> HIDE DEF n
  <2>2. n % q \in 0 .. q - 1 /\ n \div q \in Int /\ n = q * (n \div q) + (n % q)
    BY <1>1, <2>1, Division
  <2> QED
    BY <2>2 DEF n
<1>3. CASE m >= 0
  <2> DEFINE k == m \div q
             r == m % q
  <2>1. k \in Int /\ r \in 0 .. q - 1 /\ m = q * k + r
    BY <1>1, Division
  <2>2. Quotient(m, q) = k
    BY <1>3 DEF Quotient
  <2> HIDE DEF k, r
  <2>3. k * q \in Int /\ k * q = m - r
    BY <1>1, <2>1
  <2>4. CASE r = 0
    <3>1. RoundUp(q, m) = m
      BY <1>1, <2>2, <2>3, <2>4 DEF RoundUp
    <3>2. (-m) % q = 0
      <4>1. -m = q * (-k) + 0 /\ -m \in Int /\ -k \in Int /\ 0 \in 0 .. q - 1
        BY <1>1, <2>1, <2>3, <2>4
      <4> QED
        BY <1>1, <4>1, RemainderIs
    <3> QED
      BY <1>1, <3>1, <3>2 DEF LeastMultiple
  <2>5. CASE r # 0
    <3>1. RoundUp(q, m) = Wrap(k * q + q)
      BY <1>1, <2>1, <2>2, <2>3, <2>5 DEF RoundUp
    <3>2. (-m) % q = q - r
      <4>1. -m = q * (-k - 1) + (q - r) /\ -m \in Int /\ -k - 1 \in Int /\ q - r \in 0 .. q - 1
        BY <1>1, <2>1, <2>3, <2>5
      <4> QED
        BY <1>1, <4>1, RemainderIs
    <3>3. LeastMultiple(q, m) = k * q + q
      BY <1>1, <2>1, <2>3, <3>2 DEF LeastMultiple
    <3>4. k * q + q \in Ints
      BY <1>1, <1>3, <2>1, <2>3, <3>3
    <3> QED
      BY <3>1, <3>3, <3>4, WrapKeeps
  <2> QED
    BY <2>4, <2>5
<1>4. CASE ~(m >= 0)
  <2> DEFINE k == (-m) \div q
             r == (-m) % q
  <2>1. k \in Int /\ r \in 0 .. q - 1 /\ -m = q * k + r
    BY <1>2
  <2>2. Quotient(m, q) = -k /\ LeastMultiple(q, m) = m + r
    BY <1>4 DEF Quotient, LeastMultiple
  <2> HIDE DEF k, r
  <2>3. (-k) * q \in Int /\ (-k) * q = m + r
    BY <1>1, <2>1
  <2>4. RoundUp(q, m) = m + r
    BY <1>1, <2>1, <2>2, <2>3 DEF RoundUp
  <2> QED
    BY <2>2, <2>4
<1> QED
  BY <1>3, <1>4

(* What the bound of getPower2Upperbound is while its loop runs: a power of*)
(* two, the one before it below the value, or wrapped around.              *)
Reached(bound, value) ==
  \/ \E n \in 0 .. Width - 2 :
       bound = TwoTo[n] /\ (n = 0 \/ TwoTo[n - 1] < value)
  \/ bound \in {-TwoTo[Width - 1], 0} /\ TwoTo[Width - 2] < value

NumericInv ==
  \/ call = [op |-> "none"]
  \/ \E q \in 1 .. MaxInt, m \in Ints :
       call = [op |-> "roundUp", quantization |-> q, minimum |-> m, size |-> RoundUp(q, m)]
  \/ \E value \in Ints, bound \in Ints :
       /\ Reached(bound, value)
       /\ \/ call = [op |-> "power2", value |-> value, upperbound |-> bound]
          \/ /\ call = [op |-> "power2Done", value |-> value, upperbound |-> bound]
             /\ value <= bound

(* One more doubling, of a bound below the value.                          *)
LEMMA Doubles ==
  ASSUME NEW value \in Ints, NEW bound \in Ints, Reached(bound, value), bound < value
  PROVE  Wrap(2 * bound) \in Ints /\ Reached(Wrap(2 * bound), value)
<1> DEFINE b == TwoTo[Width - 1]
           h == TwoTo[Width - 2]
<1>1. /\ b \in Nat /\ b > 0 /\ MaxInt = b - 1 /\ Ints = -b .. b - 1 /\ TwoTo[Width] = 2 * b
      /\ b = 2 * h /\ h \in Nat
  BY Bounds
<1>2. CASE \E n \in 0 .. Width - 2 : bound = TwoTo[n]
  <2>1. PICK n \in 0 .. Width - 2 : bound = TwoTo[n]
    BY <1>2
  <2>2. n + 1 \in 1 .. Width /\ n + 1 - 1 = n /\ n \in 0 .. Width /\ n + 1 # 0 /\ Width \in Nat
    BY WidthAssumption
  <2>3. TwoTo[n + 1] = 2 * bound /\ bound \in Nat
    BY <2>1, <2>2, Powers
  <2>4. CASE n < Width - 2
    <3>1. n + 1 \in 0 .. Width - 2 /\ n + 1 \in 0 .. Width /\ Width - 2 \in n + 1 .. Width
      BY <2>2, <2>4
    <3>2. 2 * bound <= h
      BY <2>3, <3>1, PowersGrow
    <3>3. 2 * bound \in Ints
      <4> HIDE DEF b, h
      <4> QED
        BY <1>1, <2>3, <3>2
    <3>4. Wrap(2 * bound) = TwoTo[n + 1]
      BY <2>3, <3>3, WrapKeeps
    <3>5. Reached(TwoTo[n + 1], value)
      BY <2>1, <2>2, <3>1 DEF Reached
    <3> QED
      BY <2>3, <3>3, <3>4, <3>5
  <2>5. CASE ~(n < Width - 2)
    <3>1. n = Width - 2
      BY <2>2, <2>5
    <3>2. 2 * bound = b /\ -b \in Ints /\ b = (2 * b) * 1 + (-b)
      <4>1. 2 * bound = 2 * h
        BY <2>1, <3>1
      <4> HIDE DEF b, h
      <4> QED
        BY <1>1, <4>1
    <3>3. Wrap(b) = -b
      <4> DEFINE r == -b
      <4>1. b \in Int /\ 1 \in Int /\ r \in Ints /\ b = TwoTo[Width] * 1 + r
        BY <1>1, <3>2
      <4> HIDE DEF b, h, r
      <4>2. Wrap(b) = r
        BY <4>1, WrapIs
      <4> QED
        BY <4>2 DEF r
    <3>4. Reached(-b, value)
      BY <2>1, <3>1 DEF Reached
    <3> QED
      BY <3>2, <3>3, <3>4
  <2> QED
    BY <2>4, <2>5
<1>3. CASE bound \in {-b, 0} /\ h < value
  <2>1. 0 \in Ints /\ 2 * 0 = 0 /\ 2 * (-b) = (2 * b) * (-1) + 0 /\ 2 * (-b) \in Int
    <3> HIDE DEF b, h
    <3> QED
      BY <1>1
  <2>2. Wrap(2 * 0) = 0 /\ Wrap(2 * (-b)) = 0
    <3>1. Wrap(0) = 0
      BY <2>1, WrapKeeps
    <3>2. Wrap(2 * (-b)) = 0
      <4> DEFINE n == 2 * (-b)
                 k == -1
      <4>1. n \in Int /\ k \in Int /\ 0 \in Ints /\ n = TwoTo[Width] * k + 0
        BY <1>1, <2>1
      <4> HIDE DEF b, h, n, k
      <4>2. Wrap(n) = 0
        BY <4>1, WrapIs
      <4> QED
        BY <4>2 DEF n
    <3> QED
      BY <2>1, <3>1, <3>2
  <2>3. Reached(0, value)
    BY <1>3 DEF Reached
  <2> HIDE DEF b, h
  <2> QED
    BY <1>3, <2>1, <2>2, <2>3
<1> QED
  BY <1>2, <1>3 DEF Reached

(* No call was made.                                                       *)
LEMMA NumericInitInv == NumericInit => NumericInv
  BY DEF NumericInit, NumericInv

(* Each step of getPower2Upperbound's loop doubles a bound that was too    *)
(* small; roundUp returns at once.                                         *)
LEMMA NumericNextInv == NumericInv /\ [NumericNext]_call => NumericInv'
<1> SUFFICES ASSUME NumericInv, [NumericNext]_call
             PROVE  NumericInv'
  OBVIOUS
<1>1. ASSUME NEW q \in 1 .. MaxInt, NEW m \in Ints, CallRoundUp(q, m)
      PROVE  NumericInv'
  BY <1>1 DEF CallRoundUp, NumericInv
<1>2. ASSUME NEW value \in Ints, CallPower2(value)
      PROVE  NumericInv'
  <2>1. 0 \in 0 .. Width - 2 /\ TwoTo[0] = 1
    BY Powers, WidthAssumption
  <2>2. Reached(1, value)
    BY <2>1 DEF Reached
  <2>3. 1 \in Ints
    BY Bounds
  <2> QED
    BY <1>2, <2>2, <2>3 DEF CallPower2, NumericInv
<1>3. ASSUME call.op = "power2"
      PROVE  \E value \in Ints, bound \in Ints :
               /\ Reached(bound, value)
               /\ call = [op |-> "power2", value |-> value, upperbound |-> bound]
  BY <1>3 DEF NumericInv
<1>4. CASE Power2Step
  <2>1. PICK value \in Ints, bound \in Ints :
          /\ Reached(bound, value)
          /\ call = [op |-> "power2", value |-> value, upperbound |-> bound]
    BY <1>3, <1>4 DEF Power2Step, Doubling
  <2>2. bound < value
    BY <1>4, <2>1 DEF Power2Step, Doubling
  <2>3. Wrap(2 * bound) \in Ints /\ Reached(Wrap(2 * bound), value)
    BY <2>1, <2>2, Doubles
  <2>4. call' = [op |-> "power2", value |-> value, upperbound |-> Wrap(2 * bound)]
    BY <1>4, <2>1 DEF Power2Step
  <2> HIDE DEF Reached
  <2> QED
    BY <2>3, <2>4 DEF NumericInv
<1>5. CASE Power2Returns
  <2>1. PICK value \in Ints, bound \in Ints :
          /\ Reached(bound, value)
          /\ call = [op |-> "power2", value |-> value, upperbound |-> bound]
    BY <1>3, <1>5 DEF Power2Returns
  <2>2. ~(bound < value)
    BY <1>5, <2>1 DEF Power2Returns, Doubling
  <2>3. value <= bound
    <3>1. value \in Int
      BY Bounds
    <3> QED
      BY <2>2, <3>1
  <2>4. call' = [op |-> "power2Done", value |-> value, upperbound |-> bound]
    BY <1>5, <2>1 DEF Power2Returns
  <2> QED
    BY <2>1, <2>3, <2>4 DEF NumericInv
<1>6. CASE UNCHANGED call
  BY <1>6 DEF NumericInv
<1> QED
  BY <1>1, <1>2, <1>4, <1>5, <1>6 DEF NumericNext

(* So the loop's bound is always a power of two whose half was too small.  *)
LEMMA NumericInvariant == NumericSpec => []NumericInv
  BY NumericInitInv, NumericNextInv, PTL DEF NumericSpec

(* roundUp is the least multiple where that is an int.                     *)
LEMMA RoundsUpOfInv ==
  ASSUME NumericInv
  PROVE  RoundUpIsLeast
<1> SUFFICES ASSUME call.op = "roundUp"
             PROVE  RoundUpIsLeast
  BY DEF RoundUpIsLeast
<1>1. PICK q \in 1 .. MaxInt, m \in Ints :
        call = [op |-> "roundUp", quantization |-> q, minimum |-> m, size |-> RoundUp(q, m)]
  BY DEF NumericInv
<1> QED
  BY <1>1, RoundsUp DEF RoundUpIsLeast

(* And a loop that ended found the least.                                  *)
LEMMA Power2OfInv ==
  ASSUME NumericInv
  PROVE  Power2IsLeast
<1> SUFFICES ASSUME call.op = "power2Done"
             PROVE  Power2IsLeast
  BY DEF Power2IsLeast
<1>1. PICK value \in Ints, bound \in Ints :
        /\ Reached(bound, value) /\ value <= bound
        /\ call = [op |-> "power2Done", value |-> value, upperbound |-> bound]
  BY DEF NumericInv
<1>2. value \in Int
  BY Bounds
<1>3. ~(bound \in {-TwoTo[Width - 1], 0} /\ TwoTo[Width - 2] < value)
  BY <1>1, <1>2, Bounds
<1>4. PICK n \in 0 .. Width - 2 : bound = TwoTo[n] /\ (n = 0 \/ TwoTo[n - 1] < value)
  BY <1>1, <1>3 DEF Reached
<1>5. bound = 1 \/ bound \div 2 < value
  <2>1. CASE n = 0
    BY <1>4, <2>1, Powers
  <2>2. CASE n # 0
    <3>1. n \in 1 .. Width /\ n - 1 \in 0 .. Width
      BY <2>2, WidthAssumption
    <3> DEFINE c == TwoTo[n - 1]
    <3>2. c \in Nat /\ bound = 2 * c /\ c < value
      BY <1>4, <2>2, <3>1, Powers
    <3> HIDE DEF c
    <3>3. bound \div 2 = c
      BY <3>2
    <3> QED
      BY <3>2, <3>3
  <2> QED
    BY <2>1, <2>2
<1> QED
  BY <1>1, <1>4, <1>5 DEF Power2IsLeast

(* roundUp returns the least multiple of the quantization that is not less *)
(* than the minimum, wherever that is an int.                              *)
THEOREM RoundUpLeast == NumericSpec => []RoundUpIsLeast
  BY NumericInvariant, RoundsUpOfInv, PTL

(* getPower2Upperbound returns, if it does, the least power of two not     *)
(* below the value.                                                        *)
THEOREM Power2Least == NumericSpec => []Power2IsLeast
  BY NumericInvariant, Power2OfInv, PTL

-----------------------------------------------------------------------------
(***************************************************************************)
(* StringHelpers.                                                          *)
(***************************************************************************)
(* A sequence, the glue, and another.                                      *)
With(a, g, x) == a \o g \o x

(* Glueing sequences gives one.                                            *)
LEMMA WithType ==
  ASSUME NEW S, NEW a \in Seq(S), NEW g \in Seq(S), NEW x \in Seq(S)
  PROVE  With(a, g, x) \in Seq(S)
  BY DEF With

(* One sequence, then another.                                             *)
Then(a, b) == a \o b

(* Concatenation associates.                                               *)
LEMMA ThenThen ==
  ASSUME NEW S, NEW a \in Seq(S), NEW b \in Seq(S), NEW c \in Seq(S)
  PROVE  /\ Then(a, b) \in Seq(S)
         /\ Then(Then(a, b), c) = Then(a, Then(b, c))
<1>1. (a \o b) \o c = a \o (b \o c)
  BY ConcatAssociative
<1> QED
  BY <1>1 DEF Then

(* Glueing associates.                                                     *)
LEMMA WithWith ==
  ASSUME NEW S, NEW a \in Seq(S), NEW g \in Seq(S), NEW x \in Seq(S), NEW y \in Seq(S)
  PROVE  With(With(a, g, x), g, y) = With(a, g, With(x, g, y))
<1>1. With(With(a, g, x), g, y) = Then(Then(Then(Then(a, g), x), g), y)
      /\ With(a, g, With(x, g, y)) = Then(Then(a, g), Then(Then(x, g), y))
  BY DEF With, Then
<1> DEFINE u == Then(a, g)
           v == Then(x, g)
<1>2. u \in Seq(S) /\ v \in Seq(S)
  BY ThenThen
<1> HIDE DEF u, v
<1>3. Then(Then(u, x), g) = Then(u, Then(x, g)) /\ Then(Then(u, v), y) = Then(u, Then(v, y))
  BY <1>2, ThenThen
<1> QED
  BY <1>1, <1>3 DEF u, v

(* h[k] is the first k + 1 pieces joined.                                  *)
Glued(h, S, pieces, glue, n) ==
  /\ h \in [0 .. n -> Seq(S)]
  /\ h[0] = pieces[1]
  /\ \A k \in 1 .. n : h[k] = With(h[k - 1], glue, pieces[k + 1])

Folds(it, base, glue, seq, n) ==
  it = [s \in SUBSET (1 .. n) |-> IF s = {} THEN base
                                  ELSE With(it[s \ {Max(s)}], glue, seq[Max(s)])]

(* The definitions of Joined and of the fold, unfolded.                    *)
LEMMA JoinedSteps ==
  ASSUME NEW S, NEW pieces \in Seq(Seq(S)), NEW glue \in Seq(S), pieces # <<>>
  PROVE  \E h : /\ Glued(h, S, pieces, glue, Len(pieces) - 1)
                /\ Joined(pieces, glue) = h[Len(pieces) - 1]
<1> DEFINE n == Len(pieces) - 1
           base == Head(pieces)
           seq == Tail(pieces)
           found == CHOOSE it : Folds(it, base, glue, seq, n)
           h == [k \in 0 .. n |-> found[1 .. k]]
<1>1. n \in Nat /\ base = pieces[1] /\ base \in Seq(S) /\ seq \in [1 .. n -> Seq(S)]
      /\ \A k \in 1 .. n : seq[k] = pieces[k + 1]
  <2>1. n \in Nat /\ base = pieces[1] /\ base \in Seq(S)
    OBVIOUS
  <2>2. seq \in Seq(Seq(S)) /\ Len(seq) = n
    OBVIOUS
  <2>3. \A k \in 1 .. n : seq[k] = pieces[k + 1]
    OBVIOUS
  <2>4. seq \in [1 .. n -> Seq(S)]
    <3> HIDE DEF seq, n
    <3> QED
      BY <2>2
  <2> QED
    BY <2>1, <2>3, <2>4
<1>2. DOMAIN seq = 1 .. n
  BY <1>1
<1>3. Joined(pieces, glue) = found[1 .. n]
  BY <1>2 DEF Joined, FoldLeft, MapThenFoldSet, Folds, With
<1>4. PICK it \in [SUBSET (1 .. n) -> Seq(S)] : Folds(it, base, glue, seq, n)
  <2> DEFINE A == Seq(S)
             step == [k \in 1 .. n |-> [a \in A |-> With(a, glue, seq[k])]]
  <2> HIDE DEF n, base, seq
  <2>1. ASSUME NEW k \in 1 .. n, NEW a \in A
        PROVE  With(a, glue, seq[k]) \in A
    <3> DEFINE x == seq[k]
    <3>1. x \in Seq(S)
      BY <1>1
    <3> HIDE DEF x
    <3>2. With(a, glue, x) \in Seq(S)
      BY <3>1, WithType
    <3> QED
      BY <3>2 DEF x
  <2> HIDE DEF A
  <2>2. step \in [1 .. n -> [A -> A]]
    BY <2>1
  <2>3. PICK it \in [SUBSET (1 .. n) -> A] : Iterates(it, base, step, n)
    <3>1. base \in A
      BY <1>1 DEF A
    <3> HIDE DEF step
    <3> QED
      BY <1>1, <2>2, <3>1, FoldExists
  <2>4. ASSUME NEW s \in SUBSET (1 .. n), s # {}
        PROVE  step[Max(s)][it[s \ {Max(s)}]] = With(it[s \ {Max(s)}], glue, seq[Max(s)])
    <3>1. it[s \ {Max(s)}] \in A /\ Max(s) \in 1 .. n
      BY <1>1, <2>4, LastOf
    <3> QED
      BY <3>1
  <2>5. Folds(it, base, glue, seq, n)
    <3> HIDE DEF step
    <3> QED
      BY <2>3, <2>4 DEF Iterates, Folds
  <2> QED
    BY <2>5 DEF A
<1>5. Folds(found, base, glue, seq, n)
  BY <1>4
<1> HIDE DEF found, n, base, seq
<1>6. 1 .. 0 = {} /\ 1 .. 0 \in SUBSET (1 .. n)
  OBVIOUS
<1>7. found[1 .. 0] = base
  <2> DEFINE s == 1 .. 0
  <2>1. s = {} /\ s \in SUBSET (1 .. n)
    BY <1>6
  <2> HIDE DEF s
  <2>2. found[s] = base
    BY <1>5, <2>1 DEF Folds
  <2> QED
    BY <2>2 DEF s
<1>8. ASSUME NEW k \in 1 .. n
      PROVE  found[1 .. k] = With(found[1 .. k - 1], glue, seq[k])
  <2> DEFINE s == 1 .. k
  <2>1. s \in SUBSET (1 .. n) /\ s # {} /\ Max(s) = k /\ s \ {k} = 1 .. k - 1
    BY <1>1, Segments
  <2>2. found[s] = With(found[s \ {k}], glue, seq[k])
    <3> HIDE DEF s
    <3> QED
      BY <1>5, <2>1 DEF Folds
  <2> QED
    BY <2>1, <2>2
<1>9. \A k \in 0 .. n : found[1 .. k] \in Seq(S)
  <2> DEFINE P == {k \in 0 .. n : found[1 .. k] \in Seq(S)}
  <2>1. 0 \in P
    BY <1>1, <1>7
  <2>2. ASSUME NEW k \in 1 .. n, k - 1 \in P
        PROVE  k \in P
    <3> DEFINE x == found[1 .. k - 1]
               y == seq[k]
    <3>1. x \in Seq(S) /\ y \in Seq(S) /\ k \in 0 .. n
      BY <1>1, <2>2
    <3>2. found[1 .. k] = With(x, glue, y)
      BY <1>8
    <3>3. With(x, glue, y) \in Seq(S)
      BY <3>1, WithType
    <3> QED
      BY <3>1, <3>2, <3>3
  <2>3. P = 0 .. n
    <3>1. P \in SUBSET (0 .. n)
      OBVIOUS
    <3> HIDE DEF P
    <3> QED
      BY <1>1, <2>1, <2>2, <3>1, IntervalInduction
  <2> QED
    BY <2>3
<1>10. h[0] = pieces[1] /\ h \in [0 .. n -> Seq(S)] /\ h[n] = Joined(pieces, glue)
  <2>1. h[0] = found[1 .. 0] /\ h[n] = found[1 .. n]
    BY <1>1
  <2>2. h \in [0 .. n -> Seq(S)]
    BY <1>9
  <2> HIDE DEF h
  <2> QED
    BY <1>1, <1>3, <1>7, <2>1, <2>2
<1>11. ASSUME NEW k \in 1 .. n
       PROVE  h[k] = With(h[k - 1], glue, pieces[k + 1])
  <2>1. h[k] = found[1 .. k] /\ h[k - 1] = found[1 .. k - 1] /\ seq[k] = pieces[k + 1]
    BY <1>1
  <2> HIDE DEF h
  <2> QED
    BY <1>8, <2>1
<1>12. Glued(h, S, pieces, glue, n)
  <2> HIDE DEF h
  <2> QED
    BY <1>10, <1>11 DEF Glued
<1> HIDE DEF h
<1> QED
  BY <1>10, <1>12 DEF n

(* A single piece is joined already.                                       *)
LEMMA JoinedOne ==
  ASSUME NEW S, NEW piece \in Seq(S), NEW glue \in Seq(S)
  PROVE  Joined(<<piece>>, glue) = piece
<1>1. /\ <<piece>> \in Seq(Seq(S)) /\ <<piece>> # <<>>
      /\ Len(<<piece>>) - 1 = 0 /\ <<piece>>[1] = piece
  OBVIOUS
<1>2. PICK h : Glued(h, S, <<piece>>, glue, 0) /\ Joined(<<piece>>, glue) = h[0]
  BY <1>1, JoinedSteps
<1> QED
  BY <1>1, <1>2 DEF Glued

(* Joined sequences are one.                                               *)
LEMMA JoinedType ==
  ASSUME NEW S, NEW pieces \in Seq(Seq(S)), NEW glue \in Seq(S), pieces # <<>>
  PROVE  Joined(pieces, glue) \in Seq(S)
<1>1. PICK h : /\ Glued(h, S, pieces, glue, Len(pieces) - 1)
               /\ Joined(pieces, glue) = h[Len(pieces) - 1]
  BY JoinedSteps
<1>2. Len(pieces) - 1 \in 0 .. Len(pieces) - 1
  OBVIOUS
<1> QED
  BY <1>1, <1>2 DEF Glued

(* The first piece goes before the others joined.                          *)
LEMMA JoinedCons ==
  ASSUME NEW S, NEW piece \in Seq(S), NEW rest \in Seq(Seq(S)), NEW glue \in Seq(S), rest # <<>>
  PROVE  Joined(<<piece>> \o rest, glue) = With(piece, glue, Joined(rest, glue))
<1> DEFINE all == <<piece>> \o rest
           n == Len(rest)
<1>1. /\ all \in Seq(Seq(S)) /\ all # <<>> /\ Len(all) - 1 = n /\ n \in Nat \ {0}
      /\ all[1] = piece /\ \A k \in 1 .. n : all[k + 1] = rest[k]
  OBVIOUS
<1> HIDE DEF all
<1>2. PICK g : Glued(g, S, all, glue, n) /\ Joined(all, glue) = g[n]
  <2>1. \E g : Glued(g, S, all, glue, Len(all) - 1) /\ Joined(all, glue) = g[Len(all) - 1]
    BY <1>1, JoinedSteps, Zenon
  <2> QED
    BY <1>1, <2>1, Zenon
<1>3. PICK h : Glued(h, S, rest, glue, n - 1) /\ Joined(rest, glue) = h[n - 1]
  BY JoinedSteps, Zenon
<1> HIDE DEF n
<1> DEFINE P == {k \in 0 .. n - 1 : g[k + 1] = With(piece, glue, h[k])}
<1>4. 0 \in P
  <2>1. 1 \in 1 .. n /\ 0 \in 0 .. n - 1 /\ 1 - 1 = 0 /\ 0 + 1 = 1
    BY <1>1
  <2>2. g[1] = With(g[0], glue, all[1 + 1]) /\ g[0] = all[1] /\ h[0] = rest[1]
    BY <1>2, <1>3, <2>1 DEF Glued
  <2>3. all[1 + 1] = rest[1]
    BY <1>1, <2>1
  <2>4. g[0 + 1] = With(piece, glue, h[0])
    BY <1>1, <2>1, <2>2, <2>3
  <2> QED
    BY <2>1, <2>4
<1>5. ASSUME NEW k \in 1 .. n - 1, k - 1 \in P
      PROVE  k \in P
  <2>1. k + 1 \in 1 .. n /\ k \in 1 .. n /\ k - 1 \in 0 .. n - 1 /\ k \in 0 .. n - 1
        /\ k + 1 - 1 = k /\ k - 1 + 1 = k
    BY <1>1
  <2> DEFINE x == h[k - 1]
             y == rest[k + 1]
  <2>2. x \in Seq(S) /\ y \in Seq(S)
    <3>1. x \in Seq(S)
      BY <1>3, <2>1 DEF Glued
    <3>2. y \in Seq(S)
      BY <2>1 DEF n
    <3> QED
      BY <3>1, <3>2
  <2>3. h[k] = With(x, glue, y)
    BY <1>3 DEF Glued
  <2>4. g[k + 1] = With(g[k], glue, y)
    <3> DEFINE j == k + 1
    <3>1. \A i \in 1 .. n : g[i] = With(g[i - 1], glue, all[i + 1])
      BY <1>2 DEF Glued
    <3>2. j \in 1 .. n /\ j - 1 = k
      BY <2>1
    <3> HIDE DEF j, y
    <3>3. g[j] = With(g[k], glue, all[j + 1])
      BY <3>1, <3>2
    <3>4. all[j + 1] = rest[j]
      BY <1>1, <3>2
    <3> QED
      BY <3>3, <3>4 DEF j, y
  <2>5. g[k] = With(piece, glue, x)
    BY <1>5, <2>1
  <2> HIDE DEF x, y, P
  <2>6. With(With(piece, glue, x), glue, y) = With(piece, glue, With(x, glue, y))
    BY <2>2, WithWith
  <2> QED
    BY <2>1, <2>3, <2>4, <2>5, <2>6 DEF P
<1>6. P = 0 .. n - 1
  <2>1. n - 1 \in Nat
    BY <1>1
  <2>2. P \in SUBSET (0 .. n - 1)
    OBVIOUS
  <2> HIDE DEF P
  <2> QED
    BY <1>4, <1>5, <2>1, <2>2, IntervalInduction
<1>7. n - 1 \in 0 .. n - 1 /\ n - 1 + 1 = n
  BY <1>1
<1>8. g[n] = With(piece, glue, h[n - 1])
  BY <1>6, <1>7
<1> QED
  BY <1>2, <1>3, <1>8 DEF all

(* The pattern is at this position of the text.                            *)
Matches(text, pattern, p) == SubSeq(text, p + 1, p + Len(pattern)) = pattern

(* Find tells the first place from a position on, or that there is none.   *)
LEMMA FindIs ==
  ASSUME NEW S, NEW text \in Seq(S), NEW pattern \in Seq(S), NEW start \in 0 .. Len(text)
  PROVE  LET at == Find(text, pattern, start)
         IN  /\ at = None => \A p \in start .. Len(text) - Len(pattern) : ~Matches(text, pattern, p)
             /\ at # None => /\ at \in start .. Len(text) - Len(pattern)
                             /\ Matches(text, pattern, at)
                             /\ \A p \in start .. at - 1 : ~Matches(text, pattern, p)
<1> DEFINE T == {p \in start .. Len(text) - Len(pattern) : Matches(text, pattern, p)}
           at == Find(text, pattern, start)
<1>1. at = IF T = {} THEN None ELSE CHOOSE p \in T : \A r \in T : p <= r
  BY DEF Find, Matches
<1>2. CASE T = {}
  <2>1. at = None
    BY <1>1, <1>2
  <2> QED
    BY <1>2, <2>1
<1>3. CASE T # {}
  <2>1. Len(text) \in Nat /\ Len(pattern) \in Nat
    OBVIOUS
  <2>2. T \in SUBSET Nat
    BY <2>1
  <2>3. at \in T /\ \A r \in T : at <= r
    <3>1. \E p \in T : \A r \in T : p <= r
      <4> HIDE DEF T
      <4> QED
        BY <1>3, <2>2, LeastNatural
    <3> HIDE DEF T, at
    <3> QED
      BY <1>1, <1>3, <3>1
  <2> HIDE DEF at
  <2>4. at \in start .. Len(text) - Len(pattern) /\ Matches(text, pattern, at)
    BY <2>3
  <2>5. at # None
    BY <2>1, <2>4 DEF None
  <2>6. ASSUME NEW p \in start .. at - 1
        PROVE  ~Matches(text, pattern, p)
    <3>1. p \in start .. Len(text) - Len(pattern) /\ ~(at <= p)
      BY <2>1, <2>4
    <3> QED
      BY <2>3, <3>1
  <2> QED
    BY <2>4, <2>5, <2>6 DEF at
<1> QED
  BY <1>2, <1>3

(* And the first place is what Find tells.                                 *)
LEMMA FindFirst ==
  ASSUME NEW S, NEW text \in Seq(S), NEW pattern \in Seq(S),
         NEW at \in 0 .. Len(text) - Len(pattern), Matches(text, pattern, at),
         \A p \in 0 .. at - 1 : ~Matches(text, pattern, p)
  PROVE  Find(text, pattern, 0) = at
<1> DEFINE f == Find(text, pattern, 0)
<1>1. 0 \in 0 .. Len(text) /\ Len(text) \in Nat /\ Len(pattern) \in Nat
  OBVIOUS
<1>2. /\ f = None => \A p \in 0 .. Len(text) - Len(pattern) : ~Matches(text, pattern, p)
      /\ f # None => /\ f \in 0 .. Len(text) - Len(pattern)
                     /\ Matches(text, pattern, f)
                     /\ \A p \in 0 .. f - 1 : ~Matches(text, pattern, p)
  BY <1>1, FindIs
<1> HIDE DEF f
<1>3. f # None
  BY <1>2
<1>4. ~(f < at) /\ ~(at < f)
  BY <1>1, <1>2, <1>3
<1> QED
  BY <1>1, <1>2, <1>3, <1>4 DEF f

Part(s, a, b) == SubSeq(s, a, b)
(* A part of a part of a sequence.                                         *)
Within(s, a, b, m, q, c, d) ==
  /\ a \in 1 .. Len(s) /\ b \in 1 .. Len(s) /\ m \in 1 .. b - a + 1 /\ q \in 1 .. b - a + 1
  /\ c = a + m - 1 /\ d = a + q - 1

(* It is a part of the sequence.                                           *)
LEMMA PartOfPart ==
  ASSUME NEW S, NEW s \in Seq(S), NEW a, NEW b, NEW m, NEW q, NEW c, NEW d,
         Within(s, a, b, m, q, c, d)
  PROVE  Part(Part(s, a, b), m, q) = Part(s, c, d)
<1>1. a \in 1 .. Len(s) /\ b \in 1 .. Len(s) /\ m \in 1 .. b - a + 1 /\ q \in 1 .. b - a + 1
  BY DEF Within
<1>2. SubSeq(SubSeq(s, a, b), m, q) = SubSeq(s, a + m - 1, a + q - 1)
  BY <1>1, SubSeqOfSubSeq
<1> QED
  BY <1>2 DEF Within, Part

(* A pattern in a part of a text is in the text, as much further on.       *)
LEMMA MatchesShift ==
  ASSUME NEW S, NEW text \in Seq(S), NEW pattern \in Seq(S), pattern # <<>>,
         NEW i \in 0 .. Len(text), NEW j \in i .. Len(text),
         NEW p \in 0 .. j - i - Len(pattern)
  PROVE  Matches(SubSeq(text, i + 1, j), pattern, p) <=> Matches(text, pattern, i + p)
<1> DEFINE a == i + 1
           m == p + 1
           q == p + Len(pattern)
           c == i + p + 1
           d == i + p + Len(pattern)
<1>1. Len(pattern) \in Nat \ {0} /\ Len(text) \in Nat
  OBVIOUS
<1>2. Within(text, a, j, m, q, c, d)
  BY <1>1 DEF Within
<1> HIDE DEF a, m, q, c, d
<1>3. Part(Part(text, a, j), m, q) = Part(text, c, d)
  BY <1>2, PartOfPart
<1> QED
  BY <1>3 DEF Matches, a, m, q, c, d, Part

(* Where an occurrence is found, and what is left when none is.            *)
LEMMA FoundAt ==
  ASSUME NEW S, NEW text \in Seq(S), NEW pattern \in Seq(S), pattern # <<>>,
         NEW i \in 0 .. Len(text)
  PROVE  LET at == Find(text, pattern, i)
         IN  at # None => /\ at \in i .. Len(text)
                          /\ at + Len(pattern) \in i + 1 .. Len(text)
<1> DEFINE at == Find(text, pattern, i)
<1>1. Len(pattern) \in Nat \ {0} /\ Len(text) \in Nat
  OBVIOUS
<1>2. at # None => at \in i .. Len(text) - Len(pattern)
  BY FindIs
<1> HIDE DEF at
<1>3. at # None => at \in i .. Len(text) /\ at + Len(pattern) \in i + 1 .. Len(text)
  BY <1>1, <1>2
<1> QED
  BY <1>3 DEF at

(* The pieces of a text and their lengths.                                 *)
LEMMA BetweenType ==
  ASSUME NEW S, NEW text \in Seq(S), NEW i \in 0 .. Len(text), NEW j \in i .. Len(text)
  PROVE  /\ Between(text, i, j) \in Seq(S) /\ Len(Between(text, i, j)) = j - i
         /\ Rest(text, i) \in Seq(S) /\ Len(Rest(text, i)) = Len(text) - i
<1>1. ASSUME NEW k \in i .. Len(text)
      PROVE  SubSeq(text, i + 1, k) \in Seq(S) /\ Len(SubSeq(text, i + 1, k)) = k - i
  <2>1. \A m \in i + 1 .. k : text[m] \in S
    OBVIOUS
  <2> QED
    BY <2>1, SubSeqProperties
<1>2. Len(text) \in i .. Len(text)
  OBVIOUS
<1> QED
  BY <1>1, <1>2 DEF Between, Rest

(* The piece before the first occurrence, and the pattern after it, show   *)
(* the pattern there for the first time.                                   *)
LEMMA PieceFound ==
  ASSUME NEW S, NEW text \in Seq(S), NEW pattern \in Seq(S), pattern # <<>>,
         NEW i \in 0 .. Len(text), Find(text, pattern, i) # None
  PROVE  LET piece == Between(text, i, Find(text, pattern, i))
         IN  Find(piece \o pattern, pattern, 0) = Len(piece)
<1> DEFINE at == Find(text, pattern, i)
           piece == Between(text, i, at)
           j == at + Len(pattern)
           q == at - i
           shown == SubSeq(text, i + 1, j)
<1>1. Len(pattern) \in Nat \ {0} /\ Len(text) \in Nat
  OBVIOUS
<1>2. at \in i .. Len(text) - Len(pattern) /\ Matches(text, pattern, at)
      /\ \A p \in i .. at - 1 : ~Matches(text, pattern, p)
  BY FindIs
<1> HIDE DEF at
<1>3. at \in i .. Len(text) /\ j \in i .. Len(text) /\ j \in at .. Len(text)
      /\ q \in 0 .. j - i - Len(pattern) /\ q = j - i - Len(pattern) /\ i + q = at
  BY <1>1, <1>2
<1>4. piece \in Seq(S) /\ Len(piece) = q /\ shown \in Seq(S) /\ Len(shown) = j - i
  BY <1>3, BetweenType DEF Between
<1>5. piece \o pattern = shown
  <2>1. pattern = SubSeq(text, at + 1, j)
    BY <1>2 DEF Matches
  <2> DEFINE m == i + 1
  <2>2. m \in 1 .. Len(text) + 1 /\ at \in m - 1 .. Len(text)
    BY <1>1, <1>3
  <2> HIDE DEF m, j
  <2>3. SubSeq(text, m, at) \o SubSeq(text, at + 1, j) = SubSeq(text, m, j)
    BY <1>3, <2>2, ConcatAdjacentSubSeq
  <2> QED
    BY <2>1, <2>3 DEF Between, m
<1>6. ASSUME NEW p \in 0 .. q
      PROVE  Matches(shown, pattern, p) <=> Matches(text, pattern, i + p)
  <2>1. p \in 0 .. j - i - Len(pattern)
    BY <1>3
  <2> HIDE DEF j, q
  <2> QED
    BY <1>3, <2>1, MatchesShift DEF j
<1>7. Matches(shown, pattern, q)
  <2>1. q \in 0 .. q
    BY <1>3
  <2> HIDE DEF q, shown
  <2> QED
    BY <1>2, <1>3, <1>6, <2>1
<1>8. \A p \in 0 .. q - 1 : ~Matches(shown, pattern, p)
  <2> SUFFICES ASSUME NEW p \in 0 .. q - 1
               PROVE  ~Matches(shown, pattern, p)
    OBVIOUS
  <2>1. p \in 0 .. q /\ i + p \in i .. at - 1
    BY <1>1, <1>2, <1>3
  <2> HIDE DEF q, shown
  <2> QED
    BY <1>2, <1>6, <2>1
<1> HIDE DEF q, shown, piece, j
<1>9. q \in 0 .. Len(shown) - Len(pattern)
  BY <1>3, <1>4
<1>10. Find(shown, pattern, 0) = q
  BY <1>4, <1>7, <1>8, <1>9, FindFirst
<1> QED
  BY <1>4, <1>5, <1>10 DEF piece, at

(* Where none is found from a position on, the rest shows none.            *)
LEMMA RestHasNone ==
  ASSUME NEW S, NEW text \in Seq(S), NEW pattern \in Seq(S), pattern # <<>>,
         NEW i \in 0 .. Len(text), Find(text, pattern, i) = None
  PROVE  Find(Rest(text, i), pattern, 0) = None
<1> DEFINE rest == Rest(text, i)
           f == Find(rest, pattern, 0)
           j == Len(text)
<1>1. Len(pattern) \in Nat \ {0} /\ j \in Nat /\ j \in i .. Len(text)
  OBVIOUS
<1>2. rest \in Seq(S) /\ Len(rest) = j - i
  BY <1>1, BetweenType
<1>3. \A p \in i .. Len(text) - Len(pattern) : ~Matches(text, pattern, p)
  BY FindIs
<1> HIDE DEF rest
<1>4. 0 \in 0 .. Len(rest)
  BY <1>2
<1>5. f # None => f \in 0 .. Len(rest) - Len(pattern) /\ Matches(rest, pattern, f)
  BY <1>2, <1>4, FindIs
<1> HIDE DEF f
<1> SUFFICES ASSUME f # None
             PROVE  FALSE
  BY DEF f, rest
<1>6. f \in 0 .. j - i - Len(pattern) /\ i + f \in i .. Len(text) - Len(pattern)
  BY <1>1, <1>2, <1>5
<1>7. Matches(SubSeq(text, i + 1, j), pattern, f) <=> Matches(text, pattern, i + f)
  <2> HIDE DEF j
  <2> QED
    BY <1>1, <1>6, MatchesShift
<1> QED
  BY <1>3, <1>5, <1>6, <1>7 DEF rest, Rest

(* The recursion that cuts a text at a pattern.                            *)
Cut(from, text, pattern, i) ==
  LET at == Find(text, pattern, i)
  IN  IF at = None THEN <<Rest(text, i)>>
      ELSE <<Between(text, i, at)>> \o from[at + Len(pattern)]
Cuts(from, text, pattern) ==
  from = [i \in 0 .. Len(text) |-> Cut(from, text, pattern, i)]

(* One step of the recursion keeps to sequences of pieces.                 *)
LEMMA CutType ==
  ASSUME NEW S, NEW text \in Seq(S), NEW pattern \in Seq(S), pattern # <<>>,
         NEW i \in 0 .. Len(text), NEW from,
         \A k \in i + 1 .. Len(text) : from[k] \in Seq(Seq(S))
  PROVE  Cut(from, text, pattern, i) \in Seq(Seq(S)) \ {<<>>}
<1> DEFINE at == Find(text, pattern, i)
<1>1. CASE at = None
  <2>1. Len(text) \in i .. Len(text)
    OBVIOUS
  <2>2. Rest(text, i) \in Seq(S)
    BY <2>1, BetweenType
  <2>3. <<Rest(text, i)>> \in Seq(Seq(S)) \ {<<>>}
    BY <2>2
  <2> QED
    BY <1>1, <2>3 DEF Cut
<1>2. CASE at # None
  <2>1. at \in i .. Len(text) /\ at + Len(pattern) \in i + 1 .. Len(text)
    BY <1>2, FoundAt
  <2> HIDE DEF at
  <2> DEFINE piece == Between(text, i, at)
             rest == from[at + Len(pattern)]
  <2>2. piece \in Seq(S) /\ rest \in Seq(Seq(S))
    BY <2>1, BetweenType
  <2> HIDE DEF piece, rest
  <2>3. <<piece>> \o rest \in Seq(Seq(S)) \ {<<>>}
    BY <2>2
  <2> QED
    BY <1>2, <2>3 DEF Cut, at, piece, rest
<1> QED
  BY <1>1, <1>2

(* The recursion defines a function.                                       *)
LEMMA CutsExist ==
  ASSUME NEW S, NEW text \in Seq(S), NEW pattern \in Seq(S), pattern # <<>>
  PROVE  \E from : Cuts(from, text, pattern)
<1> DEFINE N == Len(text)
           D == 0 .. N
           A == Seq(Seq(S))
           rank == [i \in D |-> N - i]
           F == [from \in [D -> A] |-> [i \in D |-> Cut(from, text, pattern, i)]]
<1>1. N \in Nat /\ A # {} /\ rank \in [D -> 0 .. N]
  <2>1. N \in Nat
    OBVIOUS
  <2>2. <<>> \in A
    OBVIOUS
  <2> HIDE DEF A, N
  <2>3. \A i \in D : N - i \in 0 .. N
    BY <2>1
  <2> HIDE DEF D
  <2> QED
    BY <2>1, <2>2, <2>3
<1>2. F \in [[D -> A] -> [D -> A]]
  <2>1. ASSUME NEW from \in [D -> A], NEW i \in D
        PROVE  Cut(from, text, pattern, i) \in A
    <3>1. ASSUME NEW k \in i + 1 .. Len(text)
          PROVE  from[k] \in A
      <4>1. k \in D
        BY <1>1
      <4> HIDE DEF D, A
      <4> QED
        BY <4>1
    <3> QED
      BY <3>1, CutType
  <2> HIDE DEF D, A
  <2> QED
    BY <2>1
<1>3. \A g, h \in [D -> A] : \A i \in D :
        (\A k \in D : rank[k] < rank[i] => g[k] = h[k]) => F[g][i] = F[h][i]
  <2> SUFFICES ASSUME NEW g \in [D -> A], NEW h \in [D -> A], NEW i \in D,
                      \A k \in D : rank[k] < rank[i] => g[k] = h[k]
               PROVE  F[g][i] = F[h][i]
    <3> HIDE DEF F, rank, D, A
    <3> QED
      OBVIOUS
  <2> DEFINE at == Find(text, pattern, i)
             k == at + Len(pattern)
  <2>1. at # None => k \in i + 1 .. N
    BY FoundAt
  <2> HIDE DEF at, k
  <2>2. at # None => k \in D /\ rank[k] < rank[i]
    BY <1>1, <2>1
  <2>3. at # None => g[k] = h[k]
    <3> HIDE DEF rank, D
    <3> QED
      BY <2>2
  <2>4. Cut(g, text, pattern, i) = Cut(h, text, pattern, i)
    <3> HIDE DEF rank, D, N, A, F
    <3> QED
      BY <2>3 DEF Cut, at, k
  <2> HIDE DEF D, A
  <2> QED
    BY <2>4
<1>4. WellFoundedRecursion(F, D, A, rank, N)
  <2> HIDE DEF D, rank, F, A, N
  <2> QED
    BY <1>1, <1>2, <1>3 DEF WellFoundedRecursion
<1>5. PICK from \in [D -> A] : F[from] = from
  <2> HIDE DEF D, rank, F, A, N
  <2> QED
    BY <1>4, RecursionExists
<1> QED
  BY <1>5 DEF Cuts

(* Which is the one Pieces chooses.                                        *)
LEMMA PiecesAre ==
  ASSUME NEW S, NEW text \in Seq(S), NEW pattern \in Seq(S), pattern # <<>>
  PROVE  \E from : /\ from \in [0 .. Len(text) -> Seq(Seq(S)) \ {<<>>}]
                   /\ Cuts(from, text, pattern)
                   /\ \A i \in 0 .. Len(text) : Pieces(text, pattern, i) = from[i]
<1> DEFINE from == CHOOSE f : Cuts(f, text, pattern)
<1>1. Cuts(from, text, pattern)
  BY CutsExist
<1>2. \A i \in 0 .. Len(text) : Pieces(text, pattern, i) = from[i]
  BY DEF Pieces, Cuts, Cut
<1> HIDE DEF from
<1>3. \A i \in 0 .. Len(text) : from[i] = Cut(from, text, pattern, i)
  BY <1>1 DEF Cuts
<1> DEFINE P == {i \in 0 .. Len(text) : from[i] \in Seq(Seq(S)) \ {<<>>}}
<1>4. ASSUME NEW i \in 0 .. Len(text), i + 1 .. Len(text) \subseteq P
      PROVE  i \in P
  <2>1. \A k \in i + 1 .. Len(text) : from[k] \in Seq(Seq(S))
    BY <1>4
  <2>2. Cut(from, text, pattern, i) \in Seq(Seq(S)) \ {<<>>}
    BY <2>1, CutType
  <2> QED
    BY <1>3, <2>2
<1>5. P = 0 .. Len(text)
  <2>1. P \in SUBSET (0 .. Len(text)) /\ Len(text) \in Nat
    OBVIOUS
  <2> HIDE DEF P
  <2> QED
    BY <1>4, <2>1, DownwardInduction
<1>6. from \in [0 .. Len(text) -> Seq(Seq(S)) \ {<<>>}]
  <2>1. \A i \in 0 .. Len(text) : from[i] \in Seq(Seq(S)) \ {<<>>}
    BY <1>5
  <2> QED
    BY <1>1, <2>1 DEF Cuts
<1> QED
  BY <1>1, <1>2, <1>6

(* What is left when none is found, and one more piece.                    *)
One(piece) == <<piece>>

(* Pieces, unfolded.                                                       *)
LEMMA PiecesSteps ==
  ASSUME NEW S, NEW text \in Seq(S), NEW pattern \in Seq(S), pattern # <<>>,
         NEW i \in 0 .. Len(text), NEW at, at = Find(text, pattern, i)
  PROVE  /\ Pieces(text, pattern, i) \in Seq(Seq(S)) \ {<<>>}
         /\ at = None => Pieces(text, pattern, i) = One(Rest(text, i))
         /\ at # None => Pieces(text, pattern, i)
                           = Cons(Between(text, i, at), Pieces(text, pattern, at + Len(pattern)))
<1>1. PICK from : /\ from \in [0 .. Len(text) -> Seq(Seq(S)) \ {<<>>}]
                  /\ Cuts(from, text, pattern)
                  /\ \A k \in 0 .. Len(text) : Pieces(text, pattern, k) = from[k]
  BY PiecesAre
<1>2. at # None => at + Len(pattern) \in 0 .. Len(text)
  <2>1. at # None => at + Len(pattern) \in i + 1 .. Len(text)
    BY FoundAt
  <2> QED
    BY <2>1
<1>3. from[i] = Cut(from, text, pattern, i) /\ Pieces(text, pattern, i) = from[i]
  BY <1>1 DEF Cuts
<1> QED
  BY <1>1, <1>2, <1>3 DEF Cut, One, Cons

(* What split is to return of the text from a position on.                 *)
CutLeftmost(pieces, text, pattern, i) ==
  /\ Joined(pieces, pattern) = Rest(text, i)
  /\ \A k \in 1 .. Len(pieces) - 1 : Find(pieces[k] \o pattern, pattern, 0) = Len(pieces[k])
  /\ Find(pieces[Len(pieces)], pattern, 0) = None

(* The piece before an occurrence, and what follows it.                    *)
LEMMA RestFrom ==
  ASSUME NEW S, NEW text \in Seq(S), NEW pattern \in Seq(S), pattern # <<>>,
         NEW i \in 0 .. Len(text), Find(text, pattern, i) # None
  PROVE  LET at == Find(text, pattern, i)
         IN  Rest(text, i) = With(Between(text, i, at), pattern, Rest(text, at + Len(pattern)))
<1> DEFINE at == Find(text, pattern, i)
           m == i + 1
           j == at + Len(pattern)
           L == Len(text)
<1>1. at \in i .. L /\ j \in i + 1 .. L /\ j = at + Len(pattern)
  BY FoundAt
<1>2. Matches(text, pattern, at)
  BY FindIs
<1>3. pattern = SubSeq(text, at + 1, j)
  BY <1>2 DEF Matches
<1> HIDE DEF at, j
<1>4. Len(pattern) \in Nat /\ L \in Nat
  OBVIOUS
<1> HIDE DEF L
<1>5. /\ m \in 1 .. L + 1 /\ at \in m - 1 .. L /\ j \in at .. L /\ j \in m - 1 .. L /\ L \in j .. L
  BY <1>1, <1>4
<1> HIDE DEF m
<1>6. SubSeq(text, m, at) \o SubSeq(text, at + 1, j) = SubSeq(text, m, j)
  BY <1>5, ConcatAdjacentSubSeq DEF L
<1>7. SubSeq(text, m, j) \o SubSeq(text, j + 1, L) = SubSeq(text, m, L)
  BY <1>5, ConcatAdjacentSubSeq DEF L
<1>8. With(SubSeq(text, m, at), pattern, SubSeq(text, j + 1, L)) = SubSeq(text, m, L)
  BY <1>3, <1>6, <1>7 DEF With
<1> QED
  BY <1>8 DEF Rest, Between, m, j, at, L

(* One more piece before the others.                                       *)
LEMMA CutLeftmostCons ==
  ASSUME NEW S, NEW text \in Seq(S), NEW pattern \in Seq(S), pattern # <<>>,
         NEW i \in 0 .. Len(text), Find(text, pattern, i) # None,
         NEW rest \in Seq(Seq(S)) \ {<<>>},
         CutLeftmost(rest, text, pattern, Find(text, pattern, i) + Len(pattern))
  PROVE  CutLeftmost(<<Between(text, i, Find(text, pattern, i))>> \o rest, text, pattern, i)
<1> DEFINE at == Find(text, pattern, i)
           piece == Between(text, i, at)
           all == <<piece>> \o rest
<1>1. piece \in Seq(S)
  <2>1. at \in i .. Len(text)
    BY FoundAt
  <2> HIDE DEF at
  <2> QED
    BY <2>1, BetweenType
<1>2. Find(piece \o pattern, pattern, 0) = Len(piece)
  BY PieceFound
<1>3. Rest(text, i) = With(piece, pattern, Rest(text, at + Len(pattern)))
  BY RestFrom
<1> HIDE DEF piece
<1>4. Joined(all, pattern) = With(piece, pattern, Joined(rest, pattern))
  BY <1>1, JoinedCons
<1>5. Joined(all, pattern) = Rest(text, i)
  BY <1>3, <1>4 DEF CutLeftmost
<1>6. /\ Len(rest) \in Nat \ {0} /\ Len(all) = Len(rest) + 1 /\ all[1] = piece
      /\ \A k \in 1 .. Len(rest) : all[k + 1] = rest[k]
  BY <1>1
<1> HIDE DEF all
<1>7. ASSUME NEW k \in 1 .. Len(all) - 1
      PROVE  Find(all[k] \o pattern, pattern, 0) = Len(all[k])
  <2>1. CASE k = 1
    BY <1>2, <1>6, <2>1
  <2>2. CASE k # 1
    <3> DEFINE q == k - 1
    <3>1. q \in 1 .. Len(rest) - 1 /\ q \in 1 .. Len(rest) /\ k = q + 1
      BY <1>6, <2>2
    <3> HIDE DEF q
    <3>2. all[k] = rest[q]
      BY <1>6, <3>1
    <3> QED
      BY <3>1, <3>2 DEF CutLeftmost
  <2> QED
    BY <2>1, <2>2
<1>8. all[Len(all)] = rest[Len(rest)]
  <2>1. Len(rest) \in 1 .. Len(rest)
    BY <1>6
  <2> QED
    BY <1>6, <2>1
<1>9. CutLeftmost(all, text, pattern, i)
  BY <1>5, <1>7, <1>8 DEF CutLeftmost
<1> QED
  BY <1>9 DEF all, piece, at

(* Pieces cuts the text leftmost.                                          *)
LEMMA PiecesLeftmost ==
  ASSUME NEW S, NEW text \in Seq(S), NEW pattern \in Seq(S), pattern # <<>>
  PROVE  \A i \in 0 .. Len(text) : CutLeftmost(Pieces(text, pattern, i), text, pattern, i)
<1> DEFINE P == {i \in 0 .. Len(text) : CutLeftmost(Pieces(text, pattern, i), text, pattern, i)}
<1>1. ASSUME NEW i \in 0 .. Len(text), i + 1 .. Len(text) \subseteq P
      PROVE  i \in P
  <2> DEFINE at == Find(text, pattern, i)
  <2>1. CASE at = None
    <3>1. Pieces(text, pattern, i) = One(Rest(text, i))
      BY <2>1, PiecesSteps
    <3> DEFINE rest == Rest(text, i)
    <3>2. rest \in Seq(S)
      <4>1. Len(text) \in i .. Len(text)
        OBVIOUS
      <4> QED
        BY <4>1, BetweenType
    <3>3. Find(rest, pattern, 0) = None
      BY <2>1, RestHasNone
    <3>4. Joined(<<rest>>, pattern) = rest
      BY <3>2, JoinedOne
    <3> HIDE DEF rest
    <3>5. Len(<<rest>>) = 1 /\ <<rest>>[1] = rest
      OBVIOUS
    <3>6. CutLeftmost(<<rest>>, text, pattern, i)
      BY <3>3, <3>4, <3>5 DEF CutLeftmost, rest
    <3> QED
      BY <3>1, <3>6 DEF rest, One
  <2>2. CASE at # None
    <3> DEFINE j == at + Len(pattern)
               rest == Pieces(text, pattern, j)
    <3>1. j \in i + 1 .. Len(text)
      BY <2>2, FoundAt
    <3>2. j \in 0 .. Len(text)
      <4> HIDE DEF j
      <4> QED
        BY <3>1
    <3>3. CutLeftmost(rest, text, pattern, j)
      BY <1>1, <3>1
    <3>4. rest \in Seq(Seq(S)) \ {<<>>}
      <4> HIDE DEF j
      <4> QED
        BY <3>2, PiecesSteps
    <3>5. Pieces(text, pattern, i) = Cons(Between(text, i, at), rest)
      BY <2>2, PiecesSteps
    <3> HIDE DEF rest
    <3>6. CutLeftmost(<<Between(text, i, at)>> \o rest, text, pattern, i)
      BY <2>2, <3>3, <3>4, CutLeftmostCons
    <3> QED
      BY <3>5, <3>6 DEF Cons
  <2> QED
    BY <2>1, <2>2
<1>2. P = 0 .. Len(text)
  <2>1. P \in SUBSET (0 .. Len(text)) /\ Len(text) \in Nat
    OBVIOUS
  <2> HIDE DEF P
  <2> QED
    BY <1>1, <2>1, DownwardInduction
<1> QED
  BY <1>2

(* An empty pattern is found wherever it is looked for.                    *)
LEMMA FindEmpty ==
  ASSUME NEW S, NEW text \in Seq(S), NEW i \in 0 .. Len(text)
  PROVE  Find(text, <<>>, i) = i
<1> DEFINE at == Find(text, <<>>, i)
<1>1. <<>> \in Seq(S) /\ Len(<<>>) = 0 /\ Len(text) \in Nat
  OBVIOUS
<1>2. \A p \in i .. Len(text) : Matches(text, <<>>, p)
  <2> SUFFICES ASSUME NEW p \in i .. Len(text)
               PROVE  Matches(text, <<>>, p)
    OBVIOUS
  <2>1. SubSeq(text, p + 1, p) = <<>>
    BY SubSeqEmpty
  <2>2. p + Len(<<>>) = p
    BY <1>1
  <2> QED
    BY <2>1, <2>2 DEF Matches
<1>3. /\ at = None => \A p \in i .. Len(text) - Len(<<>>) : ~Matches(text, <<>>, p)
      /\ at # None => /\ at \in i .. Len(text) - Len(<<>>)
                      /\ \A p \in i .. at - 1 : ~Matches(text, <<>>, p)
  BY <1>1, FindIs
<1> HIDE DEF at
<1>4. Len(text) - Len(<<>>) = Len(text) /\ i \in i .. Len(text)
  BY <1>1
<1>5. at # None /\ at \in i .. Len(text)
  BY <1>2, <1>3, <1>4
<1>6. ~(i < at)
  <2> SUFFICES ASSUME i < at
               PROVE  FALSE
    OBVIOUS
  <2>1. i \in i .. at - 1
    BY <1>5
  <2> QED
    BY <1>2, <1>3, <1>4, <1>5, <2>1
<1>7. at = i
  BY <1>5, <1>6
<1> QED
  BY <1>7 DEF at

(* The joined pieces, unfolded as the text is.                             *)
LEMMA JoinedPieces ==
  ASSUME NEW S, NEW text \in Seq(S), NEW pattern \in Seq(S), pattern # <<>>, NEW new \in Seq(S),
         NEW i \in 0 .. Len(text), NEW at, at = Find(text, pattern, i)
  PROVE  /\ Joined(Pieces(text, pattern, i), new) \in Seq(S)
         /\ at = None => Joined(Pieces(text, pattern, i), new) = Rest(text, i)
         /\ at # None => Joined(Pieces(text, pattern, i), new)
                           = With(Between(text, i, at), new,
                                  Joined(Pieces(text, pattern, at + Len(pattern)), new))
<1>1. Pieces(text, pattern, i) \in Seq(Seq(S)) \ {<<>>}
  BY PiecesSteps
<1>2. Joined(Pieces(text, pattern, i), new) \in Seq(S)
  BY <1>1, JoinedType
<1>3. ASSUME at = None
      PROVE  Joined(Pieces(text, pattern, i), new) = Rest(text, i)
  <2>1. Rest(text, i) \in Seq(S)
    <3>1. Len(text) \in i .. Len(text)
      OBVIOUS
    <3> QED
      BY <3>1, BetweenType
  <2>2. Find(text, pattern, i) = None => Pieces(text, pattern, i) = One(Rest(text, i))
    BY PiecesSteps
  <2>3. Joined(One(Rest(text, i)), new) = Rest(text, i)
    BY <2>1, JoinedOne DEF One
  <2> QED
    BY <1>3, <2>2, <2>3
<1>4. ASSUME at # None
      PROVE  Joined(Pieces(text, pattern, i), new)
               = With(Between(text, i, at), new,
                      Joined(Pieces(text, pattern, at + Len(pattern)), new))
  <2> DEFINE j == at + Len(pattern)
             piece == Between(text, i, at)
             rest == Pieces(text, pattern, j)
  <2>1. at \in i .. Len(text) /\ j \in i + 1 .. Len(text)
    BY <1>4, FoundAt
  <2>2. piece \in Seq(S)
    BY <2>1, BetweenType
  <2>3. rest \in Seq(Seq(S)) \ {<<>>}
    <3>1. j \in 0 .. Len(text)
      <4> HIDE DEF j
      <4> QED
        BY <2>1
    <3> HIDE DEF j
    <3> QED
      BY <3>1, PiecesSteps
  <2>4. Pieces(text, pattern, i) = Cons(piece, rest)
    BY <1>4, PiecesSteps
  <2> HIDE DEF piece, rest
  <2>5. Joined(Cons(piece, rest), new) = With(piece, new, Joined(rest, new))
    BY <2>2, <2>3, JoinedCons DEF Cons
  <2> QED
    BY <2>4, <2>5 DEF piece, rest
<1> QED
  BY <1>2, <1>3, <1>4

(* The texts are sequences.                                                *)
LEMMA TextsAre == Texts \subseteq Seq(Letters) /\ Patterns \subseteq Seq(Letters)
<1> SUFFICES ASSUME NEW n \in Nat
             PROVE  BoundedSeq(Letters, n) \subseteq Seq(Letters)
  BY StringAssumption DEF Texts, Patterns
<1> QED
  BY DEF BoundedSeq, SeqOf

(***************************************************************************)
(* What was cut off and what is still to be cut make the pieces of the     *)
(* whole; what was gathered and what is still to be replaced, the result.  *)
(***************************************************************************)
Words == Seq(Letters)
Splitting(h) ==
  /\ h \in [op : {"split", "splitDone"}, text : Words, pattern : Words, start : Nat,
            pieces : Seq(Words)]
  /\ h.start \in 0 .. Len(h.text)
  /\ h.op = "splitDone" => h.pattern # <<>>
  /\ h.pattern # <<>> =>
       Pieces(h.text, h.pattern, 0) =
         IF h.op = "splitDone" THEN h.pieces
         ELSE h.pieces \o Pieces(h.text, h.pattern, h.start)
Replacing(h) ==
  /\ h \in [op : {"replaceGlobal", "replacedGlobal"}, text : Words, pattern : Words, new : Words,
            start : Nat, result : Words]
  /\ h.start \in 0 .. Len(h.text)
  /\ h.pattern # <<>> =>
       Joined(Pieces(h.text, h.pattern, 0), h.new) =
         IF h.op = "replacedGlobal" THEN h.result
         ELSE h.result \o Joined(Pieces(h.text, h.pattern, h.start), h.new)
Replaced(h) ==
  /\ h \in [op : {"replaced"}, text : Words, pattern : Words, new : Words, result : Words]
  /\ h.pattern # <<>> =>
       LET pieces == Pieces(h.text, h.pattern, 0)
       IN  h.result = IF Len(pieces) = 1 THEN h.text
                      ELSE Head(pieces) \o h.new \o Joined(Tail(pieces), h.pattern)
Idle(h) == h \in [op : {"none", "threw"}]
StringInv == Idle(helper) \/ Splitting(helper) \/ Replacing(helper) \/ Replaced(helper)

(* One more piece is cut off, and the last one.                            *)
LEMMA SplitMore ==
  ASSUME NEW text \in Words, NEW pattern \in Words, pattern # <<>>, NEW pieces \in Seq(Words),
         NEW start \in 0 .. Len(text), NEW at, at = Find(text, pattern, start), at # None
  PROVE  pieces \o Pieces(text, pattern, start)
           = Append(pieces, Between(text, start, at)) \o Pieces(text, pattern, at + Len(pattern))
<1> DEFINE piece == Between(text, start, at)
           j == at + Len(pattern)
           rest == Pieces(text, pattern, j)
<1>1. at \in start .. Len(text) /\ j \in start + 1 .. Len(text)
  BY FoundAt DEF Words
<1>2. piece \in Words
  BY <1>1, BetweenType DEF Words
<1>3. j \in 0 .. Len(text)
  <2> HIDE DEF j
  <2> QED
    BY <1>1
<1>4. rest \in Seq(Words)
  <2> HIDE DEF j
  <2> QED
    BY <1>3, PiecesSteps DEF Words
<1>5. Find(text, pattern, start) # None =>
        Pieces(text, pattern, start)
          = Cons(Between(text, start, Find(text, pattern, start)),
                 Pieces(text, pattern, Find(text, pattern, start) + Len(pattern)))
  BY PiecesSteps DEF Words
<1>6. Pieces(text, pattern, start) = Cons(piece, rest)
  BY <1>5
<1> HIDE DEF piece, rest
<1>7. pieces \o Cons(piece, rest) = Append(pieces, piece) \o rest
  <2>1. <<piece>> \in Seq(Words) /\ Append(pieces, piece) = pieces \o <<piece>>
    BY <1>2
  <2> DEFINE one == <<piece>>
  <2>2. one \in Seq(Words) /\ rest \in Seq(Words)
    BY <1>4, <2>1
  <2> HIDE DEF one
  <2>3. Then(Then(pieces, one), rest) = Then(pieces, Then(one, rest))
    BY <2>2, ThenThen
  <2> QED
    BY <2>1, <2>3 DEF Cons, one, Then
<1> QED
  BY <1>6, <1>7 DEF piece, rest

(* The last piece.                                                         *)
LEMMA SplitLast ==
  ASSUME NEW text \in Words, NEW pattern \in Words, pattern # <<>>, NEW pieces \in Seq(Words),
         NEW start \in 0 .. Len(text), Find(text, pattern, start) = None
  PROVE  pieces \o Pieces(text, pattern, start) = Append(pieces, Rest(text, start))
<1>1. Find(text, pattern, start) = None =>
        Pieces(text, pattern, start) = One(Rest(text, start))
  BY PiecesSteps DEF Words
<1>2. Rest(text, start) \in Words
  <2>1. Len(text) \in start .. Len(text)
    BY DEF Words
  <2> QED
    BY <2>1, BetweenType DEF Words
<1> DEFINE piece == Rest(text, start)
<1>3. Pieces(text, pattern, start) = <<piece>>
  BY <1>1 DEF One
<1> HIDE DEF piece
<1>4. Append(pieces, piece) = pieces \o <<piece>>
  BY <1>2, AppendIsConcat DEF piece
<1> QED
  BY <1>3, <1>4 DEF piece

(* One more occurrence is replaced.                                        *)
Sewn(result, piece, new) == result \o piece \o new
Continued(result, rest) == result \o rest

(* What was gathered grows by the piece and the new value.                 *)
LEMMA ReplaceMore ==
  ASSUME NEW text \in Words, NEW pattern \in Words, pattern # <<>>, NEW new \in Words,
         NEW result \in Words,
         NEW start \in 0 .. Len(text), NEW at, at = Find(text, pattern, start), at # None
  PROVE  Continued(result, Joined(Pieces(text, pattern, start), new))
           = Continued(Sewn(result, Between(text, start, at), new),
                       Joined(Pieces(text, pattern, at + Len(pattern)), new))
<1> DEFINE piece == Between(text, start, at)
           j == at + Len(pattern)
           rest == Joined(Pieces(text, pattern, j), new)
<1>1. at \in start .. Len(text) /\ j \in start + 1 .. Len(text)
  BY FoundAt DEF Words
<1>2. piece \in Words
  BY <1>1, BetweenType DEF Words
<1>3. j \in 0 .. Len(text)
  <2> HIDE DEF j
  <2> QED
    BY <1>1
<1>4. rest \in Words
  <2> HIDE DEF j
  <2> QED
    BY <1>3, JoinedPieces DEF Words
<1>5. Find(text, pattern, start) # None =>
        Joined(Pieces(text, pattern, start), new)
          = With(Between(text, start, Find(text, pattern, start)), new,
                 Joined(Pieces(text, pattern, Find(text, pattern, start) + Len(pattern)), new))
  BY JoinedPieces DEF Words
<1>6. Joined(Pieces(text, pattern, start), new) = With(piece, new, rest)
  BY <1>5
<1> HIDE DEF piece, rest
<1>7. result \o With(piece, new, rest) = (result \o piece \o new) \o rest
  <2>1. result \in Seq(Letters) /\ rest \in Seq(Letters)
        /\ piece \in Seq(Letters) /\ new \in Seq(Letters)
    BY <1>2, <1>4 DEF Words
  <2>2. Then(piece, new) \in Seq(Letters)
    BY <2>1, ThenThen
  <2>3. /\ Then(Then(result, piece), new) = Then(result, Then(piece, new))
        /\ Then(Then(result, Then(piece, new)), rest)
             = Then(result, Then(Then(piece, new), rest))
    BY <2>1, <2>2, ThenThen
  <2> QED
    BY <2>3 DEF With, Then
<1> QED
  BY <1>6, <1>7 DEF piece, rest, Sewn, Continued

(* What a first occurrence replaced leaves.                                *)
LEMMA ReplaceFirst ==
  ASSUME NEW text \in Words, NEW pattern \in Words, pattern # <<>>, NEW new \in Words,
         NEW at, at = Find(text, pattern, 0)
  PROVE  LET pieces == Pieces(text, pattern, 0)
         IN  (IF at = None THEN text
              ELSE Between(text, 0, at) \o new \o Rest(text, at + Len(pattern)))
             = IF Len(pieces) = 1 THEN text
               ELSE Head(pieces) \o new \o Joined(Tail(pieces), pattern)
<1>0. 0 \in 0 .. Len(text)
  BY DEF Words
<1>1. CASE at = None
  <2>1. Find(text, pattern, 0) = None => Pieces(text, pattern, 0) = One(Rest(text, 0))
    BY <1>0, PiecesSteps DEF Words
  <2> DEFINE piece == Rest(text, 0)
  <2>2. Pieces(text, pattern, 0) = <<piece>>
    BY <1>1, <2>1 DEF One
  <2> HIDE DEF piece
  <2>3. Len(<<piece>>) = 1
    OBVIOUS
  <2> QED
    BY <1>1, <2>2, <2>3
<1>2. CASE at # None
  <2> DEFINE piece == Between(text, 0, at)
             j == at + Len(pattern)
             rest == Pieces(text, pattern, j)
  <2>1. at \in 0 .. Len(text) /\ j \in 0 + 1 .. Len(text)
    BY <1>0, <1>2, FoundAt DEF Words
  <2>2. piece \in Words
    BY <1>0, <2>1, BetweenType DEF Words
  <2>3. j \in 0 .. Len(text)
    <3> HIDE DEF j
    <3> QED
      BY <2>1
  <2>4. rest \in Seq(Words) \ {<<>>} /\ Joined(rest, pattern) = Rest(text, j)
    <3> HIDE DEF j
    <3> QED
      BY <2>3, PiecesSteps, PiecesLeftmost DEF Words, CutLeftmost
  <2>5. Find(text, pattern, 0) # None =>
          Pieces(text, pattern, 0)
            = Cons(Between(text, 0, Find(text, pattern, 0)),
                   Pieces(text, pattern, Find(text, pattern, 0) + Len(pattern)))
    BY <1>0, PiecesSteps DEF Words
  <2>6. Pieces(text, pattern, 0) = Cons(piece, rest)
    BY <1>2, <2>5
  <2> HIDE DEF piece, rest
  <2>7. /\ Len(Cons(piece, rest)) # 1
        /\ Head(Cons(piece, rest)) = piece /\ Tail(Cons(piece, rest)) = rest
    BY <2>2, <2>4 DEF Cons
  <2> QED
    BY <1>2, <2>4, <2>6, <2>7 DEF piece
<1> QED
  BY <1>1, <1>2

(* The position stays in the text.                                         *)
LEMMA StartStays ==
  ASSUME NEW text \in Words, NEW pattern \in Words, NEW start \in 0 .. Len(text),
         NEW at, at = Find(text, pattern, start), at # None
  PROVE  at + Len(pattern) \in 0 .. Len(text)
<1>1. CASE pattern = <<>>
  <2>1. Find(text, <<>>, start) = start
    BY FindEmpty DEF Words
  <2> QED
    BY <1>1, <2>1
<1>2. CASE pattern # <<>>
  <2>1. at + Len(pattern) \in start + 1 .. Len(text)
    BY <1>2, FoundAt DEF Words
  <2> QED
    BY <2>1
<1> QED
  BY <1>1, <1>2

(* What is cut off is a sequence.                                          *)
LEMMA PieceIsWord ==
  ASSUME NEW text \in Words, NEW pattern \in Words, NEW start \in 0 .. Len(text),
         NEW at, at = Find(text, pattern, start)
  PROVE  /\ Rest(text, start) \in Words
         /\ at # None => Between(text, start, at) \in Words
<1>1. Len(text) \in Nat /\ Len(pattern) \in Nat /\ Len(text) \in start .. Len(text)
  BY DEF Words
<1>2. at # None => at \in start .. Len(text) - Len(pattern)
  BY FindIs DEF Words
<1>3. at # None => at \in start .. Len(text)
  BY <1>1, <1>2
<1> QED
  BY <1>1, <1>3, BetweenType DEF Words

-----------------------------------------------------------------------------
(* The calls, of which replace returns at once.                            *)
LEMMA CallsKeepInv ==
  ASSUME StringInv, NEW text \in Texts, NEW pattern \in Patterns, NEW new \in Patterns
  PROVE  /\ CallSplit(text, pattern) => StringInv'
         /\ CallReplaceGlobal(text, pattern, new) => StringInv'
         /\ CallReplace(text, pattern, new) => StringInv'
<1>1. text \in Words /\ pattern \in Words /\ new \in Words /\ 0 \in 0 .. Len(text) /\ 0 \in Nat
      /\ <<>> \in Words /\ <<>> \in Seq(Words)
  BY TextsAre DEF Words
<1>2. ASSUME CallSplit(text, pattern)
      PROVE  StringInv'
  <2> DEFINE h == [op |-> "split", text |-> text, pattern |-> pattern,
                   start |-> 0, pieces |-> <<>>]
  <2>1. ASSUME pattern # <<>>
        PROVE  Pieces(text, pattern, 0) = <<>> \o Pieces(text, pattern, 0)
    <3>1. Pieces(text, pattern, 0) \in Seq(Words)
      BY <1>1, <2>1, PiecesSteps DEF Words
    <3> QED
      BY <3>1, ConcatEmptySeq
  <2>2. Splitting(h)
    BY <1>1, <2>1 DEF Splitting
  <2>3. helper' = h
    BY <1>2 DEF CallSplit
  <2> HIDE DEF h
  <2> QED
    BY <2>2, <2>3 DEF StringInv
<1>3. ASSUME CallReplaceGlobal(text, pattern, new)
      PROVE  StringInv'
  <2> DEFINE h == [op |-> "replaceGlobal", text |-> text, pattern |-> pattern,
                   new |-> new, start |-> 0, result |-> <<>>]
             x == Joined(Pieces(text, pattern, 0), new)
  <2>1. ASSUME pattern # <<>>
        PROVE  x = <<>> \o x
    <3>1. x \in Seq(Letters)
      BY <1>1, <2>1, JoinedPieces DEF Words
    <3> QED
      BY <3>1, ConcatEmptySeq
  <2>2. Replacing(h)
    BY <1>1, <2>1 DEF Replacing
  <2>3. helper' = h
    BY <1>3 DEF CallReplaceGlobal
  <2> HIDE DEF h
  <2> QED
    BY <2>2, <2>3 DEF StringInv
<1>4. ASSUME CallReplace(text, pattern, new)
      PROVE  StringInv'
  <2> DEFINE at == Find(text, pattern, 0)
             result == IF at = None THEN text
                       ELSE Between(text, 0, at) \o new \o Rest(text, at + Len(pattern))
             h == [op |-> "replaced", text |-> text, pattern |-> pattern, new |-> new,
                   result |-> result]
  <2>1. result \in Words
    <3>1. CASE at = None
      BY <1>1, <3>1
    <3>2. CASE at # None
      <4>1. at + Len(pattern) \in 0 .. Len(text)
        BY <1>1, <3>2, StartStays
      <4>2. Between(text, 0, at) \in Words /\ Rest(text, at + Len(pattern)) \in Words
        BY <1>1, <3>2, <4>1, PieceIsWord
      <4> QED
        BY <1>1, <3>2, <4>2 DEF Words
    <3> QED
      BY <3>1, <3>2
  <2>2. ASSUME pattern # <<>>
        PROVE  LET pieces == Pieces(text, pattern, 0)
               IN  result = IF Len(pieces) = 1 THEN text
                            ELSE Head(pieces) \o new \o Joined(Tail(pieces), pattern)
    BY <1>1, <2>2, ReplaceFirst
  <2>3. helper' = h
    BY <1>4 DEF CallReplace
  <2> HIDE DEF result
  <2>4. Replaced(h)
    BY <1>1, <2>1, <2>2 DEF Replaced
  <2> HIDE DEF h
  <2> QED
    BY <2>3, <2>4 DEF StringInv
<1> QED
  BY <1>2, <1>3, <1>4

(* split's loop.                                                           *)
LEMMA SplitKeepsInv ==
  ASSUME StringInv
  PROVE  /\ SplitStep => StringInv'
         /\ SplitReturns => StringInv'
<1> SUFFICES ASSUME helper.op = "split"
             PROVE  /\ SplitStep => StringInv'
                    /\ SplitReturns => StringInv'
  BY DEF SplitStep, SplitReturns
<1> DEFINE text == helper.text
           pattern == helper.pattern
           start == helper.start
           pieces == helper.pieces
           j == At + Len(pattern)
<1>1. Splitting(helper)
  BY DEF StringInv, Idle, Replacing, Replaced
<1>2. /\ text \in Words /\ pattern \in Words /\ start \in 0 .. Len(text) /\ pieces \in Seq(Words)
      /\ helper = [op |-> "split", text |-> text, pattern |-> pattern, start |-> start,
                   pieces |-> pieces]
      /\ At = Find(text, pattern, start)
  BY <1>1 DEF Splitting, At
<1>3. pattern # <<>> =>
        Pieces(text, pattern, 0) = pieces \o Pieces(text, pattern, start)
  BY <1>1 DEF Splitting
<1>4. Rest(text, start) \in Words /\ (At # None => Between(text, start, At) \in Words)
  BY <1>2, PieceIsWord
<1>5. At # None => j \in 0 .. Len(text)
  BY <1>2, StartStays
<1> HIDE DEF text, pattern, start, pieces
<1>6. ASSUME SplitStep
      PROVE  StringInv'
  <2> DEFINE more == Append(pieces, Between(text, start, At))
             h == [op |-> "split", text |-> text, pattern |-> pattern, start |-> j, pieces |-> more]
  <2>1. At # None
    BY <1>6 DEF SplitStep
  <2>2. helper' = h
    BY <1>2, <1>6 DEF SplitStep, Before, After, text, pattern, start, pieces
  <2>3. pattern # <<>> => Pieces(text, pattern, 0) = more \o Pieces(text, pattern, j)
    BY <1>2, <1>3, <2>1, SplitMore
  <2>4. more \in Seq(Words) /\ j \in 0 .. Len(text)
    BY <1>2, <1>4, <1>5, <2>1
  <2> HIDE DEF j, more
  <2>5. j \in Nat
    BY <2>4
  <2>6. Splitting(h)
    BY <1>2, <2>3, <2>4, <2>5 DEF Splitting
  <2> HIDE DEF h
  <2> QED
    BY <2>2, <2>6 DEF StringInv
<1>7. ASSUME SplitReturns
      PROVE  StringInv'
  <2> DEFINE all == Append(pieces, Rest(text, start))
             h == [op |-> "splitDone", text |-> text, pattern |-> pattern, start |-> start,
                   pieces |-> all]
  <2>1. At = None
    BY <1>7 DEF SplitReturns
  <2>2. helper' = h
    BY <1>2, <1>7 DEF SplitReturns, text, pattern, start, pieces
  <2>3. pattern # <<>>
    <3> SUFFICES ASSUME pattern = <<>>
                 PROVE  FALSE
      OBVIOUS
    <3>1. At = start
      BY <1>2, FindEmpty DEF Words
    <3> QED
      BY <1>2, <2>1, <3>1 DEF None
  <2>4. Pieces(text, pattern, 0) = all
    BY <1>2, <1>3, <2>1, <2>3, SplitLast
  <2>5. all \in Seq(Words) /\ start \in Nat
    BY <1>2, <1>4
  <2> HIDE DEF all
  <2>6. Splitting(h)
    BY <1>2, <2>3, <2>4, <2>5 DEF Splitting
  <2> HIDE DEF h
  <2> QED
    BY <2>2, <2>6 DEF StringInv
<1> QED
  BY <1>6, <1>7

(* replaceGlobal's loop.                                                   *)
LEMMA ReplaceKeepsInv ==
  ASSUME StringInv
  PROVE  /\ ReplaceStep => StringInv'
         /\ ReplaceReturns => StringInv'
<1> SUFFICES ASSUME helper.op = "replaceGlobal"
             PROVE  /\ ReplaceStep => StringInv'
                    /\ ReplaceReturns => StringInv'
  BY DEF ReplaceStep, ReplaceReturns
<1> DEFINE text == helper.text
           pattern == helper.pattern
           new == helper.new
           start == helper.start
           result == helper.result
           j == At + Len(pattern)
<1>1. Replacing(helper)
  BY DEF StringInv, Idle, Splitting, Replaced
<1>2. /\ text \in Words /\ pattern \in Words /\ new \in Words /\ start \in 0 .. Len(text)
      /\ result \in Words
      /\ helper = [op |-> "replaceGlobal", text |-> text, pattern |-> pattern, new |-> new,
                   start |-> start, result |-> result]
      /\ At = Find(text, pattern, start)
  BY <1>1 DEF Replacing, At
<1>3. pattern # <<>> =>
        Joined(Pieces(text, pattern, 0), new) = result \o Joined(Pieces(text, pattern, start), new)
  BY <1>1 DEF Replacing
<1>4. Rest(text, start) \in Words /\ (At # None => Between(text, start, At) \in Words)
  BY <1>2, PieceIsWord
<1>5. At # None => j \in 0 .. Len(text)
  BY <1>2, StartStays
<1> HIDE DEF text, pattern, start, new, result
<1>6. ASSUME ReplaceStep
      PROVE  StringInv'
  <2> DEFINE more == result \o Between(text, start, At) \o new
             h == [op |-> "replaceGlobal", text |-> text, pattern |-> pattern, new |-> new,
                   start |-> j, result |-> more]
  <2>1. At # None
    BY <1>6 DEF ReplaceStep
  <2>2. helper' = h
    BY <1>2, <1>6 DEF ReplaceStep, Grown, Before, After, text, pattern, start, new, result
  <2>3. pattern # <<>> =>
          Joined(Pieces(text, pattern, 0), new) = more \o Joined(Pieces(text, pattern, j), new)
    <3>1. pattern # <<>> =>
            Continued(result, Joined(Pieces(text, pattern, start), new))
              = Continued(Sewn(result, Between(text, start, At), new),
                          Joined(Pieces(text, pattern, At + Len(pattern)), new))
      BY <1>2, <2>1, ReplaceMore
    <3> QED
      BY <1>3, <3>1 DEF Continued, Sewn
  <2>4. more \in Words /\ j \in 0 .. Len(text)
    BY <1>2, <1>4, <1>5, <2>1 DEF Words
  <2> HIDE DEF j, more
  <2>5. j \in Nat
    BY <2>4
  <2>6. Replacing(h)
    BY <1>2, <2>3, <2>4, <2>5 DEF Replacing
  <2> HIDE DEF h
  <2> QED
    BY <2>2, <2>6 DEF StringInv
<1>7. ASSUME ReplaceReturns
      PROVE  StringInv'
  <2> DEFINE all == result \o Rest(text, start)
             h == [op |-> "replacedGlobal", text |-> text, pattern |-> pattern, new |-> new,
                   start |-> start, result |-> all]
  <2>1. At = None
    BY <1>7 DEF ReplaceReturns
  <2>2. helper' = h
    BY <1>2, <1>7 DEF ReplaceReturns, text, pattern, start, new, result
  <2>3. pattern # <<>> => Joined(Pieces(text, pattern, 0), new) = all
    <3>1. pattern # <<>> /\ Find(text, pattern, start) = None =>
            Joined(Pieces(text, pattern, start), new) = Rest(text, start)
      BY <1>2, JoinedPieces DEF Words
    <3> QED
      BY <1>2, <1>3, <2>1, <3>1
  <2>4. all \in Words /\ start \in Nat
    BY <1>2, <1>4 DEF Words
  <2> HIDE DEF all
  <2>5. Replacing(h)
    BY <1>2, <2>3, <2>4 DEF Replacing
  <2> HIDE DEF h
  <2> QED
    BY <2>2, <2>5 DEF StringInv
<1> QED
  BY <1>6, <1>7

(* So it is at every step of the loops.                                    *)
LEMMA StringInvariant == StringSpec => []StringInv
<1>1. StringInit => StringInv
  BY DEF StringInit, StringInv, Idle
<1>2. StringInv /\ [StringNext]_helper => StringInv'
  <2> SUFFICES ASSUME StringInv, [StringNext]_helper
               PROVE  StringInv'
    OBVIOUS
  <2>1. ASSUME NEW text \in Texts, NEW pattern \in Patterns, CallSplit(text, pattern)
        PROVE  StringInv'
    BY <2>1, CallsKeepInv
  <2>2. ASSUME NEW text \in Texts, NEW pattern \in Patterns, NEW new \in Patterns,
               CallReplaceGlobal(text, pattern, new) \/ CallReplace(text, pattern, new)
        PROVE  StringInv'
    BY <2>2, CallsKeepInv
  <2>3. ASSUME SplitStep \/ SplitReturns
        PROVE  StringInv'
    BY <2>3, SplitKeepsInv
  <2>4. ASSUME ReplaceStep \/ ReplaceReturns
        PROVE  StringInv'
    BY <2>4, ReplaceKeepsInv
  <2>5. ASSUME MemoryExhausted \/ Seen
        PROVE  StringInv'
    BY <2>5 DEF MemoryExhausted, Seen, StringInv, Idle
  <2>6. ASSUME UNCHANGED helper
        PROVE  StringInv'
    BY <2>6 DEF StringInv
  <2> QED
    BY <2>1, <2>2, <2>3, <2>4, <2>5, <2>6 DEF StringNext, StringLoop
<1> QED
  BY <1>1, <1>2, PTL DEF StringSpec

(* split returns the text cut at its leftmost separators: none is missed,  *)
(* and joining the pieces gives the text back.                             *)
THEOREM SplitLeftmost == StringSpec => []SplitIsLeftmost
<1>1. ASSUME StringInv
      PROVE  SplitIsLeftmost
  <2> SUFFICES ASSUME helper.op = "splitDone"
               PROVE  /\ Joined(helper.pieces, helper.pattern) = helper.text
                      /\ \A i \in 1 .. Len(helper.pieces) - 1 :
                           Find(helper.pieces[i] \o helper.pattern, helper.pattern, 0)
                             = Len(helper.pieces[i])
                      /\ Find(helper.pieces[Len(helper.pieces)], helper.pattern, 0) = None
    BY DEF SplitIsLeftmost
  <2>1. Splitting(helper)
    BY <1>1 DEF StringInv, Idle, Replacing, Replaced
  <2>2. /\ helper.text \in Seq(Letters) /\ helper.pattern \in Seq(Letters)
        /\ helper.pattern # <<>> /\ helper.pieces = Pieces(helper.text, helper.pattern, 0)
    BY <2>1 DEF Splitting, Words
  <2>3. 0 \in 0 .. Len(helper.text)
    BY <2>2
  <2>4. CutLeftmost(helper.pieces, helper.text, helper.pattern, 0)
    BY <2>2, <2>3, PiecesLeftmost
  <2>5. Rest(helper.text, 0) = helper.text
    BY <2>2, SubSeqFull DEF Rest
  <2> QED
    BY <2>4, <2>5 DEF CutLeftmost
<1> QED
  BY <1>1, StringInvariant, PTL

(* replaceGlobal returns the pieces split would make, joined with the new  *)
(* value; replace does so at the first place alone.                        *)
THEOREM ReplacedIsSplit == StringSpec => []ReplacedWhereSplit
<1>1. ASSUME StringInv
      PROVE  ReplacedWhereSplit
  <2>1. CASE helper.op = "replaced"
    <3>1. Replaced(helper)
      BY <1>1, <2>1 DEF StringInv, Idle, Splitting, Replacing
    <3> QED
      BY <2>1, <3>1 DEF Replaced, ReplacedWhereSplit
  <2>2. CASE helper.op = "replacedGlobal"
    <3>1. Replacing(helper)
      BY <1>1, <2>2 DEF StringInv, Idle, Splitting, Replaced
    <3> QED
      BY <2>2, <3>1 DEF Replacing, ReplacedWhereSplit
  <2> QED
    BY <2>1, <2>2 DEF ReplacedWhereSplit
<1> QED
  BY <1>1, StringInvariant, PTL
=============================================================================
