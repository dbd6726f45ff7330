------------------------------ MODULE SumTheorems ------------------------------
(***************************************************************************)
(* Sums over finite sets, which the models take with the folds of the      *)
(* community modules: the sum of a set does not depend on the order in     *)
(* which the elements are taken.                                           *)
(*                                                                         *)
(* The library's induction over finite sets has an operator for a          *)
(* parameter.  MinimalSubset takes its place: if a formula is false of a   *)
(* subset, it is false of one whose smaller subsets it is true of.         *)
(***************************************************************************)
EXTENDS Integers, FiniteSetTheorems, WellFoundedInduction, TLAPS

\* A sum over a set, as the fold computes it: g gives the sums over the subsets.
Accumulates(v, g, X) ==
  g = [s \in SUBSET X |->
         IF s = {} THEN 0
         ELSE v[CHOOSE i \in s : TRUE] + g[s \ {CHOOSE i \in s : TRUE}]]
SumOf(v, X) == (CHOOSE g : Accumulates(v, g, X))[X]

\* Among the subsets of a finite set that are in T, one has no smaller one in T.
LEMMA MinimalSubset ==
  ASSUME NEW X, IsFiniteSet(X), NEW T, T \subseteq SUBSET X, T # {}
  PROVE  \E s \in T : \A u \in SUBSET s : u # s => u \notin T
<1>1. IsWellFoundedOn(StrictSubsetOrdering(X), SUBSET X)
  BY FS_StrictSubsetOrderingWellFounded, FS_FiniteSubsetsOfFinite
<1>2. PICK s \in T : \A u \in T : ~(<<u, s>> \in StrictSubsetOrdering(X))
  <2> DEFINE R == StrictSubsetOrdering(X)
             P == SUBSET X
  <2>1. IsWellFoundedOn(R, P) /\ T \subseteq P
    BY <1>1
  <2> HIDE DEF R, P
  <2>2. \E s \in T : \A u \in T : ~(<<u, s>> \in R)
    BY <2>1, WFMin
  <2> QED BY <2>2 DEF R
<1>3. ASSUME NEW u \in SUBSET s, u # s PROVE u \notin T
  BY <1>2, <1>3 DEF StrictSubsetOrdering
<1> QED BY <1>3

\* A set of numbers that is not empty has a least one: of the intervals from 0 to
\* its members, one has no other within it.
LEMMA LeastNatural ==
  ASSUME NEW S, S \subseteq Nat, S # {}
  PROVE  \E n \in S : \A k \in S : n <= k
<1>1. PICK m \in S : TRUE
  OBVIOUS
<1> DEFINE T == {0..n : n \in {k \in S : k <= m}}
           R == StrictSubsetOrdering(0..m)
<1>2. FiniteSubsetsOf(0..m) = SUBSET (0..m)
  <2>1. 0 \in Int /\ m \in Int
    OBVIOUS
  <2>2. IsFiniteSet(0..m)
    BY <2>1, FS_Interval
  <2> QED
    BY <2>2, FS_FiniteSubsetsOfFinite
<1>3. IsWellFoundedOn(R, SUBSET (0..m))
  BY <1>2, FS_StrictSubsetOrderingWellFounded
<1>4. T \subseteq SUBSET (0..m) /\ 0..m \in T
  BY <1>1
<1> HIDE DEF R
<1>5. PICK x \in T : \A y \in T : ~ (<<y, x>> \in R)
  BY <1>3, <1>4, WFMin
<1>6. PICK n \in S : n <= m /\ x = 0..n
  BY <1>5
<1>7. ASSUME NEW k \in S, k < n
      PROVE  FALSE
  <2>1. k <= m /\ k \in Nat /\ n \in Nat /\ m \in Nat
    BY <1>1, <1>6, <1>7
  <2>2. 0..k \in T
    BY <2>1
  <2>3. 0..k \subseteq 0..n /\ 0..k # 0..n /\ 0..k \in SUBSET (0..m) /\ 0..n \in SUBSET (0..m)
    BY <1>6, <1>7, <2>1
  <2>4. <<0..k, 0..n>> \in R
    BY <2>3 DEF R, StrictSubsetOrdering
  <2> QED
    BY <1>5, <1>6, <2>2, <2>4
<1>8. \A k \in S : n <= k
  BY <1>7
<1> QED
  BY <1>8

\* Sums over the same subset agree, whatever set they were computed for.
LEMMA SumsAgree ==
  ASSUME NEW X, NEW Y, IsFiniteSet(Y), Y \subseteq X, NEW v, NEW w, NEW g, NEW h,
         Accumulates(v, g, X), Accumulates(w, h, Y), \A i \in Y : v[i] = w[i]
  PROVE  \A s \in SUBSET Y : g[s] = h[s]
<1> DEFINE T == {s \in SUBSET Y : g[s] # h[s]}
<1> SUFFICES ASSUME T # {} PROVE FALSE
  OBVIOUS
<1>1. PICK s \in T : \A u \in SUBSET s : u # s => u \notin T
  <2>1. T \subseteq SUBSET Y
    OBVIOUS
  <2> HIDE DEF T
  <2> QED BY <2>1, MinimalSubset
<1>2. s # {}
  BY DEF Accumulates
<1>3. PICK i \in s : i = CHOOSE k \in s : TRUE
  BY <1>2
<1>4. g[s] = v[i] + g[s \ {i}] /\ h[s] = w[i] + h[s \ {i}]
  <2>1. s \in SUBSET X /\ s \in SUBSET Y
    OBVIOUS
  <2> HIDE DEF T
  <2>2. g[s] = v[i] + g[s \ {i}]
    BY <1>2, <1>3, <2>1 DEF Accumulates
  <2>3. h[s] = w[i] + h[s \ {i}]
    BY <1>2, <1>3, <2>1 DEF Accumulates
  <2> QED BY <2>2, <2>3
<1>5. g[s \ {i}] = h[s \ {i}]
  BY <1>1
<1> QED BY <1>4, <1>5

\* Every finite set has a sum.
LEMMA SumsExist ==
  ASSUME NEW X, IsFiniteSet(X), NEW v
  PROVE  \E g : Accumulates(v, g, X)
<1> DEFINE T == {s \in SUBSET X : ~ \E g : Accumulates(v, g, s)}
<1> SUFFICES ASSUME T # {} PROVE FALSE
  OBVIOUS
<1>1. PICK s \in T : \A u \in SUBSET s : u # s => u \notin T
  <2>1. T \subseteq SUBSET X
    OBVIOUS
  <2> HIDE DEF T
  <2> QED BY <2>1, MinimalSubset
<1>2. s \subseteq X /\ ~ \E g : Accumulates(v, g, s)
  OBVIOUS
<1> DEFINE f == [u \in (SUBSET s) \ {s} |-> CHOOSE g : Accumulates(v, g, u)]
           c == CHOOSE i \in s : TRUE
           d == [u \in SUBSET s |-> IF u # s THEN f[u][u]
                                    ELSE IF s = {} THEN 0 ELSE v[c] + f[s \ {c}][s \ {c}]]
<1>3. ASSUME NEW u \in (SUBSET s) \ {s} PROVE Accumulates(v, f[u], u) /\ IsFiniteSet(u)
  <2>1. \E g : Accumulates(v, g, u)
    BY <1>1, <1>2
  <2>2. Accumulates(v, CHOOSE g : Accumulates(v, g, u), u)
    BY <2>1
  <2>3. IsFiniteSet(u)
    BY <1>2, FS_Subset
  <2> QED BY <2>2, <2>3
<1> HIDE DEF T
<1>4. ASSUME NEW u \in SUBSET s
      PROVE  d[u] = IF u = {} THEN 0
                    ELSE v[CHOOSE i \in u : TRUE] + d[u \ {CHOOSE i \in u : TRUE}]
  <2>1. CASE u = {}
    <3>1. CASE s = {}
      BY <2>1, <3>1
    <3>2. CASE s # {}
      <4>1. Accumulates(v, f[u], u)
        BY <2>1, <3>2, <1>3
      <4>2. d[u] = f[u][u]
        BY <2>1, <3>2
      <4> HIDE DEF f, d
      <4>3. f[u][u] = 0
        BY <2>1, <4>1 DEF Accumulates
      <4> QED BY <2>1, <4>2, <4>3
    <3> QED BY <3>1, <3>2
  <2>2. CASE u # {}
    <3>1. PICK i \in u : i = CHOOSE k \in u : TRUE
      BY <2>2
    <3>2. u \ {i} \in (SUBSET s) \ {s} /\ d[u \ {i}] = f[u \ {i}][u \ {i}]
      OBVIOUS
    <3> HIDE DEF f
    <3>3. CASE u = s
      BY <2>2, <3>1, <3>2, <3>3
    <3>4. CASE u # s
      <4>1. Accumulates(v, f[u], u) /\ Accumulates(v, f[u \ {i}], u \ {i})
            /\ IsFiniteSet(u \ {i})
        BY <1>3, <3>2, <3>4
      <4>2. f[u][u] = v[i] + f[u][u \ {i}]
        BY <2>2, <3>1, <4>1 DEF Accumulates
      <4>3. f[u][u \ {i}] = f[u \ {i}][u \ {i}]
        <5>1. u \ {i} \subseteq u /\ \A k \in u \ {i} : v[k] = v[k]
          OBVIOUS
        <5>2. \A t \in SUBSET (u \ {i}) : f[u][t] = f[u \ {i}][t]
          BY <4>1, <5>1, SumsAgree
        <5> QED BY <5>2
      <4> QED BY <2>2, <3>1, <3>2, <3>4, <4>2, <4>3
    <3> QED BY <3>3, <3>4
  <2> QED BY <2>1, <2>2
<1>5. Accumulates(v, d, s)
  <2>1. d = [u \in SUBSET s |-> d[u]]
    OBVIOUS
  <2> HIDE DEF d
  <2> QED BY <2>1, <1>4 DEF Accumulates
<1> QED BY <1>2, <1>5

\* The sum of a set: its steps.
LEMMA SumStep ==
  ASSUME NEW X, IsFiniteSet(X), NEW v
  PROVE  /\ X = {} => SumOf(v, X) = 0
         /\ X # {} => \E i \in X : SumOf(v, X) = v[i] + SumOf(v, X \ {i})
<1> DEFINE g == CHOOSE h : Accumulates(v, h, X)
<1>1. Accumulates(v, g, X) /\ SumOf(v, X) = g[X]
  BY SumsExist DEF SumOf
<1> HIDE DEF g
<1>2. CASE X = {}
  BY <1>1, <1>2 DEF Accumulates
<1>3. CASE X # {}
  <2>1. PICK i \in X : i = CHOOSE k \in X : TRUE
    BY <1>3
  <2> DEFINE Y == X \ {i}
             h == CHOOSE k : Accumulates(v, k, Y)
  <2>2. Y \subseteq X /\ IsFiniteSet(Y) /\ \A k \in Y : v[k] = v[k]
    BY FS_Subset
  <2>3. g[X] = v[i] + g[Y]
    BY <1>1, <1>3, <2>1 DEF Accumulates
  <2> HIDE DEF Y
  <2>4. Accumulates(v, h, Y) /\ SumOf(v, Y) = h[Y]
    BY <2>2, SumsExist DEF SumOf
  <2> HIDE DEF h
  <2>5. \A s \in SUBSET Y : g[s] = h[s]
    BY <1>1, <2>2, <2>4, SumsAgree
  <2>6. SumOf(v, X) = v[i] + SumOf(v, Y)
    BY <1>1, <2>3, <2>4, <2>5
  <2> QED BY <1>3, <2>6 DEF Y
<1> QED BY <1>2, <1>3

\* Only the values of its elements matter to a sum.
LEMMA SameSum ==
  ASSUME NEW X, IsFiniteSet(X), NEW v, NEW w, \A i \in X : v[i] = w[i]
  PROVE  SumOf(v, X) = SumOf(w, X)
<1> DEFINE g == CHOOSE k : Accumulates(v, k, X)
           h == CHOOSE k : Accumulates(w, k, X)
<1>1. Accumulates(v, g, X) /\ Accumulates(w, h, X) /\ SumOf(v, X) = g[X] /\ SumOf(w, X) = h[X]
  BY SumsExist DEF SumOf
<1> HIDE DEF g, h
<1>2. \A s \in SUBSET X : g[s] = h[s]
  BY <1>1, SumsAgree
<1> QED BY <1>1, <1>2

\* Sums of integers are integers, and sums of natural numbers natural numbers.
LEMMA SumIsInt ==
  ASSUME NEW X, IsFiniteSet(X), NEW v, \A i \in X : v[i] \in Int
  PROVE  \A s \in SUBSET X : SumOf(v, s) \in Int
<1> DEFINE T == {s \in SUBSET X : SumOf(v, s) \notin Int}
<1> SUFFICES ASSUME T # {} PROVE FALSE
  OBVIOUS
<1>1. PICK s \in T : \A u \in SUBSET s : u # s => u \notin T
  <2>1. T \subseteq SUBSET X
    OBVIOUS
  <2> HIDE DEF T
  <2> QED BY <2>1, MinimalSubset
<1>2. s \subseteq X /\ IsFiniteSet(s) /\ SumOf(v, s) \notin Int
  BY FS_Subset
<1>3. PICK i \in s : SumOf(v, s) = v[i] + SumOf(v, s \ {i})
  BY <1>2, SumStep
<1>4. SumOf(v, s \ {i}) \in Int
  BY <1>1, <1>2
<1> QED BY <1>2, <1>3, <1>4

LEMMA SumIsNat ==
  ASSUME NEW X, IsFiniteSet(X), NEW v, \A i \in X : v[i] \in Nat
  PROVE  \A s \in SUBSET X : SumOf(v, s) \in Nat
<1> DEFINE T == {s \in SUBSET X : SumOf(v, s) \notin Nat}
<1> SUFFICES ASSUME T # {} PROVE FALSE
  OBVIOUS
<1>1. PICK s \in T : \A u \in SUBSET s : u # s => u \notin T
  <2>1. T \subseteq SUBSET X
    OBVIOUS
  <2> HIDE DEF T
  <2> QED BY <2>1, MinimalSubset
<1>2. s \subseteq X /\ IsFiniteSet(s) /\ SumOf(v, s) \notin Nat
  BY FS_Subset
<1>3. PICK i \in s : SumOf(v, s) = v[i] + SumOf(v, s \ {i})
  BY <1>2, SumStep
<1>4. SumOf(v, s \ {i}) \in Nat
  BY <1>1, <1>2
<1> QED BY <1>2, <1>3, <1>4

\* Any element may be taken out of a sum.
LEMMA SumRemove ==
  ASSUME NEW X, IsFiniteSet(X), NEW v, \A i \in X : v[i] \in Int
  PROVE  \A s \in SUBSET X : \A i \in s : SumOf(v, s) = v[i] + SumOf(v, s \ {i})
<1> DEFINE T == {s \in SUBSET X : \E i \in s : SumOf(v, s) # v[i] + SumOf(v, s \ {i})}
<1> SUFFICES ASSUME T # {} PROVE FALSE
  OBVIOUS
<1>1. PICK s \in T : \A u \in SUBSET s : u # s => u \notin T
  <2>1. T \subseteq SUBSET X
    OBVIOUS
  <2> HIDE DEF T
  <2> QED BY <2>1, MinimalSubset
<1>2. PICK i \in s : SumOf(v, s) # v[i] + SumOf(v, s \ {i})
  OBVIOUS
<1>3. s \subseteq X /\ IsFiniteSet(s)
  BY FS_Subset
<1>4. PICK k \in s : SumOf(v, s) = v[k] + SumOf(v, s \ {k})
  BY <1>2, <1>3, SumStep
<1>5. k # i
  BY <1>2, <1>4
<1>6. SumOf(v, s \ {k}) = v[i] + SumOf(v, (s \ {k}) \ {i})
  BY <1>1, <1>3, <1>5
<1>7. SumOf(v, s \ {i}) = v[k] + SumOf(v, (s \ {i}) \ {k})
  BY <1>1, <1>3, <1>5
<1>8. (s \ {i}) \ {k} = (s \ {k}) \ {i}
  OBVIOUS
<1>9. PICK x \in Int, y \in Int, z \in Int :
        x = SumOf(v, (s \ {k}) \ {i}) /\ y = v[i] /\ z = v[k]
  BY <1>3, SumIsInt
<1>10. SumOf(v, s) = z + (y + x) /\ v[i] + SumOf(v, s \ {i}) = y + (z + x)
  BY <1>4, <1>6, <1>7, <1>8, <1>9
<1>11. z + (y + x) = y + (z + x)
  OBVIOUS
<1> QED BY <1>2, <1>10, <1>11

\* The sum of two sets without a common element.
LEMMA SumOfUnion ==
  ASSUME NEW X, IsFiniteSet(X), NEW v, \A i \in X : v[i] \in Int,
         NEW S \in SUBSET X
  PROVE  \A s \in SUBSET (X \ S) : SumOf(v, S \cup s) = SumOf(v, S) + SumOf(v, s)
<1> DEFINE Y == X \ S
           T == {s \in SUBSET Y : SumOf(v, S \cup s) # SumOf(v, S) + SumOf(v, s)}
<1> SUFFICES ASSUME T # {} PROVE FALSE
  OBVIOUS
<1>0. IsFiniteSet(Y)
  BY FS_Subset
<1>1. PICK s \in T : \A u \in SUBSET s : u # s => u \notin T
  <2>1. T \subseteq SUBSET Y
    OBVIOUS
  <2> HIDE DEF T, Y
  <2> QED BY <1>0, <2>1, MinimalSubset
<1>2. s \subseteq Y /\ SumOf(v, S \cup s) # SumOf(v, S) + SumOf(v, s)
  OBVIOUS
<1>3. SumOf(v, S) \in Int /\ SumOf(v, {}) = 0
  <2>1. SumOf(v, {}) = 0
    BY SumStep, FS_EmptySet
  <2> QED BY <2>1, SumIsInt
<1>4. s # {}
  <2>1. CASE s = {}
    <3>1. S \cup s = S
      BY <2>1
    <3> HIDE DEF T
    <3> QED BY <2>1, <3>1, <1>2, <1>3
  <2> QED BY <2>1
<1>5. PICK i \in s : TRUE
  BY <1>4
<1>6. SumOf(v, s) = v[i] + SumOf(v, s \ {i}) /\ s \subseteq X
  BY <1>2, SumRemove
<1>7. SumOf(v, S \cup s) = v[i] + SumOf(v, (S \cup s) \ {i})
  BY <1>2, SumRemove
<1>8. (S \cup s) \ {i} = S \cup (s \ {i})
  BY <1>2
<1>9. SumOf(v, S \cup (s \ {i})) = SumOf(v, S) + SumOf(v, s \ {i})
  BY <1>1, <1>2
<1>10. PICK x \in Int, y \in Int, z \in Int :
         x = SumOf(v, s \ {i}) /\ y = v[i] /\ z = SumOf(v, S)
  BY <1>3, <1>6, SumIsInt
<1>11. SumOf(v, S \cup s) = y + (z + x) /\ SumOf(v, S) + SumOf(v, s) = z + (y + x)
  BY <1>6, <1>7, <1>8, <1>9, <1>10
<1>12. y + (z + x) = z + (y + x)
  OBVIOUS
<1> QED BY <1>2, <1>11, <1>12

\* Zeros add up to 0.
LEMMA SumOfZeros ==
  ASSUME NEW X, IsFiniteSet(X), NEW v, \A i \in X : v[i] = 0
  PROVE  SumOf(v, X) = 0
<1> DEFINE T == {s \in SUBSET X : SumOf(v, s) # 0}
<1> SUFFICES ASSUME T # {} PROVE FALSE
  OBVIOUS
<1>1. PICK s \in T : \A u \in SUBSET s : u # s => u \notin T
  <2>1. T \subseteq SUBSET X
    OBVIOUS
  <2> HIDE DEF T
  <2> QED BY <2>1, MinimalSubset
<1>2. s \subseteq X /\ IsFiniteSet(s) /\ SumOf(v, s) # 0
  BY FS_Subset
<1>3. PICK i \in s : SumOf(v, s) = v[i] + SumOf(v, s \ {i})
  BY <1>2, SumStep
<1>4. SumOf(v, s \ {i}) = 0
  BY <1>1, <1>2
<1> QED BY <1>2, <1>3, <1>4

\* A fold may take the elements in any order: c is the one it takes of a set.
TakesInOrder(v, c, g, X) ==
  g = [s \in SUBSET X |-> IF s = {} THEN 0 ELSE g[s \ {c[s]}] + v[c[s]]]

\* Whatever the order, there is such a fold, and it computes the sum.
LEMMA SumsInOrder ==
  ASSUME NEW X, IsFiniteSet(X), NEW v, \A i \in X : v[i] \in Int,
         NEW c, \A s \in SUBSET X : s # {} => c[s] \in s
  PROVE  \E g : TakesInOrder(v, c, g, X)
<1> DEFINE g == [s \in SUBSET X |-> SumOf(v, s)]
<1>1. ASSUME NEW s \in SUBSET X
      PROVE  g[s] = IF s = {} THEN 0 ELSE g[s \ {c[s]}] + v[c[s]]
  <2>1. CASE s = {}
    BY <2>1, SumStep, FS_EmptySet
  <2>2. CASE s # {}
    <3>1. PICK i \in s : i = c[s]
      BY <2>2
    <3>2. SumOf(v, s) = v[i] + SumOf(v, s \ {i}) /\ v[i] \in Int /\ SumOf(v, s \ {i}) \in Int
      BY SumRemove, SumIsInt
    <3>3. g[s] = SumOf(v, s) /\ g[s \ {i}] = SumOf(v, s \ {i})
      OBVIOUS
    <3> HIDE DEF g
    <3>4. g[s] = g[s \ {i}] + v[i]
      BY <3>2, <3>3
    <3> QED BY <2>2, <3>1, <3>4
  <2> QED BY <2>1, <2>2
<1>2. TakesInOrder(v, c, g, X)
  <2>1. g = [s \in SUBSET X |-> g[s]]
    OBVIOUS
  <2> HIDE DEF g
  <2> QED BY <2>1, <1>1 DEF TakesInOrder
<1> QED BY <1>2

LEMMA SumInAnyOrder ==
  ASSUME NEW X, IsFiniteSet(X), NEW v, \A i \in X : v[i] \in Int,
         NEW c, \A s \in SUBSET X : s # {} => c[s] \in s,
         NEW g, TakesInOrder(v, c, g, X)
  PROVE  g[X] = SumOf(v, X)
<1> DEFINE T == {s \in SUBSET X : g[s] # SumOf(v, s)}
<1> SUFFICES ASSUME T # {} PROVE FALSE
  OBVIOUS
<1>1. PICK s \in T : \A u \in SUBSET s : u # s => u \notin T
  <2>1. T \subseteq SUBSET X
    OBVIOUS
  <2> HIDE DEF T
  <2> QED BY <2>1, MinimalSubset
<1>2. s \in SUBSET X /\ g[s] # SumOf(v, s)
  OBVIOUS
<1>3. s # {}
  <2>1. CASE s = {}
    <3>1. g[s] = 0
      BY <1>2, <2>1 DEF TakesInOrder
    <3> QED BY <1>2, <2>1, <3>1, SumStep, FS_EmptySet
  <2> QED BY <2>1
<1>4. PICK i \in s : i = c[s]
  BY <1>2, <1>3
<1>5. g[s] = g[s \ {i}] + v[i]
  BY <1>2, <1>3, <1>4 DEF TakesInOrder
<1>6. g[s \ {i}] = SumOf(v, s \ {i})
  BY <1>1, <1>2
<1>7. SumOf(v, s) = v[i] + SumOf(v, s \ {i}) /\ v[i] \in Int /\ SumOf(v, s \ {i}) \in Int
  BY <1>2, SumRemove, SumIsInt
<1> QED BY <1>2, <1>5, <1>6, <1>7
===============================================================================
