-------------------------- MODULE InductionLemmas --------------------------
(***************************************************************************)
(* What needs induction: that what is defined step by step exists, and     *)
(* what holds of the sum of a finite set, in whatever order its elements   *)
(* are taken.  The induction is that of the least number: a set of numbers *)
(* that is not empty has a least one.                                      *)
(***************************************************************************)
EXTENDS Integers, FiniteSets, FiniteSetTheorems, WellFoundedInduction, TLAPS

LEMMA LeastNumber ==
  ASSUME NEW T \in SUBSET Nat, T # {} PROVE \E n \in T : \A m \in T : n <= m
<1>1. IsWellFoundedOn(OpToRel(<, Nat), Nat)
  BY NatLessThanWellFounded, Zenon
<1>2. PICK n \in T : \A m \in T : ~(<<m, n>> \in OpToRel(<, Nat))
  BY <1>1, WFMin, Zenon
<1>3. \A m \in T : ~(m < n)
  BY <1>2 DEF OpToRel
<1> QED
  BY <1>3

LEMMA NumbersUpTo ==
  ASSUME NEW n \in Nat, NEW T, 0 \in T, \A k \in 1..n : k - 1 \in T => k \in T
  PROVE  \A k \in 0..n : k \in T
<1> DEFINE Bad == {k \in 0..n : k \notin T}
<1> SUFFICES ASSUME Bad # {} PROVE FALSE
  OBVIOUS
<1>1. PICK k \in Bad : \A m \in Bad : k <= m
  <2>1. Bad \in SUBSET Nat
    OBVIOUS
  <2> HIDE DEF Bad
  <2> QED
    BY <2>1, LeastNumber
<1>2. k \in 1..n /\ k - 1 \in 0..n /\ k - 1 \notin Bad
  BY <1>1
<1> QED
  BY <1>2

(* What a step makes of x0, again and again: f[k] after k steps.           *)
IsIterate(f, n, x0, G) == \A k \in 0..n : f[k] = IF k = 0 THEN x0 ELSE G[f[k - 1]]

LEMMA IterateExists ==
  ASSUME NEW n \in Nat, NEW X, NEW x0 \in X, NEW G \in [X -> X]
  PROVE  \E f \in [0..n -> X] : IsIterate(f, n, x0, G)
<1> DEFINE Good(m) == \E f \in [0..m -> X] : IsIterate(f, m, x0, G)
           T       == {m \in 0..n : Good(m)}
<1>1. Good(0)
  <2>1. [k \in 0..0 |-> x0] \in [0..0 -> X]
    OBVIOUS
  <2>2. IsIterate([k \in 0..0 |-> x0], 0, x0, G)
    BY DEF IsIterate
  <2> QED
    BY <2>1, <2>2
<1>2. ASSUME NEW m \in Nat, Good(m) PROVE Good(m + 1)
  <2>1. PICK f \in [0..m -> X] : IsIterate(f, m, x0, G)
    BY <1>2
  <2> DEFINE g == [k \in 0..(m + 1) |-> IF k <= m THEN f[k] ELSE G[f[m]]]
  <2>2. g \in [0..(m + 1) -> X]
    OBVIOUS
  <2>3. ASSUME NEW k \in 0..(m + 1) PROVE g[k] = IF k = 0 THEN x0 ELSE G[g[k - 1]]
    <3>1. CASE k = 0
      BY <2>1, <3>1 DEF IsIterate
    <3>2. CASE k \in 1..m
      <4>1. g[k] = f[k] /\ g[k - 1] = f[k - 1] /\ k \in 0..m
        BY <3>2
      <4> QED
        BY <2>1, <3>2, <4>1 DEF IsIterate
    <3>3. CASE k = m + 1
      <4>1. g[k] = G[f[m]] /\ g[k - 1] = f[m] /\ k # 0
        BY <3>3
      <4> QED
        BY <4>1
    <3> QED
      BY <3>1, <3>2, <3>3
  <2> HIDE DEF g
  <2> QED
    BY <2>2, <2>3 DEF IsIterate
<1>3. Good(n)
  <2> HIDE DEF Good
  <2>1. 0 \in T
    BY <1>1
  <2>2. \A k \in 1..n : k - 1 \in T => k \in T
    <3> SUFFICES ASSUME NEW k \in 1..n, Good(k - 1) PROVE Good(k)
      OBVIOUS
    <3>1. Good((k - 1) + 1)
      BY <1>2
    <3> QED
      BY <3>1
  <2> HIDE DEF T
  <2>3. n \in T
    BY <2>1, <2>2, NumbersUpTo
  <2> QED
    BY <2>3 DEF T
<1> QED
  BY <1>3

(* A set that grows with every step until a step adds nothing: as many     *)
(* steps as it can grow by are enough.                                     *)
LEMMA Saturates ==
  ASSUME NEW n \in Nat, NEW U, IsFiniteSet(U), Cardinality(U) <= n,
         NEW x0 \in SUBSET U, x0 # {},
         NEW G \in [SUBSET U -> SUBSET U], \A L \in SUBSET U : L \subseteq G[L],
         NEW f \in [0..n -> SUBSET U], IsIterate(f, n, x0, G)
  PROVE  G[f[n]] = f[n]
<1> DEFINE T == {k \in 0..n : Cardinality(f[k]) > k \/ G[f[k]] = f[k]}
<1>1. \A L \in SUBSET U : IsFiniteSet(L) /\ Cardinality(L) \in Nat /\ Cardinality(L) <= Cardinality(U)
  BY FS_Subset, FS_CardinalityType
<1>2. 0 \in T
  <2>1. f[0] = x0 /\ Cardinality(x0) # 0
    BY <1>1, FS_EmptySet DEF IsIterate
  <2> QED
    BY <1>1, <2>1
<1>3. ASSUME NEW k \in 1..n, k - 1 \in T PROVE k \in T
  <2>1. f[k] = G[f[k - 1]] /\ k \in 0..n /\ k - 1 \in 0..n
    BY DEF IsIterate
  <2>2. CASE G[f[k - 1]] = f[k - 1]
    BY <2>1, <2>2
  <2>3. CASE Cardinality(f[k - 1]) > k - 1 /\ G[f[k - 1]] # f[k - 1]
    <3>1. f[k - 1] \in SUBSET U /\ f[k] \in SUBSET U /\ f[k - 1] \subseteq f[k]
      BY <2>1
    <3>2. PICK c \in f[k] : c \notin f[k - 1]
      BY <2>1, <2>3, <3>1
    <3>3. /\ IsFiniteSet(f[k] \ {c}) /\ f[k - 1] \subseteq f[k] \ {c}
          /\ Cardinality(f[k] \ {c}) = Cardinality(f[k]) - 1
      BY <1>1, <3>1, <3>2, FS_RemoveElement
    <3>4. Cardinality(f[k - 1]) <= Cardinality(f[k] \ {c})
      BY <3>3, FS_Subset
    <3>5. Cardinality(f[k]) \in Nat /\ Cardinality(f[k - 1]) \in Nat
      BY <1>1, <3>1
    <3>6. Cardinality(f[k]) > k
      BY <2>3, <3>3, <3>4, <3>5
    <3> QED
      BY <2>1, <3>6
  <2> QED
    BY <1>3, <2>2, <2>3
<1>4. n \in T
  <2>1. n \in 0..n
    OBVIOUS
  <2> HIDE DEF T
  <2>2. \A k \in 0..n : k \in T
    BY <1>2, <1>3, NumbersUpTo
  <2> QED
    BY <2>1, <2>2
<1>5. CASE Cardinality(f[n]) > n
  <2>1. f[n] \in SUBSET U /\ Cardinality(f[n]) \in Nat /\ Cardinality(U) \in Nat
    BY <1>1
  <2>2. Cardinality(f[n]) = Cardinality(U)
    BY <1>1, <1>5, <2>1
  <2>3. f[n] = U
    BY <2>1, <2>2, FS_Subset
  <2> QED
    BY <2>1, <2>3
<1> QED
  BY <1>4, <1>5

-----------------------------------------------------------------------------
(* The recursive function that MapThenSumSet is defined by.                *)
AnyOf(s) == CHOOSE x \in s : TRUE
SumStep(it, s, w) == IF s = {} THEN 0 ELSE w[AnyOf(s)] + it[s \ {AnyOf(s)}]
IsSum(it, S, w) == it = [s \in SUBSET S |-> SumStep(it, s, w)]

LEMMA TakeOne ==
  ASSUME NEW s, IsFiniteSet(s), NEW x \in s
  PROVE  /\ IsFiniteSet(s \ {x}) /\ Cardinality(s) \in Nat \ {0}
         /\ Cardinality(s \ {x}) = Cardinality(s) - 1
<1>1. IsFiniteSet(s \ {x}) /\ Cardinality(s \ {x}) = Cardinality(s) - 1
  BY FS_RemoveElement
<1>2. Cardinality(s) \in Nat /\ Cardinality(s \ {x}) \in Nat
  BY <1>1, FS_CardinalityType
<1> QED
  BY <1>1, <1>2

LEMMA AnyIn == ASSUME NEW s, s # {} PROVE AnyOf(s) \in s
BY DEF AnyOf

LEMMA SumExists ==
  ASSUME NEW S, IsFiniteSet(S), NEW w, \A x \in S : w[x] \in Nat
  PROVE  \E it \in [SUBSET S -> Nat] : IsSum(it, S, w)
<1> DEFINE D(n)    == {s \in SUBSET S : Cardinality(s) <= n}
           Good(n) == \E F \in [D(n) -> Nat] : \A s \in D(n) : F[s] = SumStep(F, s, w)
<1>1. \A s \in SUBSET S : IsFiniteSet(s) /\ Cardinality(s) \in Nat
  BY FS_Subset, FS_CardinalityType
<1>2. Good(0)
  <2>1. \A s \in D(0) : s = {}
    BY <1>1, FS_EmptySet
  <2>2. [s \in D(0) |-> 0] \in [D(0) -> Nat]
    OBVIOUS
  <2> HIDE DEF D
  <2>3. \A s \in D(0) : [t \in D(0) |-> 0][s] = SumStep([t \in D(0) |-> 0], s, w)
    BY <2>1 DEF SumStep
  <2> QED
    BY <2>2, <2>3
<1>3. ASSUME NEW n \in Nat, Good(n) PROVE Good(n + 1)
  <2>1. PICK F \in [D(n) -> Nat] : \A s \in D(n) : F[s] = SumStep(F, s, w)
    BY <1>3
  <2> DEFINE G == [s \in D(n + 1) |-> SumStep(F, s, w)]
  <2>2. ASSUME NEW s \in D(n + 1), s # {} PROVE s \ {AnyOf(s)} \in D(n) /\ AnyOf(s) \in S
    BY <1>1, <2>2, AnyIn, TakeOne
  <2>3. D(n) \subseteq D(n + 1)
    BY <1>1
  <2> HIDE DEF D
  <2>4. \A s \in D(n + 1) : SumStep(F, s, w) \in Nat
    BY <2>1, <2>2 DEF SumStep
  <2>5. \A t \in D(n) : G[t] = F[t]
    BY <2>1, <2>3
  <2>6. \A s \in D(n + 1) : SumStep(G, s, w) = SumStep(F, s, w)
    <3> HIDE DEF G
    <3> QED
      BY <2>2, <2>5 DEF SumStep
  <2>7. \A s \in D(n + 1) : G[s] = SumStep(G, s, w)
    <3>1. \A s \in D(n + 1) : G[s] = SumStep(F, s, w)
      OBVIOUS
    <3> HIDE DEF G
    <3> QED
      BY <2>6, <3>1
  <2>8. G \in [D(n + 1) -> Nat]
    BY <2>4
  <2> HIDE DEF G
  <2> QED
    BY <2>7, <2>8
<1>4. Good(Cardinality(S))
  <2> HIDE DEF Good
  <2> DEFINE T == {n \in Nat : Good(n)}
  <2>1. 0 \in T /\ \A n \in Nat : n \in T => n + 1 \in T
    BY <1>2, <1>3
  <2>2. \A k \in 1..Cardinality(S) : k - 1 \in T => k \in T
    <3> SUFFICES ASSUME NEW k \in 1..Cardinality(S), k - 1 \in T PROVE k \in T
      OBVIOUS
    <3>1. (k - 1) + 1 \in T
      BY <2>1
    <3> QED
      BY <3>1
  <2> HIDE DEF T
  <2>3. Cardinality(S) \in Nat /\ Cardinality(S) \in 0..Cardinality(S)
    BY <1>1
  <2>4. Cardinality(S) \in T
    BY <2>1, <2>2, <2>3, NumbersUpTo
  <2> QED
    BY <2>4 DEF T
<1>5. D(Cardinality(S)) = SUBSET S
  BY <1>1, FS_Subset
<1> QED
  BY <1>4, <1>5 DEF Good, IsSum

(* The sum does not depend on the set whose subsets the function ranges    *)
(* over, nor on what it weighs elsewhere.                                  *)
LEMMA SumUnique ==
  ASSUME NEW S, NEW it, NEW w, IsSum(it, S, w),
         NEW T, NEW jt, NEW v, IsSum(jt, T, v),
         NEW U, IsFiniteSet(U), U \subseteq S, U \subseteq T, \A x \in U : w[x] = v[x]
  PROVE  it[U] = jt[U]
<1> DEFINE Bad  == {s \in SUBSET U : it[s] # jt[s]}
           Size == {Cardinality(s) : s \in Bad}
<1>1. \A s \in SUBSET U : IsFiniteSet(s) /\ Cardinality(s) \in Nat
  BY FS_Subset, FS_CardinalityType
<1> SUFFICES ASSUME Bad # {} PROVE FALSE
  OBVIOUS
<1>2. Size \in SUBSET Nat /\ Size # {}
  BY <1>1
<1>3. PICK n \in Size : \A m \in Size : n <= m
  <2> HIDE DEF Size
  <2> QED
    BY <1>2, LeastNumber
<1>4. PICK s \in Bad : Cardinality(s) = n
  BY <1>3
<1>5. it[s] = SumStep(it, s, w) /\ jt[s] = SumStep(jt, s, v)
  BY DEF IsSum
<1>6. s # {}
  BY <1>4, <1>5 DEF SumStep
<1>7. /\ AnyOf(s) \in s /\ s \ {AnyOf(s)} \in SUBSET U
      /\ Cardinality(s \ {AnyOf(s)}) < Cardinality(s)
  BY <1>1, <1>4, <1>6, AnyIn, TakeOne
<1>8. s \ {AnyOf(s)} \notin Bad
  <2> SUFFICES ASSUME s \ {AnyOf(s)} \in Bad PROVE FALSE
    OBVIOUS
  <2>1. Cardinality(s \ {AnyOf(s)}) \in Size
    OBVIOUS
  <2>2. n <= Cardinality(s \ {AnyOf(s)})
    BY <1>3, <2>1
  <2>3. Cardinality(s \ {AnyOf(s)}) \in Nat /\ n \in Nat
    BY <1>1, <1>4, <1>7
  <2> QED
    BY <1>4, <1>7, <2>2, <2>3
<1>9. it[s \ {AnyOf(s)}] = jt[s \ {AnyOf(s)}] /\ w[AnyOf(s)] = v[AnyOf(s)]
  BY <1>7, <1>8
<1> QED
  BY <1>4, <1>5, <1>6, <1>9 DEF SumStep

(* Any element may be the last to be added.                                *)
AnyLast(it, S, w) == \A x \in S : it[S] = w[x] + it[S \ {x}]

LEMMA SumTakeOut ==
  ASSUME NEW S, IsFiniteSet(S), NEW w, \A y \in S : w[y] \in Nat,
         NEW it \in [SUBSET S -> Nat], IsSum(it, S, w)
  PROVE  AnyLast(it, S, w)
<1> DEFINE Bad  == {s \in SUBSET S : \E z \in s : it[s] # w[z] + it[s \ {z}]}
           Size == {Cardinality(s) : s \in Bad}
<1>1. \A s \in SUBSET S : IsFiniteSet(s) /\ Cardinality(s) \in Nat
  BY FS_Subset, FS_CardinalityType
<1> SUFFICES ASSUME Bad # {} PROVE FALSE
  BY DEF AnyLast
<1>2. Size \in SUBSET Nat /\ Size # {}
  BY <1>1
<1>3. PICK n \in Size : \A m \in Size : n <= m
  <2> HIDE DEF Size
  <2> QED
    BY <1>2, LeastNumber
<1>4. PICK s \in Bad : Cardinality(s) = n
  BY <1>3
<1>5. ASSUME NEW t \in SUBSET S, Cardinality(t) < Cardinality(s), NEW z \in t
      PROVE  it[t] = w[z] + it[t \ {z}]
  <2> SUFFICES ASSUME t \in Bad PROVE FALSE
    OBVIOUS
  <2>1. Cardinality(t) \in Size
    OBVIOUS
  <2>2. n <= Cardinality(t) /\ n \in Nat /\ Cardinality(t) \in Nat
    BY <1>1, <1>3, <1>4, <2>1
  <2> QED
    BY <1>4, <1>5, <2>2
<1>6. PICK z \in s : it[s] # w[z] + it[s \ {z}]
  BY <1>4
<1> DEFINE y == AnyOf(s)
<1>7. y \in s /\ it[s] = w[y] + it[s \ {y}]
  BY <1>6, AnyIn DEF IsSum, SumStep
<1> HIDE DEF y
<1>8. y # z
  BY <1>6, <1>7
<1>9. Cardinality(s \ {y}) < Cardinality(s) /\ Cardinality(s \ {z}) < Cardinality(s)
  BY <1>1, <1>7, TakeOne
<1>10. it[s \ {y}] = w[z] + it[(s \ {y}) \ {z}] /\ it[s \ {z}] = w[y] + it[(s \ {z}) \ {y}]
  BY <1>5, <1>7, <1>8, <1>9
<1>11. (s \ {y}) \ {z} = (s \ {z}) \ {y}
  OBVIOUS
<1>12. w[y] \in Nat /\ w[z] \in Nat /\ it[(s \ {y}) \ {z}] \in Nat
  BY <1>7
<1>13. \A a, b, c \in Nat : a + (b + c) = b + (a + c)
  OBVIOUS
<1>14. it[s] = w[y] + (w[z] + it[(s \ {y}) \ {z}])
  BY <1>7, <1>10
<1>15. w[z] + it[s \ {z}] = w[z] + (w[y] + it[(s \ {y}) \ {z}])
  BY <1>10, <1>11
<1> QED
  BY <1>6, <1>12, <1>13, <1>14, <1>15

(* What MapThenSumSet comes to: choosing such a function.                  *)
Total(S, w) == (CHOOSE it : IsSum(it, S, w))[S]

LEMMA TotalIsSum ==
  ASSUME NEW S, IsFiniteSet(S), NEW w, \A x \in S : w[x] \in Nat
  PROVE  \E it \in [SUBSET S -> Nat] : IsSum(it, S, w) /\ Total(S, w) = it[S]
<1>1. PICK it \in [SUBSET S -> Nat] : IsSum(it, S, w)
  BY SumExists
<1>2. IsSum(CHOOSE jt : IsSum(jt, S, w), S, w)
  BY <1>1
<1>3. Total(S, w) = it[S]
  BY <1>1, <1>2, SumUnique DEF Total
<1> QED
  BY <1>1, <1>3

(* The sum of nothing is 0.                                                *)
LEMMA TotalOfNone == ASSUME NEW w PROVE Total({}, w) = 0
<1>1. PICK it \in [SUBSET {} -> Nat] : IsSum(it, {}, w) /\ Total({}, w) = it[{}]
  BY TotalIsSum, FS_EmptySet
<1> QED
  BY <1>1 DEF IsSum, SumStep

(* A sum of natural numbers is a natural number.                           *)
LEMMA TotalIsNat ==
  ASSUME NEW S, IsFiniteSet(S), NEW w, \A x \in S : w[x] \in Nat
  PROVE  Total(S, w) \in Nat
<1>1. PICK it \in [SUBSET S -> Nat] : IsSum(it, S, w) /\ Total(S, w) = it[S]
  BY TotalIsSum
<1>2. it[S] \in Nat
  OBVIOUS
<1> QED
  BY <1>1, <1>2

(* Whichever element is taken first, it adds its weight to the sum of the  *)
(* others.                                                                 *)
LEMMA TotalTakeOut ==
  ASSUME NEW S, IsFiniteSet(S), NEW w, \A y \in S : w[y] \in Nat, NEW x \in S
  PROVE  Total(S, w) = w[x] + Total(S \ {x}, w)
<1>1. PICK it \in [SUBSET S -> Nat] : IsSum(it, S, w) /\ Total(S, w) = it[S]
  BY TotalIsSum
<1>2. IsFiniteSet(S \ {x})
  BY FS_Subset
<1>3. PICK jt \in [SUBSET (S \ {x}) -> Nat] :
        IsSum(jt, S \ {x}, w) /\ Total(S \ {x}, w) = jt[S \ {x}]
  BY <1>2, TotalIsSum
<1>4. it[S \ {x}] = jt[S \ {x}]
  BY <1>1, <1>2, <1>3, SumUnique
<1>5. it[S] = w[x] + it[S \ {x}]
  <2>1. AnyLast(it, S, w)
    BY <1>1, SumTakeOut
  <2> QED
    BY <2>1 DEF AnyLast
<1> QED
  BY <1>1, <1>3, <1>4, <1>5

(* A new element adds its weight.                                          *)
LEMMA TotalAdd ==
  ASSUME NEW S, IsFiniteSet(S), NEW w, NEW x, x \notin S, \A y \in S \cup {x} : w[y] \in Nat
  PROVE  Total(S \cup {x}, w) = Total(S, w) + w[x]
<1>1. IsFiniteSet(S \cup {x}) /\ (S \cup {x}) \ {x} = S
  BY FS_AddElement
<1>2. Total(S \cup {x}, w) = w[x] + Total(S, w)
  BY <1>1, TotalTakeOut
<1>3. Total(S, w) \in Nat /\ w[x] \in Nat
  BY TotalIsNat
<1> QED
  BY <1>2, <1>3

(* Only the weights of the elements summed matter.                         *)
LEMMA TotalSameWeights ==
  ASSUME NEW S, IsFiniteSet(S), NEW w, NEW v, \A x \in S : w[x] \in Nat /\ w[x] = v[x]
  PROVE  Total(S, w) = Total(S, v)
<1>1. PICK it \in [SUBSET S -> Nat] : IsSum(it, S, w) /\ Total(S, w) = it[S]
  BY TotalIsSum
<1>2. PICK jt \in [SUBSET S -> Nat] : IsSum(jt, S, v) /\ Total(S, v) = jt[S]
  BY TotalIsSum
<1> QED
  BY <1>1, <1>2, SumUnique
=============================================================================
