----------------------------- MODULE ReadingProofs -----------------------------
(***************************************************************************)
(* What Reading computes, for all the trees, samples, spans and sizes: the *)
(* views of a trace and the dashboard are what their properties say, and a *)
(* span decodes to what it was written from, from its annotations and      *)
(* from its row in a table.  The proofs turn the recursive functions of    *)
(* the model into sequences and sums by induction over natural numbers,    *)
(* finite sets and the places of a tree.                                   *)
(***************************************************************************)
EXTENDS Reading, InductionLemmas, SequenceTheorems, TLAPS

(* Sorting: what Ranked makes of a finite set and an order of it.          *)
Nth(S, R, i) == CHOOSE x \in S : Cardinality({y \in S : <<y, x>> \in R}) = i - 1

LEMMA RankedIs ==
  ASSUME NEW S, IsFiniteSet(S), NEW R
  PROVE  Ranked(S, R) = [i \in 1..Cardinality(S) |-> Nth(S, R, i)]
<1> DEFINE N     == Cardinality(S)
           F(it) == it = [n \in 0..N |-> IF n = 0 THEN <<>> ELSE Append(it[n - 1], Nth(S, R, n))]
           w     == [n \in 0..N |-> [i \in 1..n |-> Nth(S, R, i)]]
           c     == CHOOSE it : F(it)
<1>1. Ranked(S, R) = c[N]
  BY DEF Ranked, Nth
<1>2. N \in Nat
  BY FS_CardinalityType
<1> HIDE DEF N
<1>3. F(w)
  <2>1. ASSUME NEW n \in 0..N PROVE w[n] = IF n = 0 THEN <<>> ELSE Append(w[n - 1], Nth(S, R, n))
    <3>1. CASE n = 0
      <4>1. [i \in 1..0 |-> Nth(S, R, i)] = <<>>
        OBVIOUS
      <4> QED
        BY <3>1, <4>1, <1>2
    <3>2. CASE n # 0
      <4>1. n - 1 \in 0..N /\ n \in 1..N
        BY <3>2, <1>2
      <4>2. w[n - 1] = [i \in 1..(n - 1) |-> Nth(S, R, i)]
        BY <4>1
      <4>3. Append([i \in 1..(n - 1) |-> Nth(S, R, i)], Nth(S, R, n)) = [i \in 1..n |-> Nth(S, R, i)]
        BY <4>1, <1>2
      <4> QED
        BY <3>2, <4>2, <4>3
    <3> QED
      BY <3>1, <3>2
  <2> HIDE DEF w
  <2> DEFINE u == [n \in 0..N |-> IF n = 0 THEN <<>> ELSE Append(w[n - 1], Nth(S, R, n))]
  <2>2. w = u
    <3>1. w = [n \in 0..N |-> w[n]] /\ u = [n \in 0..N |-> u[n]]
      BY DEF w
    <3>2. \A n \in 0..N : u[n] = w[n]
      BY <2>1
    <3> HIDE DEF u
    <3> QED
      BY <3>1, <3>2
  <2> QED
    BY <2>2
<1>4. F(c)
  <2> HIDE DEF F
  <2> QED
    BY <1>3
<1>5. \A n \in 0..N : c[n] = w[n]
  <2> DEFINE T == {n \in 0..N : c[n] = w[n]}
  <2>1. \A n \in 0..N : c[n] = IF n = 0 THEN <<>> ELSE Append(c[n - 1], Nth(S, R, n))
    <3> HIDE DEF c
    <3> QED
      BY <1>4
  <2>2. \A n \in 0..N : w[n] = IF n = 0 THEN <<>> ELSE Append(w[n - 1], Nth(S, R, n))
    <3> HIDE DEF w
    <3> QED
      BY <1>3
  <2> HIDE DEF c, w, F
  <2>3. 0 \in T
    BY <2>1, <2>2, <1>2
  <2>4. \A k \in 1..N : k - 1 \in T => k \in T
    BY <2>1, <2>2, <1>2
  <2> HIDE DEF T
  <2>5. \A k \in 0..N : k \in T
    BY <2>3, <2>4, <1>2, NumbersUpTo
  <2> QED
    BY <2>5 DEF T
<1>6. w[N] = [i \in 1..N |-> Nth(S, R, i)]
  BY <1>2
<1> HIDE DEF c, w, F
<1>7. c[N] = w[N]
  <2>1. N \in 0..N
    BY <1>2
  <2> QED
    BY <1>5, <2>1
<1> QED
  BY <1>1, <1>6, <1>7 DEF N

(* R puts the elements of S in a row.                                      *)
Arranges(R, S) ==
    /\ \A x \in S : <<x, x>> \notin R
    /\ \A x, y, z \in S : <<x, y>> \in R /\ <<y, z>> \in R => <<x, z>> \in R
    /\ \A x, y \in S : x # y => <<x, y>> \in R \/ <<y, x>> \in R

LEMMA RankedInOrder ==
  ASSUME NEW S, IsFiniteSet(S), NEW R, Arranges(R, S)
  PROVE  /\ Cardinality(S) \in Nat
         /\ Ranked(S, R) \in [1..Cardinality(S) -> S]
         /\ \A x \in S : \E i \in 1..Cardinality(S) : Ranked(S, R)[i] = x
         /\ \A i, j \in 1..Cardinality(S) : i < j <=> <<Ranked(S, R)[i], Ranked(S, R)[j]>> \in R
<1> DEFINE N       == Cardinality(S)
           Less(x) == {y \in S : <<y, x>> \in R}
           rank    == [x \in S |-> Cardinality(Less(x)) + 1]
<1>1. N \in Nat
  BY FS_CardinalityType
<1>2. ASSUME NEW x \in S
      PROVE  IsFiniteSet(Less(x)) /\ Cardinality(Less(x)) \in 0..(N - 1)
  <2>1. Less(x) \in SUBSET (S \ {x}) /\ IsFiniteSet(S \ {x}) /\ Cardinality(S \ {x}) = N - 1
    BY TakeOne DEF Arranges
  <2> HIDE DEF N, Less
  <2> QED
    BY <1>1, <2>1, FS_Subset, FS_CardinalityType
<1>3. ASSUME NEW x \in S, NEW y \in S, <<x, y>> \in R
      PROVE  rank[x] < rank[y]
  <2>1. Less(x) \in SUBSET Less(y) /\ x \in Less(y) /\ x \notin Less(x)
    BY <1>3 DEF Arranges
  <2>2. Less(x) # Less(y)
    BY <2>1
  <2>3. Cardinality(Less(x)) <= Cardinality(Less(y)) /\ Cardinality(Less(x)) # Cardinality(Less(y))
    <3> HIDE DEF Less
    <3> QED
      BY <2>1, <2>2, <1>2, FS_Subset
  <2> HIDE DEF N, Less
  <2> QED
    BY <1>2, <2>3, <1>1
<1>4. rank \in [S -> 1..N]
  <2> HIDE DEF N, Less
  <2>1. \A x \in S : Cardinality(Less(x)) + 1 \in 1..N
    BY <1>1, <1>2
  <2> QED
    BY <2>1
<1>5. ASSUME NEW x \in S, NEW y \in S, rank[x] = rank[y] PROVE x = y
  <2> SUFFICES ASSUME x # y PROVE FALSE
    OBVIOUS
  <2>1. rank[x] < rank[y] \/ rank[y] < rank[x]
    BY <1>3 DEF Arranges
  <2>2. rank[x] \in Nat /\ rank[y] \in Nat
    BY <1>1, <1>4
  <2> HIDE DEF rank
  <2> QED
    BY <1>5, <2>1, <2>2
<1> HIDE DEF rank
<1>6. rank \in Surjection(S, 1..N)
  <2>1. rank \in Injection(S, 1..N)
    BY <1>4, <1>5 DEF Injection, IsInjective
  <2>2. IsFiniteSet(1..N) /\ Cardinality(1..N) = N
    BY <1>1, FS_Interval
  <2> HIDE DEF N
  <2> QED
    BY <2>1, <2>2, FS_Injection DEF N
<1>7. ASSUME NEW i \in 1..N
      PROVE  Nth(S, R, i) \in S /\ rank[Nth(S, R, i)] = i
  <2>1. PICK x \in S : rank[x] = i
    BY <1>6 DEF Surjection
  <2>2. Cardinality(Less(x)) = i - 1
    <3> HIDE DEF Less, N
    <3>1. rank[x] = Cardinality(Less(x)) + 1 /\ Cardinality(Less(x)) \in Nat
      BY <2>1, <1>2, <1>1 DEF rank
    <3> QED
      BY <2>1, <3>1
  <2>3. Nth(S, R, i) \in S /\ Cardinality(Less(Nth(S, R, i))) = i - 1
    BY <2>2 DEF Nth
  <2> QED
    BY <2>3, <1>1 DEF rank
<1>8. Ranked(S, R) = [i \in 1..N |-> Nth(S, R, i)]
  BY RankedIs
<1> HIDE DEF N, Less
<1>9. Ranked(S, R) \in [1..N -> S] /\ \A i \in 1..N : rank[Ranked(S, R)[i]] = i
  BY <1>7, <1>8
<1>10. \A x \in S : \E i \in 1..N : Ranked(S, R)[i] = x
  <2> SUFFICES ASSUME NEW x \in S PROVE \E i \in 1..N : Ranked(S, R)[i] = x
    OBVIOUS
  <2>1. rank[x] \in 1..N
    BY <1>4
  <2>2. Ranked(S, R)[rank[x]] \in S /\ rank[Ranked(S, R)[rank[x]]] = rank[x]
    BY <2>1, <1>9
  <2> QED
    BY <2>1, <2>2, <1>5
<1>11. ASSUME NEW i \in 1..N, NEW j \in 1..N
       PROVE  i < j <=> <<Ranked(S, R)[i], Ranked(S, R)[j]>> \in R
  <2> DEFINE x == Ranked(S, R)[i]
             y == Ranked(S, R)[j]
  <2>1. x \in S /\ y \in S /\ rank[x] = i /\ rank[y] = j
    BY <1>9
  <2> HIDE DEF x, y
  <2>2. <<x, y>> \in R => i < j
    BY <2>1, <1>3
  <2>3. i < j => x # y /\ ~(<<y, x>> \in R)
    BY <2>1, <1>3, <1>1
  <2> QED
    BY <2>1, <2>2, <2>3 DEF Arranges, x, y
<1> QED
  BY <1>1, <1>9, <1>10, <1>11 DEF N

(* A finite set of integers has a smallest and a greatest element.         *)
LEMMA Extremes ==
  ASSUME NEW S \in SUBSET Int, IsFiniteSet(S), S # {}
  PROVE  /\ Smallest(S) \in S /\ \A m \in S : Smallest(S) <= m
         /\ Greatest(S) \in S /\ \A m \in S : m <= Greatest(S)
<1> DEFINE R == {p \in S \X S : p[1] < p[2]}
           N == Cardinality(S)
           r == Ranked(S, R)
<1>1. Arranges(R, S)
  BY DEF Arranges
<1>2. N \in Nat /\ N # 0
  BY FS_CardinalityType, FS_EmptySet
<1>3. /\ r \in [1..N -> S]
      /\ \A x \in S : \E i \in 1..N : r[i] = x
      /\ \A i, j \in 1..N : i < j <=> <<r[i], r[j]>> \in R
  <2> HIDE DEF R
  <2> QED
    BY <1>1, RankedInOrder
<1> HIDE DEF N, r
<1>4. \A i, j \in 1..N : i < j => r[i] < r[j]
  BY <1>3
<1>5. \A i, j \in 1..N : i <= j => r[i] <= r[j]
  <2> SUFFICES ASSUME NEW i \in 1..N, NEW j \in 1..N, i <= j PROVE r[i] <= r[j]
    OBVIOUS
  <2>1. r[i] \in S /\ r[j] \in S
    BY <1>3
  <2>2. r[i] \in Int /\ r[j] \in Int
    BY <2>1
  <2>3. i < j \/ i = j
    BY <1>2
  <2> QED
    BY <2>2, <2>3, <1>4
<1>6. r[1] \in S /\ \A m \in S : r[1] <= m
  BY <1>2, <1>3, <1>5
<1>7. r[N] \in S /\ \A m \in S : m <= r[N]
  BY <1>2, <1>3, <1>5
<1> QED
  BY <1>6, <1>7 DEF Smallest, Greatest

-----------------------------------------------------------------------------
(* What holds of nothing, and with a set of one element more, holds of a   *)
(* finite set.                                                             *)
LEMMA SetsUpTo ==
  ASSUME NEW S, IsFiniteSet(S), NEW T, {} \in T,
         \A s \in SUBSET S : \A x \in S \ s : s \in T => s \cup {x} \in T
  PROVE  S \in T
<1> DEFINE Good == {n \in Nat : \A s \in SUBSET S : Cardinality(s) = n => s \in T}
           N    == Cardinality(S)
<1>1. \A s \in SUBSET S : IsFiniteSet(s) /\ Cardinality(s) \in Nat
  BY FS_Subset, FS_CardinalityType
<1>2. 0 \in Good
  BY <1>1, FS_EmptySet
<1>3. ASSUME NEW k \in 1..N, k - 1 \in Good PROVE k \in Good
  <2> SUFFICES ASSUME NEW s \in SUBSET S, Cardinality(s) = k PROVE s \in T
    BY <1>1
  <2>1. PICK x \in s : TRUE
    BY <1>1, FS_EmptySet
  <2>2. Cardinality(s \ {x}) = k - 1 /\ s \ {x} \in SUBSET S
    BY <1>1, <2>1, TakeOne
  <2>3. s \ {x} \in T /\ x \in S \ (s \ {x})
    BY <1>3, <2>1, <2>2
  <2>4. (s \ {x}) \cup {x} = s
    BY <2>1
  <2> QED
    BY <2>2, <2>3, <2>4
<1>4. N \in Nat /\ N \in 0..N
  BY <1>1
<1> HIDE DEF Good
<1>5. \A k \in 1..N : k - 1 \in Good => k \in Good
  BY <1>3
<1> HIDE DEF N
<1>6. N \in Good
  BY <1>2, <1>4, <1>5, NumbersUpTo
<1> QED
  BY <1>6 DEF Good, N

(* SumFunction, of Functions, is such a total.                             *)
LEMMA SumIsTotal ==
  ASSUME NEW S, IsFiniteSet(S), NEW f \in [S -> Nat]
  PROVE  SumFunction(f) = Total(S, f) /\ SumFunction(f) \in Nat
<1> DEFINE next(it, s) == IF s = {} THEN 0
                          ELSE f[CHOOSE x \in s : TRUE] + it[s \ {CHOOSE x \in s : TRUE}]
           R(it)       == it = [s \in SUBSET S |-> next(it, s)]
<1>0. DOMAIN f = S
  OBVIOUS
<1>1. SumFunction(f) = (CHOOSE it : R(it))[S]
  BY <1>0 DEF SumFunction, SumFunctionOnSet, FoldFunctionOnSet, MapThenFoldSet
<1>2. \A it : R(it) <=> IsSum(it, S, f)
  BY DEF IsSum, SumStep, AnyOf
<1>3. PICK jt \in [SUBSET S -> Nat] : IsSum(jt, S, f) /\ Total(S, f) = jt[S]
  BY TotalIsSum
<1> HIDE DEF R
<1>4. IsSum(CHOOSE it : R(it), S, f)
  BY <1>2, <1>3
<1>5. SumFunction(f) = Total(S, f)
  BY <1>1, <1>3, <1>4, SumUnique
<1> QED
  BY <1>5, TotalIsNat

(* The sum over the union of two sets, and of many.                        *)
LEMMA TotalOfTwo ==
  ASSUME NEW S, IsFiniteSet(S), NEW U, IsFiniteSet(U), S \cap U = {},
         NEW w, \A x \in S \cup U : w[x] \in Nat
  PROVE  Total(S \cup U, w) = Total(S, w) + Total(U, w)
<1> DEFINE T == {s \in SUBSET U : Total(S \cup s, w) = Total(S, w) + Total(s, w)}
<1>1. Total(S, w) \in Nat
  BY TotalIsNat
<1>2. {} \in T
  <2>1. S \cup {} = S
    OBVIOUS
  <2> QED
    BY <1>1, <2>1, TotalOfNone
<1>3. ASSUME NEW s \in SUBSET U, NEW x \in U \ s, s \in T PROVE s \cup {x} \in T
  <2>1. IsFiniteSet(s) /\ IsFiniteSet(S \cup s) /\ x \notin S \cup s
    BY FS_Subset, FS_Union
  <2>2. Total(s \cup {x}, w) = Total(s, w) + w[x]
    BY <2>1, TotalAdd
  <2>3. Total((S \cup s) \cup {x}, w) = Total(S \cup s, w) + w[x]
    BY <2>1, TotalAdd
  <2>4. (S \cup s) \cup {x} = S \cup (s \cup {x}) /\ s \cup {x} \in SUBSET U
    OBVIOUS
  <2>5. Total(s, w) \in Nat /\ w[x] \in Nat
    BY <2>1, TotalIsNat
  <2>6. Total(S \cup s, w) = Total(S, w) + Total(s, w)
    BY <1>3
  <2>7. \A a, b, c \in Nat : (a + b) + c = a + (b + c)
    OBVIOUS
  <2>8. Total(S \cup (s \cup {x}), w) = (Total(S, w) + Total(s, w)) + w[x]
    BY <2>3, <2>4, <2>6
  <2>9. (Total(S, w) + Total(s, w)) + w[x] = Total(S, w) + (Total(s, w) + w[x])
    BY <1>1, <2>5, <2>7
  <2> QED
    BY <2>2, <2>4, <2>8, <2>9
<1> HIDE DEF T
<1>4. U \in T
  BY <1>2, <1>3, SetsUpTo
<1> QED
  BY <1>4 DEF T

LEMMA TotalOfMany ==
  ASSUME NEW I, IsFiniteSet(I), NEW part, \A i \in I : IsFiniteSet(part[i]),
         \A i, j \in I : i # j => part[i] \cap part[j] = {},
         NEW w, \A i \in I : \A x \in part[i] : w[x] \in Nat,
         NEW U, \A x : x \in U <=> \E i \in I : x \in part[i],
         NEW v, \A i \in I : v[i] = Total(part[i], w)
  PROVE  IsFiniteSet(U) /\ Total(U, w) = Total(I, v)
<1> DEFINE All(J) == UNION {part[i] : i \in J}
           T      == {J \in SUBSET I : IsFiniteSet(All(J)) /\ Total(All(J), w) = Total(J, v)}
<1>1. \A i \in I : v[i] \in Nat
  BY TotalIsNat
<1>2. {} \in T
  <2>1. All({}) = {} /\ IsFiniteSet({})
    BY FS_EmptySet
  <2>2. Total({}, w) = 0 /\ Total({}, v) = 0
    BY TotalOfNone
  <2> QED
    BY <2>1, <2>2
<1>3. ASSUME NEW J \in SUBSET I, NEW i \in I \ J, J \in T PROVE J \cup {i} \in T
  <2>1. All(J \cup {i}) = All(J) \cup part[i] /\ All(J) \cap part[i] = {}
    OBVIOUS
  <2>2. IsFiniteSet(All(J)) /\ IsFiniteSet(part[i]) /\ IsFiniteSet(All(J) \cup part[i])
    BY <1>3, FS_Union
  <2>3. \A x \in All(J) \cup part[i] : w[x] \in Nat
    OBVIOUS
  <2> HIDE DEF All
  <2>4. Total(All(J) \cup part[i], w) = Total(All(J), w) + Total(part[i], w)
    BY <2>1, <2>2, <2>3, TotalOfTwo
  <2>5. IsFiniteSet(J) /\ \A y \in J \cup {i} : v[y] \in Nat
    BY <1>1, FS_Subset
  <2>6. Total(J \cup {i}, v) = Total(J, v) + v[i]
    BY <2>5, TotalAdd
  <2>7. v[i] = Total(part[i], w)
    OBVIOUS
  <2> QED
    BY <1>3, <2>1, <2>2, <2>4, <2>6, <2>7
<1> HIDE DEF T
<1>4. I \in T
  BY <1>2, <1>3, SetsUpTo
<1>5. All(I) = U
  OBVIOUS
<1> QED
  BY <1>4, <1>5 DEF T

(* A set is as large as the sum of ones over it.                           *)
LEMMA TotalOfOnes ==
  ASSUME NEW S, IsFiniteSet(S), NEW w, \A x \in S : w[x] = 1
  PROVE  Total(S, w) = Cardinality(S)
<1> DEFINE T == {s \in SUBSET S : Total(s, w) = Cardinality(s)}
<1>1. {} \in T
  BY TotalOfNone, FS_EmptySet
<1>2. ASSUME NEW s \in SUBSET S, NEW x \in S \ s, s \in T PROVE s \cup {x} \in T
  <2>1. IsFiniteSet(s)
    BY FS_Subset
  <2>2. Cardinality(s \cup {x}) = Cardinality(s) + 1
    BY <2>1, FS_AddElement
  <2>3. (\A y \in s \cup {x} : w[y] \in Nat) /\ x \notin s
    OBVIOUS
  <2>4. Total(s \cup {x}, w) = Total(s, w) + w[x]
    BY ONLY <2>1, <2>3, TotalAdd
  <2> QED
    BY <1>2, <2>2, <2>4
<1> HIDE DEF T
<1>3. S \in T
  BY <1>1, <1>2, SetsUpTo
<1> QED
  BY <1>3 DEF T

(* Sums over sets whose elements and weights correspond.                   *)
LEMMA TotalMoved ==
  ASSUME NEW S, IsFiniteSet(S), NEW w, \A x \in S : w[x] \in Nat,
         NEW b, \A x, y \in S : b[x] = b[y] => x = y,
         NEW v, \A x \in S : v[b[x]] = w[x]
  PROVE  Total({b[x] : x \in S}, v) = Total(S, w) /\ IsFiniteSet({b[x] : x \in S})
<1> DEFINE Image(s) == {b[x] : x \in s}
           T == {s \in SUBSET S : IsFiniteSet(Image(s)) /\ Total(Image(s), v) = Total(s, w)}
<1>1. {} \in T
  <2>1. Image({}) = {} /\ IsFiniteSet({})
    BY FS_EmptySet
  <2> QED
    BY <2>1, TotalOfNone
<1>2. ASSUME NEW s \in SUBSET S, NEW x \in S \ s, s \in T PROVE s \cup {x} \in T
  <2>1. IsFiniteSet(s)
    BY FS_Subset
  <2>2. Image(s \cup {x}) = Image(s) \cup {b[x]} /\ b[x] \notin Image(s)
    OBVIOUS
  <2>3. \A y \in Image(s) \cup {b[x]} : v[y] \in Nat
    OBVIOUS
  <2> HIDE DEF Image
  <2>4. IsFiniteSet(Image(s)) /\ IsFiniteSet(Image(s) \cup {b[x]})
    BY <1>2, FS_AddElement
  <2>5. Total(Image(s) \cup {b[x]}, v) = Total(Image(s), v) + v[b[x]]
    <3> DEFINE J == Image(s)
               z == b[x]
    <3>1. IsFiniteSet(J) /\ z \notin J /\ \A y \in J \cup {z} : v[y] \in Nat
      BY <2>2, <2>3, <2>4
    <3> HIDE DEF J, z
    <3>2. Total(J \cup {z}, v) = Total(J, v) + v[z]
      BY ONLY <3>1, TotalAdd
    <3> QED
      BY <3>2 DEF J, z
  <2>6. (\A y \in s \cup {x} : w[y] \in Nat) /\ x \notin s
    OBVIOUS
  <2>7. Total(s \cup {x}, w) = Total(s, w) + w[x]
    BY ONLY <2>1, <2>6, TotalAdd
  <2> QED
    BY <1>2, <2>2, <2>4, <2>5, <2>7
<1> HIDE DEF T
<1>3. S \in T
  BY <1>1, <1>2, SetsUpTo
<1> QED
  BY <1>3 DEF T


-----------------------------------------------------------------------------
LEMMA ImageFinite ==
  ASSUME NEW S, IsFiniteSet(S), NEW b
  PROVE  IsFiniteSet({b[x] : x \in S})
<1> DEFINE f == [x \in S |-> b[x]]
           I == {b[x] : x \in S}
<1>1. f \in Surjection(S, I)
  BY DEF Surjection
<1> HIDE DEF f, I
<1>2. IsFiniteSet(I)
  BY <1>1, FS_Surjection
<1> QED
  BY <1>2 DEF I

(* What a point is tagged with.                                            *)
LEMMA LastOfIs ==
  ASSUME NEW pt, IsPoint(pt), NEW n \in {1, 2}
  PROVE  /\ LastOf(n, pt) = <<0, 0>> \/ (LastOf(n, pt) \in Seq(Nat) /\ Len(LastOf(n, pt)) = n)
         /\ (\A i \in DOMAIN pt.found : Len(pt.found[i]) # n) => LastOf(n, pt) = <<0, 0>>
<1> DEFINE at == {i \in DOMAIN pt.found : Len(pt.found[i]) = n}
<1>1. pt.found \in Seq(Seq(Nat))
  BY DEF IsPoint
<1>2. DOMAIN pt.found = 1..Len(pt.found) /\ Len(pt.found) \in Nat
  BY <1>1, LenProperties
<1>3. at \in SUBSET Int /\ IsFiniteSet(at)
  <2>1. at \in SUBSET (1..Len(pt.found)) /\ IsFiniteSet(1..Len(pt.found))
    BY <1>2, FS_Interval
  <2>2. at \in SUBSET Int
    BY <1>2
  <2> HIDE DEF at
  <2>3. IsFiniteSet(at)
    BY <2>1, FS_Subset
  <2> QED
    BY <2>2, <2>3
<1>4. CASE at = {}
  <2>1. LastOf(n, pt) = <<0, 0>>
    BY <1>4 DEF LastOf
  <2> QED
    BY <2>1
<1>5. CASE at # {}
  <2>1. LastOf(n, pt) = pt.found[Greatest(at)]
    BY <1>5 DEF LastOf
  <2>2. Greatest(at) \in at
    <3> HIDE DEF at
    <3> QED
      BY <1>3, <1>5, Extremes
  <2>3. PICK i \in 1..Len(pt.found) : Greatest(at) = i /\ Len(pt.found[i]) = n
    BY <1>2, <2>2
  <2>4. pt.found[i] \in Seq(Nat)
    BY <1>1, ElementOfSeq
  <2>5. LastOf(n, pt) \in Seq(Nat) /\ Len(LastOf(n, pt)) = n
    BY <2>1, <2>3, <2>4
  <2> QED
    BY <2>3, <2>5, <1>2
<1> QED
  BY <1>4, <1>5

LEMMA PointTags ==
  ASSUME NEW pt, IsPoint(pt)
  PROVE  /\ NameTag(pt) \in Nat /\ Duration(pt) \in Int
         /\ NameTag(pt) # 0 => \E f \in Range(pt.found) : Len(f) = 1
<1>1. NameTag(pt) \in Nat
  BY LastOfIs DEF NameTag
<1>2. LastOf(2, pt)[1] \in Nat /\ LastOf(2, pt)[2] \in Nat
  <2>1. LastOf(2, pt) = <<0, 0>> \/ (LastOf(2, pt) \in Seq(Nat) /\ Len(LastOf(2, pt)) = 2)
    BY LastOfIs
  <2> QED
    BY <2>1
<1>3. Duration(pt) \in Int
  <2>1. \A a, b \in Nat : b - a \in Int
    OBVIOUS
  <2> QED
    BY <1>2, <2>1 DEF Duration
<1>4. ASSUME NameTag(pt) # 0 PROVE \E f \in Range(pt.found) : Len(f) = 1
  <2>1. LastOf(1, pt) # <<0, 0>>
    BY <1>4 DEF NameTag
  <2>2. PICK i \in DOMAIN pt.found : Len(pt.found[i]) = 1
    BY <2>1, LastOfIs
  <2> QED
    BY <2>2 DEF Range
<1> QED
  BY <1>1, <1>3, <1>4

(* The points of a name and minute, and what is sampled of them.           *)
Down(points, g) ==
    [name  |-> g[1], minute |-> g[2],
     min   |-> Smallest({Duration(pt) : pt \in InGroup(points, g)}),
     max   |-> Greatest({Duration(pt) : pt \in InGroup(points, g)}),
     count |-> Cardinality(InGroup(points, g))]

SlowestIn(points, g) ==
    CHOOSE pt \in InGroup(points, g) : \A q \in InGroup(points, g) : Duration(q) <= Duration(pt)

ArePoints(points) == IsFiniteSet(points) /\ \A pt \in points : IsPoint(pt)

(* Each finite set of points has one that lasts as long as any.            *)
LEMMA LongestOf ==
  ASSUME NEW S, ArePoints(S), S # {}
  PROVE  /\ Smallest({Duration(pt) : pt \in S}) \in Int
         /\ Greatest({Duration(pt) : pt \in S}) \in Int
         /\ \A pt \in S : Smallest({Duration(q) : q \in S}) <= Duration(pt)
         /\ \A pt \in S : Duration(pt) <= Greatest({Duration(q) : q \in S})
         /\ \E pt \in S : \A q \in S : Duration(q) <= Duration(pt)
<1> DEFINE b == [pt \in S |-> Duration(pt)]
           I == {Duration(pt) : pt \in S}
<1>1. I = {b[x] : x \in S}
  OBVIOUS
<1>2. IsFiniteSet(I)
  <2> HIDE DEF b, I
  <2>1. IsFiniteSet(S)
    BY DEF ArePoints
  <2> QED
    BY <1>1, <2>1, ImageFinite
<1>3. I \in SUBSET Int /\ I # {}
  BY PointTags DEF ArePoints
<1>4. \A pt \in S : Duration(pt) \in I
  OBVIOUS
<1>5. \A d \in I : \E pt \in S : d = Duration(pt)
  OBVIOUS
<1> HIDE DEF I, b
<1>6. /\ Smallest(I) \in I /\ \A m \in I : Smallest(I) <= m
      /\ Greatest(I) \in I /\ \A m \in I : m <= Greatest(I)
  BY <1>2, <1>3, Extremes
<1>7. Smallest(I) \in Int /\ Greatest(I) \in Int
  BY <1>3, <1>6
<1>8. PICK pt \in S : Greatest(I) = Duration(pt)
  BY <1>5, <1>6
<1>9. \A q \in S : Duration(q) <= Duration(pt)
  BY <1>4, <1>6, <1>8
<1> QED
  BY <1>4, <1>6, <1>7, <1>9 DEF I

LEMMA GroupsAre ==
  ASSUME NEW points, ArePoints(points)
  PROVE  /\ IsFiniteSet(Groups(points))
         /\ \A g \in Groups(points) :
                /\ g = <<g[1], g[2]>> /\ g[1] \in Nat
                /\ ArePoints(InGroup(points, g)) /\ InGroup(points, g) # {}
                /\ SlowestIn(points, g) \in InGroup(points, g)
                /\ \A q \in InGroup(points, g) : Duration(q) <= Duration(SlowestIn(points, g))
<1> DEFINE S == {q \in points : Tagged(q)}
           b == [pt \in points |-> <<NameTag(pt), pt.minute>>]
<1>1. IsFiniteSet(Groups(points))
  <2>1. Groups(points) = {b[x] : x \in S}
    BY DEF Groups
  <2>2. IsFiniteSet(S)
    BY FS_Subset DEF ArePoints
  <2> HIDE DEF b, S
  <2> QED
    BY <2>1, <2>2, ImageFinite
<1>2. ASSUME NEW g \in Groups(points)
      PROVE  /\ g = <<g[1], g[2]>> /\ g[1] \in Nat
             /\ ArePoints(InGroup(points, g)) /\ InGroup(points, g) # {}
             /\ SlowestIn(points, g) \in InGroup(points, g)
             /\ \A q \in InGroup(points, g) : Duration(q) <= Duration(SlowestIn(points, g))
  <2>1. PICK pt \in points : Tagged(pt) /\ g = <<NameTag(pt), pt.minute>>
    BY DEF Groups
  <2>2. g = <<g[1], g[2]>> /\ g[1] \in Nat
    BY <2>1, PointTags DEF ArePoints
  <2>3. pt \in InGroup(points, g)
    BY <2>1 DEF InGroup
  <2>4. InGroup(points, g) \in SUBSET points
    BY DEF InGroup
  <2>5. ArePoints(InGroup(points, g))
    BY <2>4, FS_Subset DEF ArePoints
  <2>6. \E p \in InGroup(points, g) : \A q \in InGroup(points, g) : Duration(q) <= Duration(p)
    BY <2>3, <2>5, LongestOf
  <2>7. /\ SlowestIn(points, g) \in InGroup(points, g)
        /\ \A q \in InGroup(points, g) : Duration(q) <= Duration(SlowestIn(points, g))
    BY <2>6 DEF SlowestIn
  <2> QED
    BY <2>2, <2>3, <2>5, <2>7
<1> QED
  BY <1>1, <1>2

LEMMA SamplesAre ==
  ASSUME NEW points
  PROVE  /\ Downsampled(points) = {Down(points, g) : g \in Groups(points)}
         /\ Slowest(points) = {SlowestIn(points, g) : g \in Groups(points)}
BY DEF Downsampled, Slowest, Down, SlowestIn

(* The n longest of a set of points.                                       *)
LEMMA TopIs ==
  ASSUME NEW Q, ArePoints(Q), NEW n \in Nat
  PROVE  /\ Top(n, Q) \in SUBSET Q
         /\ Cardinality(Q) <= n => Top(n, Q) = Q
         /\ Cardinality(Q) > n =>
                /\ Cardinality(Top(n, Q)) = n
                /\ \A pt \in Top(n, Q), q \in Q \ Top(n, Q) : Duration(q) <= Duration(pt)
<1> DEFINE Best(S) == \A pt \in S, q \in Q \ S : Duration(q) <= Duration(pt)
           T == {k \in 0..n : \E S \in SUBSET Q : Cardinality(S) = k /\ Best(S)}
<1>1. IsFiniteSet(Q) /\ Cardinality(Q) \in Nat /\ \A q \in Q : Duration(q) \in Int
  BY FS_CardinalityType, PointTags DEF ArePoints
<1>2. CASE Cardinality(Q) <= n
  BY <1>1, <1>2 DEF Top
<1>3. CASE Cardinality(Q) > n
  <2>1. 0 \in T
    <3>1. {} \in SUBSET Q /\ Cardinality({}) = 0 /\ Best({})
      BY FS_EmptySet
    <3> QED
      BY <3>1
  <2>2. ASSUME NEW k \in 1..n, k - 1 \in T PROVE k \in T
    <3>1. PICK S \in SUBSET Q : Cardinality(S) = k - 1 /\ Best(S)
      BY <2>2
    <3>2. IsFiniteSet(S) /\ IsFiniteSet(Q \ S) /\ Q \ S \in SUBSET Q
      BY <1>1, FS_Subset
    <3>3. Q \ S # {}
      <4> SUFFICES ASSUME Q = S PROVE FALSE
        OBVIOUS
      <4> QED
        BY <1>1, <1>3, <3>1
    <3>4. ArePoints(Q \ S)
      BY <3>2 DEF ArePoints
    <3>5. PICK x \in Q \ S : \A q \in Q \ S : Duration(q) <= Duration(x)
      BY <3>3, <3>4, LongestOf
    <3>6. Cardinality(S \cup {x}) = k
      <4>1. x \notin S
        OBVIOUS
      <4>2. Cardinality(S \cup {x}) = Cardinality(S) + 1
        BY <3>2, <4>1, FS_AddElement
      <4> QED
        BY <3>1, <4>2
    <3>7. Best(S \cup {x})
      BY <3>1, <3>5
    <3> HIDE DEF Best
    <3>8. S \cup {x} \in SUBSET Q
      OBVIOUS
    <3> QED
      BY <3>6, <3>7, <3>8
  <2> HIDE DEF T
  <2>3. \A k \in 1..n : k - 1 \in T => k \in T
    BY <2>2
  <2>4. n \in T
    <3>1. n \in 0..n
      OBVIOUS
    <3>2. \A k \in 0..n : k \in T
      BY <2>1, <2>3, NumbersUpTo
    <3> QED
      BY <3>1, <3>2
  <2>5. \E S \in SUBSET Q : Cardinality(S) = n /\ Best(S)
    BY <2>4 DEF T
  <2>6. ~(Cardinality(Q) <= n)
    BY <1>1, <1>3
  <2>7. Top(n, Q) = CHOOSE S \in SUBSET Q : Cardinality(S) = n /\ Best(S)
    BY <2>6 DEF Top
  <2> HIDE DEF Best
  <2>8. Top(n, Q) \in SUBSET Q /\ Cardinality(Top(n, Q)) = n /\ Best(Top(n, Q))
    BY <2>5, <2>7
  <2> QED
    BY <2>6, <2>8 DEF Best
<1> QED
  BY <1>1, <1>2, <1>3

(* The names of an answer, and the result for one of them.                 *)
RowsIn(points, window) == {r \in Downsampled(points) : r.minute \in window}
RowsOf(points, window, n) == {r \in RowsIn(points, window) : r.name = n}
ResultOf(points, window, n) ==
    [name  |-> n,
     min   |-> Smallest({r.min : r \in RowsOf(points, window, n)}),
     max   |-> Greatest({r.max : r \in RowsOf(points, window, n)}),
     count |-> SumFunction([r \in RowsOf(points, window, n) |-> r.count])]
NamesIn(points, window) == {r.name : r \in RowsIn(points, window)}

LEMMA ResultsAre ==
  ASSUME NEW points, NEW window
  PROVE  Results(points, window) =
            [i \in DOMAIN ByName(NamesIn(points, window)) |->
                ResultOf(points, window, ByName(NamesIn(points, window))[i])]
BY DEF Results, NamesIn, ResultOf, RowsOf, RowsIn

Named(points, minutes) ==
    {NameTag(pt) : pt \in {q \in points : Tagged(q) /\ q.minute \in minutes}}

GroupsOf(points, window, n) == {g \in Groups(points) : g[1] = n /\ g[2] \in window}

LEMMA NamesAre ==
  ASSUME NEW points, ArePoints(points), NEW window
  PROVE  /\ NamesIn(points, window) = {g[1] : g \in {h \in Groups(points) : h[2] \in window}}
         /\ NamesIn(points, window) \in SUBSET Nat /\ IsFiniteSet(NamesIn(points, window))
         /\ NamesIn(points, window) = Named(points, window)
         /\ \A n : RowsOf(points, window, n) = {Down(points, g) : g \in GroupsOf(points, window, n)}
<1>1. \A g \in Groups(points) : Down(points, g).name = g[1] /\ Down(points, g).minute = g[2]
  BY DEF Down
<1>2. RowsIn(points, window) = {Down(points, g) : g \in {h \in Groups(points) : h[2] \in window}}
  BY <1>1, SamplesAre DEF RowsIn
<1>3. NamesIn(points, window) = {g[1] : g \in {h \in Groups(points) : h[2] \in window}}
  BY <1>1, <1>2 DEF NamesIn
<1>4. NamesIn(points, window) \in SUBSET Nat
  BY <1>3, GroupsAre
<1>5. IsFiniteSet(NamesIn(points, window))
  <2> DEFINE G == {h \in Groups(points) : h[2] \in window}
             b == [g \in Groups(points) |-> g[1]]
  <2>1. IsFiniteSet(G)
    BY GroupsAre, FS_Subset
  <2>2. NamesIn(points, window) = {b[x] : x \in G}
    BY <1>3
  <2> HIDE DEF G, b
  <2> QED
    BY <2>1, <2>2, ImageFinite
<1>6. \A n : RowsOf(points, window, n) = {Down(points, g) : g \in GroupsOf(points, window, n)}
  BY <1>1, <1>2 DEF RowsOf, GroupsOf
<1>7. NamesIn(points, window) = Named(points, window)
  <2>1. ASSUME NEW g \in Groups(points), g[2] \in window PROVE g[1] \in Named(points, window)
    <3>1. PICK pt \in points : Tagged(pt) /\ g = <<NameTag(pt), pt.minute>>
      BY DEF Groups
    <3> QED
      BY <2>1, <3>1 DEF Named
  <2>2. ASSUME NEW pt \in points, Tagged(pt), pt.minute \in window
        PROVE  NameTag(pt) \in {g[1] : g \in {h \in Groups(points) : h[2] \in window}}
    <3>1. <<NameTag(pt), pt.minute>> \in Groups(points)
      BY <2>2 DEF Groups
    <3> QED
      BY <2>2, <3>1
  <2> QED
    BY <1>3, <2>1, <2>2 DEF Named
<1> QED
  BY <1>3, <1>4, <1>5, <1>6, <1>7

(* The names of the slowest are those of all that may be.                  *)
LEMMA SlowNamesAre ==
  ASSUME NEW points, ArePoints(points)
  PROVE  {NameTag(pt) : pt \in Slowest(points)} = Named(points, Minutes)
<1>1. ASSUME NEW g \in Groups(points) PROVE NameTag(SlowestIn(points, g)) = g[1]
  <2>1. SlowestIn(points, g) \in InGroup(points, g) /\ g = <<g[1], g[2]>>
    BY GroupsAre
  <2> QED
    BY <2>1 DEF InGroup
<1>2. {NameTag(pt) : pt \in Slowest(points)} = {g[1] : g \in Groups(points)}
  BY <1>1, SamplesAre
<1>3. \A g \in Groups(points) : g[2] \in Minutes
  <2> SUFFICES ASSUME NEW g \in Groups(points) PROVE g[2] \in Minutes
    OBVIOUS
  <2>1. PICK pt \in points : Tagged(pt) /\ g = <<NameTag(pt), pt.minute>>
    BY DEF Groups
  <2> QED
    BY <2>1 DEF ArePoints, IsPoint
<1>4. {g[1] : g \in Groups(points)} = {g[1] : g \in {h \in Groups(points) : h[2] \in Minutes}}
  BY <1>3
<1> QED
  BY <1>2, <1>4, NamesAre

LEMMA ByNameIs ==
  ASSUME NEW S \in SUBSET Nat, IsFiniteSet(S)
  PROVE  /\ Cardinality(S) \in Nat
         /\ ByName(S) \in [1..Cardinality(S) -> S]
         /\ \A x \in S : \E i \in 1..Cardinality(S) : ByName(S)[i] = x
         /\ \A i, j \in 1..Cardinality(S) : i < j <=> ByName(S)[i] < ByName(S)[j]
<1> DEFINE R == {p \in S \X S : p[1] < p[2]}
           N == Cardinality(S)
           b == ByName(S)
<1>1. Arranges(R, S)
  BY DEF Arranges
<1>2. b = Ranked(S, R)
  BY DEF ByName
<1>3. \A x, y \in S : <<x, y>> \in R <=> x < y
  OBVIOUS
<1> HIDE DEF R, N, b
<1>4. /\ N \in Nat /\ b \in [1..N -> S]
      /\ \A x \in S : \E i \in 1..N : b[i] = x
      /\ \A i, j \in 1..N : i < j <=> <<b[i], b[j]>> \in R
  BY <1>1, <1>2, RankedInOrder DEF N
<1>5. \A i, j \in 1..N : i < j <=> b[i] < b[j]
  BY <1>3, <1>4
<1> QED
  BY <1>4, <1>5 DEF N, b

(* The series of R are the first of the series of S just when R has every  *)
(* name of S that comes before one of its own.                             *)
LEMMA SeriesBegin ==
  ASSUME NEW R \in SUBSET Nat, IsFiniteSet(R), NEW S \in SUBSET Nat, IsFiniteSet(S)
  PROVE  (\A i \in 1..Cardinality(R) : i <= Cardinality(S) /\ ByName(R)[i] = ByName(S)[i])
            <=> R \subseteq S /\ \A n \in R, m \in S : m < n => m \in R
<1> DEFINE a == ByName(R)
           b == ByName(S)
           K == Cardinality(R)
           N == Cardinality(S)
           Same(i) == i <= N /\ a[i] = b[i]
<1>1. /\ K \in Nat /\ a \in [1..K -> R]
      /\ \A x \in R : \E i \in 1..K : a[i] = x
      /\ \A i, j \in 1..K : i < j <=> a[i] < a[j]
  BY ByNameIs
<1>2. /\ N \in Nat /\ b \in [1..N -> S]
      /\ \A x \in S : \E i \in 1..N : b[i] = x
      /\ \A i, j \in 1..N : i < j <=> b[i] < b[j]
  BY ByNameIs
<1> HIDE DEF a, b, K, N
<1>3. ASSUME \A i \in 1..K : Same(i)
      PROVE  R \subseteq S /\ \A n \in R, m \in S : m < n => m \in R
  <2>1. R \subseteq S
    <3> SUFFICES ASSUME NEW x \in R PROVE x \in S
      OBVIOUS
    <3>1. PICK i \in 1..K : a[i] = x
      BY <1>1
    <3>2. i \in 1..N /\ b[i] = x
      BY <1>2, <1>3, <3>1, <1>1
    <3> QED
      BY <1>2, <3>2
  <2>2. ASSUME NEW n \in R, NEW m \in S, m < n PROVE m \in R
    <3>1. PICK i \in 1..K : a[i] = n
      BY <1>1
    <3>2. PICK j \in 1..N : b[j] = m
      BY <1>2
    <3>3. i \in 1..N /\ b[i] = n
      BY <1>1, <1>2, <1>3, <3>1
    <3>4. j < i
      BY <1>2, <2>2, <3>2, <3>3
    <3>5. j \in 1..K
      BY <1>1, <3>4
    <3> QED
      BY <1>1, <1>3, <3>2, <3>5
  <2> QED
    BY <2>1, <2>2
<1>4. ASSUME R \subseteq S, \A n \in R, m \in S : m < n => m \in R
      PROVE  \A i \in 1..K : Same(i)
  <2> DEFINE T == {k \in 0..K : \A i \in 1..k : Same(i)}
  <2>1. 0 \in T
    BY <1>1
  <2>2. ASSUME NEW k \in 1..K, k - 1 \in T PROVE k \in T
    <3>1. \A i \in 1..K : i < k => Same(i)
      BY <2>2, <1>1
    <3>2. a[k] \in R /\ a[k] \in S /\ a[k] \in Nat
      BY <1>1, <1>4
    <3>3. PICK l \in 1..N : b[l] = a[k]
      BY <1>2, <3>2
    <3>4. ~(l < k)
      <4> SUFFICES ASSUME l < k PROVE FALSE
        OBVIOUS
      <4>1. l \in 1..K
        BY <1>1, <1>2
      <4>2. a[l] < a[k] /\ a[l] = b[l]
        BY <1>1, <3>1, <4>1
      <4> QED
        BY <3>2, <3>3, <4>2
    <3>5. ~(k < l)
      <4> SUFFICES ASSUME k < l PROVE FALSE
        OBVIOUS
      <4>1. k \in 1..N
        BY <1>1, <1>2
      <4>2. b[k] < a[k] /\ b[k] \in S
        BY <1>2, <3>3, <4>1
      <4>3. PICK m \in 1..K : a[m] = b[k]
        BY <1>1, <1>4, <3>2, <4>2
      <4>4. m < k
        BY <1>1, <4>2, <4>3
      <4>5. m \in 1..N /\ b[m] = b[k]
        BY <1>1, <1>2, <3>1, <4>3, <4>4
      <4>6. b[m] < b[k] /\ b[k] \in Nat
        BY <1>2, <4>1, <4>2, <4>4, <4>5
      <4> QED
        BY <4>5, <4>6
    <3>6. Same(k)
      <4>1. k = l
        BY <1>1, <1>2, <3>4, <3>5
      <4> QED
        BY <1>2, <3>3, <4>1
    <3>7. \A i \in 1..k : i = k \/ (i \in 1..K /\ i < k)
      BY <1>1
    <3> HIDE DEF Same
    <3>8. \A i \in 1..k : Same(i)
      BY <3>1, <3>6, <3>7
    <3> QED
      BY <1>1, <3>8
  <2> HIDE DEF T
  <2>3. \A k \in 1..K : k - 1 \in T => k \in T
    BY <2>2
  <2>4. \A k \in 0..K : k \in T
    BY <1>1, <2>1, <2>3, NumbersUpTo
  <2>5. K \in T
    BY <1>1, <2>4
  <2> QED
    BY <2>5 DEF T
<1> QED
  BY <1>3, <1>4 DEF a, b, K, N

(* The result of a name counts the spans of all its samples, and its times *)
(* bound theirs.                                                           *)
LEMMA ResultIs ==
  ASSUME NEW points, ArePoints(points), NEW window, NEW n \in NamesIn(points, window),
         NEW mine, mine = {pt \in points : pt.minute \in window /\ Tagged(pt) /\ NameTag(pt) = n}
  PROVE  /\ ResultOf(points, window, n).count = Cardinality(mine)
         /\ \A pt \in mine : Duration(pt) \in
                ResultOf(points, window, n).min .. ResultOf(points, window, n).max
<1> DEFINE G     == GroupsOf(points, window, n)
           D     == RowsOf(points, window, n)
           part  == [g \in G |-> InGroup(points, g)]
           one   == [pt \in points |-> 1]
           size  == [g \in G |-> Cardinality(InGroup(points, g))]
           down  == [g \in G |-> Down(points, g)]
           count == [r \in D |-> r.count]
<1>1. IsFiniteSet(G)
  BY GroupsAre, FS_Subset DEF GroupsOf
<1>2. D = {down[g] : g \in G}
  BY NamesAre
<1>3. mine = UNION {part[g] : g \in G}
  <2>1. ASSUME NEW pt \in mine PROVE pt \in UNION {part[g] : g \in G}
    <3>1. <<n, pt.minute>> \in G
      BY DEF GroupsOf, Groups
    <3>2. pt \in part[<<n, pt.minute>>]
      BY <3>1 DEF InGroup
    <3> QED
      BY <3>1, <3>2
  <2>2. ASSUME NEW g \in G, NEW pt \in part[g] PROVE pt \in mine
    <3>1. pt \in points /\ Tagged(pt) /\ <<NameTag(pt), pt.minute>> = g
      BY <2>2 DEF InGroup
    <3>2. g[1] = n /\ g[2] \in window
      BY DEF GroupsOf
    <3>3. NameTag(pt) = n /\ pt.minute \in window
      BY <3>1, <3>2
    <3> QED
      BY <3>1, <3>3
  <2> QED
    BY <2>1, <2>2
<1>4. \A g \in G : IsFiniteSet(part[g])
  BY GroupsAre DEF GroupsOf, ArePoints
<1>5. \A g, h \in G : g # h => part[g] \cap part[h] = {}
  BY DEF InGroup
<1>6. \A g \in G : part[g] \in SUBSET points /\ \A pt \in part[g] : one[pt] = 1 /\ one[pt] \in Nat
  BY DEF InGroup
<1>7. \A g \in G : size[g] = Cardinality(part[g]) /\ size[g] \in Nat
  BY <1>4, FS_CardinalityType
<1>8. \A g, h \in G : down[g] = down[h] => g = h
  <2> SUFFICES ASSUME NEW g \in G, NEW h \in G, down[g] = down[h] PROVE g = h
    OBVIOUS
  <2>1. g = <<g[1], g[2]>> /\ h = <<h[1], h[2]>>
    BY GroupsAre DEF GroupsOf
  <2>2. g[1] = h[1] /\ g[2] = h[2]
    BY DEF Down
  <2> QED
    BY <2>1, <2>2
<1>9. \A g \in G : down[g] \in D /\ count[down[g]] = size[g]
  BY <1>2 DEF Down
<1>10. ResultOf(points, window, n).count = SumFunction(count)
  BY DEF ResultOf
<1>11. \A r \in D : \E g \in G : r = down[g]
  BY <1>2
<1>12. count = [r \in D |-> count[r]]
  OBVIOUS
<1>13. \A pt \in mine : \E g \in G : pt \in part[g]
  BY <1>3
<1>14. \A g \in G : down[g].min = Smallest({Duration(pt) : pt \in part[g]})
                    /\ down[g].max = Greatest({Duration(pt) : pt \in part[g]})
  BY DEF Down
<1>15. \A g \in G : ArePoints(part[g]) /\ part[g] # {}
  BY GroupsAre DEF GroupsOf
<1>16. /\ ResultOf(points, window, n).min = Smallest({r.min : r \in D})
       /\ ResultOf(points, window, n).max = Greatest({r.max : r \in D})
  BY DEF ResultOf
<1>17. G # {}
  <2>1. PICK g \in Groups(points) : g[1] = n /\ g[2] \in window
    BY NamesAre
  <2> QED
    BY <2>1 DEF GroupsOf
<1> HIDE DEF G, D, part, one, size, down, count
<1>18. ResultOf(points, window, n).count = Cardinality(mine)
  <2>1. \A r \in D : count[r] \in Nat
    BY <1>7, <1>9, <1>11
  <2>2. IsFiniteSet(D) /\ count \in [D -> Nat]
    <3>1. IsFiniteSet(D)
      BY <1>1, <1>2, ImageFinite
    <3> QED
      BY <1>12, <2>1, <3>1
  <2>3. SumFunction(count) = Total(D, count)
    BY <2>2, SumIsTotal
  <2>4. Total(D, count) = Total(G, size)
    <3>1. (\A g \in G : size[g] \in Nat) /\ \A g \in G : count[down[g]] = size[g]
      BY <1>7, <1>9
    <3>2. Total({down[g] : g \in G}, count) = Total(G, size)
      BY <1>1, <1>8, <3>1, TotalMoved
    <3> QED
      BY <1>2, <3>2
  <2>5. \A g \in G : size[g] = Total(part[g], one)
    BY <1>4, <1>6, <1>7, TotalOfOnes
  <2>6. \A g \in G : \A pt \in part[g] : one[pt] \in Nat
    BY <1>6
  <2>7. IsFiniteSet(mine) /\ Total(mine, one) = Total(G, size)
    <3>1. \A x : x \in mine <=> \E g \in G : x \in part[g]
      BY <1>3
    <3> QED
      BY ONLY <1>1, <1>4, <1>5, <2>5, <2>6, <3>1, TotalOfMany
  <2>8. Total(mine, one) = Cardinality(mine)
    <3>1. \A pt \in mine : one[pt] = 1
      BY <1>6, <1>13
    <3>2. IsFiniteSet(mine)
      BY <2>7
    <3> QED
      BY <3>1, <3>2, TotalOfOnes
  <2> QED
    BY <1>10, <2>3, <2>4, <2>7, <2>8
<1>19. ASSUME NEW pt \in mine
       PROVE  Duration(pt) \in ResultOf(points, window, n).min .. ResultOf(points, window, n).max
  <2> DEFINE low  == [g \in G |-> down[g].min]
             high == [g \in G |-> down[g].max]
             L == {r.min : r \in D}
             H == {r.max : r \in D}
  <2>1. L = {low[g] : g \in G} /\ H = {high[g] : g \in G}
    BY <1>2
  <2>2. \A g \in G : low[g] \in Int /\ high[g] \in Int
    BY <1>14, <1>15, LongestOf
  <2>3. IsFiniteSet({low[g] : g \in G}) /\ IsFiniteSet({high[g] : g \in G})
    <3> HIDE DEF low, high
    <3> QED
      BY <1>1, ImageFinite
  <2>4. PICK g \in G : pt \in part[g]
    BY <1>13
  <2>5. low[g] <= Duration(pt) /\ Duration(pt) <= high[g] /\ Duration(pt) \in Int
    <3>1. Duration(pt) \in Int
      BY <1>15, <2>4, PointTags DEF ArePoints
    <3> QED
      BY <1>14, <1>15, <2>4, <3>1, LongestOf
  <2>6. low[g] \in L /\ high[g] \in H
    BY <2>1
  <2>7. L \in SUBSET Int /\ H \in SUBSET Int /\ IsFiniteSet(L) /\ IsFiniteSet(H)
    BY <2>1, <2>2, <2>3
  <2>8. Smallest(L) = ResultOf(points, window, n).min /\ Greatest(H) = ResultOf(points, window, n).max
    BY <1>16
  <2>9. low[g] \in Int /\ high[g] \in Int
    BY <2>2
  <2> HIDE DEF L, H, low, high
  <2>10. Smallest(L) \in L /\ Smallest(L) <= low[g]
    BY <2>6, <2>7, Extremes
  <2>11. Greatest(H) \in H /\ high[g] <= Greatest(H)
    BY <2>6, <2>7, Extremes
  <2>12. Smallest(L) \in Int /\ Greatest(H) \in Int
    BY <2>7, <2>10, <2>11
  <2>13. \A a, b, c, d, e \in Int : a <= b /\ b <= c /\ c <= d /\ d <= e => c \in a..e
    OBVIOUS
  <2> QED
    BY <2>5, <2>8, <2>9, <2>10, <2>11, <2>12, <2>13
<1> QED
  BY <1>18, <1>19

-----------------------------------------------------------------------------
InputOK == input \in [kind : {"spans"}, of : SpanInputs, extra : Extras]
            \cup [kind : {"traces"}, of : TreeInputs]
            \cup [kind : {"samples"}, of : SampleInputs, window : SUBSET Minutes]

(* The input stays what it was.                                            *)
LEMMA InputStays == Spec => []InputOK
<1>1. Init => InputOK
  BY DEF Init, InputOK
<1>2. InputOK /\ [Next]_vars => InputOK'
  BY DEF Next, vars, InputOK, Request, ReadSpans, ReadRows, serveTrace, serveAggregate,
         serveDashboardData
<1> QED
  BY <1>1, <1>2, PTL DEF Spec

(* What serveDashboardData answers is as DashboardSound wants it.          *)
RowFor(row, sampled, ranked, window) ==
    LET mine    == WithOne(row.result.name, window, sampled)
        slowest == WithOne(row.result.name, Minutes, ranked)
    IN  /\ row.result.count = Cardinality(mine)
        /\ \A pt \in mine : Duration(pt) \in row.result.min .. row.result.max
        /\ row.slowest \subseteq {q.trace : q \in slowest}
        /\ \A pt \in slowest : \E q \in slowest :
               q.trace \in row.slowest /\ Duration(q) >= Duration(pt)

DashboardFor(sampled, ranked, window, answer) ==
    LET counted == Named(sampled, window)
        slow    == Named(ranked, Minutes)
    IN  /\ answer.how = "panic" <=>
                counted # {} /\ ~(/\ slow \subseteq counted
                                  /\ \A n \in slow, m \in counted : m < n => m \in slow)
        /\ answer.how = "ok" => {row.result.name : row \in Range(answer.rows)} = counted
        /\ \A row \in Range(answer.rows) : row.result.name # 0 => RowFor(row, sampled, ranked, window)

LEMMA WithOneIs ==
  ASSUME NEW points, ArePoints(points), NEW name \in Nat \ {0}
  PROVE  \A W : WithOne(name, W, points)
                    = {pt \in points : pt.minute \in W /\ Tagged(pt) /\ NameTag(pt) = name}
<1>1. \A pt \in points : NameTag(pt) # 0 => \E f \in Range(pt.found) : Len(f) = 1
  BY PointTags DEF ArePoints
<1> QED
  BY <1>1 DEF WithOne, Tagged

(* The slowest traces of a name.                                           *)
LEMMA SlowTracesAre ==
  ASSUME NEW points, ArePoints(points), NEW k \in Nat \ {0},
         NEW name \in Nat \ {0}
  PROVE  /\ \A pt \in WithOne(name, Minutes, points) :
                \E q \in WithOne(name, Minutes, points) :
                    q.trace \in SlowTraces(points, name, k) /\ Duration(q) >= Duration(pt)
         /\ SlowTraces(points, name, k) \subseteq {q.trace : q \in WithOne(name, Minutes, points)}
<1> DEFINE Q == {q \in Slowest(points) : NameTag(q) = name}
           S == Top(k, Q)
<1>1. \A pt \in points : pt.minute \in Minutes /\ Duration(pt) \in Int
  BY PointTags DEF ArePoints, IsPoint
<1>2. \A W : WithOne(name, W, points)
            = {pt \in points : pt.minute \in W /\ Tagged(pt) /\ NameTag(pt) = name}
  BY WithOneIs
<1>3. Q \in SUBSET WithOne(name, Minutes, points)
  <2> SUFFICES ASSUME NEW q \in Q PROVE q \in WithOne(name, Minutes, points)
    OBVIOUS
  <2>1. PICK g \in Groups(points) : q = SlowestIn(points, g)
    BY SamplesAre
  <2>2. q \in points /\ Tagged(q)
    BY <2>1, GroupsAre DEF InGroup
  <2> QED
    BY <1>1, <1>2, <2>2
<1>4. ArePoints(Q) /\ Q \in SUBSET points
  <2>1. Q \in SUBSET points
    BY <1>2, <1>3
  <2> QED
    BY <2>1, FS_Subset DEF ArePoints
<1> HIDE DEF Q
<1>5. /\ S \in SUBSET Q
      /\ Cardinality(Q) <= k => S = Q
      /\ Cardinality(Q) > k => /\ Cardinality(S) = k
                               /\ \A pt \in S, q \in Q \ S : Duration(q) <= Duration(pt)
  BY <1>4, TopIs
<1>6. SlowTraces(points, name, k) = {pt.trace : pt \in S}
  BY DEF SlowTraces, Q
<1>7. IsFiniteSet(Q) /\ Cardinality(Q) \in Nat
  BY <1>4, FS_CardinalityType DEF ArePoints
<1> HIDE DEF S
<1>8. SlowTraces(points, name, k) \subseteq {q.trace : q \in WithOne(name, Minutes, points)}
  BY <1>3, <1>5, <1>6
<1>9. ASSUME NEW pt \in WithOne(name, Minutes, points)
      PROVE  \E q \in WithOne(name, Minutes, points) :
                q.trace \in SlowTraces(points, name, k) /\ Duration(q) >= Duration(pt)
  <2> DEFINE g == <<name, pt.minute>>
             s == SlowestIn(points, g)
  <2>1. pt \in points /\ Tagged(pt) /\ NameTag(pt) = name
    BY <1>2
  <2>2. g \in Groups(points) /\ pt \in InGroup(points, g)
    BY <2>1 DEF Groups, InGroup
  <2>3. s \in InGroup(points, g) /\ Duration(pt) <= Duration(s)
    BY <2>2, GroupsAre
  <2>4. s \in points /\ NameTag(s) = name /\ s \in Slowest(points)
    BY <2>2, <2>3, SamplesAre DEF InGroup
  <2>5. s \in Q
    BY <2>4 DEF Q
  <2> HIDE DEF s, g
  <2>6. \E q \in S : Duration(s) <= Duration(q)
    <3>1. CASE s \in S
      BY <1>1, <2>4, <3>1
    <3>2. CASE s \notin S
      <4>1. Cardinality(Q) > k
        BY <1>5, <1>7, <2>5, <3>2
      <4>2. S # {}
        BY <1>5, <4>1, FS_EmptySet
      <4> QED
        BY <1>5, <2>5, <3>2, <4>1, <4>2
    <3> QED
      BY <3>1, <3>2
  <2>7. PICK q \in S : Duration(s) <= Duration(q)
    BY <2>6
  <2>8. q \in WithOne(name, Minutes, points) /\ q.trace \in SlowTraces(points, name, k)
    BY <1>3, <1>5, <1>6
  <2>9. Duration(q) \in Int /\ Duration(s) \in Int /\ Duration(pt) \in Int
    BY <1>1, <1>2, <2>1, <2>4, <2>8
  <2>10. Duration(q) >= Duration(pt)
    BY <2>3, <2>7, <2>9
  <2> QED
    BY <2>8, <2>10
<1> QED
  BY <1>8, <1>9

(* The row of a name has what was sampled and ranked of it, and nothing    *)
(* was ranked when the second query has no such name.                      *)
LEMMA RowAnswers ==
  ASSUME NEW sampled, ArePoints(sampled), NEW ranked, ArePoints(ranked),
         NEW window \in SUBSET Minutes, NEW k \in Nat \ {0}, NEW row,
         NEW name \in NamesIn(sampled, window), name # 0,
         row.result = ResultOf(sampled, window, name),
         row.slowest = IF name \in Named(ranked, Minutes) THEN SlowTraces(ranked, name, k) ELSE {}
  PROVE  row.result.name = name /\ RowFor(row, sampled, ranked, window)
<1> DEFINE mine    == WithOne(name, window, sampled)
           slowest == WithOne(name, Minutes, ranked)
<1>1. name \in Nat \ {0}
  BY NamesAre
<1>2. row.result.name = name
  BY DEF ResultOf
<1>3. /\ mine = {pt \in sampled : pt.minute \in window /\ Tagged(pt) /\ NameTag(pt) = name}
      /\ slowest = {pt \in ranked : pt.minute \in Minutes /\ Tagged(pt) /\ NameTag(pt) = name}
  BY <1>1, WithOneIs
<1>4. slowest # {} => name \in Named(ranked, Minutes)
  BY <1>3 DEF Named
<1> HIDE DEF mine, slowest
<1>5. /\ row.result.count = Cardinality(mine)
      /\ \A pt \in mine : Duration(pt) \in row.result.min .. row.result.max
  <2> DEFINE res == ResultOf(sampled, window, name)
  <2>1. mine = {pt \in sampled : pt.minute \in window /\ Tagged(pt) /\ NameTag(pt) = name}
    BY <1>3
  <2>2. res.count = Cardinality(mine) /\ \A pt \in mine : Duration(pt) \in res.min .. res.max
    BY <2>1, ResultIs
  <2>3. row.result = res
    OBVIOUS
  <2> HIDE DEF res
  <2> QED
    BY <2>2, <2>3, Zenon
<1>6. /\ row.slowest \subseteq {q.trace : q \in slowest}
      /\ \A pt \in slowest : \E q \in slowest :
             q.trace \in row.slowest /\ Duration(q) >= Duration(pt)
  <2>1. CASE name \in Named(ranked, Minutes)
    <3>1. row.slowest = SlowTraces(ranked, name, k)
      BY <2>1
    <3> QED
      BY <1>1, <3>1, SlowTracesAre DEF slowest
  <2>2. CASE name \notin Named(ranked, Minutes)
    BY <1>4, <2>2
  <2> QED
    BY <2>1, <2>2
<1> QED
  BY <1>2, <1>5, <1>6, Zenon DEF RowFor, mine, slowest

LEMMA AggregateSound ==
  ASSUME NEW points, ArePoints(points), NEW window \in SUBSET Minutes
  PROVE  DashboardFor(Seen(points, "downsampled"), Seen(points, "nslowest"), window,
                      Aggregate(points, window))
<1> DEFINE sampled == Seen(points, "downsampled")
           ranked  == Seen(points, "nslowest")
           NS      == NamesIn(sampled, window)
           RS      == Named(ranked, Minutes)
           N       == Cardinality(NS)
           K       == Cardinality(RS)
           results == Results(sampled, window)
           n       == IF Len(results) < MaxSlowest THEN Len(results) ELSE MaxSlowest
           series  == SlowSeries(ranked)
           names   == ByName(NS)
           answer  == Aggregate(points, window)
           row(i)  == [result  |-> results[i],
                       slowest |-> IF i \in DOMAIN series THEN SlowTraces(ranked, series[i], n) ELSE {}]
           Begins  == RS \subseteq NS /\ \A x \in RS, m \in NS : m < x => m \in RS
           Differ  == \E i \in DOMAIN series : i \notin DOMAIN results \/ series[i] # results[i].name
<1>1. ArePoints(sampled) /\ ArePoints(ranked)
  BY FS_Subset DEF ArePoints, Seen
<1>2. NS \in SUBSET Nat /\ IsFiniteSet(NS) /\ NS = Named(sampled, window)
  BY <1>1, NamesAre
<1>3. RS = {NameTag(pt) : pt \in Slowest(ranked)} /\ RS \in SUBSET Nat /\ IsFiniteSet(RS)
  <2>1. RS = NamesIn(ranked, Minutes) /\ RS \in SUBSET Nat /\ IsFiniteSet(RS)
    BY <1>1, NamesAre
  <2> QED
    BY <1>1, <2>1, SlowNamesAre
<1>4. series = ByName(RS)
  BY <1>3 DEF SlowSeries
<1>5. Begins <=> \A i \in 1..K : i <= N /\ series[i] = names[i]
  BY <1>2, <1>3, <1>4, SeriesBegin
<1>6. /\ N \in Nat /\ names \in [1..N -> NS]
      /\ \A x \in NS : \E i \in 1..N : names[i] = x
      /\ \A i, j \in 1..N : i < j <=> names[i] < names[j]
  BY <1>2, ByNameIs
<1>7. K \in Nat /\ series \in [1..K -> RS] /\ \A x \in RS : \E i \in 1..K : series[i] = x
  BY <1>3, <1>4, ByNameIs
<1>8. results = [i \in 1..N |-> ResultOf(sampled, window, names[i])]
  BY <1>6, ResultsAre
<1>9. \A i \in 1..N : results[i].name = names[i]
  <2>1. \A x : ResultOf(sampled, window, x).name = x
    BY DEF ResultOf
  <2> HIDE DEF results, names, sampled, N
  <2>2. \A i \in 1..N : results[i] = ResultOf(sampled, window, names[i])
    BY <1>8
  <2> QED
    BY <2>1, <2>2
<1>10. DOMAIN results = 1..N /\ Len(results) = N /\ DOMAIN series = 1..K
  BY <1>6, <1>7, <1>8
<1>11. results = <<>> <=> NS = {}
  <2>1. results = <<>> <=> N = 0
    BY <1>6, <1>8, <1>10
  <2>2. N = 0 <=> NS = {}
    BY <1>2, FS_EmptySet
  <2> QED
    BY <2>1, <2>2
<1> HIDE DEF results, series, names, n
<1>12. Differ <=> ~Begins
  <2>1. \A i \in 1..K : i \in 1..N <=> i <= N
    BY <1>6, <1>7
  <2>2. \A i \in 1..K : i \in 1..N => results[i].name = names[i]
    BY <1>9
  <2> QED
    BY <1>5, <1>10, <2>1, <2>2
<1>13. answer = IF results = <<>> THEN Answer("ok", <<>>)
                ELSE IF Differ THEN Answer("panic", <<>>)
                ELSE Answer("ok", [i \in DOMAIN results |-> row(i)])
  BY DEF Aggregate, results, series, n
<1> HIDE DEF Differ, answer, row
<1>14. \A i \in 1..N : row(i).result = results[i]
  BY DEF row
<1> SUFFICES /\ answer.how = "panic" <=> NS # {} /\ ~Begins
             /\ answer.how = "ok" => {r.result.name : r \in Range(answer.rows)} = NS
             /\ \A r \in Range(answer.rows) : r.result.name # 0 => RowFor(r, sampled, ranked, window)
  BY <1>2, Zenon DEF DashboardFor, answer
<1>15. CASE results = <<>> \/ Differ
  <2>1. answer.rows = <<>>
    BY <1>13, <1>15 DEF Answer
  <2>2. Range(answer.rows) = {}
    BY <2>1 DEF Range
  <2>3. CASE results = <<>>
    <3>1. answer.how = "ok" /\ NS = {}
      BY <1>11, <1>13, <2>3 DEF Answer
    <3> QED
      BY <2>2, <3>1
  <2>4. CASE results # <<>> /\ Differ
    <3>1. answer.how = "panic" /\ NS # {} /\ ~Begins
      BY <1>11, <1>12, <1>13, <2>4 DEF Answer
    <3> QED
      BY <2>2, <3>1
  <2> QED
    BY <1>15, <2>3, <2>4
<1>16. CASE results # <<>> /\ ~Differ
  <2>1. answer.how = "ok" /\ answer.rows = [i \in 1..N |-> row(i)] /\ NS # {} /\ Begins
    BY <1>10, <1>11, <1>12, <1>13, <1>16 DEF Answer
  <2>2. Range(answer.rows) = {row(i) : i \in 1..N}
    BY <2>1 DEF Range
  <2>3. {r.result.name : r \in Range(answer.rows)} = NS
    <3>1. \A i \in 1..N : row(i).result.name = names[i] /\ names[i] \in NS
      BY <1>6, <1>9, <1>14
    <3> QED
      BY <1>6, <2>2, <3>1
  <2>4. n \in Nat \ {0}
    <3>1. N # 0
      BY <1>2, <2>1, FS_EmptySet
    <3> QED
      BY <1>6, <1>10, <3>1, SamplesAssumption DEF n
  <2>5. ASSUME NEW i \in 1..N, names[i] # 0 PROVE RowFor(row(i), sampled, ranked, window)
    <3>1. names[i] \in NS
      BY <1>6
    <3>2. row(i).result = ResultOf(sampled, window, names[i])
      BY <1>8, <1>14
    <3>3. names[i] \in RS <=> i \in 1..K
      <4>1. i \in 1..K => series[i] \in RS /\ series[i] = names[i]
        BY <1>5, <1>7, <2>1
      <4>2. ASSUME names[i] \in RS PROVE i \in 1..K
        <5>1. PICK j \in 1..K : series[j] = names[i]
          BY <1>7, <4>2
        <5>2. j \in 1..N /\ names[j] = names[i]
          BY <1>5, <1>6, <1>7, <2>1, <5>1
        <5>3. ~(i < j) /\ ~(j < i)
          <6>1. ~(names[i] < names[j]) /\ ~(names[j] < names[i])
            BY <1>2, <3>1, <5>2
          <6> QED
            BY <1>6, <5>2, <6>1
        <5> QED
          BY <1>6, <1>7, <5>2, <5>3
      <4> QED
        BY <4>1, <4>2
    <3>4. i \in 1..K => series[i] = names[i]
      BY <1>5, <2>1
    <3>5. row(i).slowest = IF names[i] \in RS THEN SlowTraces(ranked, names[i], n) ELSE {}
      BY <1>10, <3>3, <3>4 DEF row
    <3> DEFINE r == row(i)
               nm == names[i]
    <3> HIDE DEF r, nm
    <3>6. /\ nm \in NS /\ nm # 0 /\ r.result = ResultOf(sampled, window, nm)
          /\ r.slowest = IF nm \in RS THEN SlowTraces(ranked, nm, n) ELSE {}
      BY <2>5, <3>1, <3>2, <3>5, Zenon DEF r, nm
    <3> HIDE DEF sampled, ranked
    <3>7. RowFor(r, sampled, ranked, window)
      BY <1>1, <2>4, <3>6, RowAnswers
    <3> QED
      BY <3>7 DEF r
  <2>6. \A r \in Range(answer.rows) : r.result.name # 0 => RowFor(r, sampled, ranked, window)
    BY <1>9, <1>14, <2>2, <2>5
  <2> QED
    BY <2>1, <2>3, <2>6
<1> QED
  BY <1>15, <1>16

(* The dashboard panics exactly when the names of the slowest traces are   *)
(* not the first of the names with a sample in the window; otherwise it    *)
(* has a row for each of the latter, which counts, bounds and names        *)
(* exactly the spans of its name that the continuous queries have seen     *)
(* (Collect, Aggregate of InfluxDBStore).                                  *)
THEOREM DashboardIsSound == Spec => []DashboardSound
<1>1. Init => DashboardSound
  BY DEF Init, DashboardSound, Answered
<1>2. InputOK /\ DashboardSound /\ [Next]_vars => DashboardSound'
  <2> SUFFICES ASSUME InputOK, DashboardSound, [Next]_vars PROVE DashboardSound'
    OBVIOUS
  <2>1. CASE serveDashboardData
    <3>1. input.kind = "samples" /\ input' = input
          /\ output' = <<"samples", Aggregate(input.of, input.window)>>
      BY <2>1 DEF serveDashboardData, Request
    <3>2. input.of \in SampleInputs /\ input.window \in SUBSET Minutes
      BY <3>1 DEF InputOK
    <3>3. ArePoints(input.of)
      BY <3>2, SamplesAssumption DEF ArePoints
    <3>4. DashboardFor(Seen(input.of, "downsampled"), Seen(input.of, "nslowest"), input.window,
                       Aggregate(input.of, input.window))
      BY <3>2, <3>3, AggregateSound
    <3>5. output'[2] = Aggregate(input.of, input.window)
      BY <3>1
    <3> QED
      BY <3>1, <3>4, <3>5, Zenon DEF DashboardSound, DashboardFor, RowFor, Named
  <2>2. CASE ReadSpans \/ ReadRows \/ serveTrace \/ serveAggregate
    <3>1. output' # <<>> /\ output'[1] # "samples"
      BY <2>2 DEF ReadSpans, ReadRows, serveTrace, serveAggregate
    <3> QED
      BY <3>1 DEF DashboardSound, Answered
  <2>3. CASE UNCHANGED vars
    <3>1. input' = input /\ output' = output
      BY <2>3 DEF vars
    <3> QED
      BY <3>1 DEF DashboardSound, Answered
  <2> QED
    BY <2>1, <2>2, <2>3 DEF Next
<1> QED
  BY <1>1, <1>2, InputStays, PTL DEF Spec

-----------------------------------------------------------------------------
(* Concatenating many sequences: one after the other.                      *)
IsConcat(fl, n, s) == fl[0] = <<>> /\ \A k \in 1..n : fl[k] = fl[k - 1] \o s[k]

LEMMA FlattenIs ==
  ASSUME NEW n \in Nat, NEW X, NEW s \in [1..n -> Seq(X)]
  PROVE  \E fl \in [0..n -> Seq(X)] : IsConcat(fl, n, s) /\ FlattenSeq(s) = fl[n]
<1> DEFINE G(m) == \E fl \in [0..m -> Seq(X)] : IsConcat(fl, m, s)
           T == {m \in 0..n : G(m)}
<1>1. Len(s) = n /\ DOMAIN s = 1..n
  OBVIOUS
<1>2. 0 \in T
  <2>1. [k \in 0..0 |-> <<>>] \in [0..0 -> Seq(X)] /\ IsConcat([k \in 0..0 |-> <<>>], 0, s)
    BY DEF IsConcat
  <2>2. G(0)
    BY <2>1
  <2> HIDE DEF G
  <2> QED
    BY <2>2
<1>3. ASSUME NEW m \in 1..n, m - 1 \in T PROVE m \in T
  <2>1. PICK fl \in [0..(m - 1) -> Seq(X)] : IsConcat(fl, m - 1, s)
    BY <1>3
  <2> DEFINE gl == [k \in 0..m |-> IF k < m THEN fl[k] ELSE fl[m - 1] \o s[m]]
  <2>2. fl[m - 1] \in Seq(X) /\ s[m] \in Seq(X)
    OBVIOUS
  <2>3. fl[m - 1] \o s[m] \in Seq(X)
    BY <2>2, ConcatProperties
  <2>4. gl \in [0..m -> Seq(X)]
    BY <2>3
  <2>5. gl[0] = <<>> /\ gl[m] = fl[m - 1] \o s[m] /\ \A k \in 0..(m - 1) : gl[k] = fl[k]
    <3>1. m \in 0..m /\ ~(m < m) /\ 0 \in 0..m /\ 0 < m /\ \A k \in 0..(m - 1) : k \in 0..m /\ k < m
      OBVIOUS
    <3>2. fl[0] = <<>>
      BY <2>1 DEF IsConcat
    <3>3. gl[0] = fl[0]
      BY <3>1
    <3>4. gl[m] = fl[m - 1] \o s[m]
      BY <3>1
    <3>5. \A k \in 0..(m - 1) : gl[k] = fl[k]
      BY <3>1
    <3> QED
      BY <3>2, <3>3, <3>4, <3>5
  <2> HIDE DEF gl
  <2>6. \A k \in 1..m : gl[k] = gl[k - 1] \o s[k]
    <3> SUFFICES ASSUME NEW k \in 1..m PROVE gl[k] = gl[k - 1] \o s[k]
      OBVIOUS
    <3>1. k - 1 \in 0..(m - 1)
      OBVIOUS
    <3>2. CASE k = m
      BY <2>5, <3>1, <3>2
    <3>3. CASE k # m
      <4>1. k \in 1..(m - 1)
        BY <3>3
      <4>2. fl[k] = fl[k - 1] \o s[k]
        BY <2>1, <4>1 DEF IsConcat
      <4>3. k \in 0..(m - 1)
        BY <4>1
      <4>4. gl[k] = fl[k] /\ gl[k - 1] = fl[k - 1]
        BY <2>5, <3>1, <4>3
      <4> QED
        BY <4>2, <4>4
    <3> QED
      BY <3>2, <3>3
  <2>7. G(m)
    BY <2>4, <2>5, <2>6 DEF IsConcat
  <2> HIDE DEF G
  <2> QED
    BY <2>7
<1> HIDE DEF T
<1>4. n \in T
  <2>1. \A k \in 1..n : k - 1 \in T => k \in T
    BY <1>3
  <2>2. \A k \in 0..n : k \in T
    BY <1>2, <2>1, NumbersUpTo
  <2> QED
    BY <2>2
<1>5. PICK fl \in [0..n -> Seq(X)] : IsConcat(fl, n, s)
  BY <1>4 DEF T
<1>6. CASE n = 0
  <2>1. s = <<>>
    BY <1>6
  <2>2. FlattenSeq(s) = <<>>
    BY <1>1, <1>6, <2>1 DEF FlattenSeq
  <2> QED
    BY <1>5, <1>6, <2>2 DEF IsConcat
<1>7. CASE n # 0
  <2> DEFINE F(it) == it = [i \in 1..n |-> IF i = 1 THEN s[i] ELSE it[i - 1] \o s[i]]
             c     == CHOOSE it : F(it)
             h     == [i \in 1..n |-> fl[i]]
  <2>1. FlattenSeq(s) = c[n]
    BY <1>1, <1>7 DEF FlattenSeq
  <2>2. F(h)
    <3>1. ASSUME NEW i \in 1..n PROVE h[i] = IF i = 1 THEN s[i] ELSE h[i - 1] \o s[i]
      <4>1. fl[i] = fl[i - 1] \o s[i] /\ fl[0] = <<>> /\ s[i] \in Seq(X)
        BY <1>5 DEF IsConcat
      <4>2. CASE i = 1
        <5>1. <<>> \o s[i] = s[i]
          BY <4>1, ConcatEmptySeq
        <5>2. i - 1 = 0
          BY <4>2
        <5>3. fl[i] = fl[0] \o s[i]
          BY <4>1, <5>2, Zenon
        <5>4. fl[i] = s[i]
          BY <4>1, <5>1, <5>3, Zenon
        <5> QED
          BY <4>2, <5>4
      <4>3. CASE i # 1
        <5>1. i - 1 \in 1..n
          BY <4>3
        <5> QED
          BY <4>1, <4>3, <5>1
      <4> QED
        BY <4>2, <4>3
    <3> DEFINE u == [i \in 1..n |-> IF i = 1 THEN s[i] ELSE h[i - 1] \o s[i]]
    <3>2. h = [i \in 1..n |-> h[i]] /\ u = [i \in 1..n |-> u[i]]
      OBVIOUS
    <3> HIDE DEF h
    <3>3. \A i \in 1..n : u[i] = h[i]
      BY <3>1
    <3> HIDE DEF u
    <3>4. h = u
      BY <3>2, <3>3
    <3> QED
      BY <3>4 DEF u
  <2>3. F(c)
    <3> HIDE DEF F, h
    <3> QED
      BY <2>2
  <2>4. \A i \in 1..n : c[i] = IF i = 1 THEN s[i] ELSE c[i - 1] \o s[i]
    <3> HIDE DEF c
    <3> QED
      BY <2>3
  <2>5. \A i \in 1..n : h[i] = IF i = 1 THEN s[i] ELSE h[i - 1] \o s[i]
    <3> HIDE DEF h
    <3> QED
      BY <2>2
  <2> DEFINE V == {i \in 0..n : i = 0 \/ c[i] = h[i]}
  <2> HIDE DEF c, h, F
  <2>6. 0 \in V
    OBVIOUS
  <2>7. \A i \in 1..n : i - 1 \in V => i \in V
    BY <2>4, <2>5
  <2> HIDE DEF V
  <2>8. \A i \in 0..n : i \in V
    BY <2>6, <2>7, NumbersUpTo
  <2>9. n \in V /\ n \in 1..n
    BY <1>7, <2>8
  <2>10. c[n] = h[n]
    BY <1>7, <2>9 DEF V
  <2>11. h[n] = fl[n]
    BY <2>9 DEF h
  <2> QED
    BY <1>5, <2>1, <2>10, <2>11
<1> QED
  BY <1>6, <1>7

(* Corresponding sequences.                                                *)
Matched(a, b, R) == Len(a) = Len(b) /\ \A j \in 1..Len(a) : <<a[j], b[j]>> \in R

LEMMA MatchedTwo ==
  ASSUME NEW X, NEW a \in Seq(X), NEW b \in Seq(X), NEW Y, NEW c \in Seq(Y), NEW d \in Seq(Y),
         NEW R, Matched(a, c, R), Matched(b, d, R)
  PROVE  Matched(a \o b, c \o d, R)
<1>4. /\ Len(a \o b) = Len(a) + Len(b) /\ Len(c \o d) = Len(c) + Len(d)
      /\ \A i \in 1..(Len(a) + Len(b)) : (a \o b)[i] = IF i <= Len(a) THEN a[i] ELSE b[i - Len(a)]
      /\ \A i \in 1..(Len(c) + Len(d)) : (c \o d)[i] = IF i <= Len(c) THEN c[i] ELSE d[i - Len(c)]
  BY ConcatProperties
<1>5. Len(a) \in Nat /\ Len(b) \in Nat /\ Len(a) = Len(c) /\ Len(b) = Len(d)
  BY DEF Matched
<1>6. ASSUME NEW i \in 1..(Len(a) + Len(b)) PROVE <<(a \o b)[i], (c \o d)[i]>> \in R
  <2>1. CASE i <= Len(a)
    BY <1>4, <1>5, <2>1 DEF Matched
  <2>2. CASE ~(i <= Len(a))
    <3>1. i - Len(a) \in 1..Len(b)
      BY <1>5, <2>2
    <3>2. <<b[i - Len(a)], d[i - Len(a)]>> \in R
      BY <3>1 DEF Matched
    <3> QED
      BY <1>4, <1>5, <2>2, <3>2
  <2> QED
    BY <2>1, <2>2
<1> QED
  BY <1>4, <1>5, <1>6 DEF Matched

LEMMA FlattenMatched ==
  ASSUME NEW n \in Nat, NEW X, NEW s \in [1..n -> Seq(X)], NEW Y, NEW r \in [1..n -> Seq(Y)],
         NEW R, \A i \in 1..n : Matched(s[i], r[i], R)
  PROVE  /\ FlattenSeq(s) \in Seq(X) /\ FlattenSeq(r) \in Seq(Y)
         /\ Matched(FlattenSeq(s), FlattenSeq(r), R)
<1>1. PICK fl \in [0..n -> Seq(X)] : IsConcat(fl, n, s) /\ FlattenSeq(s) = fl[n]
  BY FlattenIs
<1>2. PICK gl \in [0..n -> Seq(Y)] : IsConcat(gl, n, r) /\ FlattenSeq(r) = gl[n]
  BY FlattenIs
<1> DEFINE T == {k \in 0..n : Matched(fl[k], gl[k], R)}
<1>3. 0 \in T
  BY <1>1, <1>2, SMTT(30) DEF IsConcat, Matched
<1>4. ASSUME NEW k \in 1..n, k - 1 \in T PROVE k \in T
  <2> DEFINE a == fl[k - 1]
             b == s[k]
             c == gl[k - 1]
             d == r[k]
  <2>1. a \in Seq(X) /\ b \in Seq(X) /\ c \in Seq(Y) /\ d \in Seq(Y)
    OBVIOUS
  <2>2. fl[k] = a \o b /\ gl[k] = c \o d
    BY <1>1, <1>2 DEF IsConcat
  <2>3. Matched(a, c, R) /\ Matched(b, d, R)
    BY <1>4
  <2> HIDE DEF a, b, c, d
  <2>7. Matched(a \o b, c \o d, R)
    BY <2>1, <2>3, MatchedTwo
  <2>8. Matched(fl[k], gl[k], R)
    BY <2>2, <2>7, Zenon
  <2> QED
    BY <2>8
<1> HIDE DEF T
<1>5. n \in T
  <2>1. \A k \in 1..n : k - 1 \in T => k \in T
    BY <1>4
  <2>2. \A k \in 0..n : k \in T
    BY <1>3, <2>1, NumbersUpTo
  <2> QED
    BY <2>2
<1>6. fl[n] \in Seq(X) /\ gl[n] \in Seq(Y)
  OBVIOUS
<1> QED
  BY <1>1, <1>2, <1>5, <1>6 DEF T

(* A sequence that lists each element of a set once.                       *)
Lists(r, S) ==
    /\ r \in Seq(S)
    /\ \A x \in S : \E i \in 1..Len(r) : r[i] = x
    /\ \A i, j \in 1..Len(r) : r[i] = r[j] => i = j

LEMMA ListsTwo ==
  ASSUME NEW S, NEW a, Lists(a, S), NEW U, NEW b, Lists(b, U), S \cap U = {}
  PROVE  Lists(a \o b, S \cup U)
<1>1. a \in Seq(S \cup U) /\ b \in Seq(S \cup U) /\ Len(a) \in Nat /\ Len(b) \in Nat
  <2>1. a \in Seq(S) /\ b \in Seq(U)
    BY DEF Lists
  <2>2. a \in Seq(S \cup U)
    BY <2>1, SeqMonotonic
  <2>3. b \in Seq(S \cup U)
    BY <2>1, SeqMonotonic
  <2> QED
    BY <2>1, <2>2, <2>3
<1>2. /\ a \o b \in Seq(S \cup U) /\ Len(a \o b) = Len(a) + Len(b)
      /\ \A i \in 1..(Len(a) + Len(b)) : (a \o b)[i] = IF i <= Len(a) THEN a[i] ELSE b[i - Len(a)]
  BY <1>1, ConcatProperties
<1>3. (\A i \in 1..Len(a) : a[i] \in S) /\ \A i \in 1..Len(b) : b[i] \in U
  BY DEF Lists
<1>4. ASSUME NEW x \in S \cup U PROVE \E i \in 1..(Len(a) + Len(b)) : (a \o b)[i] = x
  <2>1. CASE x \in S
    <3>1. PICK i \in 1..Len(a) : a[i] = x
      BY <2>1 DEF Lists
    <3>2. i \in 1..(Len(a) + Len(b)) /\ i <= Len(a)
      BY <1>1
    <3> QED
      BY <1>2, <3>1, <3>2
  <2>2. CASE x \in U
    <3>1. PICK i \in 1..Len(b) : b[i] = x
      BY <2>2 DEF Lists
    <3>2. i + Len(a) \in 1..(Len(a) + Len(b)) /\ ~(i + Len(a) <= Len(a)) /\ (i + Len(a)) - Len(a) = i
      BY <1>1
    <3>3. (a \o b)[i + Len(a)] = b[i]
      BY <1>2, <3>2
    <3> QED
      BY <3>1, <3>2, <3>3
  <2> QED
    BY <2>1, <2>2
<1>5. ASSUME NEW i \in 1..(Len(a) + Len(b)), NEW j \in 1..(Len(a) + Len(b)), (a \o b)[i] = (a \o b)[j]
      PROVE  i = j
  <2>1. CASE i <= Len(a) /\ j <= Len(a)
    <3>1. i \in 1..Len(a) /\ j \in 1..Len(a) /\ a[i] = a[j]
      BY <1>1, <1>2, <1>5, <2>1
    <3> QED
      BY <3>1 DEF Lists
  <2>2. CASE i <= Len(a) /\ ~(j <= Len(a))
    <3>1. i \in 1..Len(a) /\ j - Len(a) \in 1..Len(b) /\ a[i] = b[j - Len(a)]
      BY <1>1, <1>2, <1>5, <2>2
    <3> QED
      BY <1>3, <3>1
  <2>3. CASE ~(i <= Len(a)) /\ j <= Len(a)
    <3>1. j \in 1..Len(a) /\ i - Len(a) \in 1..Len(b) /\ a[j] = b[i - Len(a)]
      BY <1>1, <1>2, <1>5, <2>3
    <3> QED
      BY <1>3, <3>1
  <2>4. CASE ~(i <= Len(a)) /\ ~(j <= Len(a))
    <3>1. j - Len(a) \in 1..Len(b) /\ i - Len(a) \in 1..Len(b) /\ b[j - Len(a)] = b[i - Len(a)]
      BY <1>1, <1>2, <1>5, <2>4
    <3>2. j - Len(a) = i - Len(a)
      BY <3>1 DEF Lists
    <3> QED
      BY <1>1, <3>2
  <2> QED
    BY <2>1, <2>2, <2>3, <2>4
<1> QED
  BY <1>2, <1>4, <1>5 DEF Lists

LEMMA FlattenLists ==
  ASSUME NEW n \in Nat, NEW r, DOMAIN r = 1..n, r = [i \in 1..n |-> r[i]],
         NEW part, \A i \in 1..n : Lists(r[i], part[i]),
         \A i, j \in 1..n : i # j => part[i] \cap part[j] = {},
         NEW U, \A x : x \in U <=> \E i \in 1..n : x \in part[i]
  PROVE  Lists(FlattenSeq(r), U)
<1>1. r \in [1..n -> Seq(U)]
  <2>1. ASSUME NEW i \in 1..n PROVE r[i] \in Seq(U)
    <3>1. r[i] \in Seq(part[i]) /\ part[i] \subseteq U
      BY DEF Lists
    <3> QED
      BY <3>1, SeqMonotonic
  <2> QED
    BY <2>1
<1>2. PICK fl \in [0..n -> Seq(U)] : IsConcat(fl, n, r) /\ FlattenSeq(r) = fl[n]
  BY <1>1, FlattenIs
<1> DEFINE Upto(k) == UNION {part[i] : i \in 1..k}
           T == {k \in 0..n : Lists(fl[k], Upto(k))}
<1>3. 0 \in T
  <2>1. Upto(0) = {} /\ fl[0] = <<>>
    BY <1>2 DEF IsConcat
  <2>2. Lists(<<>>, {})
    BY DEF Lists
  <2>3. Lists(fl[0], Upto(0))
    BY <2>1, <2>2
  <2> HIDE DEF Upto
  <2> QED
    BY <2>3
<1>4. ASSUME NEW k \in 1..n, k - 1 \in T PROVE k \in T
  <2>1. Lists(fl[k - 1], Upto(k - 1)) /\ Lists(r[k], part[k]) /\ fl[k] = fl[k - 1] \o r[k]
    BY <1>2, <1>4 DEF IsConcat
  <2>2. Upto(k) = Upto(k - 1) \cup part[k] /\ Upto(k - 1) \cap part[k] = {}
    <3>1. \A x : x \in Upto(k) <=> \E i \in 1..k : x \in part[i]
      OBVIOUS
    <3>2. \A x : x \in Upto(k - 1) <=> \E i \in 1..(k - 1) : x \in part[i]
      OBVIOUS
    <3>3. \A i \in 1..k : i \in 1..(k - 1) \/ i = k
      OBVIOUS
    <3>4. \A i \in 1..(k - 1) : i \in 1..k /\ i \in 1..n /\ i # k
      OBVIOUS
    <3>5. k \in 1..k
      OBVIOUS
    <3> HIDE DEF Upto
    <3> QED
      BY <3>1, <3>2, <3>3, <3>4, <3>5, SMTT(30)
  <2> HIDE DEF Upto
  <2>3. Lists(fl[k - 1] \o r[k], Upto(k - 1) \cup part[k])
    BY <2>1, <2>2, ListsTwo, Zenon
  <2>4. Lists(fl[k], Upto(k))
    BY <2>1, <2>2, <2>3, Zenon
  <2> QED
    BY <2>4
<1>5. Upto(n) = U
  <2>1. \A x : x \in Upto(n) <=> \E i \in 1..n : x \in part[i]
    OBVIOUS
  <2> HIDE DEF Upto
  <2> QED
    BY <2>1
<1> HIDE DEF T
<1>6. n \in T
  <2>1. \A k \in 1..n : k - 1 \in T => k \in T
    BY <1>4
  <2>2. \A k \in 0..n : k \in T
    BY <1>3, <2>1, NumbersUpTo
  <2> QED
    BY <2>2
<1> QED
  BY <1>2, <1>5, <1>6 DEF T

Associates(s, t, u) == (s \o t) \o u = s \o (t \o u)

LEMMA Associative ==
  ASSUME NEW X, NEW s \in Seq(X), NEW t \in Seq(X), NEW u \in Seq(X)
  PROVE  Associates(s, t, u)
<1>1. (s \o t) \o u = s \o (t \o u)
  BY ConcatAssociative
<1> QED
  BY <1>1 DEF Associates

(* A sequence in the middle of another.                                    *)
Holds(big, small, X) == \E a, b \in Seq(X) : big = (a \o small) \o b

LEMMA FlattenHolds ==
  ASSUME NEW n \in Nat, NEW X, NEW s \in [1..n -> Seq(X)], NEW i \in 1..n
  PROVE  Holds(FlattenSeq(s), s[i], X)
<1>1. PICK fl \in [0..n -> Seq(X)] : IsConcat(fl, n, s) /\ FlattenSeq(s) = fl[n]
  BY FlattenIs
<1> DEFINE T == {k \in 0..n : k >= i => Holds(fl[k], s[i], X)}
<1>2. 0 \in T
  OBVIOUS
<1>3. ASSUME NEW k \in 1..n, k - 1 \in T PROVE k \in T
  <2>1. fl[k] = fl[k - 1] \o s[k] /\ fl[k - 1] \in Seq(X) /\ s[k] \in Seq(X) /\ s[i] \in Seq(X)
    <3>1. k - 1 \in 0..n
      OBVIOUS
    <3> QED
      BY <1>1, <3>1 DEF IsConcat
  <2>2. CASE k = i
    <3>1. fl[k] = (fl[k - 1] \o s[i]) \o <<>>
      <4>1. fl[k - 1] \o s[i] \in Seq(X)
        BY <2>1, ConcatProperties
      <4> QED
        BY <2>1, <2>2, <4>1, ConcatEmptySeq
    <3>2. Holds(fl[k], s[i], X)
      <4>1. <<>> \in Seq(X)
        OBVIOUS
      <4> QED
        BY <2>1, <3>1, <4>1, Zenon DEF Holds
    <3> QED
      BY <3>2
  <2>3. CASE k > i
    <3>1. PICK a \in Seq(X), b \in Seq(X) : fl[k - 1] = (a \o s[i]) \o b
      <4>1. Holds(fl[k - 1], s[i], X)
        BY <1>3, <2>3
      <4> QED
        BY <4>1, Zenon DEF Holds
    <3>2. a \o s[i] \in Seq(X) /\ b \o s[k] \in Seq(X)
      BY <2>1, ConcatProperties
    <3>3. ((a \o s[i]) \o b) \o s[k] = (a \o s[i]) \o (b \o s[k])
      <4>1. Associates(a \o s[i], b, s[k])
        BY <2>1, <3>2, Associative
      <4> QED
        BY <4>1 DEF Associates
    <3>4. fl[k] = (a \o s[i]) \o (b \o s[k])
      BY <2>1, <3>1, <3>3
    <3>5. Holds(fl[k], s[i], X)
      BY <3>2, <3>4, Zenon DEF Holds
    <3> QED
      BY <3>5
  <2>4. CASE k < i
    BY <2>4
  <2> QED
    BY <2>2, <2>3, <2>4
<1> HIDE DEF T
<1>4. n \in T
  <2>1. \A k \in 1..n : k - 1 \in T => k \in T
    BY <1>3
  <2>2. \A k \in 0..n : k \in T
    BY <1>2, <2>1, NumbersUpTo
  <2> QED
    BY <2>2
<1> QED
  BY <1>1, <1>4 DEF T

LEMMA HoldsOfHolds ==
  ASSUME NEW X, NEW u \in Seq(X), NEW v \in Seq(X), NEW w \in Seq(X), Holds(u, v, X), Holds(v, w, X)
  PROVE  Holds(u, w, X)
<1>1. PICK a \in Seq(X), b \in Seq(X) : u = (a \o v) \o b
  BY DEF Holds
<1>2. PICK c \in Seq(X), d \in Seq(X) : v = (c \o w) \o d
  BY DEF Holds
<1>3. a \o c \in Seq(X) /\ d \o b \in Seq(X) /\ c \o w \in Seq(X) /\ (a \o c) \o w \in Seq(X)
      /\ a \o (c \o w) \in Seq(X)
  BY ConcatProperties
<1>4. a \o ((c \o w) \o d) = (a \o (c \o w)) \o d
  <2>1. Associates(a, c \o w, d)
    BY <1>3, Associative
  <2> QED
    BY <2>1 DEF Associates
<1>5. a \o (c \o w) = (a \o c) \o w
  <2>1. Associates(a, c, w)
    BY Associative
  <2> QED
    BY <2>1 DEF Associates
<1>6. (((a \o c) \o w) \o d) \o b = ((a \o c) \o w) \o (d \o b)
  <2>1. Associates((a \o c) \o w, d, b)
    BY <1>3, Associative
  <2> QED
    BY <2>1 DEF Associates
<1>7. u = ((a \o c) \o w) \o (d \o b)
  BY <1>1, <1>2, <1>4, <1>5, <1>6
<1> QED
  BY <1>3, <1>7 DEF Holds

LEMMA HoldsIsSubSeq ==
  ASSUME NEW X, NEW u \in Seq(X), NEW v \in Seq(X), v # <<>>, Holds(u, v, X)
  PROVE  \E i \in 1..Len(u) : SubSeq(u, i, i + Len(v) - 1) = v
<1>1. PICK a \in Seq(X), b \in Seq(X) : u = (a \o v) \o b
  BY DEF Holds
<1>2. Len(a) \in Nat /\ Len(b) \in Nat /\ Len(v) \in Nat /\ Len(v) # 0
  OBVIOUS
<1>3. /\ a \o v \in Seq(X) /\ Len(a \o v) = Len(a) + Len(v)
      /\ \A i \in 1..(Len(a) + Len(v)) : (a \o v)[i] = IF i <= Len(a) THEN a[i] ELSE v[i - Len(a)]
  BY ConcatProperties
<1>4. /\ Len(u) = Len(a) + Len(v) + Len(b)
      /\ \A i \in 1..(Len(a) + Len(v)) : u[i] = (a \o v)[i]
  <2>1. /\ Len((a \o v) \o b) = Len(a \o v) + Len(b)
        /\ \A i \in 1..(Len(a \o v) + Len(b)) :
              ((a \o v) \o b)[i] = IF i <= Len(a \o v) THEN (a \o v)[i] ELSE b[i - Len(a \o v)]
    BY <1>3, ConcatProperties
  <2> QED
    BY <1>1, <1>2, <1>3, <2>1
<1> DEFINE i == Len(a) + 1
           w == SubSeq(u, i, i + Len(v) - 1)
<1>5. i \in 1..Len(u) /\ i \in Int /\ i + Len(v) - 1 \in Int
  BY <1>2, <1>4
<1>6. \A k \in 1..Len(v) : u[i + k - 1] = v[k]
  <2> SUFFICES ASSUME NEW k \in 1..Len(v) PROVE u[i + k - 1] = v[k]
    OBVIOUS
  <2>1. i + k - 1 \in 1..(Len(a) + Len(v)) /\ ~(i + k - 1 <= Len(a)) /\ (i + k - 1) - Len(a) = k
    BY <1>2
  <2> QED
    BY <1>3, <1>4, <2>1
<1>7. \A k \in i..(i + Len(v) - 1) : u[k] \in X
  <2>1. \A k \in i..(i + Len(v) - 1) : k \in 1..Len(u)
    BY <1>2, <1>4
  <2> QED
    BY <2>1, ElementOfSeq
<1>8. i <= i + Len(v) - 1 /\ (i + Len(v) - 1) - i + 1 = Len(v)
  BY <1>2
<1> HIDE DEF i
<1>9. w \in Seq(X) /\ Len(w) = Len(v) /\ \A k \in 1..Len(v) : w[k] = u[i + k - 1]
  BY <1>5, <1>7, <1>8, SubSeqProperties
<1> HIDE DEF w
<1>10. w = v
  BY <1>6, <1>9, SeqEqual
<1> QED
  BY <1>5, <1>10 DEF w

-----------------------------------------------------------------------------
(* What Only keeps of a sequence.                                          *)
IsKept(fl, s, K) ==
    /\ fl[0] = <<>>
    /\ \A k \in 1..Len(s) : fl[k] = IF s[k] \in K THEN Append(fl[k - 1], s[k]) ELSE fl[k - 1]

LEMMA KeptIs ==
  ASSUME NEW X, NEW s \in Seq(X), NEW K
  PROVE  \E fl \in [0..Len(s) -> Seq(X)] : IsKept(fl, s, K) /\ Only(s, K) = fl[Len(s)]
<1> DEFINE n == Len(s)
           piece == [i \in 1..n |-> IF s[i] \in K THEN <<s[i]>> ELSE <<>>]
           step(it, i) == IF s[i] \in K THEN Append(it[i - 1], s[i]) ELSE it[i - 1]
           F(it) == it = [i \in 0..n |-> IF i = 0 THEN <<>>
                                         ELSE IF s[i] \in K THEN Append(it[i - 1], s[i])
                                         ELSE it[i - 1]]
           c == CHOOSE it : F(it)
<1>1. n \in Nat /\ \A i \in 1..n : s[i] \in X
  BY ElementOfSeq
<1>2. Only(s, K) = c[n]
  BY DEF Only
<1>3. piece \in [1..n -> Seq(X)]
  <2>1. \A i \in 1..n : (IF s[i] \in K THEN <<s[i]>> ELSE <<>>) \in Seq(X)
    BY <1>1
  <2> QED
    BY <2>1
<1>4. \A i \in 1..n : piece[i] = IF s[i] \in K THEN <<s[i]>> ELSE <<>>
  OBVIOUS
<1> HIDE DEF n, piece
<1>5. PICK fl \in [0..n -> Seq(X)] : IsConcat(fl, n, piece)
  BY <1>1, <1>3, FlattenIs
<1>6. \A k \in 1..n : fl[k] = step(fl, k)
  <2> SUFFICES ASSUME NEW k \in 1..n PROVE fl[k] = step(fl, k)
    OBVIOUS
  <2>1. k - 1 \in 0..n
    BY <1>1
  <2>2. fl[k] = fl[k - 1] \o piece[k] /\ fl[k - 1] \in Seq(X)
    BY <1>5, <2>1 DEF IsConcat
  <2>3. CASE s[k] \in K
    <3>1. fl[k - 1] \o <<s[k]>> = Append(fl[k - 1], s[k])
      BY <1>1, <2>2, AppendIsConcat
    <3>2. piece[k] = <<s[k]>>
      BY <1>4, <2>3
    <3>3. fl[k] = Append(fl[k - 1], s[k])
      BY <2>2, <3>1, <3>2, Zenon
    <3> QED
      BY <2>3, <3>3
  <2>4. CASE s[k] \notin K
    <3>1. fl[k - 1] \o <<>> = fl[k - 1]
      BY <2>2, ConcatEmptySeq
    <3>2. piece[k] = <<>>
      BY <1>4, <2>4
    <3>3. fl[k] = fl[k - 1]
      BY <2>2, <3>1, <3>2, Zenon
    <3> QED
      BY <2>4, <3>3
  <2> QED
    BY <2>3, <2>4
<1>7. fl[0] = <<>>
  BY <1>5 DEF IsConcat
<1>8. F(fl)
  <2> DEFINE u == [i \in 0..n |-> IF i = 0 THEN <<>> ELSE step(fl, i)]
  <2>1. u = [i \in 0..n |-> u[i]] /\ fl = [i \in 0..n |-> fl[i]]
    OBVIOUS
  <2>2. \A i \in 0..n : u[i] = IF i = 0 THEN <<>> ELSE step(fl, i)
    OBVIOUS
  <2>3. \A i \in 1..n : u[i] = step(fl, i)
    BY <1>1, <2>2
  <2>4. u[0] = <<>>
    BY <1>1, <2>2
  <2> HIDE DEF u, step
  <2>5. \A i \in 0..n : i = 0 \/ i \in 1..n
    BY <1>1
  <2>6. \A i \in 0..n : u[i] = fl[i]
    BY <1>6, <1>7, <2>3, <2>4, <2>5
  <2>7. fl = u
    BY <2>1, <2>6
  <2> QED
    BY <2>7 DEF u, step
<1>9. F(c)
  <2> HIDE DEF F
  <2> QED
    BY <1>8
<1>10. c[0] = <<>> /\ \A i \in 1..n : c[i] = step(c, i)
  <2> HIDE DEF c
  <2>1. \A i \in 0..n : c[i] = IF i = 0 THEN <<>> ELSE step(c, i)
    BY <1>9
  <2> HIDE DEF step
  <2> QED
    BY <1>1, <2>1
<1> DEFINE T == {i \in 0..n : c[i] = fl[i]}
<1>11. 0 \in T
  BY <1>1, <1>7, <1>10
<1>12. ASSUME NEW i \in 1..n, i - 1 \in T PROVE i \in T
  <2>1. c[i - 1] = fl[i - 1]
    BY <1>12
  <2> HIDE DEF c, F
  <2>2. c[i] = fl[i]
    BY <1>6, <1>10, <2>1
  <2> QED
    BY <2>2
<1> HIDE DEF T
<1>13. n \in T
  <2>1. \A i \in 1..n : i - 1 \in T => i \in T
    BY <1>12
  <2>2. \A i \in 0..n : i \in T
    BY <1>1, <1>11, <2>1, NumbersUpTo
  <2> QED
    BY <1>1, <2>2
<1>14. c[n] = fl[n]
  BY <1>13 DEF T
<1>15. IsKept(fl, s, K)
  BY <1>6, <1>7 DEF IsKept, n
<1> HIDE DEF c
<1> QED
  BY <1>2, <1>5, <1>14, <1>15 DEF n

LEMMA OnlyIs ==
  ASSUME NEW X, NEW s \in Seq(X), NEW K
  PROVE  /\ Only(s, K) \in Seq(X)
         /\ Range(Only(s, K)) = Range(s) \cap K
         /\ Range(s) \subseteq K => Only(s, K) = s
<1> DEFINE n == Len(s)
<1>1. n \in Nat /\ \A i \in 1..n : s[i] \in X
  BY ElementOfSeq
<1>2. PICK fl \in [0..n -> Seq(X)] : IsKept(fl, s, K) /\ Only(s, K) = fl[n]
  BY KeptIs
<1> DEFINE Is(k) == /\ {fl[k][j] : j \in 1..Len(fl[k])} = {s[i] : i \in 1..k} \cap K
                    /\ Range(s) \subseteq K => Len(fl[k]) = k /\ \A i \in 1..k : fl[k][i] = s[i]
           T == {k \in 0..n : Is(k)}
<1>3. 0 \in T
  <2>1. Len(fl[0]) = 0 /\ fl[0] = <<>>
    BY <1>2 DEF IsKept
  <2>2. Is(0)
    BY <2>1
  <2> HIDE DEF Is
  <2> QED
    BY <1>1, <2>2
<1>4. ASSUME NEW k \in 1..n, k - 1 \in T PROVE k \in T
  <2> DEFINE a == fl[k - 1]
             b == fl[k]
  <2>1. a \in Seq(X) /\ b \in Seq(X) /\ s[k] \in X /\ b = IF s[k] \in K THEN Append(a, s[k]) ELSE a
    <3>1. k - 1 \in 0..n /\ k \in 0..n /\ k \in 1..Len(s)
      BY <1>1
    <3>2. b = IF s[k] \in K THEN Append(a, s[k]) ELSE a
      BY <1>2, <3>1 DEF IsKept
    <3>3. a \in Seq(X) /\ b \in Seq(X)
      BY <3>1
    <3> QED
      BY <1>1, <3>2, <3>3
  <2>2. /\ {a[j] : j \in 1..Len(a)} = {s[i] : i \in 1..(k - 1)} \cap K
        /\ Range(s) \subseteq K => Len(a) = k - 1 /\ \A i \in 1..(k - 1) : a[i] = s[i]
    BY <1>4
  <2>3. s[k] \in Range(s) /\ Len(a) \in Nat
    BY <2>1 DEF Range
  <2>4. \A i \in 1..k : i = k \/ i \in 1..(k - 1)
    OBVIOUS
  <2>5. k \in 1..k /\ \A i \in 1..(k - 1) : i \in 1..k
    OBVIOUS
  <2>6. {s[i] : i \in 1..k} = {s[i] : i \in 1..(k - 1)} \cup {s[k]}
    BY <2>4, <2>5
  <2> HIDE DEF a, b
  <2>7. CASE s[k] \in K
    <3>1. /\ b = Append(a, s[k]) /\ Len(b) = Len(a) + 1 /\ b[Len(a) + 1] = s[k]
          /\ \A j \in 1..Len(a) : b[j] = a[j]
      BY <2>1, <2>7, AppendProperties
    <3>2. {b[j] : j \in 1..Len(b)} = {a[j] : j \in 1..Len(a)} \cup {s[k]}
      <4>1. \A j \in 1..Len(b) : j = Len(a) + 1 \/ j \in 1..Len(a)
        BY <2>3, <3>1
      <4>2. Len(a) + 1 \in 1..Len(b) /\ \A j \in 1..Len(a) : j \in 1..Len(b)
        BY <2>3, <3>1
      <4> QED
        BY <3>1, <4>1, <4>2
    <3>3. Range(s) \subseteq K => Len(b) = k /\ \A i \in 1..k : b[i] = s[i]
      BY <2>2, <2>3, <2>4, <3>1
    <3>4. {b[j] : j \in 1..Len(b)} = {s[i] : i \in 1..k} \cap K
      BY <2>2, <2>6, <2>7, <3>2
    <3>5. Is(k)
      BY <3>3, <3>4 DEF b
    <3> HIDE DEF Is
    <3> QED
      BY <3>5
  <2>8. CASE s[k] \notin K
    <3>1. b = a
      BY <2>1, <2>8
    <3>2. {b[j] : j \in 1..Len(b)} = {s[i] : i \in 1..k} \cap K
      BY <2>2, <2>6, <2>8, <3>1, SMTT(30)
    <3>3. ~(Range(s) \subseteq K)
      BY <2>3, <2>8
    <3>4. Is(k)
      BY <3>2, <3>3 DEF b
    <3> HIDE DEF Is
    <3> QED
      BY <3>4
  <2> QED
    BY <2>7, <2>8
<1> HIDE DEF T
<1>5. n \in T
  <2>1. \A k \in 1..n : k - 1 \in T => k \in T
    BY <1>4
  <2>2. \A k \in 0..n : k \in T
    BY <1>1, <1>3, <2>1, NumbersUpTo
  <2> QED
    BY <1>1, <2>2
<1>6. Is(n)
  BY <1>5 DEF T
<1>7. fl[n] \in Seq(X)
  BY <1>1
<1>8. Range(fl[n]) = {fl[n][j] : j \in 1..Len(fl[n])} /\ Range(s) = {s[i] : i \in 1..n}
  <2>1. DOMAIN fl[n] = 1..Len(fl[n]) /\ DOMAIN s = 1..n
    BY <1>7, LenProperties
  <2> QED
    BY <2>1 DEF Range
<1>9. Range(s) \subseteq K => fl[n] = s
  BY <1>6, <1>7, SeqEqual
<1> QED
  BY <1>2, <1>6, <1>7, <1>8, <1>9

-----------------------------------------------------------------------------
(* The places of a trace.                                                  *)
LEMMA PlacesAre ==
  ASSUME NEW t, IsTrace(t), NEW p \in DOMAIN t
  PROVE  /\ p \in Seq(Nat \ {0}) /\ Len(p) \in Nat
         /\ t[p].sub \in Nat /\ t[p].id \in STRING /\ t[p].name \in STRING
         /\ t[p].times \in Seq(Nat \X Nat) /\ t[p].isRoot \in BOOLEAN
         /\ \A q \in DOMAIN t : t[p].id = t[q].id => p = q
         /\ \A i \in 1..t[p].sub :
                /\ Append(p, i) \in DOMAIN t /\ Len(Append(p, i)) = Len(p) + 1
                /\ Append(p, i)[Len(p) + 1] = i /\ \A j \in 1..Len(p) : Append(p, i)[j] = p[j]
<1>1. p \in Seq(Nat \ {0}) /\ t[p] \in [id : STRING, isRoot : BOOLEAN, name : STRING,
                                        times : Seq(Nat \X Nat), sub : Nat]
  BY DEF IsTrace
<1>2. t[p].sub \in Nat /\ t[p].id \in STRING /\ t[p].name \in STRING
      /\ t[p].times \in Seq(Nat \X Nat) /\ t[p].isRoot \in BOOLEAN
  BY <1>1
<1>3. Len(p) \in Nat
  BY <1>1
<1>4. ASSUME NEW i \in 1..t[p].sub
      PROVE  /\ Append(p, i) \in DOMAIN t /\ Len(Append(p, i)) = Len(p) + 1
             /\ Append(p, i)[Len(p) + 1] = i /\ \A j \in 1..Len(p) : Append(p, i)[j] = p[j]
  <2>1. Append(p, i) \in DOMAIN t
    BY DEF IsTrace
  <2>2. i \in Nat \ {0}
    BY <1>2
  <2> QED
    BY <1>1, <2>1, <2>2, AppendProperties
<1>5. \A q \in DOMAIN t : t[p].id = t[q].id => p = q
  BY DEF IsTrace
<1> QED
  BY <1>1, <1>2, <1>3, <1>4, <1>5

LEMMA TreeHeight ==
  ASSUME NEW t, IsTrace(t)
  PROVE  \E H \in Nat : \A p \in DOMAIN t : Len(p) <= H
<1> DEFINE b == [p \in DOMAIN t |-> Len(p)]
           S == {b[p] : p \in DOMAIN t}
<1>1. IsFiniteSet(DOMAIN t) /\ <<>> \in DOMAIN t
  BY DEF IsTrace
<1>2. \A p \in DOMAIN t : Len(p) \in Nat /\ Len(p) \in S
  BY PlacesAre
<1>3. S \in SUBSET Int /\ S # {} /\ S \in SUBSET Nat
  <2>1. \A m \in S : m \in Nat
    BY <1>2
  <2> HIDE DEF S
  <2>2. S # {}
    BY <1>1, <1>2
  <2> QED
    BY <2>1, <2>2
<1> HIDE DEF b
<1>4. IsFiniteSet(S)
  BY <1>1, ImageFinite
<1> HIDE DEF S
<1>5. Greatest(S) \in S /\ \A m \in S : m <= Greatest(S)
  BY <1>3, <1>4, Extremes
<1> QED
  BY <1>2, <1>3, <1>5

(* What holds of a place when it holds of its sub-traces holds of all.     *)
LEMMA TreeInduction ==
  ASSUME NEW t, IsTrace(t), NEW S,
         \A p \in DOMAIN t : (\A i \in 1..t[p].sub : Append(p, i) \in S) => p \in S
  PROVE  \A p \in DOMAIN t : p \in S
<1>1. PICK H \in Nat : \A p \in DOMAIN t : Len(p) <= H
  BY TreeHeight
<1> DEFINE T == {k \in 0..H : \A p \in DOMAIN t : Len(p) >= H - k => p \in S}
<1>2. 0 \in T
  <2> SUFFICES ASSUME NEW p \in DOMAIN t, Len(p) >= H PROVE p \in S
    OBVIOUS
  <2>1. ASSUME NEW i \in 1..t[p].sub PROVE FALSE
    <3> DEFINE a == Append(p, i)
    <3>1. a \in DOMAIN t /\ Len(a) = Len(p) + 1 /\ Len(p) \in Nat
      BY PlacesAre
    <3> HIDE DEF a
    <3>2. Len(a) <= H
      BY <1>1, <3>1
    <3> QED
      BY <3>1, <3>2
  <2> QED
    BY <2>1
<1>3. ASSUME NEW k \in 1..H, k - 1 \in T PROVE k \in T
  <2> SUFFICES ASSUME NEW p \in DOMAIN t, Len(p) >= H - k PROVE p \in S
    OBVIOUS
  <2>1. ASSUME NEW i \in 1..t[p].sub PROVE Append(p, i) \in S
    <3>1. Append(p, i) \in DOMAIN t /\ Len(Append(p, i)) = Len(p) + 1 /\ Len(p) \in Nat
      BY PlacesAre
    <3>2. Len(Append(p, i)) >= H - (k - 1)
      BY <3>1
    <3> QED
      BY <1>3, <3>1, <3>2
  <2> QED
    BY <2>1
<1> HIDE DEF T
<1>4. H \in T
  <2>1. \A k \in 1..H : k - 1 \in T => k \in T
    BY <1>3
  <2>2. \A k \in 0..H : k \in T
    BY <1>2, <2>1, NumbersUpTo
  <2> QED
    BY <2>2
<1>5. \A p \in DOMAIN t : Len(p) \in Nat
  BY PlacesAre
<1> QED
  BY <1>4, <1>5 DEF T

(* A function of a place and of what it is for its sub-traces exists.      *)
Subs(t, f, p) == [i \in 1..t[p].sub |-> f[Append(p, i)]]

Solvable(t, X, B) == \E f \in [DOMAIN t -> X] : \A p \in DOMAIN t : f[p] = B[<<p, Subs(t, f, p)>>]

LEMMA TreeRecursion ==
  ASSUME NEW t, IsTrace(t), NEW X, NEW B \in [(DOMAIN t) \X Seq(X) -> X]
  PROVE  Solvable(t, X, B)
<1>1. PICK H \in Nat : \A p \in DOMAIN t : Len(p) <= H
  BY TreeHeight
<1> DEFINE D(k) == {p \in DOMAIN t : Len(p) + k > H}
           G(k) == \E f \in [D(k) -> X] : \A p \in D(k) : f[p] = B[<<p, Subs(t, f, p)>>]
           T == {k \in 0..(H + 1) : G(k)}
<1>0. \A p \in DOMAIN t : Len(p) \in Nat
  BY PlacesAre
<1>2. 0 \in T
  <2>1. D(0) = {}
    BY <1>0, <1>1
  <2> HIDE DEF D
  <2>2. [p \in D(0) |-> 0] \in [D(0) -> X] /\ \A p \in D(0) : FALSE
    BY <2>1
  <2>3. G(0)
    BY <2>2
  <2> HIDE DEF G
  <2> QED
    BY <2>3
<1>3. ASSUME NEW k \in 1..(H + 1), k - 1 \in T PROVE k \in T
  <2>1. PICK f \in [D(k - 1) -> X] : \A p \in D(k - 1) : f[p] = B[<<p, Subs(t, f, p)>>]
    BY <1>3
  <2>2. ASSUME NEW p \in D(k), NEW i \in 1..t[p].sub PROVE Append(p, i) \in D(k - 1)
    <3>1. Append(p, i) \in DOMAIN t /\ Len(Append(p, i)) = Len(p) + 1 /\ Len(p) \in Nat
      BY PlacesAre
    <3> QED
      BY <3>1
  <2>3. \A p \in D(k - 1) : p \in D(k)
    BY <1>0
  <2>4. \A p \in D(k) : p \in DOMAIN t /\ t[p].sub \in Nat
    BY PlacesAre
  <2> DEFINE h == [p \in D(k) |-> IF p \in D(k - 1) THEN f[p] ELSE B[<<p, Subs(t, f, p)>>]]
  <2> HIDE DEF D, T
  <2>5. ASSUME NEW p \in D(k) PROVE Subs(t, f, p) \in Seq(X)
    <3>1. \A i \in 1..t[p].sub : f[Append(p, i)] \in X
      BY <2>2
    <3>2. Subs(t, f, p) \in [1..t[p].sub -> X]
      BY <3>1 DEF Subs
    <3>3. \A n \in Nat : \A g \in [1..n -> X] : g \in Seq(X)
      OBVIOUS
    <3> QED
      BY <2>4, <3>2, <3>3
  <2>6. h \in [D(k) -> X]
    <3>1. \A p \in D(k) : B[<<p, Subs(t, f, p)>>] \in X
      BY <2>4, <2>5
    <3> QED
      BY <3>1
  <2>7. \A p \in D(k) : h[p] = B[<<p, Subs(t, f, p)>>]
    BY <2>1
  <2>8. \A p \in D(k - 1) : h[p] = f[p]
    BY <2>3
  <2> HIDE DEF h
  <2>9. \A p \in D(k) : Subs(t, h, p) = Subs(t, f, p)
    BY <2>2, <2>8 DEF Subs
  <2>10. \A p \in D(k) : h[p] = B[<<p, Subs(t, h, p)>>]
    BY <2>7, <2>9
  <2>11. G(k)
    BY <2>6, <2>10
  <2> HIDE DEF G
  <2> QED
    BY <2>11 DEF T
<1> HIDE DEF T
<1>4. H + 1 \in T
  <2>1. \A k \in 1..(H + 1) : k - 1 \in T => k \in T
    BY <1>3
  <2>2. H + 1 \in Nat
    OBVIOUS
  <2>3. \A k \in 0..(H + 1) : k \in T
    BY <1>2, <2>1, <2>2, NumbersUpTo
  <2> QED
    BY <2>3
<1>5. D(H + 1) = DOMAIN t
  <2>1. \A p \in DOMAIN t : Len(p) + (H + 1) > H
    BY <1>0
  <2> QED
    BY <2>1
<1>6. G(H + 1)
  BY <1>4 DEF T
<1> HIDE DEF D
<1> QED
  BY <1>5, <1>6 DEF Solvable

LEMMA PrefixClosed ==
  ASSUME NEW t, IsTrace(t), NEW q \in DOMAIN t, NEW m \in 0..Len(q)
  PROVE  SubSeq(q, 1, m) \in DOMAIN t
<1>1. q \in Seq(Nat \ {0}) /\ Len(q) \in Nat
  BY PlacesAre
<1> DEFINE n == Len(q)
           T == {k \in 0..n : SubSeq(q, 1, n - k) \in DOMAIN t}
<1>2. 0 \in T
  <2>1. SubSeq(q, 1, n) = q
    BY <1>1, SubSeqFull
  <2>2. n - 0 = n /\ 0 \in 0..n
    BY <1>1
  <2>3. SubSeq(q, 1, n - 0) \in DOMAIN t
    BY <2>1, <2>2
  <2> QED
    BY <2>2, <2>3
<1>3. ASSUME NEW k \in 1..n, k - 1 \in T PROVE k \in T
  <2> DEFINE a == SubSeq(q, 1, n - (k - 1))
             b == SubSeq(q, 1, n - k)
             c == SubSeq(a, 1, (n - (k - 1)) - 1)
  <2>1. a \in DOMAIN t
    BY <1>3
  <2>2. \A i \in 1..n : q[i] \in Nat \ {0}
    BY <1>1, ElementOfSeq
  <2>3. /\ a \in Seq(Nat \ {0}) /\ Len(a) = n - (k - 1)
        /\ \A i \in 1..(n - (k - 1)) : a[i] = q[i]
    <3>1. \A i \in 1..(n - (k - 1)) : q[i] \in Nat \ {0}
      BY <1>1, <2>2
    <3>2. 1 <= n - (k - 1) /\ 1 \in Int /\ n - (k - 1) \in Int
      BY <1>1
    <3> QED
      BY <3>1, <3>2, SubSeqProperties
  <2>4. /\ b \in Seq(Nat \ {0}) /\ Len(b) = n - k
        /\ \A i \in 1..(n - k) : b[i] = q[i]
    <3>1. \A i \in 1..(n - k) : q[i] \in Nat \ {0}
      BY <1>1, <2>2
    <3>2. 1 \in Int /\ n - k \in Int /\ n - k >= 0
      BY <1>1
    <3> QED
      BY <3>1, <3>2, SubSeqProperties
  <2>5. Len(a) - 1 = n - k /\ n - k \in Nat /\ n \in Nat
    BY <1>1, <2>3
  <2> HIDE DEF a, b, n
  <2> DEFINE d == SubSeq(a, 1, Len(a) - 1)
  <2>6. /\ d \in Seq(Nat \ {0}) /\ Len(d) = n - k
        /\ \A i \in 1..(n - k) : d[i] = a[i]
    <3>1. \A i \in 1..(n - k) : a[i] \in Nat \ {0}
      BY <2>3, <2>5, ElementOfSeq
    <3>2. 1 \in Int /\ n - k \in Int
      BY <2>5
    <3> QED
      BY <2>5, <3>1, <3>2, SubSeqProperties
  <2> HIDE DEF d
  <2>7. d = b
    <3>0. \A i \in 1..(n - k) : i \in 1..(n - (k - 1))
      BY <2>5
    <3>1. \A i \in 1..(n - k) : d[i] = b[i]
      BY <2>3, <2>4, <2>6, <3>0
    <3> QED
      BY <2>4, <2>6, <3>1, SeqEqual
  <2>8. a # <<>>
    BY <2>3, <2>5
  <2>9. d \in DOMAIN t
    BY <2>1, <2>8 DEF IsTrace, Front, d
  <2> QED
    BY <2>7, <2>9 DEF b, n
<1> HIDE DEF T
<1>4. n - m \in T
  <2>1. \A k \in 1..n : k - 1 \in T => k \in T
    BY <1>3
  <2>2. \A k \in 0..n : k \in T
    BY <1>1, <1>2, <2>1, NumbersUpTo
  <2> QED
    BY <1>1, <2>2
<1>5. n - (n - m) = m
  BY <1>1
<1> QED
  BY <1>4, <1>5 DEF T

LEMMA UnderSplit ==
  ASSUME NEW t, IsTrace(t), NEW p \in DOMAIN t
  PROVE  /\ p \in Under(t, p) /\ Under(t, p) \in SUBSET DOMAIN t /\ IsFiniteSet(Under(t, p))
         /\ \A q : q \in Under(t, p) <=> q = p \/ \E i \in 1..t[p].sub : q \in Under(t, Append(p, i))
         /\ \A i \in 1..t[p].sub : p \notin Under(t, Append(p, i))
         /\ \A i, j \in 1..t[p].sub : i # j => Under(t, Append(p, i)) \cap Under(t, Append(p, j)) = {}
<1> DEFINE n == Len(p)
<1>1. /\ p \in Seq(Nat \ {0}) /\ n \in Nat /\ t[p].sub \in Nat
      /\ \A i \in 1..t[p].sub :
            /\ Append(p, i) \in DOMAIN t /\ Len(Append(p, i)) = n + 1
            /\ Append(p, i)[n + 1] = i /\ \A j \in 1..n : Append(p, i)[j] = p[j]
  BY PlacesAre
<1>2. p \in Under(t, p)
  BY <1>1 DEF Under, AtOrBelow
<1>3. Under(t, p) \in SUBSET DOMAIN t /\ IsFiniteSet(Under(t, p))
  <2>1. IsFiniteSet(DOMAIN t) /\ Under(t, p) \in SUBSET DOMAIN t
    BY DEF IsTrace, Under
  <2> QED
    BY <2>1, FS_Subset
<1>4. ASSUME NEW i \in 1..t[p].sub, NEW q \in Under(t, Append(p, i))
      PROVE  q \in Under(t, p) /\ q # p /\ q[n + 1] = i
  <2>1. q \in DOMAIN t /\ n + 1 <= Len(q) /\ \A j \in 1..(n + 1) : Append(p, i)[j] = q[j]
    BY <1>1 DEF Under, AtOrBelow
  <2>2. Len(q) \in Nat
    BY <2>1, PlacesAre
  <2>3. n + 1 \in 1..(n + 1) /\ \A j \in 1..n : j \in 1..(n + 1)
    BY <1>1
  <2>4. q[n + 1] = i
    BY <1>1, <2>1, <2>3
  <2>5. \A j \in 1..n : p[j] = q[j]
    BY <1>1, <2>1, <2>3
  <2>6. n <= Len(q) /\ Len(q) # n
    BY <1>1, <2>1, <2>2
  <2> QED
    BY <2>1, <2>4, <2>5, <2>6 DEF Under, AtOrBelow
<1>5. ASSUME NEW q \in Under(t, p), q # p
      PROVE  \E i \in 1..t[p].sub : q \in Under(t, Append(p, i))
  <2>1. q \in DOMAIN t /\ n <= Len(q) /\ \A j \in 1..n : p[j] = q[j]
    BY DEF Under, AtOrBelow
  <2>2. q \in Seq(Nat \ {0}) /\ Len(q) \in Nat
    BY <2>1, PlacesAre
  <2>3. Len(q) # n
    <3> SUFFICES ASSUME Len(q) = n PROVE FALSE
      OBVIOUS
    <3> QED
      BY <1>1, <1>5, <2>1, <2>2, SeqEqual
  <2>4. n + 1 \in 0..Len(q) /\ n + 1 \in 1..Len(q)
    BY <1>1, <2>1, <2>2, <2>3
  <2> DEFINE r == SubSeq(q, 1, n + 1)
             i == q[n + 1]
  <2>5. r \in DOMAIN t
    BY <2>1, <2>4, PrefixClosed
  <2>6. \A j \in 1..(n + 1) : q[j] \in Nat \ {0}
    <3>1. \A j \in 1..(n + 1) : j \in 1..Len(q)
      BY <2>4
    <3> QED
      BY <2>2, <3>1, ElementOfSeq
  <2>7. r \in Seq(Nat \ {0}) /\ Len(r) = n + 1 /\ \A j \in 1..(n + 1) : r[j] = q[j]
    <3>1. 1 \in Int /\ n + 1 \in Int /\ 1 <= n + 1 /\ (n + 1) - 1 + 1 = n + 1
      BY <1>1
    <3> QED
      BY <2>6, <3>1, SubSeqProperties
  <2>8. i \in Nat \ {0}
    BY <1>1, <2>6
  <2> HIDE DEF r, i
  <2>9. /\ Append(p, i) \in Seq(Nat \ {0}) /\ Len(Append(p, i)) = n + 1
        /\ Append(p, i)[n + 1] = i /\ \A j \in 1..n : Append(p, i)[j] = p[j]
    BY <1>1, <2>8, AppendProperties
  <2>10. \A j \in 1..(n + 1) : j \in 1..n \/ j = n + 1
    BY <1>1
  <2>11. r = Append(p, i)
    <3>1. \A j \in 1..(n + 1) : r[j] = Append(p, i)[j]
      BY <2>1, <2>7, <2>9, <2>10 DEF i
    <3> QED
      BY <2>7, <2>9, <3>1, SeqEqual
  <2> DEFINE f == SubSeq(r, 1, Len(r) - 1)
  <2>12. f = p
    <3>1. Len(r) - 1 = n
      BY <1>1, <2>7
    <3>2. \A j \in 1..n : r[j] \in Nat \ {0}
      BY <2>7, ElementOfSeq
    <3>3. f \in Seq(Nat \ {0}) /\ Len(f) = n /\ \A j \in 1..n : f[j] = r[j]
      <4>1. 1 \in Int /\ n \in Int /\ n - 1 + 1 = n /\ (1 > n => n = 0)
        BY <1>1
      <4> QED
        BY <3>1, <3>2, <4>1, SubSeqProperties
    <3> HIDE DEF f
    <3>4. \A j \in 1..n : f[j] = p[j]
      BY <2>9, <2>11, <3>3
    <3> QED
      BY <1>1, <3>3, <3>4, SeqEqual
  <2>13. r # <<>> /\ Last(r) = i
    BY <1>1, <2>7, <2>9, <2>11 DEF Last
  <2>14. i <= t[p].sub
    BY <2>5, <2>12, <2>13 DEF IsTrace, Front
  <2>15. i \in 1..t[p].sub
    BY <1>1, <2>8, <2>14
  <2>16. q \in Under(t, Append(p, i))
    BY <2>1, <2>4, <2>7, <2>11 DEF Under, AtOrBelow
  <2> QED
    BY <2>15, <2>16
<1> QED
  BY <1>2, <1>3, <1>4, <1>5

LEMMA UnderRoot ==
  ASSUME NEW t, IsTrace(t) PROVE <<>> \in DOMAIN t /\ Under(t, <<>>) = DOMAIN t
<1>1. \A q \in DOMAIN t : Len(q) \in Nat
  BY PlacesAre
<1>2. \A q \in DOMAIN t : AtOrBelow(<<>>, q)
  BY <1>1 DEF AtOrBelow
<1> QED
  BY <1>2 DEF IsTrace, Under

-----------------------------------------------------------------------------
(* Whole milliseconds.                                                     *)
LEMMA Divides ==
  ASSUME NEW a \in Int, NEW m \in Nat \ {0}
  PROVE  a \div m \in Int /\ m * (a \div m) <= a /\ a < m * (a \div m) + m
OBVIOUS

LEMMA RoundedIs ==
  ASSUME NEW x \in Int
  PROVE  Rounded(x) \in Int
<1>1. Ms \in Nat \ {0} /\ 2 * Ms \in Nat \ {0} /\ 2 * x + Ms \in Int
  BY MsAssumption
<1> QED
  BY <1>1, Divides DEF Rounded

LEMMA TimesAre ==
  ASSUME NEW ts \in Seq(Nat \X Nat)
  PROVE  /\ IsFiniteSet(Range(ts)) /\ \A x \in Range(ts) : x[1] \in Nat /\ x[2] \in Nat
         /\ Range(ts) = {} <=> ts = <<>>
<1>1. Len(ts) \in Nat /\ DOMAIN ts = 1..Len(ts)
  BY LenProperties
<1>2. Range(ts) = {ts[i] : i \in 1..Len(ts)}
  BY <1>1 DEF Range
<1>3. IsFiniteSet(Range(ts))
  <2> DEFINE S == 1..Len(ts)
  <2>1. IsFiniteSet(S)
    BY <1>1, FS_Interval
  <2>2. Range(ts) = {ts[i] : i \in S}
    BY <1>2
  <2> HIDE DEF S
  <2>3. IsFiniteSet({ts[i] : i \in S})
    BY <2>1, ImageFinite
  <2> QED
    BY <2>2, <2>3
<1>4. \A i \in 1..Len(ts) : ts[i] \in Nat \X Nat
  BY ElementOfSeq
<1>5. \A x \in Range(ts) : x[1] \in Nat /\ x[2] \in Nat
  BY <1>2, <1>4
<1>6. Range(ts) = {} <=> Len(ts) = 0
  <2>1. Len(ts) # 0 => 1 \in 1..Len(ts)
    BY <1>1
  <2>2. Len(ts) = 0 => 1..Len(ts) = {}
    OBVIOUS
  <2> QED
    BY <1>2, <2>1, <2>2
<1> QED
  BY <1>3, <1>5, <1>6

LEMMA SpanTimeIs ==
  ASSUME NEW n, n.times \in Seq(Nat \X Nat)
  PROVE  /\ SpanTime(n) \in Nat
         /\ SpanTime(n) = 0 \/ \E ts \in Range(n.times) : SpanTime(n) = Rounded(ts[2] - ts[1])
<1> DEFINE b == [ts \in Range(n.times) |-> Rounded(ts[2] - ts[1])]
           S == {Rounded(ts[2] - ts[1]) : ts \in Range(n.times)}
<1>1. IsFiniteSet(Range(n.times)) /\ \A x \in Range(n.times) : x[1] \in Nat /\ x[2] \in Nat
  BY TimesAre
<1>2. \A ts \in Range(n.times) : b[ts] = Rounded(ts[2] - ts[1]) /\ b[ts] \in Int
  <2>1. \A x, y \in Nat : y - x \in Int
    OBVIOUS
  <2> QED
    BY <1>1, <2>1, RoundedIs
<1>3. S = {b[ts] : ts \in Range(n.times)}
  OBVIOUS
<1>4. SpanTime(n) = Greatest({0} \cup S)
  BY DEF SpanTime
<1> HIDE DEF S
<1>5. \A x \in S : x \in Int /\ \E ts \in Range(n.times) : x = Rounded(ts[2] - ts[1])
  BY <1>2, <1>3
<1> HIDE DEF b
<1>6. IsFiniteSet(S)
  BY <1>1, <1>3, ImageFinite
<1>7. IsFiniteSet({0} \cup S)
  BY <1>6, FS_Union, FS_Singleton
<1> DEFINE Z == {0} \cup S
<1>8. Z \in SUBSET Int /\ IsFiniteSet(Z) /\ Z # {} /\ 0 \in Z
  BY <1>5, <1>7
<1>9. \A x \in Z : x = 0 \/ \E ts \in Range(n.times) : x = Rounded(ts[2] - ts[1])
  BY <1>5
<1> HIDE DEF Z
<1>10. Greatest(Z) \in Z /\ \A m \in Z : m <= Greatest(Z)
  BY <1>8, Extremes
<1>11. Greatest(Z) \in Int /\ 0 <= Greatest(Z)
  BY <1>8, <1>10
<1>12. SpanTime(n) = Greatest(Z)
  BY <1>4 DEF Z
<1> QED
  BY <1>9, <1>10, <1>11, <1>12

(* The rows of a profile.                                                  *)
Rows == [name : STRING, time : Nat, timeChildren : Nat, timeCum : Nat]
Profiles == {s \in Seq(Rows) : s # <<>>}

LEMMA RowIs ==
  ASSUME NEW t, IsTrace(t), NEW p \in DOMAIN t, NEW children \in Seq(Profiles)
  PROVE  /\ Row(t[p], children) \in Rows
         /\ Row(t[p], children).name = LabelOf(t[p]) /\ Row(t[p], children).time = SpanTime(t[p])
         /\ LET cum == [i \in 1..Len(children) |-> children[i][1].timeCum]
            IN  /\ cum \in [1..Len(children) -> Nat]
                /\ Row(t[p], children).timeCum = SpanTime(t[p]) + Total(1..Len(children), cum)
<1> DEFINE n    == Len(children)
           cum  == [i \in 1..n |-> children[i][1].timeCum]
           time == [i \in 1..n |-> children[i][1].time]
<1>1. DOMAIN children = 1..n /\ n \in Nat /\ \A i \in 1..n : children[i] \in Profiles
  BY LenProperties, ElementOfSeq
<1>2. \A i \in 1..n : children[i][1] \in Rows
  <2> SUFFICES ASSUME NEW i \in 1..n PROVE children[i][1] \in Rows
    OBVIOUS
  <2>1. children[i] \in Seq(Rows) /\ children[i] # <<>>
    BY <1>1 DEF Profiles
  <2>2. 1 \in 1..Len(children[i])
    BY <2>1
  <2> QED
    BY <2>1, <2>2, ElementOfSeq
<1>3. cum \in [1..n -> Nat] /\ time \in [1..n -> Nat]
  BY <1>2 DEF Rows
<1>4. IsFiniteSet(1..n)
  BY <1>1, FS_Interval
<1>5. SpanTime(t[p]) \in Nat /\ LabelOf(t[p]) \in STRING
  BY PlacesAre, SpanTimeIs DEF LabelOf
<1>6. /\ Row(t[p], children).timeCum = SpanTime(t[p]) + SumFunction(cum)
      /\ Row(t[p], children).timeChildren = SpanTime(t[p]) + SumFunction(time)
      /\ Row(t[p], children).name = LabelOf(t[p]) /\ Row(t[p], children).time = SpanTime(t[p])
      /\ Row(t[p], children) = [name |-> LabelOf(t[p]), time |-> SpanTime(t[p]),
                                timeChildren |-> SpanTime(t[p]) + SumFunction(time),
                                timeCum |-> SpanTime(t[p]) + SumFunction(cum)]
  BY <1>1 DEF Row, TotalTime
<1> HIDE DEF cum, time, n
<1>7. SumFunction(cum) = Total(1..n, cum) /\ SumFunction(cum) \in Nat
  BY <1>3, <1>4, SumIsTotal
<1>8. SumFunction(time) \in Nat
  BY <1>3, <1>4, SumIsTotal
<1>9. SpanTime(t[p]) + SumFunction(time) \in Nat /\ SpanTime(t[p]) + SumFunction(cum) \in Nat
  BY <1>5, <1>7, <1>8
<1>10. Row(t[p], children) \in Rows
  BY <1>5, <1>6, <1>9 DEF Rows
<1>11. /\ cum \in [1..n -> Nat]
       /\ Row(t[p], children).timeCum = SpanTime(t[p]) + Total(1..n, cum)
  BY <1>3, <1>6, <1>7
<1> QED
  BY <1>6, <1>10, <1>11 DEF cum, n

(* A profile is that of its first span and of its sub-traces.              *)
LEMMA ProfileIs ==
  ASSUME NEW t, IsTrace(t)
  PROVE  /\ \A p \in DOMAIN t : calcProfile(t)[p] \in Profiles
         /\ \A p \in DOMAIN t : Subs(t, calcProfile(t), p) \in Seq(Profiles)
         /\ \A p \in DOMAIN t : calcProfile(t)[p]
                = <<Row(t[p], Subs(t, calcProfile(t), p))>> \o FlattenSeq(Subs(t, calcProfile(t), p))
<1> DEFINE kids(it, p) == [i \in DOMAIN Children(t, p) |-> it[Children(t, p)[i]]]
           F(it) == it = [p \in DOMAIN t |-> <<Row(t[p], kids(it, p))>> \o FlattenSeq(kids(it, p))]
           c     == CHOOSE it : F(it)
           B     == [x \in (DOMAIN t) \X Seq(Profiles) |-> <<Row(t[x[1]], x[2])>> \o FlattenSeq(x[2])]
<1>1. calcProfile(t) = c
  BY DEF calcProfile
<1>2. ASSUME NEW p \in DOMAIN t, NEW s \in Seq(Profiles)
      PROVE  <<Row(t[p], s)>> \o FlattenSeq(s) \in Profiles
  <2>1. Row(t[p], s) \in Rows
    BY RowIs
  <2>2. Len(s) \in Nat /\ s \in [1..Len(s) -> Seq(Rows)]
    <3>1. Len(s) \in Nat /\ s \in [1..Len(s) -> Profiles]
      BY LenProperties
    <3>2. Profiles \subseteq Seq(Rows)
      BY DEF Profiles
    <3> QED
      BY <3>1, <3>2
  <2>3. FlattenSeq(s) \in Seq(Rows)
    <3>1. PICK fl \in [0..Len(s) -> Seq(Rows)] : FlattenSeq(s) = fl[Len(s)]
      BY <2>2, FlattenIs
    <3>2. Len(s) \in 0..Len(s)
      BY <2>2
    <3> QED
      BY <3>1, <3>2
  <2>4. <<Row(t[p], s)>> \in Seq(Rows) /\ Len(<<Row(t[p], s)>>) = 1
    BY <2>1
  <2> DEFINE a == <<Row(t[p], s)>>
             f == FlattenSeq(s)
  <2> HIDE DEF a, f
  <2>5. a \o f \in Seq(Rows) /\ Len(a \o f) = Len(a) + Len(f) /\ Len(a) = 1 /\ Len(f) \in Nat
    BY <2>3, <2>4, ConcatProperties DEF a, f
  <2>6. Len(a \o f) # 0
    BY <2>5
  <2>7. a \o f # <<>>
    BY <2>6
  <2> QED
    BY <2>5, <2>7 DEF Profiles, a, f
<1>3. B \in [(DOMAIN t) \X Seq(Profiles) -> Profiles]
  BY <1>2
<1>4. \A p \in DOMAIN t, s \in Seq(Profiles) : B[<<p, s>>] = <<Row(t[p], s)>> \o FlattenSeq(s)
  OBVIOUS
<1> HIDE DEF B
<1>5. PICK f \in [DOMAIN t -> Profiles] : \A p \in DOMAIN t : f[p] = B[<<p, Subs(t, f, p)>>]
  <2> HIDE DEF F, kids
  <2>1. Solvable(t, Profiles, B)
    BY <1>3, TreeRecursion
  <2> QED
    BY <2>1 DEF Solvable
<1>6. \A it : \A p \in DOMAIN t : kids(it, p) = Subs(t, it, p)
  <2>1. \A p \in DOMAIN t : t[p].sub \in Nat
    BY PlacesAre
  <2> QED
    BY <2>1 DEF Children, Subs
<1>7. \A g \in [DOMAIN t -> Profiles] : \A p \in DOMAIN t : Subs(t, g, p) \in Seq(Profiles)
  <2> SUFFICES ASSUME NEW g \in [DOMAIN t -> Profiles], NEW p \in DOMAIN t
               PROVE  Subs(t, g, p) \in Seq(Profiles)
    OBVIOUS
  <2>1. t[p].sub \in Nat /\ \A i \in 1..t[p].sub : g[Append(p, i)] \in Profiles
    BY PlacesAre
  <2>2. Subs(t, g, p) \in [1..t[p].sub -> Profiles]
    BY <2>1 DEF Subs
  <2>3. \A n \in Nat : \A h \in [1..n -> Profiles] : h \in Seq(Profiles)
    OBVIOUS
  <2> QED
    BY <2>1, <2>2, <2>3
<1> HIDE DEF kids
<1>8. F(f)
  <2> DEFINE g == [p \in DOMAIN t |-> <<Row(t[p], kids(f, p))>> \o FlattenSeq(kids(f, p))]
  <2>1. \A p \in DOMAIN t : g[p] = f[p]
    BY <1>4, <1>5, <1>6, <1>7, ZenonT(30)
  <2>2. g = [p \in DOMAIN t |-> g[p]] /\ f = [p \in DOMAIN t |-> f[p]]
    OBVIOUS
  <2> HIDE DEF g
  <2>3. f = g
    BY <2>1, <2>2
  <2> QED
    BY <2>3 DEF g
<1>9. F(c)
  <2> HIDE DEF F
  <2> QED
    BY <1>8
<1> HIDE DEF c
<1>10. c = [p \in DOMAIN t |-> c[p]]
       /\ \A p \in DOMAIN t : c[p] = <<Row(t[p], Subs(t, c, p))>> \o FlattenSeq(Subs(t, c, p))
  BY <1>6, <1>9
<1> HIDE DEF F
<1> DEFINE S == {p \in DOMAIN t : c[p] \in Profiles}
<1>11. \A p \in DOMAIN t : (\A i \in 1..t[p].sub : Append(p, i) \in S) => p \in S
  <2> SUFFICES ASSUME NEW p \in DOMAIN t, \A i \in 1..t[p].sub : Append(p, i) \in S
               PROVE  c[p] \in Profiles
    OBVIOUS
  <2>1. t[p].sub \in Nat /\ \A i \in 1..t[p].sub : c[Append(p, i)] \in Profiles
    BY PlacesAre
  <2>2. Subs(t, c, p) \in [1..t[p].sub -> Profiles]
    BY <2>1 DEF Subs
  <2>3. \A n \in Nat : \A h \in [1..n -> Profiles] : h \in Seq(Profiles)
    OBVIOUS
  <2>4. Subs(t, c, p) \in Seq(Profiles)
    BY <2>1, <2>2, <2>3
  <2> QED
    BY <1>2, <1>10, <2>4
<1>12. \A p \in DOMAIN t : p \in S
  <2> HIDE DEF S
  <2> QED
    BY <1>11, TreeInduction
<1>13. c \in [DOMAIN t -> Profiles]
  BY <1>10, <1>12
<1>14. /\ \A p \in DOMAIN t : c[p] \in Profiles
       /\ \A p \in DOMAIN t : Subs(t, c, p) \in Seq(Profiles)
       /\ \A p \in DOMAIN t : c[p] = <<Row(t[p], Subs(t, c, p))>> \o FlattenSeq(Subs(t, c, p))
  <2>1. \A p \in DOMAIN t : c[p] \in Profiles
    BY <1>13
  <2>2. \A p \in DOMAIN t : Subs(t, c, p) \in Seq(Profiles)
    BY <1>7, <1>13
  <2> QED
    BY <1>10, <2>1, <2>2, Zenon
<1> QED
  BY <1>1, <1>14, Zenon

LEMMA ListsSize ==
  ASSUME NEW S, NEW r, Lists(r, S)
  PROVE  IsFiniteSet(S) /\ Cardinality(S) = Len(r)
<1>1. r \in Seq(S) /\ Len(r) \in Nat
  BY DEF Lists
<1>2. r \in Bijection(1..Len(r), S)
  BY <1>1, SMTT(30) DEF Lists, Bijection, Injection, Surjection, IsInjective
<1>3. ExistsBijection(1..Len(r), S)
  BY <1>2 DEF ExistsBijection
<1>4. IsFiniteSet(1..Len(r)) /\ Cardinality(1..Len(r)) = Len(r)
  BY <1>1, FS_Interval, SMTT(30)
<1> QED
  BY <1>3, <1>4, FS_Bijection

(* Each row of a profile is that of a span, and each span has one row.     *)
RowOf(t) == {x \in Rows \X (DOMAIN t) : x[1].name = LabelOf(t[x[2]]) /\ x[1].time = SpanTime(t[x[2]])}

Placed(t, p, r) ==
    Lists(r, Under(t, p)) /\ Matched(calcProfile(t)[p], r, RowOf(t)) /\ r[1] = p

LEMMA ProfilePlaced ==
  ASSUME NEW t, IsTrace(t), NEW p \in DOMAIN t
  PROVE  \E r : Placed(t, p, r)
<1> DEFINE prof == calcProfile(t)
           S == {q \in DOMAIN t : \E r : Placed(t, q, r)}
<1>1. ASSUME NEW q \in DOMAIN t, \A i \in 1..t[q].sub : Append(q, i) \in S
      PROVE  q \in S
  <2> DEFINE n    == t[q].sub
             kids == Subs(t, prof, q)
             rs   == [i \in 1..n |-> CHOOSE r : Placed(t, Append(q, i), r)]
             part == [i \in 1..n |-> Under(t, Append(q, i))]
             U    == {x \in Under(t, q) : x # q}
             row  == Row(t[q], kids)
  <2>1. n \in Nat /\ \A i \in 1..n : Append(q, i) \in DOMAIN t
    BY PlacesAre
  <2>2. kids \in Seq(Profiles) /\ prof[q] = <<row>> \o FlattenSeq(kids)
    BY ProfileIs
  <2>3. DOMAIN kids = 1..n /\ Len(kids) = n /\ \A i \in 1..n : kids[i] = prof[Append(q, i)]
    BY <2>1 DEF Subs
  <2>4. kids \in [1..n -> Seq(Rows)]
    <3>1. kids = [i \in 1..n |-> kids[i]]
      BY DEF Subs
    <3>2. \A i \in 1..n : kids[i] \in Seq(Rows)
      BY <2>1, <2>3, ProfileIs DEF Profiles
    <3> HIDE DEF kids
    <3> QED
      BY <3>1, <3>2
  <2>5. \A i \in 1..n : Placed(t, Append(q, i), rs[i])
    BY <1>1
  <2>6. row \in Rows /\ row.name = LabelOf(t[q]) /\ row.time = SpanTime(t[q])
    BY <2>2, RowIs
  <2>7. /\ q \in Under(t, q) /\ Under(t, q) \in SUBSET DOMAIN t
        /\ \A x : x \in Under(t, q) <=> x = q \/ \E i \in 1..n : x \in Under(t, Append(q, i))
        /\ \A i \in 1..n : q \notin Under(t, Append(q, i))
        /\ \A i, j \in 1..n : i # j => Under(t, Append(q, i)) \cap Under(t, Append(q, j)) = {}
    BY UnderSplit
  <2>8. rs = [i \in 1..n |-> rs[i]] /\ DOMAIN rs = 1..n /\ \A i \in 1..n : part[i] = Under(t, Append(q, i))
    OBVIOUS
  <2>9. \A x : x \in U <=> \E i \in 1..n : x \in part[i]
    BY <2>7, <2>8
  <2>10. {q} \cap U = {} /\ {q} \cup U = Under(t, q)
    BY <2>7
  <2>11. \A i \in 1..n : Under(t, Append(q, i)) \in SUBSET DOMAIN t
    BY <2>1, UnderSplit
  <2> HIDE DEF n, kids, rs, part, U, row, prof, S
  <2>12. \A i \in 1..n : Lists(rs[i], part[i]) /\ Matched(kids[i], rs[i], RowOf(t))
    BY <2>3, <2>5, <2>8 DEF Placed, prof
  <2>13. rs \in [1..n -> Seq(DOMAIN t)]
    <3>1. \A i \in 1..n : rs[i] \in Seq(DOMAIN t)
      <4> SUFFICES ASSUME NEW i \in 1..n PROVE rs[i] \in Seq(DOMAIN t)
        OBVIOUS
      <4>1. rs[i] \in Seq(part[i]) /\ part[i] \subseteq DOMAIN t
        BY <2>8, <2>11, <2>12 DEF Lists
      <4> QED
        BY <4>1, SeqMonotonic
    <3> QED
      BY <2>8, <3>1
  <2> DEFINE F == FlattenSeq(rs)
             r == <<q>> \o F
  <2>14. FlattenSeq(kids) \in Seq(Rows) /\ F \in Seq(DOMAIN t) /\ Matched(FlattenSeq(kids), F, RowOf(t))
    <3>1. \A i \in 1..n : Matched(kids[i], rs[i], RowOf(t))
      BY <2>12
    <3> QED
      BY <2>1, <2>4, <2>13, <3>1, FlattenMatched
  <2>15. Lists(F, U)
    <3>1. \A i \in 1..n : Lists(rs[i], part[i])
      BY <2>12
    <3>2. \A i, j \in 1..n : i # j => part[i] \cap part[j] = {}
      BY <2>7, <2>8
    <3> QED
      BY <2>1, <2>8, <2>9, <3>1, <3>2, FlattenLists
  <2> HIDE DEF F
  <2>16. Lists(<<q>>, {q})
    <3>1. <<q>> \in Seq({q}) /\ Len(<<q>>) = 1 /\ <<q>>[1] = q
      OBVIOUS
    <3>2. \A i \in 1..1 : i = 1
      OBVIOUS
    <3> QED
      BY <3>1, <3>2 DEF Lists
  <2>17. Lists(r, Under(t, q))
    <3>1. Lists(r, {q} \cup U)
      BY <2>10, <2>15, <2>16, ListsTwo
    <3> QED
      BY <2>10, <3>1
  <2>18. Matched(<<row>>, <<q>>, RowOf(t))
    <3>1. <<row, q>> \in RowOf(t)
      BY <2>6 DEF RowOf
    <3>2. Len(<<row>>) = 1 /\ Len(<<q>>) = 1 /\ <<row>>[1] = row /\ <<q>>[1] = q /\ \A j \in 1..1 : j = 1
      OBVIOUS
    <3> QED
      BY <3>1, <3>2 DEF Matched
  <2>19. Matched(prof[q], r, RowOf(t))
    <3>1. <<row>> \in Seq(Rows) /\ <<q>> \in Seq(DOMAIN t)
      BY <2>6
    <3>2. Matched(<<row>> \o FlattenSeq(kids), <<q>> \o F, RowOf(t))
      BY <2>14, <2>18, <3>1, MatchedTwo
    <3> QED
      BY <2>2, <3>2
  <2>20. r[1] = q
    <3>1. <<q>> \in Seq(DOMAIN t) /\ Len(<<q>>) = 1 /\ Len(F) \in Nat
      BY <2>14
    <3>2. \A i \in 1..(Len(<<q>>) + Len(F)) : (<<q>> \o F)[i] = IF i <= Len(<<q>>) THEN <<q>>[i] ELSE F[i - Len(<<q>>)]
      BY <2>14, <3>1, ConcatProperties
    <3>3. 1 \in 1..(Len(<<q>>) + Len(F)) /\ 1 <= Len(<<q>>)
      BY <3>1
    <3> QED
      BY <3>2, <3>3
  <2>21. Placed(t, q, r)
    BY <2>17, <2>19, <2>20 DEF Placed, prof
  <2> HIDE DEF r
  <2> QED
    BY <2>21 DEF S
<1>2. \A q \in DOMAIN t : q \in S
  <2> HIDE DEF S
  <2> QED
    BY <1>1, TreeInduction
<1> QED
  BY <1>2

LEMMA ProfileLength ==
  ASSUME NEW t, IsTrace(t), NEW p \in DOMAIN t
  PROVE  Len(calcProfile(t)[p]) = Cardinality(Under(t, p))
<1>1. PICK r : Placed(t, p, r)
  BY ProfilePlaced
<1> QED
  BY <1>1, ListsSize DEF Placed, Matched

(* The time of some places, as a sum of the times of their spans.          *)
TimesIn(t) == [q \in DOMAIN t |-> SpanTime(t[q])]

LEMMA TimeOfIs ==
  ASSUME NEW t, IsTrace(t), NEW P \in SUBSET DOMAIN t
  PROVE  /\ IsFiniteSet(P) /\ TimeOf(t, P) = Total(P, TimesIn(t)) /\ TimeOf(t, P) \in Nat
         /\ \A q \in P : TimesIn(t)[q] = SpanTime(t[q]) /\ SpanTime(t[q]) \in Nat
<1> DEFINE w == [q \in P |-> SpanTime(t[q])]
<1>1. IsFiniteSet(P)
  BY FS_Subset DEF IsTrace
<1>2. \A q \in P : SpanTime(t[q]) \in Nat /\ w[q] = SpanTime(t[q]) /\ TimesIn(t)[q] = SpanTime(t[q])
  BY PlacesAre, SpanTimeIs DEF TimesIn
<1>3. w \in [P -> Nat] /\ TimeOf(t, P) = SumFunction(w)
  BY <1>2 DEF TimeOf
<1> HIDE DEF w
<1>4. SumFunction(w) = Total(P, w) /\ SumFunction(w) \in Nat
  BY <1>1, <1>3, SumIsTotal
<1>5. Total(P, w) = Total(P, TimesIn(t))
  BY <1>1, <1>2, TotalSameWeights
<1> QED
  BY <1>1, <1>2, <1>3, <1>4, <1>5

LEMMA ProfileTime ==
  ASSUME NEW t, IsTrace(t), NEW p \in DOMAIN t
  PROVE  calcProfile(t)[p][1].timeCum = TimeOf(t, Under(t, p))
<1> DEFINE prof == calcProfile(t)
           S == {q \in DOMAIN t : prof[q][1].timeCum = TimeOf(t, Under(t, q))}
<1>1. ASSUME NEW q \in DOMAIN t, \A i \in 1..t[q].sub : Append(q, i) \in S
      PROVE  prof[q][1].timeCum = TimeOf(t, Under(t, q))
  <2> DEFINE n    == t[q].sub
             kids == Subs(t, prof, q)
             part == [i \in 1..n |-> Under(t, Append(q, i))]
             U    == {x \in Under(t, q) : x # q}
             row  == Row(t[q], kids)
             cum  == [i \in 1..Len(kids) |-> kids[i][1].timeCum]
             w    == TimesIn(t)
  <2>1. n \in Nat /\ \A i \in 1..n : Append(q, i) \in DOMAIN t
    BY PlacesAre
  <2>2. kids \in Seq(Profiles) /\ prof[q] = <<row>> \o FlattenSeq(kids) /\ prof[q] \in Profiles
    BY ProfileIs
  <2>3. Len(kids) = n /\ \A i \in 1..n : kids[i] = prof[Append(q, i)]
    BY <2>1 DEF Subs
  <2>4. row.timeCum = SpanTime(t[q]) + Total(1..Len(kids), cum)
    BY <2>2, RowIs
  <2>5. \A i \in 1..n : cum[i] = TimeOf(t, Under(t, Append(q, i)))
    BY <1>1, <2>3
  <2>6. /\ q \in Under(t, q) /\ Under(t, q) \in SUBSET DOMAIN t
        /\ \A x : x \in Under(t, q) <=> x = q \/ \E i \in 1..n : x \in Under(t, Append(q, i))
        /\ \A i \in 1..n : q \notin Under(t, Append(q, i))
        /\ \A i, j \in 1..n : i # j => Under(t, Append(q, i)) \cap Under(t, Append(q, j)) = {}
    BY UnderSplit
  <2>7. \A i \in 1..n : part[i] = Under(t, Append(q, i)) /\ part[i] \in SUBSET DOMAIN t
    BY <2>1, UnderSplit
  <2>8. (\A x : x \in U <=> \E i \in 1..n : x \in part[i]) /\ U \in SUBSET DOMAIN t /\ U \cup {q} = Under(t, q)
        /\ q \notin U
    BY <2>6, <2>7
  <2>9. prof[q][1] = row
    <3>1. \A i \in 1..n : kids[i] \in Seq(Rows)
      BY <2>1, <2>3, ProfileIs DEF Profiles
    <3>2. row \in Rows /\ kids \in [1..n -> Seq(Rows)]
      <4>1. kids = [i \in 1..n |-> kids[i]]
        BY DEF Subs
      <4>2. row \in Rows
        BY <2>2, RowIs
      <4> HIDE DEF kids, row
      <4> QED
        BY <3>1, <4>1, <4>2
    <3> DEFINE f == FlattenSeq(kids)
    <3>3. f \in Seq(Rows)
      <4>1. PICK fl \in [0..n -> Seq(Rows)] : FlattenSeq(kids) = fl[n]
        BY <2>1, <3>2, FlattenIs
      <4>2. n \in 0..n
        BY <2>1
      <4> QED
        BY <4>1, <4>2
    <3> HIDE DEF f, row
    <3>4. <<row>> \in Seq(Rows) /\ Len(<<row>>) = 1 /\ Len(f) \in Nat /\ <<row>>[1] = row
      BY <3>2, <3>3
    <3>5. \A i \in 1..(1 + Len(f)) : (<<row>> \o f)[i] = IF i <= 1 THEN <<row>>[i] ELSE f[i - 1]
      BY <3>3, <3>4, ConcatProperties
    <3>6. 1 \in 1..(1 + Len(f)) /\ 1 <= 1
      BY <3>4
    <3>7. (<<row>> \o f)[1] = row
      BY <3>4, <3>5, <3>6
    <3> QED
      BY <2>2, <3>7 DEF f
  <2> HIDE DEF n, kids, part, U, row, cum, prof, w, S
  <2>10. IsFiniteSet(1..n) /\ \A i \in 1..n : IsFiniteSet(part[i]) /\ cum[i] = Total(part[i], w) /\ cum[i] \in Nat
    <3>1. IsFiniteSet(1..n)
      BY <2>1, FS_Interval
    <3>2. \A i \in 1..n : IsFiniteSet(part[i]) /\ TimeOf(t, part[i]) = Total(part[i], w) /\ TimeOf(t, part[i]) \in Nat
      BY <2>7, TimeOfIs DEF w
    <3> QED
      BY <2>5, <2>7, <3>1, <3>2
  <2>11. IsFiniteSet(U) /\ Total(U, w) = Total(1..n, cum)
    <3>1. \A i, j \in 1..n : i # j => part[i] \cap part[j] = {}
      BY <2>6, <2>7
    <3>2. \A i \in 1..n : \A x \in part[i] : w[x] \in Nat
      BY <2>7, TimeOfIs DEF w
    <3> DEFINE I == 1..n
    <3>3. /\ IsFiniteSet(I) /\ \A i \in I : IsFiniteSet(part[i])
          /\ \A i, j \in I : i # j => part[i] \cap part[j] = {}
          /\ \A i \in I : \A x \in part[i] : w[x] \in Nat
          /\ \A x : x \in U <=> \E i \in I : x \in part[i]
          /\ \A i \in I : cum[i] = Total(part[i], w)
      BY <2>8, <2>10, <3>1, <3>2
    <3> HIDE DEF I
    <3>4. IsFiniteSet(U) /\ Total(U, w) = Total(I, cum)
      BY ONLY <3>3, TotalOfMany
    <3> QED
      BY <3>4 DEF I
  <2>12. Total(U \cup {q}, w) = Total(U, w) + w[q]
    <3>1. U \cup {q} \in SUBSET DOMAIN t
      BY <2>6, <2>8
    <3>2. \A x \in U \cup {q} : w[x] \in Nat
      BY <3>1, TimeOfIs DEF w
    <3>3. IsFiniteSet(U) /\ q \notin U
      BY <2>8, <2>11
    <3> QED
      BY ONLY <3>2, <3>3, TotalAdd
  <2>13. TimeOf(t, Under(t, q)) = Total(Under(t, q), w) /\ w[q] = SpanTime(t[q]) /\ SpanTime(t[q]) \in Nat
    BY <2>6, TimeOfIs DEF w
  <2>14. Total(U, w) \in Nat
    <3>1. \A x \in U : w[x] \in Nat
      BY <2>8, TimeOfIs DEF w
    <3> QED
      BY <2>11, <3>1, TotalIsNat
  <2>15. row.timeCum = SpanTime(t[q]) + Total(U, w)
    BY <2>3, <2>4, <2>11
  <2> QED
    BY <2>8, <2>9, <2>12, <2>13, <2>14, <2>15
<1>2. \A q \in DOMAIN t : (\A i \in 1..t[q].sub : Append(q, i) \in S) => q \in S
  <2> HIDE DEF prof
  <2> QED
    BY <1>1
<1>3. \A q \in DOMAIN t : q \in S
  <2> HIDE DEF S
  <2> QED
    BY <1>2, TreeInduction
<1> QED
  BY <1>3

LEMMA HoldsAfter ==
  ASSUME NEW X, NEW a \in Seq(X), NEW v \in Seq(X)
  PROVE  Holds(a \o v, v, X) /\ Holds(v, v, X)
<1>1. <<>> \in Seq(X) /\ a \o v \in Seq(X)
  BY ConcatProperties
<1>2. (a \o v) \o <<>> = a \o v /\ <<>> \o v = v /\ v \o <<>> = v
  BY <1>1, ConcatEmptySeq
<1>3. Holds(a \o v, v, X)
  BY <1>1, <1>2 DEF Holds
<1>4. (<<>> \o v) \o <<>> = v
  BY <1>2, Zenon
<1> QED
  BY <1>1, <1>3, <1>4 DEF Holds

(* The profile of a span is a part of that of each sub-trace it is in.     *)
LEMMA ProfileWithin ==
  ASSUME NEW t, IsTrace(t), NEW n \in DOMAIN t, NEW p \in DOMAIN t, n \in Under(t, p)
  PROVE  Holds(calcProfile(t)[p], calcProfile(t)[n], Rows)
<1> DEFINE prof == calcProfile(t)
           S == {q \in DOMAIN t : n \in Under(t, q) => Holds(prof[q], prof[n], Rows)}
<1>1. ASSUME NEW q \in DOMAIN t, \A i \in 1..t[q].sub : Append(q, i) \in S, n \in Under(t, q)
      PROVE  Holds(prof[q], prof[n], Rows)
  <2> DEFINE m    == t[q].sub
             kids == Subs(t, prof, q)
             row  == Row(t[q], kids)
  <2>1. m \in Nat /\ \A i \in 1..m : Append(q, i) \in DOMAIN t
    BY PlacesAre
  <2>2. kids \in Seq(Profiles) /\ prof[q] = <<row>> \o FlattenSeq(kids)
    BY ProfileIs
  <2>3. prof[n] \in Seq(Rows) /\ prof[q] \in Seq(Rows) /\ \A i \in 1..m : prof[Append(q, i)] \in Seq(Rows)
    BY <2>1, ProfileIs DEF Profiles
  <2>4. row \in Rows
    BY <2>2, RowIs
  <2>5. kids = [i \in 1..m |-> prof[Append(q, i)]]
    BY DEF Subs
  <2>6. CASE n = q
    BY <2>3, <2>6, HoldsAfter
  <2>7. CASE n # q
    <3>1. PICK i \in 1..m : n \in Under(t, Append(q, i))
      BY <1>1, <2>7, UnderSplit
    <3>2. Holds(prof[Append(q, i)], prof[n], Rows)
      BY <1>1, <3>1
    <3>3. kids \in [1..m -> Seq(Rows)] /\ kids[i] = prof[Append(q, i)] /\ kids[i] \in Seq(Rows)
      BY <2>3, <2>5
    <3> HIDE DEF m, kids, row, prof, S
    <3> DEFINE f == FlattenSeq(kids)
    <3>4. f \in Seq(Rows)
      <4>1. PICK fl \in [0..m -> Seq(Rows)] : FlattenSeq(kids) = fl[m]
        BY <2>1, <3>3, FlattenIs
      <4>2. m \in 0..m
        BY <2>1
      <4> QED
        BY <4>1, <4>2
    <3>5. Holds(f, kids[i], Rows)
      BY <2>1, <3>3, FlattenHolds
    <3> HIDE DEF f
    <3>6. Holds(f, prof[n], Rows)
      BY <2>3, <3>2, <3>3, <3>4, <3>5, HoldsOfHolds
    <3>7. <<row>> \in Seq(Rows)
      BY <2>4
    <3>8. Holds(<<row>> \o f, f, Rows) /\ <<row>> \o f \in Seq(Rows)
      BY <3>4, <3>7, HoldsAfter, ConcatProperties
    <3>9. Holds(<<row>> \o f, prof[n], Rows)
      BY <2>3, <3>4, <3>6, <3>8, HoldsOfHolds
    <3> QED
      BY <2>2, <3>9 DEF f
  <2> QED
    BY <2>6, <2>7
<1>2. \A q \in DOMAIN t : (\A i \in 1..t[q].sub : Append(q, i) \in S) => q \in S
  <2> HIDE DEF prof
  <2> QED
    BY <1>1
<1>3. \A q \in DOMAIN t : q \in S
  <2> HIDE DEF S
  <2> QED
    BY <1>2, TreeInduction
<1> QED
  BY <1>3

(* FindSpan comes to the one place of a span.                              *)
LEMMA FindSpanFinds ==
  ASSUME NEW t, IsTrace(t), NEW n \in DOMAIN t
  PROVE  FindSpan(t, t[n].id) = <<n>>
<1> DEFINE span == t[n].id
           N(p, s) == {i \in 1..Len(s) : s[i] # <<>>}
           in(it, p) == {i \in 1..t[p].sub : it[Append(p, i)] # <<>>}
           next(it, p) == IF t[p].id = span THEN <<p>>
                          ELSE IF in(it, p) = {} THEN <<>>
                          ELSE it[Append(p, Smallest(in(it, p)))]
           F(it) == it = [p \in DOMAIN t |-> next(it, p)]
           c == CHOOSE it : F(it)
           w == [p \in DOMAIN t |-> IF n \in Under(t, p) THEN <<n>> ELSE <<>>]
<1>1. FindSpan(t, span) = c[<<>>]
  BY DEF FindSpan
<1>2. ASSUME NEW p \in DOMAIN t
      PROVE  /\ t[p].sub \in Nat /\ \A i \in 1..t[p].sub : Append(p, i) \in DOMAIN t
             /\ t[p].id = span <=> p = n
             /\ n \in Under(t, p) <=> n = p \/ \E i \in 1..t[p].sub : n \in Under(t, Append(p, i))
             /\ n \notin Under(t, p) \/ p = n \/ \E i \in 1..t[p].sub :
                     \A j \in 1..t[p].sub : n \in Under(t, Append(p, j)) <=> i = j
  <2>1. t[p].sub \in Nat /\ \A i \in 1..t[p].sub : Append(p, i) \in DOMAIN t
    BY PlacesAre
  <2>2. t[p].id = span <=> p = n
    BY PlacesAre
  <2>3. n \in Under(t, p) <=> n = p \/ \E i \in 1..t[p].sub : n \in Under(t, Append(p, i))
    BY UnderSplit
  <2>4. \A i, j \in 1..t[p].sub : i # j => Under(t, Append(p, i)) \cap Under(t, Append(p, j)) = {}
    BY UnderSplit
  <2>5. \A i, j \in 1..t[p].sub : n \in Under(t, Append(p, i)) /\ n \in Under(t, Append(p, j)) => i = j
    BY <2>4
  <2> QED
    BY <2>1, <2>2, <2>3, <2>5
<1>3. ASSUME NEW it, NEW p \in DOMAIN t,
             \A i \in 1..t[p].sub : it[Append(p, i)] = IF n \in Under(t, Append(p, i)) THEN <<n>> ELSE <<>>
      PROVE  next(it, p) = IF n \in Under(t, p) THEN <<n>> ELSE <<>>
  <2> DEFINE I == in(it, p)
  <2>0. <<n>> # <<>>
    OBVIOUS
  <2>1. \A i \in 1..t[p].sub : i \in I <=> n \in Under(t, Append(p, i))
    BY <1>3, <2>0
  <2>2. I \subseteq 1..t[p].sub
    OBVIOUS
  <2> HIDE DEF I
  <2>3. CASE n = p
    BY <1>2, <2>3
  <2>4. CASE n # p /\ n \notin Under(t, p)
    <3>1. I = {}
      BY <1>2, <2>1, <2>2, <2>4
    <3> QED
      BY <1>2, <2>4, <3>1 DEF I
  <2>5. CASE n # p /\ n \in Under(t, p)
    <3>1. PICK i \in 1..t[p].sub : \A j \in 1..t[p].sub : n \in Under(t, Append(p, j)) <=> i = j
      BY <1>2, <2>5
    <3>2. I = {i}
      BY <2>1, <2>2, <3>1
    <3>3. {i} \in SUBSET Int /\ {i} # {}
      BY <1>2
    <3>4. IsFiniteSet({i})
      BY FS_Singleton
    <3>41. Smallest({i}) \in {i}
      BY ONLY <3>3, <3>4, Extremes
    <3>5. Smallest(I) = i
      BY <3>2, <3>41
    <3>6. it[Append(p, i)] = <<n>>
      BY <1>3, <3>1
    <3>7. t[p].id # span /\ I # {}
      BY <1>2, <2>5, <3>2
    <3>8. next(it, p) = it[Append(p, Smallest(I))]
      BY <3>7 DEF I
    <3> QED
      BY <2>5, <3>5, <3>6, <3>8
  <2> QED
    BY <2>3, <2>4, <2>5
<1>4. \A p \in DOMAIN t : w[p] = IF n \in Under(t, p) THEN <<n>> ELSE <<>>
  OBVIOUS
<1> HIDE DEF w, in
<1>5. F(w)
  <2> DEFINE g == [p \in DOMAIN t |-> next(w, p)]
  <2>1. \A p \in DOMAIN t : next(w, p) = w[p]
    <3> HIDE DEF next
    <3> QED
      BY <1>2, <1>3, <1>4
  <2>2. \A p \in DOMAIN t : g[p] = w[p]
    BY <2>1
  <2>3. g = [p \in DOMAIN t |-> g[p]] /\ w = [p \in DOMAIN t |-> w[p]]
    BY DEF w
  <2> HIDE DEF g
  <2>4. w = g
    BY <2>2, <2>3
  <2> QED
    BY <2>4 DEF g
<1>6. F(c)
  <2> HIDE DEF F
  <2> QED
    BY <1>5
<1> HIDE DEF c
<1>7. \A p \in DOMAIN t : c[p] = next(c, p)
  BY <1>6
<1> HIDE DEF F, next, span
<1> DEFINE S == {p \in DOMAIN t : c[p] = w[p]}
<1>8. \A p \in DOMAIN t : (\A i \in 1..t[p].sub : Append(p, i) \in S) => p \in S
  <2> SUFFICES ASSUME NEW p \in DOMAIN t, \A i \in 1..t[p].sub : Append(p, i) \in S
               PROVE  c[p] = w[p]
    OBVIOUS
  <2>1. \A i \in 1..t[p].sub : c[Append(p, i)] = IF n \in Under(t, Append(p, i)) THEN <<n>> ELSE <<>>
    BY <1>2, <1>4
  <2>2. next(c, p) = IF n \in Under(t, p) THEN <<n>> ELSE <<>>
    BY <1>3, <2>1
  <2> QED
    BY <1>4, <1>7, <2>2
<1>9. \A p \in DOMAIN t : p \in S
  <2> HIDE DEF S
  <2> QED
    BY <1>8, TreeInduction
<1>10. <<>> \in DOMAIN t /\ n \in Under(t, <<>>)
  BY UnderRoot
<1>11. c[<<>>] = <<n>>
  BY <1>4, <1>9, <1>10
<1> QED
  BY <1>1, <1>11 DEF span

-----------------------------------------------------------------------------
ProfileFor(t, n, prof) ==
    /\ Len(prof) = Cardinality(Under(t, n))
    /\ prof[1].timeCum = TimeOf(t, Under(t, n))
    /\ \A p \in DOMAIN t : n \in Under(t, p) =>
         \E i \in DOMAIN calcProfile(t)[p] :
            SubSeq(calcProfile(t)[p], i, i + Len(prof) - 1) = prof

LEMMA ProfileSound ==
  ASSUME NEW t, IsTrace(t), NEW n \in DOMAIN t
  PROVE  ProfileFor(t, n, calcProfile(t)[n])
<1> DEFINE prof == calcProfile(t)
<1>1. Len(prof[n]) = Cardinality(Under(t, n)) /\ prof[n][1].timeCum = TimeOf(t, Under(t, n))
  BY ProfileLength, ProfileTime
<1>2. ASSUME NEW p \in DOMAIN t, n \in Under(t, p)
      PROVE  \E i \in DOMAIN prof[p] : SubSeq(prof[p], i, i + Len(prof[n]) - 1) = prof[n]
  <2>1. Holds(prof[p], prof[n], Rows)
    BY <1>2, ProfileWithin
  <2>2. prof[p] \in Seq(Rows) /\ prof[n] \in Seq(Rows) /\ prof[n] # <<>>
    BY ProfileIs DEF Profiles
  <2>3. DOMAIN prof[p] = 1..Len(prof[p])
    BY <2>2, LenProperties
  <2> HIDE DEF prof
  <2> QED
    BY <2>1, <2>2, <2>3, HoldsIsSubSeq
<1> QED
  BY <1>1, <1>2 DEF ProfileFor

(* serveTrace answers for the place it was asked for.                      *)
LEMMA TraceAnswered ==
  ASSUME input.of \in TreeInputs, serveTrace
  PROVE  \E t \in Range(input.of) : \E n \in DOMAIN t :
            /\ IsTrace(t)
            /\ output' = <<"trace", [of |-> t, at |-> n, prof |-> calcProfile(t)[n],
                                     line |-> d3timelineInner(t, n)]>>
<1>1. PICK t \in Range(input.of) : \E n \in DOMAIN t :
         LET at == FindSpan(t, t[n].id)[1]
         IN  output' = <<"trace", [of |-> t, at |-> n, prof |-> calcProfile(t)[at],
                                   line |-> d3timelineInner(t, at)]>>
  BY DEF serveTrace
<1>2. PICK n \in DOMAIN t :
         output' = <<"trace", [of |-> t, at |-> n, prof |-> calcProfile(t)[FindSpan(t, t[n].id)[1]],
                               line |-> d3timelineInner(t, FindSpan(t, t[n].id)[1])]>>
  BY <1>1
<1>3. IsTrace(t)
  BY TreesAssumption
<1>4. FindSpan(t, t[n].id)[1] = n
  BY <1>3, FindSpanFinds
<1> QED
  BY <1>2, <1>3, <1>4

(* The profile has one row for each span, whose times add up to that of    *)
(* the first, and is a part of that of each sub-trace (calcProfile,        *)
(* FindSpan).                                                              *)
THEOREM ProfileIsSum == Spec => []ProfileAddsUp
<1>1. Init => ProfileAddsUp
  BY DEF Init, ProfileAddsUp, Answered
<1>2. InputOK /\ ProfileAddsUp /\ [Next]_vars => ProfileAddsUp'
  <2> SUFFICES ASSUME InputOK, ProfileAddsUp, [Next]_vars PROVE ProfileAddsUp'
    OBVIOUS
  <2>1. CASE serveTrace
    <3>1. input.kind = "traces"
      BY <2>1 DEF serveTrace, Request
    <3>2. input.of \in TreeInputs
      BY <3>1 DEF InputOK
    <3>3. PICK t \in Range(input.of) : \E n \in DOMAIN t :
            /\ IsTrace(t)
            /\ output' = <<"trace", [of |-> t, at |-> n, prof |-> calcProfile(t)[n],
                                     line |-> d3timelineInner(t, n)]>>
      BY <2>1, <3>2, TraceAnswered
    <3>4. PICK n \in DOMAIN t :
            /\ IsTrace(t)
            /\ output' = <<"trace", [of |-> t, at |-> n, prof |-> calcProfile(t)[n],
                                     line |-> d3timelineInner(t, n)]>>
      BY <3>3
    <3>5. output'[2].of = t /\ output'[2].at = n /\ output'[2].prof = calcProfile(t)[n]
      BY <3>4
    <3>6. ProfileFor(t, n, calcProfile(t)[n])
      BY <3>4, ProfileSound
    <3>7. ProfileFor(output'[2].of, output'[2].at, output'[2].prof)
      BY <3>5, <3>6, Zenon
    <3> QED
      BY <3>7, Zenon DEF ProfileAddsUp, ProfileFor
  <2>2. CASE ReadSpans \/ ReadRows \/ serveAggregate \/ serveDashboardData
    <3>1. output' # <<>> /\ output'[1] # "trace"
      BY <2>2 DEF ReadSpans, ReadRows, serveAggregate, serveDashboardData
    <3> QED
      BY <3>1 DEF ProfileAddsUp, Answered
  <2>3. CASE UNCHANGED vars
    <3>1. input' = input /\ output' = output
      BY <2>3 DEF vars
    <3> QED
      BY <3>1 DEF ProfileAddsUp, Answered
  <2> QED
    BY <2>1, <2>2, <2>3 DEF Next
<1> QED
  BY <1>1, <1>2, InputStays, PTL DEF Spec

-----------------------------------------------------------------------------
(* The labels of an aggregate, and what adds to each: pairs of a trace and *)
(* one of its places.                                                      *)
EntrySet == [label : Seq(STRING), value : Nat]

Shown(t, mode) == IF mode = "trace-only" THEN {<<>>} ELSE DOMAIN t \ {<<>>}

LabelIn(t, q, mode) ==
    CASE mode = "trace-only"     -> <<LabelOf(t[<<>>])>>
      [] mode = "span-only"      -> <<LabelOf(t[q])>>
      [] mode = "trace-and-span" -> <<LabelOf(t[<<>>]), LabelOf(t[q])>>

Spent(t, q, mode) == IF mode = "trace-only" THEN TimeOf(t, DOMAIN t) ELSE SpanTime(t[q])

EntryOf(t, mode) ==
    {x \in EntrySet \X (DOMAIN t) :
        x[1].label = LabelIn(t, x[2], mode) /\ x[1].value = Spent(t, x[2], mode)}

LEMMA OneOrTwo ==
  ASSUME NEW S, NEW a \in S, NEW b \in S PROVE <<b>> \in Seq(S) /\ <<a, b>> \in Seq(S)
OBVIOUS

(* A sequence without its first element.                                   *)
LEMMA ListsRest ==
  ASSUME NEW S, NEW r, Lists(r, S), Len(r) >= 1
  PROVE  LET rest == [i \in 1..(Len(r) - 1) |-> r[i + 1]]
         IN  Lists(rest, S \ {r[1]}) /\ Len(rest) = Len(r) - 1
<1> DEFINE m == Len(r) - 1
           s == [i \in 1..m |-> r[i + 1]]
           U == S \ {r[1]}
<1>1. /\ r \in Seq(S) /\ \A x \in S : \E i \in 1..Len(r) : r[i] = x
      /\ \A i, j \in 1..Len(r) : r[i] = r[j] => i = j
  BY DEF Lists
<1>2. Len(r) \in Nat /\ m \in Nat /\ Len(r) = m + 1
  BY <1>1
<1>3. \A i \in 1..m : i + 1 \in 1..Len(r) /\ s[i] = r[i + 1] /\ i + 1 # 1
  BY <1>2
<1>4. 1 \in 1..Len(r) /\ \A i \in 1..Len(r) : i = 1 \/ (i - 1 \in 1..m /\ (i - 1) + 1 = i)
  BY <1>2
<1>5. \A i \in 1..m : s[i] \in U
  BY <1>1, <1>3, <1>4, ElementOfSeq
<1>6. s \in Seq(U) /\ Len(s) = m
  <2>1. s \in [1..m -> U]
    BY <1>5
  <2>2. \A n \in Nat : \A g \in [1..n -> U] : g \in Seq(U) /\ Len(g) = n
    OBVIOUS
  <2> HIDE DEF s, U, m
  <2> QED
    BY <1>2, <2>1, <2>2
<1> HIDE DEF s, m
<1>7. \A x \in U : \E i \in 1..m : s[i] = x
  <2> SUFFICES ASSUME NEW x \in U PROVE \E i \in 1..m : s[i] = x
    OBVIOUS
  <2>1. PICK i \in 1..Len(r) : r[i] = x
    BY <1>1
  <2>2. i # 1
    BY <2>1
  <2> QED
    BY <1>3, <1>4, <2>1, <2>2
<1>8. \A i, j \in 1..m : s[i] = s[j] => i = j
  <2> SUFFICES ASSUME NEW i \in 1..m, NEW j \in 1..m, s[i] = s[j] PROVE i = j
    OBVIOUS
  <2>1. r[i + 1] = r[j + 1]
    BY <1>3
  <2>2. i + 1 = j + 1
    BY <1>1, <1>3, <2>1
  <2> QED
    BY <1>2, <2>2
<1>9. Lists(s, U)
  BY <1>6, <1>7, <1>8 DEF Lists
<1> QED
  BY <1>6, <1>9 DEF s, m

LEMMA EntriesPlaced ==
  ASSUME NEW t, IsTrace(t), NEW mode \in AggModes
  PROVE  /\ Entries(t, mode) \in Seq(EntrySet)
         /\ \E r : Lists(r, Shown(t, mode)) /\ Matched(Entries(t, mode), r, EntryOf(t, mode))
<1> DEFINE prof == calcProfile(t)[<<>>]
<1>1. <<>> \in DOMAIN t /\ Under(t, <<>>) = DOMAIN t
  BY UnderRoot
<1>2. PICK r : Placed(t, <<>>, r)
  BY <1>1, ProfilePlaced
<1>3. Lists(r, DOMAIN t) /\ Matched(prof, r, RowOf(t)) /\ r[1] = <<>>
  BY <1>1, <1>2 DEF Placed
<1>4. prof \in Seq(Rows) /\ prof # <<>>
  BY <1>1, ProfileIs DEF Profiles
<1>5. Len(prof) \in Nat /\ Len(prof) >= 1 /\ Len(r) = Len(prof)
  BY <1>3, <1>4 DEF Matched
<1>6. \A i \in 1..Len(prof) : /\ prof[i] \in Rows /\ r[i] \in DOMAIN t
                              /\ prof[i].name = LabelOf(t[r[i]]) /\ prof[i].time = SpanTime(t[r[i]])
  BY <1>3, <1>4 DEF Matched, RowOf
<1>7. 1 \in 1..Len(prof) /\ prof[1].name = LabelOf(t[<<>>]) /\ prof[1].name \in STRING
  BY <1>3, <1>5, <1>6 DEF Rows
<1>8. prof[1].timeCum = TimeOf(t, DOMAIN t) /\ prof[1].timeCum \in Nat
  <2>1. prof[1].timeCum = TimeOf(t, Under(t, <<>>))
    BY <1>1, ProfileTime
  <2>2. prof[1] \in Rows
    BY <1>6, <1>7
  <2> QED
    BY <1>1, <2>1, <2>2 DEF Rows
<1>9. CASE mode = "trace-only"
  <2> DEFINE e == [label |-> <<prof[1].name>>, value |-> prof[1].timeCum]
             s == <<<<>>>>
  <2>1. Entries(t, mode) = <<e>> /\ Shown(t, mode) = {<<>>}
    BY <1>9 DEF Entries, Shown
  <2>2. e \in EntrySet
    BY <1>7, <1>8 DEF EntrySet
  <2>3. e.label = LabelIn(t, <<>>, mode) /\ e.value = Spent(t, <<>>, mode)
    BY <1>7, <1>8, <1>9 DEF LabelIn, Spent
  <2>4. <<e, <<>>>> \in EntryOf(t, mode)
    BY <1>1, <2>2, <2>3 DEF EntryOf
  <2> HIDE DEF e
  <2>5. <<e>> \in Seq(EntrySet) /\ Len(<<e>>) = 1 /\ <<e>>[1] = e
    BY <2>2
  <2>6. \A i \in 1..1 : i = 1
    OBVIOUS
  <2>7. Len(s) = 1 /\ s[1] = <<>> /\ s \in Seq({<<>>})
    OBVIOUS
  <2> HIDE DEF s
  <2>8. Lists(s, {<<>>})
    BY <2>6, <2>7 DEF Lists
  <2>9. Matched(<<e>>, s, EntryOf(t, mode))
    BY <2>4, <2>5, <2>6, <2>7 DEF Matched
  <2> QED
    BY <2>1, <2>5, <2>8, <2>9
<1>10. CASE mode # "trace-only"
  <2> DEFINE m == Len(prof) - 1
             lab(i) == IF mode = "span-only" THEN <<prof[i + 1].name>>
                                             ELSE <<prof[1].name, prof[i + 1].name>>
             es == [i \in 1..m |-> [label |-> lab(i), value |-> prof[i + 1].time]]
             s  == [i \in 1..(Len(r) - 1) |-> r[i + 1]]
  <2>1. Entries(t, mode) = es /\ Shown(t, mode) = DOMAIN t \ {<<>>}
    BY <1>10 DEF Entries, Shown
  <2>2. m \in Nat /\ \A i \in 1..m : i + 1 \in 1..Len(prof)
    BY <1>5
  <2>3. \A i \in 1..m : es[i] \in EntrySet
    <3> SUFFICES ASSUME NEW i \in 1..m PROVE es[i] \in EntrySet
      OBVIOUS
    <3>1. prof[i + 1].name \in STRING /\ prof[i + 1].time \in Nat
      BY <1>6, <2>2 DEF Rows
    <3>2. lab(i) \in Seq(STRING)
      <4> DEFINE a == prof[1].name
                 b == prof[i + 1].name
      <4>1. a \in STRING /\ b \in STRING
        BY <1>7, <3>1
      <4>2. lab(i) = IF mode = "span-only" THEN <<b>> ELSE <<a, b>>
        OBVIOUS
      <4> HIDE DEF a, b, lab
      <4>3. <<b>> \in Seq(STRING) /\ <<a, b>> \in Seq(STRING)
        BY ONLY <4>1, OneOrTwo
      <4> QED
        BY ONLY <4>2, <4>3
    <3>3. es[i] = [label |-> lab(i), value |-> prof[i + 1].time]
      OBVIOUS
    <3> HIDE DEF lab, es, prof
    <3> QED
      BY <3>1, <3>2, <3>3 DEF EntrySet
  <2>4. es \in Seq(EntrySet) /\ Len(es) = m
    <3>1. es = [i \in 1..m |-> es[i]]
      OBVIOUS
    <3> HIDE DEF es
    <3>2. es \in [1..m -> EntrySet]
      BY <2>3, <3>1
    <3>3. \A n \in Nat : \A g \in [1..n -> EntrySet] : g \in Seq(EntrySet) /\ Len(g) = n
      OBVIOUS
    <3> HIDE DEF m
    <3> QED
      BY <2>2, <3>2, <3>3
  <2>5. Lists(s, DOMAIN t \ {<<>>}) /\ Len(s) = m
    <3>1. Lists(s, DOMAIN t \ {r[1]}) /\ Len(s) = Len(r) - 1
      BY <1>3, <1>5, ListsRest
    <3> QED
      BY <1>3, <1>5, <3>1
  <2>6. \A i \in 1..m : s[i] = r[i + 1]
    BY <1>5
  <2>7. mode = "span-only" \/ mode = "trace-and-span"
    BY <1>10 DEF AggModes
  <2>8. \A i \in 1..m : <<es[i], s[i]>> \in EntryOf(t, mode)
    <3> SUFFICES ASSUME NEW i \in 1..m PROVE <<es[i], s[i]>> \in EntryOf(t, mode)
      OBVIOUS
    <3>1. s[i] \in DOMAIN t /\ prof[i + 1].name = LabelOf(t[s[i]]) /\ prof[i + 1].time = SpanTime(t[s[i]])
      BY <1>6, <2>2, <2>6
    <3>2. es[i].label = lab(i) /\ es[i].value = prof[i + 1].time
      OBVIOUS
    <3>3. es[i].label = LabelIn(t, s[i], mode)
      BY <1>7, <2>7, <3>1, <3>2 DEF LabelIn
    <3>4. es[i].value = Spent(t, s[i], mode)
      BY <1>10, <3>1, <3>2 DEF Spent
    <3>5. es[i] \in EntrySet
      BY <2>3
    <3> HIDE DEF es, s
    <3> QED
      BY <3>1, <3>3, <3>4, <3>5 DEF EntryOf
  <2> HIDE DEF es, s
  <2>9. Matched(es, s, EntryOf(t, mode))
    BY <2>4, <2>5, <2>8 DEF Matched
  <2> QED
    BY <2>1, <2>4, <2>5, <2>9
<1> QED
  BY <1>9, <1>10

(* The pairs that the entries of several traces are of.                    *)
Pairs(of, mode) == UNION {{i} \X Shown(of[i], mode) : i \in DOMAIN of}

PairEntry(of, mode) ==
    {x \in EntrySet \X Pairs(of, mode) :
        /\ x[1].label = LabelIn(of[x[2][1]], x[2][2], mode)
        /\ x[1].value = Spent(of[x[2][1]], x[2][2], mode)}

LEMMA ListsPaired ==
  ASSUME NEW S, NEW r, Lists(r, S), NEW i
  PROVE  LET with == [j \in 1..Len(r) |-> <<i, r[j]>>]
         IN  Lists(with, {i} \X S) /\ Len(with) = Len(r)
<1> DEFINE n == Len(r)
           s == [j \in 1..n |-> <<i, r[j]>>]
           U == {i} \X S
<1>1. /\ r \in Seq(S) /\ \A x \in S : \E j \in 1..n : r[j] = x
      /\ \A j, k \in 1..n : r[j] = r[k] => j = k
  BY DEF Lists
<1>2. n \in Nat /\ \A j \in 1..n : r[j] \in S
  BY <1>1, ElementOfSeq
<1>3. \A j \in 1..n : s[j] = <<i, r[j]>> /\ s[j] \in U
  BY <1>2
<1>4. s \in Seq(U) /\ Len(s) = n
  <2>1. s = [j \in 1..n |-> s[j]]
    OBVIOUS
  <2> HIDE DEF s, U, n
  <2>2. s \in [1..n -> U]
    BY <1>3, <2>1
  <2>3. \A k \in Nat : \A g \in [1..k -> U] : g \in Seq(U) /\ Len(g) = k
    OBVIOUS
  <2> QED
    BY <1>2, <2>2, <2>3
<1>5. \A x \in U : \E j \in 1..n : s[j] = x
  <2> SUFFICES ASSUME NEW x \in U PROVE \E j \in 1..n : s[j] = x
    OBVIOUS
  <2>1. PICK y \in S : x = <<i, y>>
    OBVIOUS
  <2>2. PICK j \in 1..n : r[j] = y
    BY <1>1
  <2> QED
    BY <1>3, <2>1, <2>2
<1> HIDE DEF s, U
<1>6. \A j, k \in 1..n : s[j] = s[k] => j = k
  BY <1>1, <1>3
<1> HIDE DEF n
<1>7. Lists(s, U)
  BY <1>4, <1>5, <1>6 DEF Lists
<1> QED
  BY <1>4, <1>7 DEF s, U, n

LEMMA AllEntriesPlaced ==
  ASSUME NEW X, \A t \in X : IsTrace(t), NEW of \in Seq(X), NEW mode \in AggModes
  PROVE  /\ AllEntries(of, mode) \in Seq(EntrySet)
         /\ \E r : Lists(r, Pairs(of, mode)) /\ Matched(AllEntries(of, mode), r, PairEntry(of, mode))
<1> DEFINE n    == Len(of)
           P    == Pairs(of, mode)
           es   == [i \in 1..n |-> Entries(of[i], mode)]
           Good(i, r) == Lists(r, Shown(of[i], mode))
                            /\ Matched(Entries(of[i], mode), r, EntryOf(of[i], mode))
           rs   == [i \in 1..n |-> CHOOSE r : Good(i, r)]
           qs   == [i \in 1..n |-> [j \in 1..Len(rs[i]) |-> <<i, rs[i][j]>>]]
           part == [i \in 1..n |-> {i} \X Shown(of[i], mode)]
<1>1. n \in Nat /\ DOMAIN of = 1..n /\ \A i \in 1..n : IsTrace(of[i])
  BY LenProperties, ElementOfSeq
<1>2. AllEntries(of, mode) = FlattenSeq(es)
  BY <1>1 DEF AllEntries
<1>3. \A i \in 1..n : es[i] = Entries(of[i], mode) /\ es[i] \in Seq(EntrySet)
  BY <1>1, EntriesPlaced
<1>4. \A i \in 1..n : Good(i, rs[i])
  <2> SUFFICES ASSUME NEW i \in 1..n PROVE Good(i, rs[i])
    OBVIOUS
  <2>1. \E r : Good(i, r)
    BY <1>1, EntriesPlaced
  <2> QED
    BY <2>1
<1>5. \A i \in 1..n : part[i] = {i} \X Shown(of[i], mode)
  OBVIOUS
<1>6. \A i \in 1..n : qs[i] = [j \in 1..Len(rs[i]) |-> <<i, rs[i][j]>>]
  OBVIOUS
<1>7. es = [i \in 1..n |-> es[i]] /\ qs = [i \in 1..n |-> qs[i]] /\ DOMAIN qs = 1..n
  OBVIOUS
<1>8. \A x : x \in P <=> \E i \in 1..n : x \in part[i]
  BY <1>1, <1>5 DEF Pairs
<1>9. \A i \in 1..n : \A y \in Shown(of[i], mode) : <<i, y>> \in P
  BY <1>5, <1>8
<1> HIDE DEF es, rs, qs, part, P, n
<1>10. \A i, j \in 1..n : i # j => part[i] \cap part[j] = {}
  BY <1>5
<1>11. ASSUME NEW i \in 1..n
       PROVE  Lists(qs[i], part[i]) /\ Matched(es[i], qs[i], PairEntry(of, mode)) /\ qs[i] \in Seq(P)
  <2> DEFINE r == rs[i]
             S == Shown(of[i], mode)
             q == [j \in 1..Len(r) |-> <<i, r[j]>>]
  <2>1. Lists(r, S) /\ Matched(es[i], r, EntryOf(of[i], mode))
    BY <1>3, <1>4
  <2>2. qs[i] = q
    BY <1>6
  <2> HIDE DEF S, r
  <2>3. Lists(q, {i} \X S) /\ Len(q) = Len(r)
    BY <2>1, ListsPaired
  <2>4. \A j \in 1..Len(r) : q[j] = <<i, r[j]>>
    OBVIOUS
  <2>5. Len(es[i]) = Len(r) /\ \A j \in 1..Len(r) : <<es[i][j], r[j]>> \in EntryOf(of[i], mode)
    BY <2>1 DEF Matched
  <2>6. \A j \in 1..Len(r) : r[j] \in S
    BY <2>1, ElementOfSeq DEF Lists
  <2>7. \A j \in 1..Len(r) : <<es[i][j], q[j]>> \in PairEntry(of, mode)
    <3> SUFFICES ASSUME NEW j \in 1..Len(r) PROVE <<es[i][j], q[j]>> \in PairEntry(of, mode)
      OBVIOUS
    <3>1. q[j] \in P /\ q[j] = <<i, r[j]>>
      BY <1>9, <2>4, <2>6 DEF S
    <3>2. /\ es[i][j] \in EntrySet /\ es[i][j].label = LabelIn(of[i], r[j], mode)
          /\ es[i][j].value = Spent(of[i], r[j], mode)
      BY <2>5 DEF EntryOf
    <3> HIDE DEF q
    <3> QED
      BY <3>1, <3>2 DEF PairEntry, P
  <2> HIDE DEF q
  <2>8. Matched(es[i], q, PairEntry(of, mode))
    BY <2>3, <2>5, <2>7 DEF Matched
  <2>9. {i} \X S = part[i]
    BY <1>5 DEF S
  <2>10. q \in Seq(P)
    <3>1. q \in Seq(part[i]) /\ part[i] \subseteq P
      BY <1>8, <2>3, <2>9 DEF Lists
    <3> QED
      BY <3>1, SeqMonotonic
  <2> QED
    BY <2>2, <2>3, <2>8, <2>9, <2>10
<1>12. es \in [1..n -> Seq(EntrySet)] /\ qs \in [1..n -> Seq(P)]
  BY <1>3, <1>7, <1>11
<1> DEFINE R == PairEntry(of, mode)
<1>13. \A i \in 1..n : Matched(es[i], qs[i], R)
  BY <1>11
<1> HIDE DEF R
<1>14. FlattenSeq(es) \in Seq(EntrySet) /\ Matched(FlattenSeq(es), FlattenSeq(qs), R)
  BY ONLY <1>1, <1>12, <1>13, FlattenMatched
<1>15. \A i \in 1..n : Lists(qs[i], part[i])
  BY <1>11
<1>16. Lists(FlattenSeq(qs), P)
  BY <1>1, <1>7, <1>8, <1>10, <1>15, FlattenLists
<1> QED
  BY <1>2, <1>14, <1>16 DEF P, R

-----------------------------------------------------------------------------
(* A sequence of values, each made of the one before it, exists.           *)
Runs(n, X, x, B) ==
    \E f \in [0..n -> X] : f[0] = x /\ \A k \in 1..n : f[k] = B[<<k, f[k - 1]>>]

LEMMA RunsExists ==
  ASSUME NEW n \in Nat, NEW X, NEW x \in X, NEW B \in [(1..n) \X X -> X]
  PROVE  Runs(n, X, x, B)
<1> DEFINE G(m) == \E f \in [0..m -> X] : f[0] = x /\ \A k \in 1..m : f[k] = B[<<k, f[k - 1]>>]
           T == {m \in 0..n : G(m)}
<1>1. 0 \in T
  <2> DEFINE f == [k \in 0..0 |-> x]
  <2>1. f \in [0..0 -> X] /\ f[0] = x /\ \A k \in 1..0 : f[k] = B[<<k, f[k - 1]>>]
    OBVIOUS
  <2> HIDE DEF f
  <2>2. G(0)
    BY <2>1
  <2> HIDE DEF G
  <2> QED
    BY <2>2
<1>2. ASSUME NEW m \in 1..n, m - 1 \in T PROVE m \in T
  <2>1. PICK f \in [0..(m - 1) -> X] :
            f[0] = x /\ \A k \in 1..(m - 1) : f[k] = B[<<k, f[k - 1]>>]
    BY <1>2
  <2> DEFINE h == [k \in 0..m |-> IF k = m THEN B[<<m, f[m - 1]>>] ELSE f[k]]
  <2>2. m - 1 \in 0..(m - 1) /\ f[m - 1] \in X
    BY <2>1
  <2>3. B[<<m, f[m - 1]>>] \in X
    BY <2>2
  <2>4. h \in [0..m -> X]
    <3>1. \A k \in 0..m : k = m \/ k \in 0..(m - 1)
      OBVIOUS
    <3> QED
      BY <2>3, <3>1
  <2>5. h[m] = B[<<m, f[m - 1]>>] /\ \A k \in 0..(m - 1) : h[k] = f[k]
    OBVIOUS
  <2> HIDE DEF h, T
  <2>6. h[0] = x
    BY <2>1, <2>5
  <2>7. \A k \in 1..m : h[k] = B[<<k, h[k - 1]>>]
    <3> SUFFICES ASSUME NEW k \in 1..m PROVE h[k] = B[<<k, h[k - 1]>>]
      OBVIOUS
    <3>1. k - 1 \in 0..(m - 1) /\ h[k - 1] = f[k - 1]
      BY <2>5
    <3>2. k = m \/ (k \in 1..(m - 1) /\ k \in 0..(m - 1))
      OBVIOUS
    <3> QED
      BY <2>1, <2>5, <3>1, <3>2
  <2>8. G(m)
    BY <2>4, <2>6, <2>7
  <2> HIDE DEF G
  <2> QED
    BY <2>8 DEF T
<1> HIDE DEF T
<1>3. n \in T
  <2>1. \A k \in 1..n : k - 1 \in T => k \in T
    BY <1>2
  <2>2. \A k \in 0..n : k \in T
    BY <1>1, <2>1, NumbersUpTo
  <2> QED
    BY <2>2
<1> QED
  BY <1>3 DEF T, Runs

Items == UNION {[L -> Nat] : L \in SUBSET Seq(STRING)}

LEMMA UpIs ==
  ASSUME NEW items \in Items, NEW e \in EntrySet
  PROVE  /\ Up(items, e) \in Items /\ DOMAIN Up(items, e) = DOMAIN items \cup {e.label}
         /\ \A l \in DOMAIN items : items[l] \in Nat /\ (l # e.label => Up(items, e)[l] = items[l])
         /\ e.label \in DOMAIN items =>
                Up(items, e)[e.label] = IF items[e.label] + e.value = 0 THEN 1
                                        ELSE items[e.label] + e.value
         /\ e.label \notin DOMAIN items =>
                Up(items, e)[e.label] = IF e.value = 0 THEN 1 ELSE e.value
<1>1. e.label \in Seq(STRING) /\ e.value \in Nat
  BY DEF EntrySet
<1>2. PICK L \in SUBSET Seq(STRING) : items \in [L -> Nat]
  BY DEF Items
<1> DEFINE M   == L \cup {e.label}
           was == IF e.label \in L THEN items[e.label] ELSE 0
           new == IF was + e.value = 0 THEN 1 ELSE was + e.value
           u   == [l \in M |-> IF l # e.label THEN items[l] ELSE new]
<1>3. Up(items, e) = u
  BY <1>2 DEF Up
<1>4. was \in Nat
  BY <1>2
<1>5. new \in Nat
  <2> HIDE DEF was
  <2> QED
    BY <1>1, <1>4
<1>6. e.label \in M
  OBVIOUS
<1>7. u[e.label] = new
  BY <1>6
<1>8. \A l \in L : l # e.label => u[l] = items[l]
  OBVIOUS
<1>9. M \in SUBSET Seq(STRING)
  BY <1>1
<1> HIDE DEF new
<1>10. u \in [M -> Nat]
  BY <1>2, <1>5
<1>11. u \in Items /\ DOMAIN u = M
  <2> HIDE DEF u, M
  <2> QED
    BY <1>9, <1>10 DEF Items
<1>12. e.label \in L => new = IF items[e.label] + e.value = 0 THEN 1 ELSE items[e.label] + e.value
  BY DEF new
<1>13. e.label \notin L => new = IF e.value = 0 THEN 1 ELSE e.value
  BY <1>1 DEF new
<1> HIDE DEF u
<1> QED
  BY <1>2, <1>3, <1>7, <1>8, <1>11, <1>12, <1>13

Values(es) == [k \in 1..Len(es) |-> es[k].value]

OfLabel(es, l, k) == {j \in 1..k : es[j].label = l}

Adds(items, es, k) ==
    /\ items \in Items
    /\ \A l : l \in DOMAIN items <=> \E j \in 1..k : es[j].label = l
    /\ \A l \in DOMAIN items : items[l] > 0 /\ items[l] - Total(OfLabel(es, l, k), Values(es)) \in 0..1

LEMMA AddsOne ==
  ASSUME NEW es \in Seq(EntrySet), NEW k \in 1..Len(es), NEW items, Adds(items, es, k - 1)
  PROVE  Adds(Up(items, es[k]), es, k)
<1> DEFINE v == Values(es)
           e == es[k]
           new == Up(items, e)
           Was(l) == OfLabel(es, l, k - 1)
           Now(l)  == OfLabel(es, l, k)
<1>1. Len(es) \in Nat /\ \A j \in 1..Len(es) : es[j] \in EntrySet
  BY ElementOfSeq
<1>2. k \in Nat /\ \A j \in 1..k : j \in 1..Len(es) /\ (j = k \/ j \in 1..(k - 1))
  BY <1>1
<1>3. \A j \in 1..Len(es) : v[j] = es[j].value /\ v[j] \in Nat
  BY <1>1 DEF Values, EntrySet
<1>4. e \in EntrySet /\ e.value \in Nat /\ v[k] = e.value
  BY <1>1, <1>3 DEF EntrySet
<1>5. \A l : Now(l) = IF l = e.label THEN Was(l) \cup {k} ELSE Was(l)
  <2> SUFFICES ASSUME NEW l PROVE Now(l) = IF l = e.label THEN Was(l) \cup {k} ELSE Was(l)
    OBVIOUS
  <2>1. \A j : j \in Now(l) <=> j \in Was(l) \/ (j = k /\ l = e.label)
    BY <1>2 DEF OfLabel
  <2> QED
    BY <2>1
<1>6. \A l : IsFiniteSet(Was(l)) /\ Was(l) \in SUBSET (1..Len(es)) /\ k \notin Was(l)
  <2> SUFFICES ASSUME NEW l
               PROVE  IsFiniteSet(Was(l)) /\ Was(l) \in SUBSET (1..Len(es)) /\ k \notin Was(l)
    OBVIOUS
  <2>1. Was(l) \in SUBSET (1..Len(es)) /\ k \notin Was(l)
    BY <1>2 DEF OfLabel
  <2>2. IsFiniteSet(1..Len(es))
    BY <1>1, FS_Interval
  <2> QED
    BY <2>1, <2>2, FS_Subset
<1> HIDE DEF v, Was, Now
<1>7. Total(Now(e.label), v) = Total(Was(e.label), v) + e.value
  <2> DEFINE S == Was(e.label)
  <2>1. IsFiniteSet(S) /\ k \notin S
    BY <1>6
  <2>2. \A j \in S \cup {k} : v[j] \in Nat
    BY <1>3, <1>6
  <2> HIDE DEF S
  <2>3. Total(S \cup {k}, v) = Total(S, v) + v[k]
    BY ONLY <2>1, <2>2, TotalAdd
  <2> QED
    BY <1>4, <1>5, <2>3 DEF S
<1>8. Total(Was(e.label), v) \in Nat
  <2> DEFINE S == Was(e.label)
  <2>1. IsFiniteSet(S) /\ \A j \in S : v[j] \in Nat
    BY <1>3, <1>6
  <2> HIDE DEF S
  <2>2. Total(S, v) \in Nat
    BY ONLY <2>1, TotalIsNat
  <2> QED
    BY <2>2 DEF S
<1>9. /\ items \in Items
      /\ \A l : l \in DOMAIN items <=> \E j \in 1..(k - 1) : es[j].label = l
      /\ \A l \in DOMAIN items : items[l] > 0 /\ items[l] - Total(Was(l), v) \in 0..1
  BY DEF Adds, Was, v
<1>10. /\ new \in Items /\ DOMAIN new = DOMAIN items \cup {e.label}
       /\ \A l \in DOMAIN items : items[l] \in Nat /\ (l # e.label => new[l] = items[l])
       /\ e.label \in DOMAIN items =>
                new[e.label] = IF items[e.label] + e.value = 0 THEN 1 ELSE items[e.label] + e.value
       /\ e.label \notin DOMAIN items => new[e.label] = IF e.value = 0 THEN 1 ELSE e.value
  BY <1>4, <1>9, UpIs
<1>11. \A l : l \in DOMAIN new <=> \E j \in 1..k : es[j].label = l
  <2>1. k \in 1..k /\ \A j \in 1..(k - 1) : j \in 1..k
    BY <1>2
  <2> QED
    BY <1>2, <1>9, <1>10, <2>1
<1>12. ASSUME NEW l \in DOMAIN new
       PROVE  new[l] > 0 /\ new[l] - Total(Now(l), v) \in 0..1
  <2>1. CASE l # e.label
    BY <1>5, <1>9, <1>10, <2>1
  <2>2. CASE l = e.label /\ l \in DOMAIN items
    <3> DEFINE T == Total(Was(l), v)
               i == items[l]
    <3>1. T \in Nat /\ i \in Nat /\ i > 0 /\ i - T \in 0..1
      BY <1>8, <1>9, <1>10, <2>2
    <3>2. new[l] = IF i + e.value = 0 THEN 1 ELSE i + e.value
      BY <1>10, <2>2
    <3>3. Total(Now(l), v) = T + e.value
      BY <1>7, <2>2
    <3> HIDE DEF T, i
    <3> QED
      BY <1>4, <3>1, <3>2, <3>3
  <2>3. CASE l = e.label /\ l \notin DOMAIN items
    <3>1. \A j \in 1..(k - 1) : es[j].label # l
      BY <1>9, <2>3
    <3>2. Was(l) = {}
      BY <3>1 DEF Was, OfLabel
    <3>3. Total({}, v) = 0
      BY TotalOfNone
    <3>4. Total(Now(l), v) = 0 + e.value
      BY <1>7, <2>3, <3>2, <3>3
    <3>5. new[l] = IF e.value = 0 THEN 1 ELSE e.value
      BY <1>10, <2>3
    <3> QED
      BY <1>4, <3>4, <3>5
  <2> QED
    BY <2>1, <2>2, <2>3
<1> HIDE DEF new
<1>13. Adds(new, es, k)
  BY <1>10, <1>11, <1>12 DEF Adds, Now, v
<1> QED
  BY <1>13 DEF new

LEMMA AggregateIs ==
  ASSUME NEW of, NEW mode, AllEntries(of, mode) \in Seq(EntrySet)
  PROVE  Adds(aggregate(of, mode), AllEntries(of, mode), Len(AllEntries(of, mode)))
<1> DEFINE es == AllEntries(of, mode)
           n  == Len(es)
           none == [l \in {} |-> 0]
           F(it) == it = [k \in 0..n |-> IF k = 0 THEN none ELSE Up(it[k - 1], es[k])]
           c  == CHOOSE it : F(it)
           B  == [x \in (1..n) \X Items |-> Up(x[2], es[x[1]])]
<1>1. aggregate(of, mode) = c[n]
  BY DEF aggregate
<1> HIDE DEF es
<1>2. n \in Nat /\ \A k \in 1..n : es[k] \in EntrySet
  BY ElementOfSeq DEF es
<1>3. none \in Items /\ DOMAIN none = {}
  <2>1. none \in [{} -> Nat] /\ {} \in SUBSET Seq(STRING)
    OBVIOUS
  <2> HIDE DEF none
  <2> QED
    BY <2>1 DEF Items
<1> HIDE DEF none
<1>4. B \in [(1..n) \X Items -> Items]
  <2>1. \A x \in (1..n) \X Items : Up(x[2], es[x[1]]) \in Items
    BY <1>2, UpIs
  <2> QED
    BY <2>1
<1>5. \A k \in 1..n, i \in Items : B[<<k, i>>] = Up(i, es[k])
  OBVIOUS
<1> HIDE DEF B
<1>6. PICK f \in [0..n -> Items] : f[0] = none /\ \A k \in 1..n : f[k] = B[<<k, f[k - 1]>>]
  <2> HIDE DEF F, n
  <2>1. Runs(n, Items, none, B)
    BY <1>2, <1>3, <1>4, RunsExists
  <2> QED
    BY <2>1 DEF Runs
<1>7. F(f)
  <2> DEFINE g == [k \in 0..n |-> IF k = 0 THEN none ELSE Up(f[k - 1], es[k])]
  <2>1. \A k \in 0..n : g[k] = f[k]
    <3> SUFFICES ASSUME NEW k \in 0..n PROVE g[k] = f[k]
      OBVIOUS
    <3>1. CASE k = 0
      BY <1>6, <3>1
    <3>2. CASE k # 0
      <4>1. k \in 1..n /\ k - 1 \in 0..n
        BY <1>2, <3>2
      <4>2. f[k - 1] \in Items
        BY <4>1
      <4>3. g[k] = Up(f[k - 1], es[k])
        BY <3>2
      <4> HIDE DEF g
      <4> QED
        BY <1>5, <1>6, <4>1, <4>2, <4>3
    <3> QED
      BY <3>1, <3>2
  <2>2. g = [k \in 0..n |-> g[k]] /\ f = [k \in 0..n |-> f[k]]
    OBVIOUS
  <2> HIDE DEF g
  <2>3. f = g
    BY <2>1, <2>2
  <2> QED
    BY <2>3 DEF g
<1>8. F(c)
  <2> HIDE DEF F
  <2> QED
    BY <1>7
<1> HIDE DEF c
<1>9. c[0] = none /\ \A k \in 1..n : c[k] = Up(c[k - 1], es[k])
  <2>1. \A k \in 0..n : c[k] = IF k = 0 THEN none ELSE Up(c[k - 1], es[k])
    BY <1>8
  <2>2. 0 \in 0..n /\ \A k \in 1..n : k \in 0..n /\ k # 0
    BY <1>2
  <2> QED
    BY <2>1, <2>2
<1> HIDE DEF F
<1> DEFINE T == {k \in 0..n : Adds(c[k], es, k)}
<1>10. 0 \in T
  <2>1. Adds(c[0], es, 0)
    <3>1. \A l : ~\E j \in 1..0 : es[j].label = l
      OBVIOUS
    <3> QED
      BY <1>3, <1>9, <3>1 DEF Adds
  <2> QED
    BY <1>2, <2>1
<1>11. \A k \in 1..n : k - 1 \in T => k \in T
  <2> SUFFICES ASSUME NEW k \in 1..n, k - 1 \in T PROVE k \in T
    OBVIOUS
  <2>1. Adds(c[k - 1], es, k - 1) /\ es \in Seq(EntrySet)
    BY DEF es
  <2>2. Adds(Up(c[k - 1], es[k]), es, k)
    BY <2>1, AddsOne
  <2> QED
    BY <1>2, <1>9, <2>2
<1> HIDE DEF T
<1>12. n \in T
  <2>1. \A k \in 0..n : k \in T
    BY <1>2, <1>10, <1>11, NumbersUpTo
  <2> QED
    BY <1>2, <2>1
<1> QED
  BY <1>1, <1>12 DEF T, es

-----------------------------------------------------------------------------
LEMMA SelectedIs ==
  ASSUME NEW X, NEW traces \in Seq(X), NEW sel, sel = <<>> \/ \E id : sel = <<id>>
  PROVE  Selected(traces, sel) \in Seq(X)
<1>1. CASE sel = <<>>
  BY <1>1 DEF Selected
<1>2. ASSUME NEW id, sel = <<id>> PROVE Selected(traces, sel) \in Seq(X)
  <2> DEFINE K(i) == {t \in Range(traces) : t[<<>>].id = sel[i]}
             s == [i \in 1..1 |-> Only(traces, K(i))]
  <2>1. sel # <<>> /\ DOMAIN sel = 1..1
    BY <1>2
  <2>2. Selected(traces, sel) = FlattenSeq(s)
    BY <2>1 DEF Selected
  <2>3. \A i \in 1..1 : Only(traces, K(i)) \in Seq(X)
    <3> HIDE DEF K
    <3> QED
      BY OnlyIs
  <2>4. s \in [1..1 -> Seq(X)]
    <3> HIDE DEF K
    <3> QED
      BY <2>3
  <2> HIDE DEF s, K
  <2>5. PICK fl \in [0..1 -> Seq(X)] : FlattenSeq(s) = fl[1]
    BY <2>4, FlattenIs
  <2> QED
    BY <2>2, <2>5
<1> QED
  BY <1>1, <1>2

SpentOn(of, mode, P) == SumFunction([x \in P |-> Spent(of[x[1]], x[2], mode)])

WithLabel(of, mode, l) == {x \in Pairs(of, mode) : LabelIn(of[x[1]], x[2], mode) = l}

(* The sum over the pairs of a label is that over its entries.             *)
LEMMA SpentOnEntries ==
  ASSUME NEW of, NEW mode, NEW es \in Seq(EntrySet),
         NEW r, Lists(r, Pairs(of, mode)), Matched(es, r, PairEntry(of, mode)), NEW l
  PROVE  SpentOn(of, mode, WithLabel(of, mode, l)) = Total(OfLabel(es, l, Len(es)), Values(es))
<1> DEFINE n == Len(es)
           P == Pairs(of, mode)
           W == WithLabel(of, mode, l)
           S == OfLabel(es, l, n)
           v == Values(es)
           w == [x \in W |-> Spent(of[x[1]], x[2], mode)]
<1>1. n \in Nat /\ \A j \in 1..n : es[j] \in EntrySet
  BY ElementOfSeq
<1>2. /\ r \in Seq(P) /\ \A x \in P : \E i \in 1..n : r[i] = x
      /\ \A i, j \in 1..n : r[i] = r[j] => i = j
  BY DEF Lists, Matched
<1>3. \A j \in 1..n : /\ r[j] \in P /\ v[j] = es[j].value /\ v[j] \in Nat
                      /\ es[j].label = LabelIn(of[r[j][1]], r[j][2], mode)
                      /\ es[j].value = Spent(of[r[j][1]], r[j][2], mode)
  BY <1>1 DEF Matched, PairEntry, Values, EntrySet
<1>4. S \in SUBSET (1..n) /\ \A j : j \in S <=> j \in 1..n /\ es[j].label = l
  BY DEF OfLabel
<1>5. IsFiniteSet(S)
  <2>1. IsFiniteSet(1..n)
    BY <1>1, FS_Interval
  <2> QED
    BY <1>4, <2>1, FS_Subset
<1>6. \A x : x \in W <=> x \in P /\ LabelIn(of[x[1]], x[2], mode) = l
  BY DEF WithLabel
<1>7. \A x \in W : w[x] = Spent(of[x[1]], x[2], mode)
  OBVIOUS
<1>8. DOMAIN w = W /\ w = [x \in W |-> w[x]] /\ SpentOn(of, mode, W) = SumFunction(w)
  BY DEF SpentOn
<1> HIDE DEF S, W, w, v, n, P
<1>9. \A x : x \in W <=> \E j \in S : x = r[j]
  <2>1. ASSUME NEW x \in W PROVE \E j \in S : x = r[j]
    <3>1. x \in P /\ LabelIn(of[x[1]], x[2], mode) = l
      BY <1>6
    <3>2. PICK j \in 1..n : r[j] = x
      BY <1>2, <3>1
    <3>3. es[j].label = l
      BY <1>3, <3>1, <3>2
    <3> QED
      BY <1>4, <3>2, <3>3
  <2>2. ASSUME NEW j \in S PROVE r[j] \in W
    <3>1. j \in 1..n /\ es[j].label = l
      BY <1>4
    <3>2. r[j] \in P /\ LabelIn(of[r[j][1]], r[j][2], mode) = l
      BY <1>3, <3>1
    <3> QED
      BY <1>6, <3>2
  <2> QED
    BY <2>1, <2>2
<1>10. W = {r[j] : j \in S}
  BY <1>9
<1>11. \A j \in S : v[j] \in Nat /\ w[r[j]] = v[j]
  BY <1>3, <1>4, <1>7, <1>9
<1>12. \A i, j \in S : r[i] = r[j] => i = j
  BY <1>2, <1>4
<1>13. Total(W, w) = Total(S, v) /\ IsFiniteSet(W)
  <2>1. \A j \in S : v[j] \in Nat
    BY <1>11
  <2>2. \A j \in S : w[r[j]] = v[j]
    BY <1>11
  <2>3. Total({r[j] : j \in S}, w) = Total(S, v) /\ IsFiniteSet({r[j] : j \in S})
    BY ONLY <1>5, <1>12, <2>1, <2>2, TotalMoved, SMTT(30)
  <2> QED
    BY <1>10, <2>3
<1>14. w \in [W -> Nat]
  BY <1>8, <1>9, <1>11
<1>15. SumFunction(w) = Total(W, w)
  BY <1>13, <1>14, SumIsTotal
<1> QED
  BY <1>8, <1>13, <1>15 DEF S, v, W, n

AggregateFor(of, mode, items) ==
    /\ DOMAIN items = {LabelIn(of[x[1]], x[2], mode) : x \in Pairs(of, mode)}
    /\ \A l \in DOMAIN items :
        items[l] > 0 /\ items[l] - SpentOn(of, mode, WithLabel(of, mode, l)) \in 0..1

LEMMA AggregateCounts ==
  ASSUME NEW X, \A t \in X : IsTrace(t), NEW of \in Seq(X), NEW mode \in AggModes
  PROVE  AggregateFor(of, mode, aggregate(of, mode))
<1> DEFINE es    == AllEntries(of, mode)
           items == aggregate(of, mode)
           P     == Pairs(of, mode)
           n     == Len(es)
<1>1. es \in Seq(EntrySet)
  BY AllEntriesPlaced
<1>2. PICK r : Lists(r, P) /\ Matched(es, r, PairEntry(of, mode))
  BY AllEntriesPlaced
<1>3. Adds(items, es, n)
  BY <1>1, AggregateIs
<1> HIDE DEF es, items
<1>4. /\ \A l : l \in DOMAIN items <=> \E j \in 1..n : es[j].label = l
      /\ \A l \in DOMAIN items : items[l] > 0 /\ items[l] - Total(OfLabel(es, l, n), Values(es)) \in 0..1
  BY <1>3 DEF Adds
<1>5. \A j \in 1..n : r[j] \in P /\ es[j].label = LabelIn(of[r[j][1]], r[j][2], mode)
  BY <1>2 DEF Matched, PairEntry
<1>6. \A x \in P : \E j \in 1..n : r[j] = x
  BY <1>2 DEF Lists, Matched
<1>7. \A l : l \in DOMAIN items <=> \E x \in P : LabelIn(of[x[1]], x[2], mode) = l
  BY <1>4, <1>5, <1>6
<1>8. DOMAIN items = {LabelIn(of[x[1]], x[2], mode) : x \in P}
  BY <1>7
<1>9. \A l \in DOMAIN items :
        items[l] > 0 /\ items[l] - SpentOn(of, mode, WithLabel(of, mode, l)) \in 0..1
  <2> SUFFICES ASSUME NEW l \in DOMAIN items
               PROVE  items[l] > 0 /\ items[l] - SpentOn(of, mode, WithLabel(of, mode, l)) \in 0..1
    OBVIOUS
  <2>1. SpentOn(of, mode, WithLabel(of, mode, l)) = Total(OfLabel(es, l, n), Values(es))
    BY <1>1, <1>2, SpentOnEntries
  <2> QED
    BY <1>4, <2>1
<1> QED
  BY <1>8, <1>9 DEF AggregateFor, items

(* The aggregate has a label for each span it speaks of, and each label    *)
(* the time of its spans, or one more, and never zero (aggregate, up).     *)
THEOREM AggregateLosesNothing == Spec => []AggregateCountsAll
<1>1. Init => AggregateCountsAll
  BY DEF Init, AggregateCountsAll, Answered
<1>2. InputOK /\ AggregateCountsAll /\ [Next]_vars => AggregateCountsAll'
  <2> SUFFICES ASSUME InputOK, AggregateCountsAll, [Next]_vars PROVE AggregateCountsAll'
    OBVIOUS
  <2>1. CASE serveAggregate
    <3> DEFINE X == Range(input.of)
    <3>1. input.kind = "traces"
      BY <2>1 DEF serveAggregate, Request
    <3>2. input.of \in TreeInputs
      BY <3>1 DEF InputOK
    <3>3. input.of \in Seq(X) /\ \A t \in X : IsTrace(t)
      BY <3>2, TreesAssumption
    <3> HIDE DEF X
    <3>4. PICK view \in AggModes \cup {"?"}, sel \in {<<>>} \cup {<<t[<<>>].id>> : t \in X} :
            output' = <<"aggregate", [of |-> Selected(input.of, sel), mode |-> parseAggMode(view),
                                      items |-> aggregate(Selected(input.of, sel), parseAggMode(view))]>>
      BY <2>1 DEF serveAggregate, X
    <3> DEFINE of   == Selected(input.of, sel)
               mode == parseAggMode(view)
               items == aggregate(of, mode)
    <3>5. mode \in AggModes
      BY DEF parseAggMode, AggModes
    <3>6. of \in Seq(X)
      BY <3>3, SelectedIs
    <3>7. output'[2].of = of /\ output'[2].mode = mode /\ output'[2].items = items
      BY <3>4
    <3> HIDE DEF of, mode
    <3>8. AggregateFor(of, mode, items)
      BY <3>3, <3>5, <3>6, AggregateCounts
    <3>9. AggregateFor(output'[2].of, output'[2].mode, output'[2].items)
      BY <3>7, <3>8, Zenon
    <3> QED
      BY <3>9, Zenon
      DEF AggregateCountsAll, AggregateFor, Pairs, Shown, LabelIn, Spent, SpentOn, WithLabel
  <2>2. CASE ReadSpans \/ ReadRows \/ serveTrace \/ serveDashboardData
    <3>1. output' # <<>> /\ output'[1] # "aggregate"
      BY <2>2 DEF ReadSpans, ReadRows, serveTrace, serveDashboardData
    <3> QED
      BY <3>1 DEF AggregateCountsAll, Answered
  <2>3. CASE UNCHANGED vars
    <3>1. input' = input /\ output' = output
      BY <2>3 DEF vars
    <3>2. Answered("aggregate") => AggregateFor(output[2].of, output[2].mode, output[2].items)
      BY Zenon
      DEF AggregateCountsAll, AggregateFor, Pairs, Shown, LabelIn, Spent, SpentOn, WithLabel
    <3>3. Answered("aggregate")' => AggregateFor(output'[2].of, output'[2].mode, output'[2].items)
      BY <3>1, <3>2 DEF Answered
    <3> QED
      BY <3>3, Zenon
      DEF AggregateCountsAll, AggregateFor, Pairs, Shown, LabelIn, Spent, SpentOn, WithLabel
  <2> QED
    BY <2>1, <2>2, <2>3 DEF Next
<1> QED
  BY <1>1, <1>2, InputStays, PTL DEF Spec

-----------------------------------------------------------------------------
LEMMA FlattenRange ==
  ASSUME NEW n \in Nat, NEW X, NEW s \in [1..n -> Seq(X)]
  PROVE  /\ FlattenSeq(s) \in Seq(X)
         /\ \A x : x \in Range(FlattenSeq(s)) <=> \E i \in 1..n : x \in Range(s[i])
<1>1. PICK fl \in [0..n -> Seq(X)] : IsConcat(fl, n, s) /\ FlattenSeq(s) = fl[n]
  BY FlattenIs
<1> DEFINE Is(k) == \A x : x \in Range(fl[k]) <=> \E i \in 1..k : x \in Range(s[i])
           T == {k \in 0..n : Is(k)}
<1>2. 0 \in T
  <2>1. fl[0] = <<>>
    BY <1>1 DEF IsConcat
  <2>2. Is(0)
    BY <2>1 DEF Range
  <2> HIDE DEF Is
  <2> QED
    BY <2>2
<1>3. ASSUME NEW k \in 1..n, k - 1 \in T PROVE k \in T
  <2>1. fl[k] = fl[k - 1] \o s[k] /\ fl[k - 1] \in Seq(X) /\ s[k] \in Seq(X)
    <3>1. k - 1 \in 0..n
      OBVIOUS
    <3> QED
      BY <1>1, <3>1 DEF IsConcat
  <2>2. Range(fl[k]) = Range(fl[k - 1]) \cup Range(s[k])
    BY <2>1, RangeConcatenation
  <2>3. \A x : x \in Range(fl[k - 1]) <=> \E i \in 1..(k - 1) : x \in Range(s[i])
    BY <1>3
  <2>4. k \in 1..k /\ \A i \in 1..k : i = k \/ i \in 1..(k - 1)
    OBVIOUS
  <2>5. \A i \in 1..(k - 1) : i \in 1..k
    OBVIOUS
  <2>6. Is(k)
    BY <2>2, <2>3, <2>4, <2>5
  <2> HIDE DEF Is
  <2> QED
    BY <2>6
<1> HIDE DEF T
<1>4. n \in T
  <2>1. \A k \in 1..n : k - 1 \in T => k \in T
    BY <1>3
  <2>2. \A k \in 0..n : k \in T
    BY <1>2, <2>1, NumbersUpTo
  <2> QED
    BY <2>2
<1>5. fl[n] \in Seq(X)
  OBVIOUS
<1> QED
  BY <1>1, <1>4, <1>5 DEF T

(* The spans that the timeline of a place comes to: those whose ancestors  *)
(* from there on all have a bar.                                           *)
Reached(t, n) ==
    {q \in Under(t, n) : \A p \in Under(t, n) : AtOrBelow(p, q) /\ p # q => Bars(t[p]) # <<>>}

LEMMA BelowIsOrder ==
  ASSUME NEW t, IsTrace(t), NEW p \in DOMAIN t, NEW q \in DOMAIN t, NEW r \in DOMAIN t
  PROVE  /\ AtOrBelow(p, q) /\ AtOrBelow(q, r) => AtOrBelow(p, r)
         /\ AtOrBelow(p, q) /\ AtOrBelow(q, p) => p = q
<1>1. /\ p \in Seq(Nat \ {0}) /\ Len(p) \in Nat /\ q \in Seq(Nat \ {0}) /\ Len(q) \in Nat
      /\ r \in Seq(Nat \ {0}) /\ Len(r) \in Nat
  BY PlacesAre
<1>2. AtOrBelow(p, q) /\ AtOrBelow(q, r) => AtOrBelow(p, r)
  BY <1>1 DEF AtOrBelow
<1>3. ASSUME AtOrBelow(p, q), AtOrBelow(q, p) PROVE p = q
  <2>1. Len(p) = Len(q) /\ \A i \in 1..Len(p) : p[i] = q[i]
    BY <1>1, <1>3 DEF AtOrBelow
  <2> QED
    BY <1>1, <2>1, SeqEqual
<1> QED
  BY <1>2, <1>3

LEMMA ReachedSplit ==
  ASSUME NEW t, IsTrace(t), NEW p \in DOMAIN t
  PROVE  /\ Reached(t, p) \in SUBSET DOMAIN t
         /\ \A x : x \in Reached(t, p) <=>
                x = p \/ (Bars(t[p]) # <<>> /\ \E i \in 1..t[p].sub : x \in Reached(t, Append(p, i)))
<1> DEFINE n == t[p].sub
           kid(i) == Append(p, i)
<1>1. /\ p \in Under(t, p) /\ Under(t, p) \in SUBSET DOMAIN t
      /\ \A q : q \in Under(t, p) <=> q = p \/ \E i \in 1..n : q \in Under(t, kid(i))
      /\ \A i \in 1..n : p \notin Under(t, kid(i))
      /\ \A i, j \in 1..n : i # j => Under(t, kid(i)) \cap Under(t, kid(j)) = {}
  BY UnderSplit
<1>2. \A a \in DOMAIN t : \A q \in Under(t, a) : q \in DOMAIN t /\ AtOrBelow(a, q)
  BY DEF Under
<1>3. \A a, q \in DOMAIN t : AtOrBelow(a, q) => q \in Under(t, a)
  BY DEF Under
<1>4. \A i \in 1..n : kid(i) \in DOMAIN t
  BY PlacesAre
<1>5. p \in Reached(t, p)
  <2> SUFFICES ASSUME NEW r \in Under(t, p), AtOrBelow(r, p) PROVE r = p
    BY <1>1 DEF Reached
  <2> QED
    BY <1>2, BelowIsOrder
<1>6. ASSUME NEW x, NEW i \in 1..n, Bars(t[p]) # <<>>, x \in Reached(t, kid(i))
      PROVE  x \in Reached(t, p)
  <2>1. x \in Under(t, kid(i)) /\ x \in Under(t, p) /\ x \in DOMAIN t
    BY <1>1, <1>6 DEF Reached
  <2>2. ASSUME NEW r \in Under(t, p), AtOrBelow(r, x), r # x PROVE Bars(t[r]) # <<>>
    <3>1. CASE r = p
      BY <1>6, <3>1
    <3>2. CASE r # p
      <4>1. PICK j \in 1..n : r \in Under(t, kid(j))
        BY <1>1, <3>2
      <4>2. AtOrBelow(kid(j), r) /\ r \in DOMAIN t /\ kid(j) \in DOMAIN t
        BY <1>2, <1>4, <4>1
      <4>3. AtOrBelow(kid(j), x)
        BY <2>1, <2>2, <4>2, BelowIsOrder
      <4>4. x \in Under(t, kid(j))
        BY <1>3, <2>1, <4>2, <4>3
      <4>5. i = j
        BY <1>1, <2>1, <4>4
      <4> QED
        BY <1>6, <2>2, <4>1, <4>5 DEF Reached
    <3> QED
      BY <3>1, <3>2
  <2> QED
    BY <2>1, <2>2 DEF Reached
<1>7. ASSUME NEW x \in Reached(t, p), x # p
      PROVE  Bars(t[p]) # <<>> /\ \E i \in 1..n : x \in Reached(t, kid(i))
  <2>1. x \in Under(t, p) /\ \A r \in Under(t, p) : AtOrBelow(r, x) /\ r # x => Bars(t[r]) # <<>>
    BY DEF Reached
  <2>2. Bars(t[p]) # <<>>
    BY <1>1, <1>2, <1>7, <2>1
  <2>3. PICK i \in 1..n : x \in Under(t, kid(i))
    BY <1>1, <1>7, <2>1
  <2>4. \A r \in Under(t, kid(i)) : r \in Under(t, p)
    BY <1>1
  <2>5. x \in Reached(t, kid(i))
    BY <2>1, <2>3, <2>4 DEF Reached
  <2> QED
    BY <2>2, <2>5
<1>8. Reached(t, p) \in SUBSET DOMAIN t
  BY <1>1 DEF Reached
<1> QED
  BY <1>5, <1>6, <1>7, <1>8

(* The items a timeline that starts somewhere may have.                    *)
ItemAt(t, start, q) == Item(t[q], Len(q) - Len(start))

ItemsIn(t, start) == {ItemAt(t, start, q) : q \in DOMAIN t}

Lines(t, start) == [items : Seq(ItemsIn(t, start)), ok : BOOLEAN]

LineOf(t, start, p, subs) ==
    IF t[p].name = "" THEN Timeline(<<>>, FALSE)
    ELSE IF Bars(t[p]) = <<>> THEN Timeline(<<>>, TRUE)
    ELSE IF \E i \in DOMAIN subs : ~subs[i].ok THEN Timeline(<<>>, FALSE)
    ELSE Timeline(<<Item(t[p], Len(p) - Len(start))>>
                    \o FlattenSeq([i \in DOMAIN subs |-> subs[i].items]), TRUE)

(* What the timeline of a place is, given those of its sub-traces.         *)
LEMMA LineOfIs ==
  ASSUME NEW t, NEW start, NEW p \in DOMAIN t, NEW subs \in Seq(Lines(t, start))
  PROVE  /\ LineOf(t, start, p, subs) \in Lines(t, start)
         /\ LineOf(t, start, p, subs).ok <=>
                /\ t[p].name # ""
                /\ Bars(t[p]) # <<>> => \A i \in 1..Len(subs) : subs[i].ok
         /\ \A x : x \in Range(LineOf(t, start, p, subs).items) <=>
                /\ LineOf(t, start, p, subs).ok /\ Bars(t[p]) # <<>>
                /\ x = ItemAt(t, start, p) \/ \E i \in 1..Len(subs) : x \in Range(subs[i].items)
<1> DEFINE I == ItemsIn(t, start)
           n == Len(subs)
           s == [i \in 1..n |-> subs[i].items]
           it == ItemAt(t, start, p)
           f == FlattenSeq(s)
           line == LineOf(t, start, p, subs)
<1>1. n \in Nat /\ DOMAIN subs = 1..n /\ \A i \in 1..n : subs[i] \in Lines(t, start)
  BY LenProperties, ElementOfSeq
<1>2. \A i \in 1..n : subs[i].items \in Seq(I) /\ subs[i].ok \in BOOLEAN
  BY <1>1 DEF Lines
<1>3. s \in [1..n -> Seq(I)] /\ \A i \in 1..n : s[i] = subs[i].items
  BY <1>2
<1>4. it \in I
  BY DEF ItemsIn
<1>5. line = IF t[p].name = "" THEN Timeline(<<>>, FALSE)
             ELSE IF Bars(t[p]) = <<>> THEN Timeline(<<>>, TRUE)
             ELSE IF \E i \in 1..n : ~subs[i].ok THEN Timeline(<<>>, FALSE)
             ELSE Timeline(<<it>> \o f, TRUE)
  BY <1>1 DEF LineOf, ItemAt
<1> HIDE DEF s, it, I
<1>6. f \in Seq(I) /\ \A x : x \in Range(f) <=> \E i \in 1..n : x \in Range(s[i])
  BY <1>1, <1>3, FlattenRange
<1> HIDE DEF f, n, line
<1>7. <<it>> \in Seq(I) /\ <<it>> \o f \in Seq(I)
  BY <1>4, <1>6
<1>8. \A x : x \in Range(<<it>> \o f) <=> x = it \/ x \in Range(f)
  <2> DEFINE g == <<it>>
  <2>1. Len(g) = 1 /\ g[1] = it /\ 1 \in 1..1 /\ \A i \in 1..1 : i = 1
    OBVIOUS
  <2>2. g \in Seq(I)
    BY <1>7
  <2> HIDE DEF g
  <2>3. Range(g) = {g[i] : i \in 1..Len(g)}
    BY <2>2, RangeEquality
  <2>4. Range(g) = {it}
    BY <2>1, <2>3
  <2>5. Range(g \o f) = Range(g) \cup Range(f)
    BY ONLY <1>6, <2>2, RangeConcatenation
  <2>6. \A x : x \in Range(g \o f) <=> x = it \/ x \in Range(f)
    BY <2>4, <2>5
  <2> QED
    BY <2>6, Zenon DEF g
<1>9. <<>> \in Seq(I) /\ Range(<<>>) = {}
  BY DEF Range
<1>10. CASE t[p].name = ""
  <2>1. line = Timeline(<<>>, FALSE)
    BY <1>5, <1>10
  <2>2. line.items = <<>> /\ line.ok = FALSE /\ line \in [items : Seq(I), ok : BOOLEAN]
    BY <1>9, <2>1 DEF Timeline
  <2> QED
    BY <1>9, <1>10, <2>2 DEF Lines, I, line
<1>11. CASE t[p].name # "" /\ Bars(t[p]) = <<>>
  <2>1. line = Timeline(<<>>, TRUE)
    BY <1>5, <1>11
  <2>2. line.items = <<>> /\ line.ok = TRUE /\ line \in [items : Seq(I), ok : BOOLEAN]
    BY <1>9, <2>1 DEF Timeline
  <2> QED
    BY <1>9, <1>11, <2>2 DEF Lines, I, line
<1>12. CASE t[p].name # "" /\ Bars(t[p]) # <<>> /\ \E i \in 1..n : ~subs[i].ok
  <2>1. line = Timeline(<<>>, FALSE)
    BY <1>5, <1>12
  <2>2. line.items = <<>> /\ line.ok = FALSE /\ line \in [items : Seq(I), ok : BOOLEAN]
    BY <1>9, <2>1 DEF Timeline
  <2> QED
    BY <1>9, <1>12, <2>2 DEF Lines, I, line, n
<1>13. CASE t[p].name # "" /\ Bars(t[p]) # <<>> /\ ~\E i \in 1..n : ~subs[i].ok
  <2>1. line = Timeline(<<it>> \o f, TRUE)
    BY <1>5, <1>13
  <2>2. line.items = <<it>> \o f /\ line.ok = TRUE /\ line \in [items : Seq(I), ok : BOOLEAN]
    BY <1>7, <2>1 DEF Timeline
  <2>3. \A x : x \in Range(line.items) <=> x = it \/ \E i \in 1..n : x \in Range(subs[i].items)
    BY <1>3, <1>6, <1>8, <2>2
  <2> QED
    BY <1>13, <2>2, <2>3 DEF Lines, I, line, n, it
<1> QED
  BY <1>10, <1>11, <1>12, <1>13

(* The timeline fails when it comes to a span without a name, and shows    *)
(* the spans that it comes to and that have a bar.                         *)
ShowsReached(t, start, p, line) ==
    /\ line.ok <=> \A q \in Reached(t, p) : t[q].name # ""
    /\ \A x : x \in Range(line.items) <=>
            line.ok /\ \E q \in Reached(t, p) : Bars(t[q]) # <<>> /\ x = ItemAt(t, start, q)

LEMMA ShowsReachedStep ==
  ASSUME NEW t, IsTrace(t), NEW start, NEW p \in DOMAIN t, NEW line \in [DOMAIN t -> Lines(t, start)],
         line[p] = LineOf(t, start, p, Subs(t, line, p)),
         \A i \in 1..t[p].sub : ShowsReached(t, start, Append(p, i), line[Append(p, i)])
  PROVE  ShowsReached(t, start, p, line[p])
<1> DEFINE n == t[p].sub
           subs == Subs(t, line, p)
           R(i) == Reached(t, Append(p, i))
<1>1. n \in Nat /\ \A i \in 1..n : Append(p, i) \in DOMAIN t
  BY PlacesAre
<1>2. subs = [i \in 1..n |-> line[Append(p, i)]]
  BY DEF Subs
<1>3. \A i \in 1..n : subs[i] = line[Append(p, i)] /\ subs[i] \in Lines(t, start)
  BY <1>1, <1>2
<1>4. subs \in Seq(Lines(t, start)) /\ Len(subs) = n
  <2>1. subs \in [1..n -> Lines(t, start)]
    BY <1>2, <1>3
  <2>2. \A k \in Nat : \A g \in [1..k -> Lines(t, start)] : g \in Seq(Lines(t, start)) /\ Len(g) = k
    OBVIOUS
  <2> HIDE DEF subs, n
  <2> QED
    BY <1>1, <2>1, <2>2
<1> HIDE DEF subs, n
<1>5. /\ line[p].ok <=> /\ t[p].name # ""
                        /\ Bars(t[p]) # <<>> => \A i \in 1..n : subs[i].ok
      /\ \A x : x \in Range(line[p].items) <=>
            /\ line[p].ok /\ Bars(t[p]) # <<>>
            /\ x = ItemAt(t, start, p) \/ \E i \in 1..n : x \in Range(subs[i].items)
  <2> DEFINE l == LineOf(t, start, p, subs)
  <2>1. line[p] = l
    BY DEF subs
  <2>2. /\ l.ok <=> /\ t[p].name # ""
                    /\ Bars(t[p]) # <<>> => \A i \in 1..Len(subs) : subs[i].ok
        /\ \A x : x \in Range(l.items) <=>
              /\ l.ok /\ Bars(t[p]) # <<>>
              /\ x = ItemAt(t, start, p) \/ \E i \in 1..Len(subs) : x \in Range(subs[i].items)
    BY <1>4, LineOfIs
  <2> HIDE DEF l
  <2> QED
    BY <1>4, <2>1, <2>2, Zenon
<1>6. \A x : x \in Reached(t, p) <=> x = p \/ (Bars(t[p]) # <<>> /\ \E i \in 1..n : x \in R(i))
  BY ReachedSplit DEF n
<1>7. \A i \in 1..n : subs[i].ok <=> \A q \in R(i) : t[q].name # ""
  BY <1>3 DEF ShowsReached, n
<1>8. \A i \in 1..n : \A x : x \in Range(subs[i].items) <=>
            subs[i].ok /\ \E q \in R(i) : Bars(t[q]) # <<>> /\ x = ItemAt(t, start, q)
  BY <1>3 DEF ShowsReached, n
<1> HIDE DEF R
<1>9. line[p].ok <=> \A q \in Reached(t, p) : t[q].name # ""
  BY <1>5, <1>6, <1>7
<1>10. ASSUME NEW x
       PROVE  x \in Range(line[p].items) <=>
                line[p].ok /\ \E q \in Reached(t, p) : Bars(t[q]) # <<>> /\ x = ItemAt(t, start, q)
  <2>1. CASE ~line[p].ok \/ Bars(t[p]) = <<>>
    <3>1. x \notin Range(line[p].items)
      BY <1>5, <2>1
    <3>2. ~(line[p].ok /\ \E q \in Reached(t, p) : Bars(t[q]) # <<>> /\ x = ItemAt(t, start, q))
      BY <1>6, <2>1
    <3> QED
      BY <3>1, <3>2
  <2>2. CASE line[p].ok /\ Bars(t[p]) # <<>>
    <3>1. \A i \in 1..n : subs[i].ok
      BY <1>5, <2>2
    <3> DEFINE Of(i) == \E q \in R(i) : Bars(t[q]) # <<>> /\ x = ItemAt(t, start, q)
    <3>2. \A i \in 1..n : x \in Range(subs[i].items) <=> Of(i)
      BY <1>8, <3>1
    <3>3. x \in Range(line[p].items) <=>
            x = ItemAt(t, start, p) \/ \E i \in 1..n : x \in Range(subs[i].items)
      BY <1>5, <2>2
    <3>4. x \in Range(line[p].items) <=> x = ItemAt(t, start, p) \/ \E i \in 1..n : Of(i)
      <4> HIDE DEF Of
      <4> QED
        BY <3>2, <3>3
    <3> QED
      BY <1>6, <2>2, <3>4
  <2> QED
    BY <2>1, <2>2
<1> QED
  BY <1>9, <1>10 DEF ShowsReached

LEMMA TimelineIs ==
  ASSUME NEW t, IsTrace(t), NEW start \in DOMAIN t
  PROVE  ShowsReached(t, start, start, d3timelineInner(t, start))
<1> DEFINE kids(it, p) == [i \in DOMAIN Children(t, p) |-> it[Children(t, p)[i]]]
           G(it, p) == IF t[p].name = "" THEN Timeline(<<>>, FALSE)
                       ELSE IF Bars(t[p]) = <<>> THEN Timeline(<<>>, TRUE)
                       ELSE IF \E i \in DOMAIN kids(it, p) : ~kids(it, p)[i].ok
                            THEN Timeline(<<>>, FALSE)
                       ELSE Timeline(<<Item(t[p], Len(p) - Len(start))>>
                            \o FlattenSeq([i \in DOMAIN kids(it, p) |-> kids(it, p)[i].items]), TRUE)
           F(it) == it = [p \in DOMAIN t |-> G(it, p)]
           E(it) == it = [p \in DOMAIN t |-> LineOf(t, start, p, Subs(t, it, p))]
           c == CHOOSE it : F(it)
           d == CHOOSE it : E(it)
           X == Lines(t, start)
           B == [x \in (DOMAIN t) \X Seq(X) |-> LineOf(t, start, x[1], x[2])]
<1>1. d3timelineInner(t, start) = c[start]
  BY DEF d3timelineInner
<1>2. \A it : \A p \in DOMAIN t : kids(it, p) = Subs(t, it, p)
  <2>1. \A p \in DOMAIN t : t[p].sub \in Nat
    BY PlacesAre
  <2> QED
    BY <2>1 DEF Children, Subs
<1>3. \A it : F(it) <=> E(it)
  <2> SUFFICES ASSUME NEW it PROVE F(it) <=> E(it)
    OBVIOUS
  <2>1. ASSUME NEW p \in DOMAIN t PROVE G(it, p) = LineOf(t, start, p, Subs(t, it, p))
    <3>1. kids(it, p) = Subs(t, it, p)
      BY <1>2
    <3> HIDE DEF kids
    <3> QED
      BY <3>1, Zenon DEF LineOf
  <2> HIDE DEF G
  <2>2. [p \in DOMAIN t |-> G(it, p)] = [p \in DOMAIN t |-> LineOf(t, start, p, Subs(t, it, p))]
    BY <2>1
  <2> QED
    BY <2>2
<1> HIDE DEF F, G, kids
<1>4. B \in [(DOMAIN t) \X Seq(X) -> X]
  <2>1. \A x \in (DOMAIN t) \X Seq(X) : LineOf(t, start, x[1], x[2]) \in X
    BY LineOfIs
  <2> QED
    BY <2>1
<1>5. \A p \in DOMAIN t, s \in Seq(X) : B[<<p, s>>] = LineOf(t, start, p, s)
  OBVIOUS
<1> HIDE DEF B
<1>6. PICK f \in [DOMAIN t -> X] : \A p \in DOMAIN t : f[p] = B[<<p, Subs(t, f, p)>>]
  <2> HIDE DEF E, X
  <2>1. Solvable(t, X, B)
    BY <1>4, TreeRecursion
  <2> QED
    BY <2>1 DEF Solvable
<1>7. \A p \in DOMAIN t : Subs(t, f, p) \in Seq(X)
  <2> SUFFICES ASSUME NEW p \in DOMAIN t PROVE Subs(t, f, p) \in Seq(X)
    OBVIOUS
  <2> HIDE DEF X
  <2>1. t[p].sub \in Nat /\ \A i \in 1..t[p].sub : f[Append(p, i)] \in X
    BY PlacesAre
  <2>2. Subs(t, f, p) \in [1..t[p].sub -> X]
    BY <2>1 DEF Subs
  <2>3. \A n \in Nat : \A h \in [1..n -> X] : h \in Seq(X)
    OBVIOUS
  <2> QED
    BY <2>1, <2>2, <2>3
<1>8. \A p \in DOMAIN t : f[p] = LineOf(t, start, p, Subs(t, f, p))
  BY <1>5, <1>6, <1>7
<1>9. E(f)
  <2> DEFINE g == [p \in DOMAIN t |-> LineOf(t, start, p, Subs(t, f, p))]
  <2>1. \A p \in DOMAIN t : g[p] = f[p]
    BY <1>8
  <2>2. g = [p \in DOMAIN t |-> g[p]] /\ f = [p \in DOMAIN t |-> f[p]]
    OBVIOUS
  <2> HIDE DEF g
  <2>3. f = g
    BY <2>1, <2>2
  <2> QED
    BY <2>3 DEF g
<1>10. E(c)
  <2> HIDE DEF E
  <2>1. F(f)
    BY <1>3, <1>9
  <2>2. F(c)
    BY <2>1
  <2> QED
    BY <1>3, <2>2
<1> HIDE DEF c
<1>11. \A p \in DOMAIN t : c[p] = LineOf(t, start, p, Subs(t, c, p))
  BY <1>10
<1> HIDE DEF E, X
<1> DEFINE S == {p \in DOMAIN t : c[p] = f[p] /\ ShowsReached(t, start, p, f[p])}
<1>12. \A p \in DOMAIN t : (\A i \in 1..t[p].sub : Append(p, i) \in S) => p \in S
  <2> SUFFICES ASSUME NEW p \in DOMAIN t, \A i \in 1..t[p].sub : Append(p, i) \in S
               PROVE  p \in S
    OBVIOUS
  <2>1. Subs(t, c, p) = Subs(t, f, p)
    BY DEF Subs
  <2>2. c[p] = f[p]
    BY <1>8, <1>11, <2>1, Zenon
  <2>3. \A i \in 1..t[p].sub : ShowsReached(t, start, Append(p, i), f[Append(p, i)])
    OBVIOUS
  <2>4. f \in [DOMAIN t -> Lines(t, start)]
    BY DEF X
  <2>5. ShowsReached(t, start, p, f[p])
    BY <1>8, <2>3, <2>4, ShowsReachedStep
  <2> QED
    BY <2>2, <2>5
<1>13. \A p \in DOMAIN t : p \in S
  <2> HIDE DEF S
  <2> QED
    BY <1>12, TreeInduction
<1> QED
  BY <1>1, <1>13

-----------------------------------------------------------------------------
(* Comparing whole milliseconds with rounded ones.                         *)
LEMMA LessTimes ==
  ASSUME NEW m \in Nat \ {0}, NEW x \in Int, NEW y \in Int, m * x < m * y
  PROVE  x < y
<1> SUFFICES ASSUME x >= y PROVE FALSE
  OBVIOUS
<1>1. PICK d \in Nat : x = y + d
  <2>1. x - y \in Nat /\ x = y + (x - y)
    OBVIOUS
  <2> QED
    BY <2>1
<1>2. m * x = m * y + m * d
  BY <1>1
<1>3. m * d >= 0
  OBVIOUS
<1> QED
  BY <1>2, <1>3

LEMMA FloorGrows ==
  ASSUME NEW a \in Nat, NEW b \in Nat, a <= b
  PROVE  Floor(a) \in Int /\ Floor(b) \in Int /\ Floor(a) <= Floor(b)
<1> DEFINE x == Floor(a)
           y == Floor(b)
<1>1. Ms \in Nat \ {0}
  BY MsAssumption
<1>2. x \in Int /\ y \in Int /\ Ms * x <= a /\ b < Ms * y + Ms
  BY <1>1, Divides DEF Floor
<1> HIDE DEF x, y
<1>3. Ms * (y + 1) = Ms * y + Ms
  BY <1>1, <1>2
<1>4. Ms * x < Ms * (y + 1)
  BY <1>1, <1>2, <1>3
<1>5. x < y + 1
  BY <1>1, <1>2, <1>4, LessTimes
<1> QED
  BY <1>2, <1>5 DEF x, y

(* A duration in whole milliseconds is short of the rounded one by at most *)
(* one.                                                                    *)
LEMMA RoundedNearFloor ==
  ASSUME NEW s \in Nat, NEW e \in Nat, NEW x \in Int, x <= e - s
  PROVE  Rounded(x) <= Floor(e) - Floor(s) + 1
<1> DEFINE a == Floor(e)
           b == Floor(s)
           r == Rounded(x)
           k == a - b + 2
<1>1. Ms \in Nat \ {0} /\ 2 * Ms \in Nat \ {0} /\ 2 * x + Ms \in Int
  BY MsAssumption
<1>2. a \in Int /\ b \in Int /\ e < Ms * a + Ms /\ Ms * b <= s
  BY <1>1, Divides DEF Floor
<1>3. r \in Int /\ (2 * Ms) * r <= 2 * x + Ms
  BY <1>1, Divides DEF Rounded
<1> HIDE DEF a, b, r
<1>4. Ms * a \in Int /\ Ms * b \in Int /\ Ms * r \in Int /\ (2 * Ms) * r = 2 * (Ms * r)
  BY <1>1, <1>2, <1>3
<1>5. x < Ms * a + Ms - Ms * b
  BY <1>1, <1>2, <1>4
<1>6. 2 * (Ms * r) < 2 * (Ms * a + Ms - Ms * b) + Ms
  BY <1>1, <1>3, <1>4, <1>5
<1>7. Ms * k = Ms * a - Ms * b + 2 * Ms
  BY <1>1, <1>2
<1>8. Ms * r < Ms * k
  BY <1>1, <1>4, <1>6, <1>7
<1>9. k \in Int
  BY <1>2
<1> HIDE DEF k
<1>10. r < k
  BY <1>1, <1>3, <1>8, <1>9, LessTimes
<1> QED
  BY <1>2, <1>3, <1>10 DEF a, b, r, k

LEMMA FloorOfExtremes ==
  ASSUME NEW S \in SUBSET Nat, IsFiniteSet(S), S # {}
  PROVE  /\ Smallest(S) \in S /\ \A m \in S : Smallest(S) <= m
         /\ Greatest(S) \in S /\ \A m \in S : m <= Greatest(S)
         /\ Smallest({Floor(m) : m \in S}) = Floor(Smallest(S))
         /\ Greatest({Floor(m) : m \in S}) = Floor(Greatest(S))
<1> DEFINE b == [m \in S |-> Floor(m)]
           I == {Floor(m) : m \in S}
           s == Smallest(S)
           g == Greatest(S)
<1>1. s \in S /\ (\A m \in S : s <= m) /\ g \in S /\ \A m \in S : m <= g
  BY Extremes
<1>2. I = {b[m] : m \in S}
  OBVIOUS
<1>3. \A m \in S : Floor(m) \in Int /\ Floor(s) <= Floor(m) /\ Floor(m) <= Floor(g)
  BY <1>1, FloorGrows
<1>4. \A y \in I : \E m \in S : y = Floor(m)
  OBVIOUS
<1>5. Floor(s) \in I /\ Floor(g) \in I
  BY <1>1
<1> HIDE DEF b, I, s, g
<1>6. IsFiniteSet(I)
  BY <1>2, ImageFinite
<1>7. I \in SUBSET Int /\ I # {}
  BY <1>3, <1>4, <1>5
<1>8. /\ Smallest(I) \in I /\ \A m \in I : Smallest(I) <= m
      /\ Greatest(I) \in I /\ \A m \in I : m <= Greatest(I)
  BY <1>6, <1>7, Extremes
<1>9. \A y \in I : y \in Int /\ Floor(s) <= y /\ y <= Floor(g)
  BY <1>3, <1>4
<1>10. Smallest(I) = Floor(s) /\ Greatest(I) = Floor(g)
  BY <1>5, <1>8, <1>9
<1> QED
  BY <1>1, <1>10 DEF I, s, g

(* The bar of a span all of whose events have both times.                  *)
LEMMA CoverIs ==
  ASSUME NEW n, n.times \in Seq(Nat \X Nat), n.isRoot = FALSE, Bars(n) # <<>>,
         \A ts \in Range(n.times) : NoTime \notin Range(ts)
  PROVE  /\ Bars(n) = <<<<Floor(findTraceTimes(n)[1]), Floor(findTraceTimes(n)[2])>>>>
         /\ BarDuration(Bars(n)) + 1 >= SpanTime(n)
<1> DEFINE T == Range(n.times)
           N == Len(n.times)
           from == [ts \in T |-> ts[1]]
           till == [ts \in T |-> ts[2]]
           S == {ts[1] : ts \in T}
           E == {ts[2] : ts \in T}
           s == Smallest(S)
           e == Greatest(E)
<1>1. IsFiniteSet(T) /\ (\A ts \in T : ts[1] \in Nat /\ ts[2] \in Nat) /\ (T = {} <=> n.times = <<>>)
  BY TimesAre
<1>2. T \in SUBSET (Nat \X Nat)
  BY RangeOfSeq
<1>3. Timed(n) = n.times
  <2>1. \A ts \in T : ts[1] # NoTime /\ ts[2] # NoTime
    <3> SUFFICES ASSUME NEW ts \in T PROVE ts[1] # NoTime /\ ts[2] # NoTime
      OBVIOUS
    <3>1. ts \in Nat \X Nat /\ NoTime \notin Range(ts)
      BY <1>2
    <3>2. DOMAIN ts = {1, 2}
      BY <3>1
    <3>3. ts[1] \in Range(ts) /\ ts[2] \in Range(ts)
      BY <3>2 DEF Range
    <3> QED
      BY <3>1, <3>3
  <2> DEFINE K == {ts \in T : ts[1] # NoTime /\ ts[2] # NoTime}
  <2>2. T \subseteq K
    BY <2>1
  <2>3. Timed(n) = Only(n.times, K)
    BY DEF Timed
  <2> HIDE DEF K
  <2> QED
    BY <2>2, <2>3, OnlyIs
<1>4. N \in Nat /\ DOMAIN n.times = 1..N /\ T = {n.times[i] : i \in 1..N}
  BY LenProperties DEF Range
<1>5. EachBar(n) = [i \in 1..N |-> <<Floor(n.times[i][1]), Floor(n.times[i][2])>>]
  BY <1>3, <1>4 DEF EachBar
<1>6. Bars(n) = IF EachBar(n) = <<>> THEN EachBar(n)
                ELSE <<<<Smallest({bar[1] : bar \in Range(EachBar(n))}),
                         Greatest({bar[2] : bar \in Range(EachBar(n))})>>>>
  BY DEF Bars
<1>7. EachBar(n) # <<>>
  BY <1>6
<1>8. n.times # <<>> /\ T # {}
  <2>1. N = 0 => EachBar(n) = <<>>
    BY <1>5
  <2>2. N # 0
    BY <1>7, <2>1
  <2> QED
    BY <1>1, <2>2
<1>9. \A x : x \in Range(EachBar(n)) <=> \E ts \in T : x = <<Floor(ts[1]), Floor(ts[2])>>
  <2> DEFINE bar(ts) == <<Floor(ts[1]), Floor(ts[2])>>
             B == EachBar(n)
  <2>1. B = [i \in 1..N |-> bar(n.times[i])]
    BY <1>5
  <2> HIDE DEF bar, B
  <2>2. \A x : x \in Range(B) <=> \E i \in 1..N : x = bar(n.times[i])
    BY <2>1 DEF Range
  <2>3. \A x : x \in Range(B) <=> \E ts \in T : x = bar(ts)
    BY <1>4, <2>2
  <2> QED
    BY <2>3 DEF bar, B
<1>10. /\ {bar[1] : bar \in Range(EachBar(n))} = {Floor(m) : m \in S}
       /\ {bar[2] : bar \in Range(EachBar(n))} = {Floor(m) : m \in E}
  <2> DEFINE R == Range(EachBar(n))
  <2>1. \A x : x \in {bar[1] : bar \in R} <=> \E ts \in T : x = Floor(ts[1])
    <3>1. ASSUME NEW bar \in R PROVE \E ts \in T : bar[1] = Floor(ts[1])
      <4>1. PICK ts \in T : bar = <<Floor(ts[1]), Floor(ts[2])>>
        BY <1>9
      <4> QED
        BY <4>1
    <3>2. ASSUME NEW ts \in T PROVE \E bar \in R : bar[1] = Floor(ts[1])
      <4> DEFINE bar == <<Floor(ts[1]), Floor(ts[2])>>
      <4>1. bar \in R /\ bar[1] = Floor(ts[1])
        BY <1>9
      <4> HIDE DEF bar
      <4> QED
        BY <4>1
    <3> HIDE DEF R, T
    <3> QED
      BY <3>1, <3>2
  <2>2. \A x : x \in {bar[2] : bar \in R} <=> \E ts \in T : x = Floor(ts[2])
    <3>1. ASSUME NEW bar \in R PROVE \E ts \in T : bar[2] = Floor(ts[2])
      <4>1. PICK ts \in T : bar = <<Floor(ts[1]), Floor(ts[2])>>
        BY <1>9
      <4> QED
        BY <4>1
    <3>2. ASSUME NEW ts \in T PROVE \E bar \in R : bar[2] = Floor(ts[2])
      <4> DEFINE bar == <<Floor(ts[1]), Floor(ts[2])>>
      <4>1. bar \in R /\ bar[2] = Floor(ts[2])
        BY <1>9
      <4> HIDE DEF bar
      <4> QED
        BY <4>1
    <3> HIDE DEF R, T
    <3> QED
      BY <3>1, <3>2
  <2>3. \A x : x \in {Floor(m) : m \in S} <=> \E ts \in T : x = Floor(ts[1])
    OBVIOUS
  <2>4. \A x : x \in {Floor(m) : m \in E} <=> \E ts \in T : x = Floor(ts[2])
    OBVIOUS
  <2> HIDE DEF R, S, E, T
  <2>5. {bar[1] : bar \in R} = {Floor(m) : m \in S}
    BY <2>1, <2>3
  <2>6. {bar[2] : bar \in R} = {Floor(m) : m \in E}
    BY <2>2, <2>4
  <2> QED
    BY <2>5, <2>6 DEF R
<1>11. findTraceTimes(n) = <<s, e>>
  BY <1>8 DEF findTraceTimes
<1>12. S = {from[ts] : ts \in T} /\ E = {till[ts] : ts \in T}
  OBVIOUS
<1>13. \A ts \in T : ts[1] \in S /\ ts[2] \in E
  OBVIOUS
<1>14. S \in SUBSET Nat /\ E \in SUBSET Nat
  BY <1>1
<1> HIDE DEF S, E, from, till, T, N
<1>15. IsFiniteSet(S) /\ IsFiniteSet(E) /\ S # {} /\ E # {}
  BY <1>1, <1>8, <1>12, <1>13, ImageFinite
<1>16. /\ s \in S /\ \A m \in S : s <= m
       /\ Smallest({Floor(m) : m \in S}) = Floor(s)
  BY <1>14, <1>15, FloorOfExtremes
<1>17. /\ e \in E /\ \A m \in E : m <= e
       /\ Greatest({Floor(m) : m \in E}) = Floor(e)
  BY <1>14, <1>15, FloorOfExtremes
<1>18. Bars(n) = <<<<Floor(s), Floor(e)>>>>
  BY <1>6, <1>7, <1>10, <1>16, <1>17
<1> HIDE DEF s, e
<1>19. s \in Nat /\ e \in Nat
  BY <1>14, <1>16, <1>17
<1>20. Floor(s) \in Int /\ Floor(e) \in Int
  BY <1>19, FloorGrows
<1> DEFINE d == Floor(e) - Floor(s)
           D == BarDuration(Bars(n))
<1>21. D = Greatest({0, d})
  BY <1>18 DEF BarDuration
<1>22. D \in Int /\ 0 <= D /\ d <= D
  <2>1. {0, d} \in SUBSET Int /\ {0, d} # {} /\ d \in Int
    BY <1>20
  <2>2. IsFiniteSet({0, d})
    <3>1. IsFiniteSet({0} \cup {d}) /\ {0, d} = {0} \cup {d}
      BY FS_Singleton, FS_Union
    <3> QED
      BY <3>1
  <2> DEFINE Z == {0, d}
  <2>3. 0 \in Z /\ d \in Z
    OBVIOUS
  <2> HIDE DEF Z
  <2>4. Greatest(Z) \in Z /\ \A m \in Z : m <= Greatest(Z)
    BY <2>1, <2>2, Extremes DEF Z
  <2>5. Greatest(Z) \in Int
    BY <2>1, <2>4 DEF Z
  <2> QED
    BY <1>21, <2>3, <2>4, <2>5 DEF Z
<1> HIDE DEF D
<1>23. SpanTime(n) = 0 \/ \E ts \in T : SpanTime(n) = Rounded(ts[2] - ts[1])
  BY SpanTimeIs DEF T
<1>24. SpanTime(n) <= D + 1
  <2>1. CASE SpanTime(n) = 0
    BY <1>22, <2>1
  <2>2. ASSUME NEW ts \in T, SpanTime(n) = Rounded(ts[2] - ts[1])
        PROVE  SpanTime(n) <= D + 1
    <3> DEFINE x == ts[2] - ts[1]
    <3>1. ts[1] \in Nat /\ ts[2] \in Nat /\ s <= ts[1] /\ ts[2] <= e
      BY <1>1, <1>13, <1>16, <1>17
    <3>2. x \in Int /\ x <= e - s
      BY <1>19, <3>1
    <3> HIDE DEF x
    <3>3. Rounded(x) <= d + 1 /\ Rounded(x) \in Int
      BY <1>19, <3>2, RoundedNearFloor, RoundedIs
    <3> QED
      BY <1>20, <1>22, <2>2, <3>3 DEF x
  <2> QED
    BY <1>23, <2>1, <2>2
<1>25. SpanTime(n) \in Nat
  BY SpanTimeIs
<1>26. D + 1 >= SpanTime(n)
  BY <1>22, <1>24, <1>25
<1> QED
  BY <1>11, <1>18, <1>26 DEF D

-----------------------------------------------------------------------------
TimelineFor(t, n, line) ==
    LET shown == {q \in Reached(t, n) : Bars(t[q]) # <<>>}
    IN  /\ line.ok <=> \A q \in Reached(t, n) : t[q].name # ""
        /\ line.ok => {it.id : it \in Range(line.items)} = {t[q].id : q \in shown}
        /\ \A it \in Range(line.items) : \A q \in Under(t, n) :
             /\ t[q].id = it.id /\ ~t[q].isRoot
             /\ \A ts \in Range(t[q].times) : NoTime \notin Range(ts)
             => /\ it.duration + 1 >= SpanTime(t[q])
                /\ it.bars = <<<<Floor(findTraceTimes(t[q])[1]), Floor(findTraceTimes(t[q])[2])>>>>

LEMMA TimelineSound ==
  ASSUME NEW t, IsTrace(t), NEW n \in DOMAIN t
  PROVE  TimelineFor(t, n, d3timelineInner(t, n))
<1> DEFINE line  == d3timelineInner(t, n)
           shown == {q \in Reached(t, n) : Bars(t[q]) # <<>>}
<1>1. /\ line.ok <=> \A q \in Reached(t, n) : t[q].name # ""
      /\ \A x : x \in Range(line.items) <=>
            line.ok /\ \E q \in Reached(t, n) : Bars(t[q]) # <<>> /\ x = ItemAt(t, n, q)
  BY TimelineIs DEF ShowsReached
<1> HIDE DEF line
<1>2. \A q : /\ ItemAt(t, n, q).id = t[q].id /\ ItemAt(t, n, q).bars = Bars(t[q])
             /\ ItemAt(t, n, q).duration = BarDuration(Bars(t[q]))
  BY DEF ItemAt, Item
<1>3. ASSUME line.ok PROVE {it.id : it \in Range(line.items)} = {t[q].id : q \in shown}
  <2> DEFINE R == Range(line.items)
  <2>1. ASSUME NEW it \in R PROVE \E q \in shown : it.id = t[q].id
    <3>1. PICK q \in Reached(t, n) : Bars(t[q]) # <<>> /\ it = ItemAt(t, n, q)
      BY <1>1
    <3> QED
      BY <1>2, <3>1
  <2>2. ASSUME NEW q \in shown PROVE \E it \in R : it.id = t[q].id
    <3>1. ItemAt(t, n, q) \in R
      BY <1>1, <1>3
    <3> QED
      BY <1>2, <3>1
  <2> HIDE DEF shown, R
  <2>3. {it.id : it \in R} = {t[q].id : q \in shown}
    BY <2>1, <2>2
  <2> QED
    BY <2>3 DEF R
<1>4. ASSUME NEW it \in Range(line.items), NEW q \in Under(t, n), t[q].id = it.id, ~t[q].isRoot,
             \A ts \in Range(t[q].times) : NoTime \notin Range(ts)
      PROVE  /\ it.duration + 1 >= SpanTime(t[q])
             /\ it.bars = <<<<Floor(findTraceTimes(t[q])[1]), Floor(findTraceTimes(t[q])[2])>>>>
  <2>1. PICK p \in Reached(t, n) : Bars(t[p]) # <<>> /\ it = ItemAt(t, n, p)
    BY <1>1
  <2>2. p \in DOMAIN t /\ q \in DOMAIN t
    BY ReachedSplit DEF Under
  <2>3. p = q
    BY <1>2, <1>4, <2>1, <2>2, PlacesAre
  <2>4. t[q].times \in Seq(Nat \X Nat) /\ t[q].isRoot = FALSE
    BY <1>4, <2>2, PlacesAre
  <2> DEFINE m == t[q]
  <2>5. /\ m.times \in Seq(Nat \X Nat) /\ m.isRoot = FALSE /\ Bars(m) # <<>>
        /\ \A ts \in Range(m.times) : NoTime \notin Range(ts)
    BY <1>4, <2>1, <2>3, <2>4
  <2>6. it.bars = Bars(m) /\ it.duration = BarDuration(Bars(m))
    BY <1>2, <2>1, <2>3
  <2> HIDE DEF m
  <2>7. /\ Bars(m) = <<<<Floor(findTraceTimes(m)[1]), Floor(findTraceTimes(m)[2])>>>>
        /\ BarDuration(Bars(m)) + 1 >= SpanTime(m)
    BY ONLY <2>5, CoverIs
  <2>8. it.duration + 1 >= SpanTime(m)
    BY <2>6, <2>7
  <2>9. it.bars = <<<<Floor(findTraceTimes(m)[1]), Floor(findTraceTimes(m)[2])>>>>
    BY <2>6, <2>7, Zenon
  <2> QED
    BY <2>8, <2>9, Zenon DEF m
<1>5. \A it \in Range(line.items) : \A q \in Under(t, n) :
         /\ t[q].id = it.id /\ ~t[q].isRoot
         /\ \A ts \in Range(t[q].times) : NoTime \notin Range(ts)
         => /\ it.duration + 1 >= SpanTime(t[q])
            /\ it.bars = <<<<Floor(findTraceTimes(t[q])[1]), Floor(findTraceTimes(t[q])[2])>>>>
  BY <1>4, Zenon
<1> QED
  BY <1>1, <1>3, <1>5, Zenon DEF TimelineFor, line

(* The timeline fails exactly when it comes to a span without a name, and  *)
(* otherwise shows those that have a bar and whose ancestors all have one, *)
(* as long as the profile says, up to a rounding, or longer                *)
(* (d3timelineInner).                                                      *)
THEOREM TimelineIsProfile == Spec => []TimelineMatchesProfile
<1>1. Init => TimelineMatchesProfile
  BY DEF Init, TimelineMatchesProfile, Answered
<1>2. InputOK /\ TimelineMatchesProfile /\ [Next]_vars => TimelineMatchesProfile'
  <2> SUFFICES ASSUME InputOK, TimelineMatchesProfile, [Next]_vars PROVE TimelineMatchesProfile'
    OBVIOUS
  <2>1. CASE serveTrace
    <3>1. input.kind = "traces"
      BY <2>1 DEF serveTrace, Request
    <3>2. input.of \in TreeInputs
      BY <3>1 DEF InputOK
    <3>3. PICK t \in Range(input.of) : \E n \in DOMAIN t :
            /\ IsTrace(t)
            /\ output' = <<"trace", [of |-> t, at |-> n, prof |-> calcProfile(t)[n],
                                     line |-> d3timelineInner(t, n)]>>
      BY <2>1, <3>2, TraceAnswered
    <3>4. PICK n \in DOMAIN t :
            /\ IsTrace(t)
            /\ output' = <<"trace", [of |-> t, at |-> n, prof |-> calcProfile(t)[n],
                                     line |-> d3timelineInner(t, n)]>>
      BY <3>3
    <3>5. output'[2].of = t /\ output'[2].at = n /\ output'[2].line = d3timelineInner(t, n)
      BY <3>4
    <3>6. TimelineFor(t, n, d3timelineInner(t, n))
      BY <3>4, TimelineSound
    <3>7. TimelineFor(output'[2].of, output'[2].at, output'[2].line)
      BY <3>5, <3>6, Zenon
    <3> QED
      BY <3>7, Zenon DEF TimelineMatchesProfile, TimelineFor, Reached
  <2>2. CASE ReadSpans \/ ReadRows \/ serveAggregate \/ serveDashboardData
    <3>1. output' # <<>> /\ output'[1] # "trace"
      BY <2>2 DEF ReadSpans, ReadRows, serveAggregate, serveDashboardData
    <3> QED
      BY <3>1 DEF TimelineMatchesProfile, Answered
  <2>3. CASE UNCHANGED vars
    <3>1. input' = input /\ output' = output
      BY <2>3 DEF vars
    <3>2. Answered("trace") => TimelineFor(output[2].of, output[2].at, output[2].line)
      BY Zenon DEF TimelineMatchesProfile, TimelineFor, Reached
    <3>3. Answered("trace")' => TimelineFor(output'[2].of, output'[2].at, output'[2].line)
      BY <3>1, <3>2 DEF Answered
    <3> QED
      BY <3>3, Zenon DEF TimelineMatchesProfile, TimelineFor, Reached
  <2> QED
    BY <2>1, <2>2, <2>3 DEF Next
<1> QED
  BY <1>1, <1>2, InputStays, PTL DEF Spec

-----------------------------------------------------------------------------
(* Keys are in the order of their first difference.                        *)
LEMMA KeysAre ==
  ASSUME NEW k \in Key
  PROVE  Len(k) \in Nat /\ \A i \in 1..Len(k) : k[i] \in Nat
BY ElementOfSeq, LenProperties DEF Key

LEMMA BeforeArranges ==
  ASSUME NEW k \in Key, NEW l \in Key, NEW m \in Key
  PROVE  /\ ~Before(k, k)
         /\ Before(k, l) /\ Before(l, m) => Before(k, m)
         /\ k # l => Before(k, l) \/ Before(l, k)
<1>1. /\ Len(k) \in Nat /\ \A i \in 1..Len(k) : k[i] \in Nat
      /\ Len(l) \in Nat /\ \A i \in 1..Len(l) : l[i] \in Nat
      /\ Len(m) \in Nat /\ \A i \in 1..Len(m) : m[i] \in Nat
  BY KeysAre
<1>2. ~Before(k, k)
  <2> SUFFICES ASSUME NEW n \in 1..Len(k), n = Len(k) + 1 \/ k[n] < k[n] PROVE FALSE
    BY DEF Before
  <2> QED
    BY <1>1
<1>3. ASSUME Before(k, l), Before(l, m) PROVE Before(k, m)
  <2>1. PICK a \in 1..Len(l) : /\ a <= Len(k) + 1 /\ \A i \in 1..(a - 1) : k[i] = l[i]
                               /\ a = Len(k) + 1 \/ k[a] < l[a]
    BY <1>3 DEF Before
  <2>2. PICK b \in 1..Len(m) : /\ b <= Len(l) + 1 /\ \A i \in 1..(b - 1) : l[i] = m[i]
                               /\ b = Len(l) + 1 \/ l[b] < m[b]
    BY <1>3 DEF Before
  <2>3. CASE a <= b
    <3>1. a \in 1..Len(m) /\ \A i \in 1..(a - 1) : k[i] = m[i]
      BY <1>1, <2>1, <2>2, <2>3
    <3>2. a = Len(k) + 1 \/ k[a] < m[a]
      <4>1. CASE a < b
        <5>1. l[a] = m[a]
          BY <1>1, <2>2, <4>1
        <5> QED
          BY <2>1, <5>1
      <4>2. CASE a = b
        <5>1. b # Len(l) + 1
          BY <1>1, <4>2
        <5>2. l[a] < m[a] /\ l[a] \in Nat /\ m[a] \in Nat
          BY <1>1, <2>2, <4>2, <5>1
        <5>3. a <= Len(k) => k[a] \in Nat
          BY <1>1
        <5> QED
          BY <1>1, <2>1, <5>2, <5>3
      <4> QED
        BY <1>1, <2>3, <4>1, <4>2
    <3> QED
      BY <2>1, <3>1, <3>2 DEF Before
  <2>4. CASE b < a
    <3>1. b <= Len(k) + 1 /\ \A i \in 1..(b - 1) : k[i] = m[i]
      BY <1>1, <2>1, <2>2, <2>4
    <3>2. k[b] = l[b] /\ b # Len(l) + 1
      BY <1>1, <2>1, <2>4
    <3>3. k[b] < m[b]
      BY <2>2, <3>2
    <3> QED
      BY <2>2, <3>1, <3>3 DEF Before
  <2> QED
    BY <1>1, <2>3, <2>4
<1>4. ASSUME k # l PROVE Before(k, l) \/ Before(l, k)
  <2> DEFINE D == {i \in Nat : i \in 1..Len(k) /\ i \in 1..Len(l) /\ k[i] # l[i]}
  <2>1. CASE D = {}
    <3>1. \A i \in Nat : i \in 1..Len(k) /\ i \in 1..Len(l) => k[i] = l[i]
      BY <2>1
    <3>2. Len(k) # Len(l)
      <4> SUFFICES ASSUME Len(k) = Len(l) PROVE FALSE
        OBVIOUS
      <4>1. \A i \in 1..Len(k) : k[i] = l[i]
        BY <1>1, <3>1
      <4> QED
        BY <1>4, <4>1, SeqEqual DEF Key
    <3>3. CASE Len(k) < Len(l)
      <4>1. Len(k) + 1 \in 1..Len(l) /\ \A i \in 1..(Len(k) + 1 - 1) : k[i] = l[i]
        BY <1>1, <3>1, <3>3
      <4> QED
        BY <1>1, <4>1 DEF Before
    <3>4. CASE Len(l) < Len(k)
      <4>1. Len(l) + 1 \in 1..Len(k) /\ \A i \in 1..(Len(l) + 1 - 1) : l[i] = k[i]
        BY <1>1, <3>1, <3>4
      <4> QED
        BY <1>1, <4>1 DEF Before
    <3> QED
      BY <1>1, <3>2, <3>3, <3>4
  <2>2. CASE D # {}
    <3>1. PICK n \in D : \A i \in D : n <= i
      <4>1. D \in SUBSET Nat
        OBVIOUS
      <4> HIDE DEF D
      <4> QED
        BY <2>2, <4>1, LeastNumber
    <3>2. n \in 1..Len(k) /\ n \in 1..Len(l) /\ k[n] # l[n]
      OBVIOUS
    <3>3. \A i \in 1..(n - 1) : k[i] = l[i]
      BY <1>1, <3>1, <3>2
    <3>4. k[n] < l[n] \/ l[n] < k[n]
      BY <1>1, <3>2
    <3>5. k[n] < l[n] => Before(k, l)
      BY <1>1, <3>2, <3>3, SMTT(30) DEF Before
    <3>6. l[n] < k[n] => Before(l, k)
      BY <1>1, <3>2, <3>3 DEF Before
    <3> QED
      BY <3>4, <3>5, <3>6
  <2> QED
    BY <2>1, <2>2
<1> QED
  BY <1>2, <1>3, <1>4

(* What is at or within two keys is in the order of the keys, unless one   *)
(* of them is within the other.                                            *)
LEMMA BeforeBelow ==
  ASSUME NEW p \in Key, NEW q \in Key, NEW a \in Key, NEW b \in Key,
         Before(p, q), ~AtOrWithin(q, p), AtOrWithin(a, p), AtOrWithin(b, q)
  PROVE  Before(a, b)
<1>1. Len(p) \in Nat /\ Len(q) \in Nat /\ Len(a) \in Nat /\ Len(b) \in Nat
  BY KeysAre
<1>2. PICK n \in 1..Len(q) : /\ n <= Len(p) + 1 /\ \A i \in 1..(n - 1) : p[i] = q[i]
                             /\ n = Len(p) + 1 \/ p[n] < q[n]
  BY DEF Before
<1>3. n # Len(p) + 1
  BY <1>1, <1>2 DEF AtOrWithin
<1>4. \A i \in 1..Len(p) : a[i] = p[i]
  BY DEF AtOrWithin
<1>5. \A i \in 1..Len(q) : b[i] = q[i]
  BY DEF AtOrWithin
<1>6. Len(p) <= Len(a) /\ Len(q) <= Len(b)
  BY DEF AtOrWithin
<1>7. n \in 1..Len(b) /\ n <= Len(a) + 1 /\ n \in 1..Len(p)
  BY <1>1, <1>2, <1>3, <1>6
<1>8. \A i \in 1..(n - 1) : a[i] = b[i]
  BY <1>1, <1>2, <1>4, <1>5, <1>7
<1>9. a[n] < b[n]
  BY <1>2, <1>3, <1>4, <1>5, <1>7
<1> QED
  BY <1>7, <1>8, <1>9 DEF Before

LEMMA BeforeWithin ==
  ASSUME NEW p \in Key, NEW k \in Key, Within(k, p)
  PROVE  Before(p, k)
<1>1. Len(p) \in Nat /\ Len(k) \in Nat
  BY KeysAre
<1>2. Len(p) < Len(k) /\ \A i \in 1..Len(p) : k[i] = p[i]
  BY DEF Within, AtOrWithin
<1>3. Len(p) + 1 \in 1..Len(k) /\ \A i \in 1..(Len(p) + 1 - 1) : p[i] = k[i]
  BY <1>1, <1>2
<1> QED
  BY <1>1, <1>3 DEF Before

(* The keys at or within a key are next to each other.                     *)
LEMMA BetweenWithin ==
  ASSUME NEW p \in Key, NEW a \in Key, NEW b \in Key, NEW c \in Key,
         AtOrWithin(a, p), AtOrWithin(c, p), Before(a, b), Before(b, c)
  PROVE  AtOrWithin(b, p)
<1>1. /\ Len(p) \in Nat /\ Len(a) \in Nat /\ Len(b) \in Nat /\ Len(c) \in Nat
      /\ \A i \in 1..Len(p) : p[i] \in Nat /\ a[i] = p[i] /\ c[i] = p[i]
      /\ \A i \in 1..Len(b) : b[i] \in Nat
      /\ Len(p) <= Len(a) /\ Len(p) <= Len(c)
  BY KeysAre DEF AtOrWithin
<1>2. PICK n \in 1..Len(b) : /\ n <= Len(a) + 1 /\ \A i \in 1..(n - 1) : a[i] = b[i]
                             /\ n = Len(a) + 1 \/ a[n] < b[n]
  BY DEF Before
<1>3. PICK m \in 1..Len(c) : /\ m <= Len(b) + 1 /\ \A i \in 1..(m - 1) : b[i] = c[i]
                             /\ m = Len(b) + 1 \/ b[m] < c[m]
  BY DEF Before
<1>4. CASE n > Len(p)
  <2>1. Len(p) <= Len(b) /\ \A i \in 1..Len(p) : b[i] = p[i]
    BY <1>1, <1>2, <1>4
  <2> QED
    BY <2>1 DEF AtOrWithin
<1>5. CASE n <= Len(p)
  <2>1. n \in 1..Len(p) /\ n # Len(a) + 1
    BY <1>1, <1>5
  <2>2. p[n] < b[n] /\ p[n] \in Nat /\ b[n] \in Nat /\ c[n] = p[n]
    BY <1>1, <1>2, <2>1
  <2>3. ~(n < m)
    <3> SUFFICES ASSUME n < m PROVE FALSE
      OBVIOUS
    <3>1. n \in 1..(m - 1)
      BY <1>1
    <3>2. b[n] = c[n]
      BY <1>3, <3>1
    <3> QED
      BY <2>2, <3>2
  <2>4. m # Len(b) + 1
    BY <1>1, <2>3
  <2>5. b[m] < c[m]
    BY <1>3, <2>4
  <2>6. m # n
    BY <2>2, <2>5
  <2>7. m \in 1..(n - 1) /\ m \in 1..Len(p)
    BY <1>1, <2>1, <2>3, <2>6
  <2>8. b[m] = c[m] /\ b[m] \in Nat
    BY <1>1, <1>2, <2>7
  <2> QED
    BY <2>5, <2>8
<1> QED
  BY <1>1, <1>4, <1>5

(* A key that starts with the string of another without being at or within *)
(* it comes after everything that is.                                      *)
LEMMA BeforeLonger ==
  ASSUME NEW p \in Key, NEW a \in Key, NEW k \in Key,
         AtOrWithin(a, p), HasPrefix(k, p), ~AtOrWithin(k, p)
  PROVE  Before(a, k)
<1>1. Len(p) \in Nat /\ Len(a) \in Nat /\ Len(k) \in Nat
  BY KeysAre
<1>2. /\ Len(p) <= Len(k)
      /\ \A i \in 1..Len(p) : k[i] = p[i] \/ (i = Len(p) /\ <<p[i], k[i]>> \in Longer)
  BY DEF HasPrefix
<1>3. PICK n \in 1..Len(p) : k[n] # p[n]
  BY <1>2 DEF AtOrWithin
<1>4. n = Len(p) /\ <<p[n], k[n]>> \in Longer
  BY <1>2, <1>3
<1>5. p[n] < k[n]
  BY <1>4, NamesAssumption
<1>6. Len(p) <= Len(a) /\ \A i \in 1..Len(p) : a[i] = p[i]
  BY DEF AtOrWithin
<1>7. n \in 1..Len(k) /\ n <= Len(a) + 1
  BY <1>1, <1>2, <1>6
<1>8. ASSUME NEW i \in 1..(n - 1) PROVE a[i] = k[i]
  <2>1. i \in 1..Len(p) /\ i # Len(p)
    BY <1>1, <1>4
  <2> QED
    BY <1>2, <1>6, <2>1
<1>9. a[n] < k[n]
  BY <1>5, <1>6
<1> QED
  BY <1>7, <1>8, <1>9 DEF Before

LEMMA PrefixWithin ==
  ASSUME NEW p, NEW k, AtOrWithin(k, p)
  PROVE  HasPrefix(k, p)
BY DEF AtOrWithin, HasPrefix

LEMMA WithinTransitive ==
  ASSUME NEW p \in Key, NEW q \in Key, NEW k \in Key, AtOrWithin(k, q), AtOrWithin(q, p)
  PROVE  AtOrWithin(k, p)
BY KeysAre DEF AtOrWithin

(* Of two keys that have something at or within both, one is at or within  *)
(* the other.                                                              *)
LEMMA WithinComparable ==
  ASSUME NEW p \in Key, NEW q \in Key, NEW k \in Key, AtOrWithin(k, p), AtOrWithin(k, q)
  PROVE  AtOrWithin(p, q) \/ AtOrWithin(q, p)
<1>1. Len(p) \in Nat /\ Len(q) \in Nat
  BY KeysAre
<1>2. (\A i \in 1..Len(p) : k[i] = p[i]) /\ \A i \in 1..Len(q) : k[i] = q[i]
  BY DEF AtOrWithin
<1>3. CASE Len(p) <= Len(q)
  BY <1>1, <1>2, <1>3 DEF AtOrWithin
<1>4. CASE Len(q) <= Len(p)
  BY <1>1, <1>2, <1>4 DEF AtOrWithin
<1> QED
  BY <1>1, <1>3, <1>4

LEMMA WithinBoth ==
  ASSUME NEW p \in Key, NEW q \in Key, AtOrWithin(p, q), AtOrWithin(q, p)
  PROVE  p = q
<1>1. Len(p) \in Nat /\ Len(q) \in Nat /\ Len(p) <= Len(q) /\ Len(q) <= Len(p)
  BY KeysAre DEF AtOrWithin
<1>2. Len(p) = Len(q) /\ \A i \in 1..Len(p) : p[i] = q[i]
  BY <1>1 DEF AtOrWithin
<1> QED
  BY <1>2, SeqEqual DEF Key

-----------------------------------------------------------------------------
(* Sorting by key: pairs that differ in their keys, and the keys of a type. *)
KV == [key : Key, val : STRING]

InKeyOrder(kv) ==
    /\ kv \in Seq(KV)
    /\ \A i, j \in 1..Len(kv) : i < j <=> Before(kv[i].key, kv[j].key)

LEMMA SortedIs ==
  ASSUME NEW P \in SUBSET KV, IsFiniteSet(P), \A a, b \in P : a.key = b.key => a = b
  PROVE  InKeyOrder(Sorted(P)) /\ ToSet(Sorted(P)) = P
<1> DEFINE R == {pq \in P \X P : Before(pq[1].key, pq[2].key)}
           N == Cardinality(P)
<1>1. \A a, b \in P : <<a, b>> \in R <=> Before(a.key, b.key)
  OBVIOUS
<1>2. \A a \in P : a.key \in Key
  BY DEF KV
<1>3. Arranges(R, P)
  <2>1. \A x \in P : <<x, x>> \notin R
    BY <1>1, <1>2, BeforeArranges
  <2>2. \A x, y, z \in P : <<x, y>> \in R /\ <<y, z>> \in R => <<x, z>> \in R
    BY <1>1, <1>2, BeforeArranges
  <2>3. \A x, y \in P : x # y => <<x, y>> \in R \/ <<y, x>> \in R
    BY <1>1, <1>2, BeforeArranges
  <2> HIDE DEF R
  <2> QED
    BY <2>1, <2>2, <2>3 DEF Arranges
<1>4. Sorted(P) = Ranked(P, R)
  BY DEF Sorted
<1> HIDE DEF R
<1>5. /\ N \in Nat
      /\ Sorted(P) \in [1..N -> P]
      /\ \A x \in P : \E i \in 1..N : Sorted(P)[i] = x
      /\ \A i, j \in 1..N : i < j <=> <<Sorted(P)[i], Sorted(P)[j]>> \in R
  BY <1>3, <1>4, RankedInOrder
<1> HIDE DEF N
<1>6. Len(Sorted(P)) = N /\ DOMAIN Sorted(P) = 1..N
  BY <1>5
<1>7. Sorted(P) \in Seq(KV)
  <2>1. \A n \in Nat : \A g \in [1..n -> KV] : g \in Seq(KV)
    OBVIOUS
  <2>2. Sorted(P) \in [1..N -> KV]
    BY <1>5
  <2> QED
    BY <1>5, <2>1, <2>2
<1>8. \A i, j \in 1..N : i < j <=> Before(Sorted(P)[i].key, Sorted(P)[j].key)
  BY <1>1, <1>5
<1>9. ToSet(Sorted(P)) = P
  BY <1>5, <1>6 DEF ToSet
<1> QED
  BY <1>6, <1>7, <1>8, <1>9 DEF InKeyOrder

LEMMA InKeyOrderIs ==
  ASSUME NEW kv, InKeyOrder(kv)
  PROVE  /\ Len(kv) \in Nat /\ DOMAIN kv = 1..Len(kv)
         /\ \A i \in 1..Len(kv) : kv[i] = Pair(kv[i].key, kv[i].val)
                                  /\ kv[i].key \in Key /\ kv[i].val \in STRING
         /\ \A i, j \in 1..Len(kv) : i < j <=> Before(kv[i].key, kv[j].key)
         /\ \A i, j \in 1..Len(kv) : kv[i].key = kv[j].key => i = j
<1>1. /\ Len(kv) \in Nat /\ DOMAIN kv = 1..Len(kv)
      /\ \A i \in 1..Len(kv) : kv[i] \in KV
  BY ElementOfSeq, LenProperties DEF InKeyOrder
<1>2. \A i \in 1..Len(kv) : kv[i] = Pair(kv[i].key, kv[i].val)
                            /\ kv[i].key \in Key /\ kv[i].val \in STRING
  BY <1>1 DEF KV, Pair
<1>3. \A i, j \in 1..Len(kv) : i < j <=> Before(kv[i].key, kv[j].key)
  BY DEF InKeyOrder
<1>4. \A i, j \in 1..Len(kv) : kv[i].key = kv[j].key => i = j
  <2> SUFFICES ASSUME NEW i \in 1..Len(kv), NEW j \in 1..Len(kv), kv[i].key = kv[j].key
               PROVE  i = j
    OBVIOUS
  <2>1. ~Before(kv[i].key, kv[i].key)
    BY <1>2, BeforeArranges
  <2>2. ~(i < j) /\ ~(j < i)
    BY <1>3, <2>1
  <2> QED
    BY <1>1, <2>2
<1> QED
  BY <1>1, <1>2, <1>3, <1>4

LEMMA FieldOrderIs ==
  ASSUME NEW T, IsType(T)
  PROVE  /\ Cardinality(DOMAIN T) \in Nat
         /\ FieldOrder(T) \in [1..Cardinality(DOMAIN T) -> DOMAIN T]
         /\ \A p \in DOMAIN T : \E i \in 1..Cardinality(DOMAIN T) : FieldOrder(T)[i] = p
         /\ \A i, j \in 1..Cardinality(DOMAIN T) :
                i < j <=> Before(FieldOrder(T)[i], FieldOrder(T)[j])
<1> DEFINE S == DOMAIN T
           R == {kl \in S \X S : Before(kl[1], kl[2])}
<1>1. IsFiniteSet(S) /\ S \subseteq Key
  BY DEF IsType
<1> HIDE DEF S
<1>2. \A k, l \in S : <<k, l>> \in R <=> Before(k, l)
  OBVIOUS
<1>3. Arranges(R, S)
  <2>1. \A x \in S : <<x, x>> \notin R
    BY <1>1, <1>2, BeforeArranges
  <2>2. \A x, y, z \in S : <<x, y>> \in R /\ <<y, z>> \in R => <<x, z>> \in R
    BY <1>1, <1>2, BeforeArranges
  <2>3. \A x, y \in S : x # y => <<x, y>> \in R \/ <<y, x>> \in R
    BY <1>1, <1>2, BeforeArranges
  <2> HIDE DEF R
  <2> QED
    BY <2>1, <2>2, <2>3 DEF Arranges
<1>4. FieldOrder(T) = Ranked(S, R)
  BY DEF FieldOrder, InOrder, S
<1> HIDE DEF R
<1>5. /\ Cardinality(S) \in Nat
      /\ FieldOrder(T) \in [1..Cardinality(S) -> S]
      /\ \A x \in S : \E i \in 1..Cardinality(S) : FieldOrder(T)[i] = x
      /\ \A i, j \in 1..Cardinality(S) : i < j <=> <<FieldOrder(T)[i], FieldOrder(T)[j]>> \in R
  BY <1>1, <1>3, <1>4, RankedInOrder
<1>6. \A i, j \in 1..Cardinality(S) : i < j <=> Before(FieldOrder(T)[i], FieldOrder(T)[j])
  BY <1>2, <1>5
<1> QED
  BY <1>5, <1>6 DEF S

-----------------------------------------------------------------------------
(* The pairs of kv that are of the part p.                                 *)
Mine(T, kv, p)    == {j \in DOMAIN kv : Claims(T, p, kv[j].key)}
Claimed(T, kv, p) == {kv[j] : j \in Mine(T, kv, p)}

USE DEF LeafKinds, ListKinds, MapKinds, NumberKinds, Kinds

(* A part reads as x from the pairs P.  A list may have gaps, but not at   *)
(* its end.                                                                *)
IsRead(kind, p, P, x) ==
    /\ kind \in LeafKinds => P = {Pair(p, x)} /\ Parses(kind, x)
    /\ kind \in ListKinds =>
        /\ x \in Seq(STRING) \ {<<>>}
        /\ \A i \in 1..Len(x) : Parses(kind, x[i]) /\ i - 1 \in Indices
        /\ \A pr \in P : \E i \in 1..Len(x) : pr = Pair(Append(p, i - 1), x[i])
        /\ Pair(Append(p, Len(x) - 1), x[Len(x)]) \in P
        /\ \A i \in 1..Len(x) : Pair(Append(p, i - 1), x[i]) \in P \/ x[i] = Empty(kind)
    /\ kind \in MapKinds =>
        /\ DOMAIN x \subseteq Key /\ x = [k \in DOMAIN x |-> x[k]]
        /\ \A k \in DOMAIN x : Parses(kind, x[k])
        /\ P = {Pair(p \o k, x[k]) : k \in DOMAIN x}

(* kv holds v, among whatever else, and something of each struct.          *)
Encodes(T, kv, v) ==
    /\ IsType(T) /\ InKeyOrder(kv) /\ v = [p \in Parts(T) |-> v[p]]
    /\ \A p \in Parts(T) : IsRead(T[p], p, Claimed(T, kv, p), v[p])
    /\ \A p \in DOMAIN T : T[p] = "struct" /\ p # <<>> =>
            \E q \in Parts(T) : Within(q, p) /\ Mine(T, kv, q) # {}

(* After the fields D have been visited p is the next one, and the pairs   *)
(* of the others are among those that are left.                            *)
NextField(T, D, p) ==
    /\ D \subseteq DOMAIN T /\ p \in DOMAIN T \ D
    /\ \A q \in DOMAIN T \ D : q # p => Before(p, q)
    /\ \A q \in D : Before(q, p)

Partial(T, v, D) == [p \in Parts(T) |-> IF p \in D THEN v[p] ELSE Zero(T)[p]]

Ready(T, kv, D, next) ==
    /\ next \in 1..(Len(kv) + 1)
    /\ \A q \in Parts(T) \ D : \A j \in Mine(T, kv, q) : next <= j

GotSoFar(T, kv, v, D, g) ==
    \E next \in Nat : Ready(T, kv, D, next) /\ g = Got(Partial(T, v, D), next, TRUE)

LEMMA FirstInIs ==
  ASSUME NEW kv, Len(kv) \in Nat, NEW S \in SUBSET (1..Len(kv)), NEW i \in 1..(Len(kv) + 1)
  PROVE  /\ FirstIn(S, i, kv) \in i..(Len(kv) + 1)
         /\ FirstIn(S, i, kv) \in S \/ FirstIn(S, i, kv) = Len(kv) + 1
         /\ \A j \in S : i <= j => FirstIn(S, i, kv) <= j
<1> DEFINE X == {j \in S : i <= j} \cup {Len(kv) + 1}
<1>1. X \in SUBSET Int /\ X # {} /\ X \subseteq 1..(Len(kv) + 1)
  <2>1. S \subseteq 1..(Len(kv) + 1) /\ Len(kv) + 1 \in 1..(Len(kv) + 1)
    OBVIOUS
  <2>2. X \subseteq 1..(Len(kv) + 1) /\ X # {}
    BY <2>1, Zenon
  <2> HIDE DEF X
  <2> QED
    BY <2>2
<1>2. IsFiniteSet(X)
  <2>1. IsFiniteSet(1..(Len(kv) + 1))
    BY FS_Interval
  <2> HIDE DEF X
  <2> QED
    BY <1>1, <2>1, FS_Subset
<1>3. FirstIn(S, i, kv) = Smallest(X)
  BY DEF FirstIn
<1>4. Smallest(X) \in X /\ \A m \in X : Smallest(X) <= m
  <2> HIDE DEF X
  <2> QED
    BY <1>1, <1>2, Extremes
<1>5. FirstIn(S, i, kv) \in X /\ \A m \in X : FirstIn(S, i, kv) <= m
  BY <1>3, <1>4
<1>6. (FirstIn(S, i, kv) \in S /\ i <= FirstIn(S, i, kv)) \/ FirstIn(S, i, kv) = Len(kv) + 1
  BY <1>5, Zenon
<1>7. \A j \in S : i <= j => FirstIn(S, i, kv) <= j
  BY <1>5, Zenon
<1> HIDE DEF X
<1> DEFINE f == FirstIn(S, i, kv)
<1>8. f \in S => f \in 1..Len(kv)
  OBVIOUS
<1>9. (f \in S /\ i <= f) \/ f = Len(kv) + 1
  BY <1>6
<1> HIDE DEF f
<1>10. f \in i..(Len(kv) + 1)
  BY <1>8, <1>9
<1> QED
  BY <1>6, <1>7, <1>10 DEF f

(* One more field is visited.                                              *)
LEMMA PartialPut ==
  ASSUME NEW T, NEW v, NEW D, NEW p, p \in Parts(T), NEW w, w = Partial(T, v, D)
  PROVE  [w EXCEPT ![p] = v[p]] = Partial(T, v, D \cup {p})
BY DEF Partial

LEMMA PartialSame ==
  ASSUME NEW T, NEW v, NEW D, NEW p, p \in Parts(T) => v[p] = Zero(T)[p]
  PROVE  Partial(T, v, D) = Partial(T, v, D \cup {p})
BY DEF Partial

LEMMA MineIs ==
  ASSUME NEW T, NEW kv, NEW v, Encodes(T, kv, v), NEW p \in Parts(T)
  PROVE  /\ p \in Key /\ p # <<>> /\ Mine(T, kv, p) \in SUBSET (1..Len(kv))
         /\ IsFiniteSet(Mine(T, kv, p))
         /\ \A j \in Mine(T, kv, p) : kv[j].key \in Key /\ AtOrWithin(kv[j].key, p)
<1>1. IsType(T) /\ InKeyOrder(kv)
  BY DEF Encodes
<1>2. p \in Key /\ p # <<>>
  BY <1>1 DEF IsType, Parts
<1>3. Len(kv) \in Nat /\ DOMAIN kv = 1..Len(kv) /\ \A j \in 1..Len(kv) : kv[j].key \in Key
  BY <1>1, InKeyOrderIs
<1>4. Mine(T, kv, p) \in SUBSET (1..Len(kv))
  BY <1>3 DEF Mine
<1>5. IsFiniteSet(Mine(T, kv, p))
  <2>1. IsFiniteSet(1..Len(kv))
    BY <1>3, FS_Interval
  <2> QED
    BY <1>4, <2>1, FS_Subset
<1>6. Len(p) \in Nat
  BY <1>2, KeysAre
<1>7. ASSUME NEW j \in Mine(T, kv, p) PROVE AtOrWithin(kv[j].key, p)
  <2>1. Claims(T, p, kv[j].key)
    BY DEF Mine
  <2>2. CASE kv[j].key = p
    BY <1>6, <2>2 DEF AtOrWithin
  <2>3. CASE kv[j].key # p
    BY <2>1, <2>3 DEF Claims, Within
  <2> QED
    BY <2>2, <2>3
<1> QED
  BY <1>2, <1>3, <1>4, <1>5, <1>7

(* The pairs of a part come before those of the parts after it.            *)
LEMMA MineLater ==
  ASSUME NEW T, NEW kv, NEW v, Encodes(T, kv, v), NEW D, NEW p \in Parts(T), NextField(T, D, p),
         NEW q \in Parts(T), q \notin D \cup {p}, NEW a \in Mine(T, kv, p), NEW b \in Mine(T, kv, q)
  PROVE  a < b
<1>1. IsType(T) /\ InKeyOrder(kv)
  BY DEF Encodes
<1>2. p \in Key /\ q \in Key
  BY MineIs
<1>3. Before(p, q) /\ p # q
  BY DEF NextField, Parts
<1>4. ~AtOrWithin(q, p)
  <2> SUFFICES ASSUME AtOrWithin(q, p) PROVE FALSE
    OBVIOUS
  <2>1. Len(p) \in Nat /\ Len(q) \in Nat
    BY <1>2, KeysAre
  <2>2. Len(p) # Len(q)
    <3> SUFFICES ASSUME Len(p) = Len(q) PROVE FALSE
      OBVIOUS
    <3>1. AtOrWithin(p, q)
      BY DEF AtOrWithin
    <3> QED
      BY <1>2, <1>3, <3>1, WithinBoth
  <2>3. Within(q, p)
    BY <2>1, <2>2 DEF AtOrWithin, Within
  <2> QED
    BY <1>1, <2>3 DEF IsType, Parts
<1>5. /\ a \in 1..Len(kv) /\ kv[a].key \in Key /\ AtOrWithin(kv[a].key, p)
      /\ b \in 1..Len(kv) /\ kv[b].key \in Key /\ AtOrWithin(kv[b].key, q)
  BY MineIs
<1>6. Before(kv[a].key, kv[b].key)
  BY <1>2, <1>3, <1>4, <1>5, BeforeBelow
<1> QED
  BY <1>1, <1>5, <1>6, InKeyOrderIs

(* Where the decoder finds the pairs of a part: at the first of them.      *)
LEMMA SkippedIs ==
  ASSUME NEW T, NEW kv, NEW v, Encodes(T, kv, v), NEW D, NEW p \in Parts(T), p \notin D,
         T[p] \notin MapKinds, NEW next \in Nat, Ready(T, kv, D, next), NEW a \in Mine(T, kv, p),
         \A j \in DOMAIN kv : AtOrWithin(kv[j].key, p) => a <= j
  PROVE  Skipped(T[p], p, kv, next) = a
<1> DEFINE S == {j \in DOMAIN kv : HasPrefix(kv[j].key, p)}
           i == FirstIn(S, next, kv)
<1>1. InKeyOrder(kv) /\ Len(kv) \in Nat /\ DOMAIN kv = 1..Len(kv)
      /\ \A j \in 1..Len(kv) : kv[j].key \in Key
  BY InKeyOrderIs DEF Encodes
<1>2. p \in Key /\ a \in 1..Len(kv) /\ kv[a].key \in Key /\ AtOrWithin(kv[a].key, p)
  BY MineIs
<1>3. a \in S /\ next <= a /\ next \in 1..(Len(kv) + 1)
  BY <1>1, <1>2, PrefixWithin DEF Ready
<1>4. S \in SUBSET (1..Len(kv))
  BY <1>1
<1>5. i \in next..(Len(kv) + 1) /\ (i \in S \/ i = Len(kv) + 1) /\ i <= a
  <2> HIDE DEF S
  <2> QED
    BY <1>1, <1>3, <1>4, FirstInIs
<1>6. Skipped(T[p], p, kv, next) = i
  BY DEF Skipped
<1> HIDE DEF i
<1>7. i \in 1..Len(kv) /\ HasPrefix(kv[i].key, p) /\ kv[i].key \in Key
  <2>1. i \in S
    BY <1>1, <1>2, <1>5
  <2> QED
    BY <1>1, <1>4, <2>1
<1>8. AtOrWithin(kv[i].key, p)
  <2> SUFFICES ASSUME ~AtOrWithin(kv[i].key, p) PROVE FALSE
    OBVIOUS
  <2>1. Before(kv[a].key, kv[i].key)
    BY <1>2, <1>7, BeforeLonger
  <2>2. a < i
    BY <1>1, <1>2, <1>7, <2>1, InKeyOrderIs
  <2> QED
    BY <1>1, <1>2, <1>5, <1>7, <2>2
<1>9. a <= i
  BY <1>1, <1>7, <1>8
<1> QED
  BY <1>1, <1>2, <1>5, <1>6, <1>7, <1>9

LEMMA LeafStep ==
  ASSUME NEW T, NEW kv, NEW v, Encodes(T, kv, v), NEW D, NEW p \in Parts(T), NextField(T, D, p),
         T[p] \in LeafKinds, NEW g, GotSoFar(T, kv, v, D, g)
  PROVE  GotSoFar(T, kv, v, D \cup {p}, Visit(T, p, kv, g))
<1>1. InKeyOrder(kv) /\ Len(kv) \in Nat /\ DOMAIN kv = 1..Len(kv)
  BY InKeyOrderIs DEF Encodes
<1>2. PICK next \in Nat : Ready(T, kv, D, next) /\ g = Got(Partial(T, v, D), next, TRUE)
  BY DEF GotSoFar
<1>3. Claimed(T, kv, p) = {Pair(p, v[p])} /\ Parses(T[p], v[p])
  BY DEF Encodes, IsRead
<1>4. PICK a \in Mine(T, kv, p) : kv[a] = Pair(p, v[p])
  BY <1>3 DEF Claimed
<1>5. p \notin D /\ T[p] \notin MapKinds /\ T[p] \notin ListKinds
  BY DEF NextField
<1>6. a \in 1..Len(kv) /\ p \in Key
  BY MineIs
<1>7. kv[a].key = p /\ kv[a].val = v[p]
  BY <1>4 DEF Pair
<1>8. ASSUME NEW j \in DOMAIN kv, AtOrWithin(kv[j].key, p) PROVE a <= j
  <2>1. kv[j].key \in Key
    BY <1>1, InKeyOrderIs
  <2>2. CASE kv[j].key = p
    BY <1>1, <1>6, <1>7, <2>2, InKeyOrderIs
  <2>3. CASE kv[j].key # p
    <3>1. Len(p) # Len(kv[j].key)
      <4> SUFFICES ASSUME Len(p) = Len(kv[j].key) PROVE FALSE
        OBVIOUS
      <4>1. AtOrWithin(p, kv[j].key)
        BY <1>8 DEF AtOrWithin
      <4> QED
        BY <1>6, <1>8, <2>1, <2>3, <4>1, WithinBoth
    <3>2. Within(kv[j].key, p)
      BY <1>6, <1>8, <2>1, <3>1, KeysAre DEF AtOrWithin, Within
    <3>3. Before(kv[a].key, kv[j].key)
      BY <1>6, <1>7, <2>1, <3>2, BeforeWithin
    <3>4. a < j
      BY <1>1, <1>6, <3>3, InKeyOrderIs
    <3> QED
      BY <1>1, <1>6, <3>4
  <2> QED
    BY <2>2, <2>3
<1>9. Skipped(T[p], p, kv, g.next) = a
  <2>1. g.next = next
    BY <1>2 DEF Got
  <2> QED
    BY <1>2, <1>5, <1>8, <2>1, SkippedIs
<1>10. Visit(T, p, kv, g) = Put(g, p, v[p], a + 1)
  <2>1. g.ok /\ ~(a > Len(kv))
    BY <1>1, <1>2, <1>6 DEF Got
  <2>2. Visit(T, p, kv, g) = TakeLeaf(T[p], p, kv, g, a)
    BY <1>9, <2>1 DEF Visit
  <2> QED
    BY <1>3, <1>7, <2>2 DEF TakeLeaf
<1>11. Visit(T, p, kv, g) = Got(Partial(T, v, D \cup {p}), a + 1, TRUE)
  <2>1. g.val = Partial(T, v, D)
    BY <1>2 DEF Got
  <2> QED
    <3>1. [g.val EXCEPT ![p] = v[p]] = Partial(T, v, D \cup {p})
      BY <2>1, PartialPut
    <3> QED
      BY <1>10, <3>1 DEF Put
<1>12. Ready(T, kv, D \cup {p}, a + 1)
  <2>1. ASSUME NEW q \in Parts(T) \ (D \cup {p}), NEW j \in Mine(T, kv, q) PROVE a + 1 <= j
    <3>1. j \in 1..Len(kv)
      BY MineIs
    <3>2. a < j
      BY MineLater
    <3> QED
      BY <1>1, <1>6, <3>1, <3>2
  <2>2. a + 1 \in 1..(Len(kv) + 1)
    BY <1>1, <1>6
  <2> QED
    BY <2>1, <2>2 DEF Ready
<1>13. a + 1 \in Nat
  BY <1>6
<1> QED
  BY <1>11, <1>12, <1>13 DEF GotSoFar

LEMMA MapStep ==
  ASSUME NEW T, NEW kv, NEW v, Encodes(T, kv, v), NEW D, NEW p \in Parts(T), NextField(T, D, p),
         T[p] \in MapKinds, NEW g, GotSoFar(T, kv, v, D, g)
  PROVE  GotSoFar(T, kv, v, D \cup {p}, Visit(T, p, kv, g))
<1> DEFINE x == v[p]
           M == Mine(T, kv, p)
<1>1. InKeyOrder(kv) /\ Len(kv) \in Nat /\ DOMAIN kv = 1..Len(kv)
  BY InKeyOrderIs DEF Encodes
<1>2. PICK next \in Nat : Ready(T, kv, D, next) /\ g = Got(Partial(T, v, D), next, TRUE)
  BY DEF GotSoFar
<1>3. /\ DOMAIN x \subseteq Key /\ x = [k \in DOMAIN x |-> x[k]]
      /\ Claimed(T, kv, p) = {Pair(p \o k, x[k]) : k \in DOMAIN x}
      /\ \A k \in DOMAIN x : Parses(T[p], x[k])
  BY DEF Encodes, IsRead
<1>4. p \notin D /\ next \in 1..(Len(kv) + 1) /\ \A j \in M : next <= j
  BY <1>2 DEF NextField, Ready
<1>5. p \in Key /\ M \in SUBSET (1..Len(kv)) /\ IsFiniteSet(M)
  BY MineIs
<1>6. Skipped(T[p], p, kv, g.next) = next /\ g.ok /\ g.val = Partial(T, v, D)
  BY <1>2 DEF Skipped, Got
<1>7. M = {j \in next..Len(kv) : Within(kv[j].key, p)}
  <2>1. \A j \in DOMAIN kv : j \in M <=> Within(kv[j].key, p)
    BY DEF Mine, Claims
  <2>2. \A j \in M : j \in next..Len(kv)
    <3> HIDE DEF M
    <3> SUFFICES ASSUME NEW j \in M PROVE j \in next..Len(kv)
      OBVIOUS
    <3>1. j \in 1..Len(kv) /\ next <= j
      BY <1>4, <1>5
    <3> QED
      BY <1>1, <3>1
  <2>3. \A j \in next..Len(kv) : j \in DOMAIN kv
    BY <1>1, <1>4
  <2>4. \A j \in M : j \in DOMAIN kv
    BY <1>1, <1>5
  <2> HIDE DEF M
  <2> QED
    BY <2>1, <2>2, <2>3, <2>4
<1>8. Cardinality(M) \in Nat /\ next + Cardinality(M) <= Len(kv) + 1
  <2>1. M \in SUBSET (next..Len(kv)) /\ IsFiniteSet(next..Len(kv))
    <3>1. M \in SUBSET (next..Len(kv))
      BY <1>7
    <3> QED
      BY <1>1, <3>1, FS_Interval
  <2>2. Cardinality(next..Len(kv)) = Len(kv) - next + 1
    <3>1. next \in Int /\ Len(kv) \in Int
      BY <1>1
    <3>2. Cardinality(next..Len(kv)) = IF next > Len(kv) THEN 0 ELSE Len(kv) - next + 1
      BY <3>1, FS_Interval
    <3> QED
      BY <1>1, <1>4, <3>2
  <2>3. Cardinality(M) <= Cardinality(next..Len(kv)) /\ Cardinality(M) \in Nat
    BY <2>1, FS_Subset, FS_CardinalityType
  <2> QED
    BY <1>1, <2>2, <2>3
<1>9. ASSUME NEW q \in Parts(T) \ (D \cup {p}), NEW j \in Mine(T, kv, q)
      PROVE  next + Cardinality(M) <= j
  <2>1. j \in 1..Len(kv) /\ next <= j
    BY <1>2, MineIs DEF Ready
  <2>2. \A a \in M : a < j
    BY MineLater
  <2>3. M \in SUBSET (next..(j - 1))
    <3> HIDE DEF M
    <3> SUFFICES ASSUME NEW a \in M PROVE a \in next..(j - 1)
      OBVIOUS
    <3>1. a \in 1..Len(kv) /\ next <= a /\ a < j
      BY <1>4, <1>5, <2>2
    <3> QED
      BY <1>1, <2>1, <3>1
  <2>4. Cardinality(next..(j - 1)) = j - 1 - next + 1 /\ IsFiniteSet(next..(j - 1))
    <3>1. next \in Int /\ j - 1 \in Int
      BY <2>1
    <3>2. /\ Cardinality(next..(j - 1)) = IF next > j - 1 THEN 0 ELSE j - 1 - next + 1
          /\ IsFiniteSet(next..(j - 1))
      BY <3>1, FS_Interval
    <3> QED
      BY <2>1, <3>2
  <2>5. Cardinality(M) <= Cardinality(next..(j - 1))
    BY <2>3, <2>4, FS_Subset
  <2> QED
    BY <1>8, <2>1, <2>4, <2>5
<1>10. Ready(T, kv, D \cup {p}, next + Cardinality(M))
  <2>1. next + Cardinality(M) \in 1..(Len(kv) + 1)
    BY <1>1, <1>8, <1>4
  <2> QED
    BY <1>9, <2>1 DEF Ready
<1>11. next + Cardinality(M) \in Nat
  BY <1>8
<1>12. CASE next > Len(kv)
  <2>1. M = {}
    BY <1>1, <1>7, <1>12
  <2>2. Cardinality(M) = 0
    BY <2>1, FS_EmptySet
  <2>3. x = Zero(T)[p]
    <3>1. Claimed(T, kv, p) = {}
      BY <2>1 DEF Claimed
    <3>2. DOMAIN x = {}
      BY <1>3, <3>1
    <3>3. x = [k \in {} |-> ""]
      BY <1>3, <3>2
    <3>4. Zero(T)[p] = [k \in {} |-> ""]
      BY DEF Zero
    <3> QED
      BY <3>3, <3>4
  <2>4. Visit(T, p, kv, g) = Got(g.val, next, TRUE)
    BY <1>6, <1>12 DEF Visit
  <2>5. Visit(T, p, kv, g) = Got(Partial(T, v, D \cup {p}), next + Cardinality(M), TRUE)
    <3>1. next + Cardinality(M) = next
      BY <2>2
    <3>2. Partial(T, v, D) = Partial(T, v, D \cup {p})
      BY <2>3, PartialSame
    <3> HIDE DEF M
    <3> QED
      BY <1>6, <2>4, <3>1, <3>2, Zenon
  <2> QED
    BY <1>10, <1>11, <2>5 DEF GotSoFar
<1>13. CASE ~(next > Len(kv))
  <2> DEFINE rest(j) == SubSeq(kv[j].key, Len(p) + 1, Len(kv[j].key))
             bad == {j \in M : ~Parses(T[p], kv[j].val)}
             y == [k \in {rest(j) : j \in M} |-> kv[CHOOSE j \in M : rest(j) = k].val]
  <2>1. Visit(T, p, kv, g) = TakeMap(T[p], p, kv, g, next)
    BY <1>6, <1>13 DEF Visit
  <2>2. TakeMap(T[p], p, kv, g, next) =
            IF bad # {} THEN Failed(g, next + Cardinality({j \in M : j < Smallest(bad)}))
            ELSE Put(g, p, y, next + Cardinality(M))
    BY ONLY <1>7 DEF TakeMap
  <2>3. ASSUME NEW k \in Key PROVE SubSeq(p \o k, Len(p) + 1, Len(p \o k)) = k
    <3>1. Len(p) \in Nat /\ Len(k) \in Nat
      BY <1>5, KeysAre
    <3>2. /\ p \o k \in Seq(Nat) /\ Len(p \o k) = Len(p) + Len(k)
          /\ \A i \in 1..(Len(p) + Len(k)) : (p \o k)[i] = IF i <= Len(p) THEN p[i] ELSE k[i - Len(p)]
      BY <1>5, ConcatProperties DEF Key
    <3> DEFINE c == p \o k
               s == SubSeq(c, Len(p) + 1, Len(c))
    <3>3. /\ c \in Seq(Nat) /\ Len(c) = Len(p) + Len(k)
          /\ \A i \in 1..Len(k) : c[Len(p) + i] = k[i]
      <4>1. ASSUME NEW i \in 1..Len(k) PROVE c[Len(p) + i] = k[i]
        <5>1. /\ Len(p) + i \in 1..(Len(p) + Len(k)) /\ ~(Len(p) + i <= Len(p))
              /\ Len(p) + i - Len(p) = i
          BY <3>1
        <5> QED
          BY <3>2, <5>1
      <4> QED
        BY <3>2, <4>1
    <3> HIDE DEF c
    <3>4. \A i \in (Len(p) + 1)..Len(c) : c[i] \in Nat
      BY <3>1, <3>3, ElementOfSeq
    <3>5. /\ s \in Seq(Nat) /\ Len(s) = Len(k)
          /\ \A i \in 1..Len(k) : s[i] = c[Len(p) + 1 + i - 1]
      <4>1. Len(p) + 1 \in Int /\ Len(c) \in Int /\ Len(c) - (Len(p) + 1) + 1 = Len(k)
        BY <3>1, <3>3
      <4>2. /\ s \in Seq(Nat)
            /\ Len(s) = IF Len(p) + 1 <= Len(c) THEN Len(c) - (Len(p) + 1) + 1 ELSE 0
            /\ \A i \in 1..(Len(c) - (Len(p) + 1) + 1) : s[i] = c[Len(p) + 1 + i - 1]
        BY <3>4, <4>1, SubSeqProperties
      <4> HIDE DEF s
      <4> QED
        BY <3>1, <3>3, <4>1, <4>2
    <3> HIDE DEF s
    <3>6. \A i \in 1..Len(k) : s[i] = k[i]
      <4>1. \A i \in 1..Len(k) : Len(p) + 1 + i - 1 = Len(p) + i
        BY <3>1
      <4> QED
        BY <3>3, <3>5, <4>1
    <3>7. s = k
      BY <3>5, <3>6, SeqEqual DEF Key
    <3> QED
      BY <3>7 DEF s, c
  <2>4. ASSUME NEW j \in M PROVE rest(j) \in DOMAIN x /\ kv[j].val = x[rest(j)]
    <3>1. kv[j] \in Claimed(T, kv, p)
      BY DEF Claimed
    <3>2. PICK k \in DOMAIN x : kv[j] = Pair(p \o k, x[k])
      BY <1>3, <3>1
    <3>3. kv[j].key = p \o k /\ kv[j].val = x[k] /\ k \in Key
      BY <1>3, <3>2 DEF Pair
    <3>4. rest(j) = k
      BY <2>3, <3>3
    <3> QED
      BY <3>3, <3>4
  <2>5. ASSUME NEW k \in DOMAIN x PROVE \E j \in M : rest(j) = k
    <3>1. Pair(p \o k, x[k]) \in Claimed(T, kv, p)
      BY <1>3
    <3>2. PICK j \in M : kv[j] = Pair(p \o k, x[k])
      BY <3>1 DEF Claimed
    <3>3. kv[j].key = p \o k /\ k \in Key
      BY <1>3, <3>2 DEF Pair
    <3>4. rest(j) = k
      BY <2>3, <3>3
    <3> QED
      BY <3>4
  <2>6. y = x
    <3> HIDE DEF rest, M, x
    <3>1. {rest(j) : j \in M} = DOMAIN x
      BY <2>4, <2>5
    <3>2. ASSUME NEW k \in DOMAIN x PROVE kv[CHOOSE j \in M : rest(j) = k].val = x[k]
      BY <2>4, <2>5
    <3>3. y = [k \in DOMAIN x |-> kv[CHOOSE j \in M : rest(j) = k].val]
      BY <3>1
    <3>4. y = [k \in DOMAIN x |-> x[k]]
      BY <3>2, <3>3
    <3> HIDE DEF y
    <3> QED
      BY <1>3, <3>4
  <2> HIDE DEF y
  <2>7. bad = {}
    <3> SUFFICES ASSUME NEW j \in M PROVE Parses(T[p], kv[j].val)
      OBVIOUS
    <3> HIDE DEF rest, M, x
    <3> QED
      BY <1>3, <2>4
  <2> HIDE DEF bad
  <2>8. Visit(T, p, kv, g) = Got(Partial(T, v, D \cup {p}), next + Cardinality(M), TRUE)
    <3>1. Visit(T, p, kv, g) = Put(g, p, v[p], next + Cardinality(M))
      BY <2>1, <2>2, <2>6, <2>7, Zenon
    <3>2. [g.val EXCEPT ![p] = v[p]] = Partial(T, v, D \cup {p})
      BY <1>6, PartialPut
    <3> HIDE DEF M
    <3> QED
      BY <3>1, <3>2 DEF Put
  <2> QED
    BY <1>10, <1>11, <2>8 DEF GotSoFar
<1> QED
  BY <1>12, <1>13

LEMMA LastName ==
  ASSUME NEW p \in Key, NEW n \in Nat
  PROVE  /\ Append(p, n) \in Key /\ Len(Append(p, n)) = Len(p) + 1 /\ Last(Append(p, n)) = n
         /\ Within(Append(p, n), p)
<1>1. Len(p) \in Nat /\ p \in Seq(Nat)
  BY KeysAre DEF Key
<1>2. /\ Append(p, n) \in Seq(Nat) /\ Len(Append(p, n)) = Len(p) + 1
      /\ Append(p, n)[Len(p) + 1] = n /\ \A i \in 1..Len(p) : Append(p, n)[i] = p[i]
  BY <1>1, AppendProperties
<1> QED
  BY <1>1, <1>2 DEF Key, Last, Within, AtOrWithin

(* The pairs of a list are next to each other.                             *)
LEMMA MineOfList ==
  ASSUME NEW T, NEW kv, NEW v, Encodes(T, kv, v), NEW p \in Parts(T), T[p] \in ListKinds
  PROVE  \E a, b \in Mine(T, kv, p) :
            /\ Mine(T, kv, p) = a..b
            /\ \A j \in DOMAIN kv : AtOrWithin(kv[j].key, p) => a <= j /\ j <= b
<1> DEFINE M == Mine(T, kv, p)
<1>1. InKeyOrder(kv) /\ Len(kv) \in Nat /\ DOMAIN kv = 1..Len(kv)
      /\ \A j \in 1..Len(kv) : kv[j].key \in Key
  BY InKeyOrderIs DEF Encodes
<1>2. p \in Key /\ M \in SUBSET (1..Len(kv)) /\ IsFiniteSet(M)
      /\ \A j \in M : AtOrWithin(kv[j].key, p)
  BY MineIs
<1>3. M # {}
  <2>1. IsRead(T[p], p, Claimed(T, kv, p), v[p])
    BY DEF Encodes
  <2>2. Claimed(T, kv, p) # {}
    BY <2>1 DEF IsRead
  <2> QED
    BY <2>2 DEF Claimed
<1>4. \A j \in DOMAIN kv : AtOrWithin(kv[j].key, p) => j \in M
  BY DEF Mine, Claims
<1> HIDE DEF M
<1>5. PICK a \in M, b \in M : \A j \in M : a <= j /\ j <= b
  <2>1. M \in SUBSET Int
    BY <1>2
  <2> QED
    BY <1>2, <1>3, <2>1, Extremes
<1>6. a \in 1..Len(kv) /\ b \in 1..Len(kv) /\ AtOrWithin(kv[a].key, p) /\ AtOrWithin(kv[b].key, p)
  BY <1>2
<1>7. ASSUME NEW j \in a..b PROVE j \in M
  <2>1. j \in 1..Len(kv)
    BY <1>1, <1>6
  <2>2. CASE j = a \/ j = b
    BY <2>2
  <2>3. CASE j # a /\ j # b
    <3>1. a < j /\ j < b
      BY <1>6, <2>3
    <3>2. Before(kv[a].key, kv[j].key) /\ Before(kv[j].key, kv[b].key)
      BY <1>1, <1>6, <2>1, <3>1, InKeyOrderIs
    <3>3. AtOrWithin(kv[j].key, p)
      BY <1>1, <1>2, <1>6, <2>1, <3>2, BetweenWithin
    <3> QED
      BY <1>1, <1>4, <2>1, <3>3
  <2> QED
    BY <2>2, <2>3
<1>8. ASSUME NEW j \in M PROVE j \in a..b
  <2>1. j \in Int /\ a \in Int /\ b \in Int
    BY <1>2, <1>6
  <2> QED
    BY <1>5, <2>1
<1>9. M = a..b
  BY <1>7, <1>8
<1>10. \A j \in DOMAIN kv : AtOrWithin(kv[j].key, p) => a <= j /\ j <= b
  BY <1>4, <1>5
<1> QED
  BY <1>9, <1>10 DEF M

LEMMA ListStep ==
  ASSUME NEW T, NEW kv, NEW v, Encodes(T, kv, v), NEW D, NEW p \in Parts(T), NextField(T, D, p),
         T[p] \in ListKinds, NEW g, GotSoFar(T, kv, v, D, g)
  PROVE  GotSoFar(T, kv, v, D \cup {p}, Visit(T, p, kv, g))
<1> DEFINE x == v[p]
           M == Mine(T, kv, p)
           n == Len(x)
<1>1. InKeyOrder(kv) /\ Len(kv) \in Nat /\ DOMAIN kv = 1..Len(kv)
      /\ \A j \in 1..Len(kv) : kv[j].key \in Key
  BY InKeyOrderIs DEF Encodes
<1>2. PICK next \in Nat : Ready(T, kv, D, next) /\ g = Got(Partial(T, v, D), next, TRUE)
  BY DEF GotSoFar
<1>3. /\ x \in Seq(STRING) \ {<<>>}
      /\ \A pr \in Claimed(T, kv, p) : \E i \in 1..n : pr = Pair(Append(p, i - 1), x[i])
      /\ Pair(Append(p, n - 1), x[n]) \in Claimed(T, kv, p)
      /\ \A i \in 1..n : Pair(Append(p, i - 1), x[i]) \in Claimed(T, kv, p) \/ x[i] = Empty(T[p])
      /\ \A i \in 1..n : Parses(T[p], x[i]) /\ i - 1 \in Indices
  BY DEF Encodes, IsRead
<1>4. p \in Key /\ M \in SUBSET (1..Len(kv)) /\ IsFiniteSet(M)
  BY MineIs
<1>5. PICK a \in M, b \in M : /\ M = a..b
                              /\ \A j \in DOMAIN kv : AtOrWithin(kv[j].key, p) => a <= j /\ j <= b
  BY MineOfList
<1>6. p \notin D /\ T[p] \notin MapKinds
  BY DEF NextField
<1>7. g.next = next /\ g.ok /\ g.val = Partial(T, v, D)
  BY <1>2 DEF Got
<1>8. Skipped(T[p], p, kv, g.next) = a
  <2>1. \A j \in DOMAIN kv : AtOrWithin(kv[j].key, p) => a <= j
    BY <1>5
  <2>2. a \in Mine(T, kv, p)
    OBVIOUS
  <2>3. Skipped(T[p], p, kv, next) = a
    BY <1>2, <1>6, <2>1, <2>2, SkippedIs
  <2> QED
    BY <1>7, <2>3
<1>9. a \in 1..Len(kv) /\ b \in 1..Len(kv)
  BY <1>4
<1> HIDE DEF M
<1>10. n \in Nat \ {0} /\ x = [i \in 1..n |-> x[i]]
  <2>1. n \in Nat /\ x \in [1..n -> STRING]
    BY <1>3, LenProperties
  <2>2. n # 0
    BY <1>3, EmptySeq
  <2> HIDE DEF n, x
  <2> QED
    BY <2>1, <2>2
<1> HIDE DEF n, x
<1>11. ASSUME NEW j \in M
       PROVE  \E i \in 1..n : /\ i - 1 \in Nat /\ kv[j].key = Append(p, i - 1) /\ kv[j].val = x[i]
                              /\ kv[j] = Pair(Append(p, i - 1), x[i])
  <2>1. kv[j] \in Claimed(T, kv, p)
    BY DEF Claimed, M
  <2>2. PICK i \in 1..n : kv[j] = Pair(Append(p, i - 1), x[i])
    BY <1>3, <2>1
  <2>3. i - 1 \in Nat
    BY <1>10
  <2>4. kv[j].key = Append(p, i - 1) /\ kv[j].val = x[i]
    BY <2>2 DEF Pair
  <2> QED
    BY <2>2, <2>3, <2>4
<1>12. ASSUME NEW i \in 1..n, Pair(Append(p, i - 1), x[i]) \in Claimed(T, kv, p)
       PROVE  \E j \in M : Last(kv[j].key) = i - 1
  <2>1. PICK j \in M : kv[j] = Pair(Append(p, i - 1), x[i])
    BY <1>12 DEF Claimed, M
  <2>2. kv[j].key = Append(p, i - 1) /\ i - 1 \in Nat
    BY <1>10, <2>1 DEF Pair
  <2> QED
    BY <1>4, <2>2, LastName
<1>13. ASSUME NEW j \in M
       PROVE  /\ Last(kv[j].key) \in 0..(n - 1) /\ kv[j].val = x[Last(kv[j].key) + 1]
              /\ IsElement(kv[j].key, p) /\ Within(kv[j].key, p) /\ Parses(T[p], kv[j].val)
  <2>1. PICK i \in 1..n : i - 1 \in Nat /\ kv[j].key = Append(p, i - 1) /\ kv[j].val = x[i]
    BY <1>11
  <2>2. /\ Last(kv[j].key) = i - 1
        /\ Len(kv[j].key) = Len(p) + 1 /\ Within(kv[j].key, p)
    BY <1>4, <2>1, LastName
  <2>3. i - 1 \in 0..(n - 1) /\ (i - 1) + 1 = i
    BY <1>10
  <2>4. Parses(T[p], x[i]) /\ i - 1 \in Indices
    BY <1>3 DEF n, x
  <2> QED
    BY <2>1, <2>2, <2>3, <2>4 DEF IsElement
<1> DEFINE E == {j \in DOMAIN kv : ~Within(kv[j].key, p)}
           end == FirstIn(E, a, kv)
<1>14. end = b + 1
  <2>1. /\ end \in a..(Len(kv) + 1) /\ (end \in E \/ end = Len(kv) + 1)
        /\ \A j \in E : a <= j => end <= j
    <3>1. E \in SUBSET (1..Len(kv)) /\ a \in 1..(Len(kv) + 1)
      BY <1>1, <1>9
    <3> HIDE DEF E
    <3> QED
      BY <1>1, <3>1, FirstInIs
  <2>2. b + 1 = Len(kv) + 1 \/ b + 1 \in E
    <3> SUFFICES ASSUME b + 1 # Len(kv) + 1 PROVE b + 1 \in E
      OBVIOUS
    <3>1. b + 1 \in 1..Len(kv)
      BY <1>1, <1>9
    <3>2. ~AtOrWithin(kv[b + 1].key, p)
      BY <1>1, <1>5, <1>9, <3>1
    <3> QED
      BY <1>1, <3>1, <3>2 DEF Within
  <2>3. a <= b
    BY <1>5, <1>9
  <2>4. end \notin M
    <3> SUFFICES ASSUME end \in M PROVE FALSE
      OBVIOUS
    <3>1. Within(kv[end].key, p) /\ end \in 1..Len(kv)
      BY <1>4, <1>13
    <3> HIDE DEF end
    <3> QED
      BY <1>1, <2>1, <3>1
  <2>5. end <= b + 1
    <3> HIDE DEF end, E
    <3> QED
      BY <1>1, <1>9, <2>1, <2>2, <2>3
  <2> HIDE DEF end, E
  <2> QED
    BY <1>1, <1>5, <1>9, <2>1, <2>4, <2>5
<1>15. a..(end - 1) = M
  <2>1. end - 1 = b
    BY <1>9, <1>14
  <2> QED
    BY <1>5, <2>1
<1> DEFINE deep  == {j \in a..(end - 1) : ~IsElement(kv[j].key, p)}
           index == [j \in a..(end - 1) |-> Last(kv[j].key)]
           bad   == {j \in a..(end - 1) : ~Parses(T[p], kv[j].val)}
           at(m) == {j \in a..(end - 1) : index[j] = m - 1 /\ \A k \in bad : j < k}
           y == [m \in 1..(Greatest(Range(index) \cup {0}) + 1) |->
                    IF at(m) = {} THEN Empty(T[p]) ELSE kv[CHOOSE j \in at(m) : TRUE].val]
<1>16. deep = {} /\ bad = {}
  BY <1>13, <1>15
<1>17. TakeList(T[p], p, kv, g, a) =
            IF deep # {} THEN Failed(g, Smallest(deep))
            ELSE Got([g.val EXCEPT ![p] = y], end, bad = {})
  BY DEF TakeList
<1>18. Visit(T, p, kv, g) = TakeList(T[p], p, kv, g, a)
  <2>1. ~(a > Len(kv))
    BY <1>1, <1>9
  <2> QED
    BY <1>7, <1>8, <2>1 DEF Visit
<1> HIDE DEF deep
<1>19. index = [j \in M |-> Last(kv[j].key)]
  BY <1>15
<1>20. \A m : at(m) = {j \in M : index[j] = m - 1}
  BY <1>15, <1>16
<1> HIDE DEF index, at, bad
<1>21. Greatest(Range(index) \cup {0}) = n - 1
  <2> DEFINE S == Range(index) \cup {0}
  <2>1. PICK j \in M : Last(kv[j].key) = n - 1
    <3>1. n \in 1..n
      BY <1>10
    <3> QED
      BY <1>3, <1>12, <3>1
  <2>2. n - 1 \in S
    BY <1>19, <2>1 DEF Range
  <2>3. \A m \in S : m \in 0..(n - 1)
    BY <1>10, <1>13, <1>19 DEF Range
  <2> HIDE DEF S
  <2>4. \A m \in S : m <= n - 1
    BY <1>10, <2>3
  <2>5. \A m \in S : n - 1 <= m => m = n - 1
    BY <1>10, <2>3
  <2>6. Greatest(S) \in S /\ \A m \in S : m <= Greatest(S)
    BY <2>2, <2>4 DEF Greatest
  <2>7. Greatest(S) = n - 1
    BY <2>2, <2>5, <2>6
  <2> QED
    BY <2>7 DEF S
<1>22. ASSUME NEW m \in 1..n
       PROVE  (IF at(m) = {} THEN Empty(T[p]) ELSE kv[CHOOSE j \in at(m) : TRUE].val) = x[m]
  <2>1. CASE at(m) = {}
    <3>1. ~(\E j \in M : Last(kv[j].key) = m - 1)
      BY <1>19, <1>20, <2>1
    <3>2. x[m] = Empty(T[p])
      BY <1>3, <1>12, <3>1 DEF n, x
    <3> QED
      BY <2>1, <3>2
  <2>2. CASE at(m) # {}
    <3>1. PICK j \in at(m) : j = CHOOSE k \in at(m) : TRUE
      BY <2>2
    <3>2. j \in M /\ Last(kv[j].key) = m - 1
      BY <1>19, <1>20
    <3>3. (m - 1) + 1 = m
      BY <1>10
    <3>4. kv[j].val = x[m]
      BY <1>13, <3>2, <3>3
    <3> QED
      BY <2>2, <3>1, <3>4
  <2> QED
    BY <2>1, <2>2
<1>23. y = x
  <2>1. Greatest(Range(index) \cup {0}) + 1 = n
    BY <1>10, <1>21
  <2>2. y = [m \in 1..n |-> IF at(m) = {} THEN Empty(T[p]) ELSE kv[CHOOSE j \in at(m) : TRUE].val]
    BY <2>1
  <2>3. y = [m \in 1..n |-> x[m]]
    BY <1>22, <2>2
  <2> HIDE DEF y
  <2> QED
    BY <1>10, <2>3
<1> HIDE DEF y, end
<1>24. Visit(T, p, kv, g) = Got(Partial(T, v, D \cup {p}), b + 1, TRUE)
  <2>1. [g.val EXCEPT ![p] = v[p]] = Partial(T, v, D \cup {p})
    BY <1>7, PartialPut
  <2>2. Visit(T, p, kv, g) = Put(g, p, v[p], b + 1)
    BY <1>14, <1>16, <1>17, <1>18, <1>23, Zenon DEF x, Put
  <2> QED
    BY <2>1, <2>2 DEF Put
<1>25. Ready(T, kv, D \cup {p}, b + 1)
  <2>1. ASSUME NEW q \in Parts(T) \ (D \cup {p}), NEW j \in Mine(T, kv, q) PROVE b + 1 <= j
    <3>1. j \in 1..Len(kv)
      BY MineIs
    <3>2. b < j
      BY MineLater DEF M
    <3> QED
      BY <1>1, <1>9, <3>1, <3>2
  <2>2. b + 1 \in 1..(Len(kv) + 1)
    BY <1>1, <1>9
  <2> QED
    BY <2>1, <2>2 DEF Ready
<1>26. b + 1 \in Nat
  BY <1>9
<1> QED
  BY <1>24, <1>25, <1>26 DEF GotSoFar

LEMMA StructStep ==
  ASSUME NEW T, NEW kv, NEW v, Encodes(T, kv, v), NEW D, NEW p, T[p] = "struct",
         NextField(T, D, p), NEW g, GotSoFar(T, kv, v, D, g)
  PROVE  GotSoFar(T, kv, v, D \cup {p}, Visit(T, p, kv, g))
<1> DEFINE S == {j \in DOMAIN kv : HasPrefix(kv[j].key, p)}
<1>1. IsType(T) /\ InKeyOrder(kv) /\ Len(kv) \in Nat /\ DOMAIN kv = 1..Len(kv)
      /\ \A j \in 1..Len(kv) : kv[j].key \in Key
  BY InKeyOrderIs DEF Encodes
<1>2. PICK next \in Nat : Ready(T, kv, D, next) /\ g = Got(Partial(T, v, D), next, TRUE)
  BY DEF GotSoFar
<1>3. p \in DOMAIN T /\ p \notin D /\ p \notin Parts(T) /\ DOMAIN T \subseteq Key
  BY <1>1 DEF NextField, Parts, IsType
<1>4. g.next = next /\ g.ok /\ g.val = Partial(T, v, D)
  BY <1>2 DEF Got
<1>5. next \in 1..(Len(kv) + 1) /\ \A q \in Parts(T) \ D : \A j \in Mine(T, kv, q) : next <= j
  BY <1>2 DEF Ready
<1> DEFINE i == FirstIn(S, next, kv)
<1>6. /\ i \in next..(Len(kv) + 1)
      /\ \A j \in S : next <= j => i <= j
  <2>1. S \in SUBSET (1..Len(kv))
    BY <1>1
  <2> HIDE DEF S
  <2> QED
    BY <1>1, <1>5, <2>1, FirstInIs
<1>7. Skipped(T[p], p, kv, g.next) = i
  BY <1>4 DEF Skipped
<1> HIDE DEF i
<1>8. Visit(T, p, kv, g) = Got(g.val, i, TRUE)
  BY <1>4, <1>7 DEF Visit
<1>9. Partial(T, v, D) = Partial(T, v, D \cup {p})
  BY <1>3, PartialSame
<1>10. ASSUME NEW q \in Parts(T) \ (D \cup {p}), NEW j \in Mine(T, kv, q) PROVE i <= j
  <2>1. /\ j \in 1..Len(kv) /\ kv[j].key \in Key /\ AtOrWithin(kv[j].key, q)
        /\ q \in Key /\ next <= j /\ p \in Key
    BY <1>3, <1>5, MineIs
  <2>2. CASE AtOrWithin(q, p)
    <3>1. AtOrWithin(kv[j].key, p)
      BY <2>1, <2>2, WithinTransitive
    <3>2. j \in S
      BY <1>1, <2>1, <3>1, PrefixWithin
    <3> QED
      BY <1>6, <2>1, <3>2
  <2>3. CASE ~AtOrWithin(q, p)
    <3>1. p # <<>>
      <4>1. <<>> \in Key /\ AtOrWithin(q, <<>>)
        <5>1. Len(q) \in Nat
          BY <2>1, KeysAre
        <5> QED
          BY <5>1 DEF AtOrWithin, Key
      <4> QED
        BY <2>3, <4>1
    <3>2. PICK r \in Parts(T) : Within(r, p) /\ Mine(T, kv, r) # {}
      BY <1>3, <3>1 DEF Encodes
    <3>3. PICK k : k \in Mine(T, kv, r)
      BY <3>2
    <3>4. r \in Key /\ k \in 1..Len(kv) /\ kv[k].key \in Key /\ AtOrWithin(kv[k].key, r)
      BY <3>3, MineIs
    <3>5. AtOrWithin(r, p)
      BY <3>2 DEF Within
    <3>6. AtOrWithin(kv[k].key, p)
      BY <2>1, <3>4, <3>5, WithinTransitive
    <3>7. r \in DOMAIN T /\ r # p /\ q \in DOMAIN T /\ q # p /\ q \notin D
      BY <1>3 DEF Parts
    <3>8. r \notin D
      <4> SUFFICES ASSUME r \in D PROVE FALSE
        OBVIOUS
      <4>1. Before(r, p) /\ Before(p, r)
        BY <2>1, <3>2, <3>4, BeforeWithin DEF NextField
      <4> QED
        BY <2>1, <3>4, <4>1, BeforeArranges
    <3>9. Before(p, q)
      BY <3>7 DEF NextField
    <3>10. Before(kv[k].key, kv[j].key)
      BY <2>1, <2>3, <3>4, <3>6, <3>9, BeforeBelow
    <3>11. k < j
      BY <1>1, <2>1, <3>4, <3>10, InKeyOrderIs
    <3>12. i <= k
      <4>1. next <= k
        BY <1>5, <3>3, <3>8
      <4>2. k \in S
        BY <1>1, <3>4, <3>6, PrefixWithin
      <4> QED
        BY <1>6, <4>1, <4>2
    <3> QED
      BY <1>1, <1>6, <2>1, <3>4, <3>11, <3>12
  <2> QED
    BY <2>2, <2>3
<1>11. Ready(T, kv, D \cup {p}, i)
  <2>1. i \in 1..(Len(kv) + 1)
    BY <1>1, <1>5, <1>6
  <2> QED
    BY <1>10, <2>1 DEF Ready
<1>12. i \in Nat
  BY <1>1, <1>6
<1> QED
  BY <1>4, <1>8, <1>9, <1>11, <1>12 DEF GotSoFar

(* The decoder gives back what the pairs encode.                           *)
LEMMA VisitStep ==
  ASSUME NEW T, NEW kv, NEW v, Encodes(T, kv, v), NEW D, NEW p, NextField(T, D, p),
         NEW g, GotSoFar(T, kv, v, D, g)
  PROVE  GotSoFar(T, kv, v, D \cup {p}, Visit(T, p, kv, g))
<1>1. p \in DOMAIN T /\ T[p] \in Kinds
  BY DEF NextField, Encodes, IsType, Kinds
<1>2. CASE T[p] = "struct"
  BY <1>2, StructStep
<1>3. CASE T[p] # "struct"
  <2>1. p \in Parts(T)
    BY <1>1, <1>3 DEF Parts
  <2>2. T[p] \in LeafKinds \/ T[p] \in ListKinds \/ T[p] \in MapKinds
    BY <1>1, <1>3
  <2> QED
    BY <2>1, <2>2, LeafStep, ListStep, MapStep
<1> QED
  BY <1>2, <1>3

(* The calls of unflattenValue, one after the other.                       *)
AreVisits(T, kv, got, n) ==
    /\ got = [k \in 0..n |-> got[k]]
    /\ got[0] = Got(Zero(T), 1, TRUE)
    /\ \A k \in 1..n : got[k] = Visit(T, FieldOrder(T)[k], kv, got[k - 1])

LEMMA VisitsExist ==
  ASSUME NEW T, NEW kv, NEW n \in Nat
  PROVE  \E got : AreVisits(T, kv, got, n)
<1> DEFINE X == {m \in 0..n : \E got : AreVisits(T, kv, got, m)}
<1>1. 0 \in X
  <2> DEFINE f == [k \in 0..0 |-> Got(Zero(T), 1, TRUE)]
  <2>1. f = [k \in 0..0 |-> f[k]] /\ f[0] = Got(Zero(T), 1, TRUE)
    OBVIOUS
  <2> HIDE DEF f
  <2>2. AreVisits(T, kv, f, 0)
    BY <2>1 DEF AreVisits, Got
  <2> QED
    BY <2>2
<1>2. ASSUME NEW m \in 1..n, m - 1 \in X PROVE m \in X
  <2>1. PICK f : AreVisits(T, kv, f, m - 1)
    BY <1>2
  <2> DEFINE last == Visit(T, FieldOrder(T)[m], kv, f[m - 1])
             h == [k \in 0..m |-> IF k = m THEN last ELSE f[k]]
  <2> HIDE DEF last
  <2>2. h = [k \in 0..m |-> h[k]]
    OBVIOUS
  <2>3. h[m] = last /\ \A k \in 0..(m - 1) : h[k] = f[k]
    OBVIOUS
  <2> HIDE DEF h
  <2>4. h[0] = Got(Zero(T), 1, TRUE)
    <3>1. 0 \in 0..(m - 1)
      OBVIOUS
    <3>2. h[0] = f[0]
      BY <2>3, <3>1
    <3> QED
      BY <2>1, <3>2, Zenon DEF AreVisits
  <2>5. ASSUME NEW k \in 1..m PROVE h[k] = Visit(T, FieldOrder(T)[k], kv, h[k - 1])
    <3>1. k - 1 \in 0..(m - 1) /\ (k = m \/ (k \in 1..(m - 1) /\ k \in 0..(m - 1)))
      OBVIOUS
    <3>2. h[k - 1] = f[k - 1]
      BY <2>3, <3>1
    <3>3. CASE k = m
      BY <2>3, <3>2, <3>3 DEF last
    <3>4. CASE k \in 1..(m - 1) /\ k \in 0..(m - 1)
      BY <2>1, <2>3, <3>2, <3>4 DEF AreVisits
    <3> QED
      BY <3>1, <3>3, <3>4
  <2>6. AreVisits(T, kv, h, m)
    BY <2>2, <2>4, <2>5 DEF AreVisits
  <2> QED
    BY <2>6
<1> HIDE DEF X
<1>3. n \in X
  <2>1. \A k \in 1..n : k - 1 \in X => k \in X
    BY <1>2
  <2>2. \A k \in 0..n : k \in X
    BY <1>1, <2>1, NumbersUpTo
  <2> QED
    BY <2>2
<1> QED
  BY <1>3 DEF X

LEMMA UnflattenVisits ==
  ASSUME NEW T, NEW kv, NEW n \in Nat, Len(FieldOrder(T)) = n
  PROVE  \E got : AreVisits(T, kv, got, n) /\ Unflatten(T, kv) = got[n]
<1> DEFINE F(it) == it = [k \in 0..n |-> IF k = 0 THEN Got(Zero(T), 1, TRUE)
                                         ELSE Visit(T, FieldOrder(T)[k], kv, it[k - 1])]
           c == CHOOSE it : F(it)
<1>1. Unflatten(T, kv) = c[n]
  BY DEF Unflatten
<1>2. PICK f : AreVisits(T, kv, f, n)
  BY VisitsExist
<1>3. F(f)
  <2>1. \A k \in 0..n : f[k] = IF k = 0 THEN Got(Zero(T), 1, TRUE)
                               ELSE Visit(T, FieldOrder(T)[k], kv, f[k - 1])
    <3>1. \A k \in 0..n : k = 0 \/ k \in 1..n
      OBVIOUS
    <3> QED
      BY <1>2, <3>1 DEF AreVisits
  <2>2. f = [k \in 0..n |-> f[k]]
    BY <1>2 DEF AreVisits
  <2> QED
    BY <2>1, <2>2
<1>4. F(c)
  <2> HIDE DEF F
  <2> QED
    BY <1>3
<1> HIDE DEF c
<1>5. AreVisits(T, kv, c, n)
  <2>1. c = [k \in 0..n |-> c[k]]
    BY <1>4
  <2>2. \A k \in 0..n : c[k] = IF k = 0 THEN Got(Zero(T), 1, TRUE)
                               ELSE Visit(T, FieldOrder(T)[k], kv, c[k - 1])
    BY <1>4
  <2>3. \A k \in 1..n : k \in 0..n /\ k # 0
    OBVIOUS
  <2>4. 0 \in 0..n
    OBVIOUS
  <2> HIDE DEF F
  <2>5. c[0] = Got(Zero(T), 1, TRUE)
    BY <2>2, <2>4
  <2>6. \A k \in 1..n : c[k] = Visit(T, FieldOrder(T)[k], kv, c[k - 1])
    BY <2>2, <2>3
  <2> QED
    BY <2>1, <2>5, <2>6 DEF AreVisits
<1> QED
  BY <1>1, <1>5

LEMMA UnflattenIs ==
  ASSUME NEW T, NEW kv, NEW v, Encodes(T, kv, v)
  PROVE  Unflatten(T, kv).val = v
<1> DEFINE n == Cardinality(DOMAIN T)
           o == FieldOrder(T)
<1>1. /\ n \in Nat /\ o \in [1..n -> DOMAIN T]
      /\ \A p \in DOMAIN T : \E i \in 1..n : o[i] = p
      /\ \A i, j \in 1..n : i < j <=> Before(o[i], o[j])
  BY FieldOrderIs DEF Encodes
<1> HIDE DEF n
<1>2. Len(FieldOrder(T)) = n
  BY <1>1
<1>3. PICK got : AreVisits(T, kv, got, n) /\ Unflatten(T, kv) = got[n]
  BY <1>1, <1>2, UnflattenVisits
<1> DEFINE D(m) == {o[i] : i \in 1..m}
           X == {m \in 0..n : GotSoFar(T, kv, v, D(m), got[m])}
<1>4. 0 \in X
  <2>1. D(0) = {}
    OBVIOUS
  <2>2. Partial(T, v, {}) = Zero(T)
    BY DEF Partial, Zero
  <2>3. InKeyOrder(kv) /\ Len(kv) \in Nat
    BY InKeyOrderIs DEF Encodes
  <2>4. \A q \in Parts(T) : \A j \in Mine(T, kv, q) : 1 <= j
    <3> SUFFICES ASSUME NEW q \in Parts(T), NEW j \in Mine(T, kv, q) PROVE 1 <= j
      OBVIOUS
    <3>1. j \in 1..Len(kv)
      BY MineIs
    <3> QED
      BY <2>3, <3>1
  <2>5. Ready(T, kv, {}, 1)
    BY <2>3, <2>4 DEF Ready
  <2>6. got[0] = Got(Partial(T, v, {}), 1, TRUE)
    BY <1>3, <2>2 DEF AreVisits
  <2>7. GotSoFar(T, kv, v, {}, got[0])
    BY <2>5, <2>6 DEF GotSoFar
  <2> QED
    BY <1>1, <2>1, <2>7
<1>5. ASSUME NEW m \in 1..n, m - 1 \in X PROVE m \in X
  <2>1. m - 1 \in 0..n /\ GotSoFar(T, kv, v, D(m - 1), got[m - 1])
    BY <1>5
  <2>2. D(m) = D(m - 1) \cup {o[m]}
    <3>1. \A i : i \in 1..m <=> i \in 1..(m - 1) \/ i = m
      BY <1>1
    <3> HIDE DEF o
    <3> QED
      BY <3>1
  <2>3. NextField(T, D(m - 1), o[m])
    <3>1. \A i \in 1..(m - 1) : i \in 1..n /\ i < m
      BY <1>1
    <3>2. D(m - 1) \subseteq DOMAIN T
      BY <1>1, <3>1
    <3>3. \A q \in D(m - 1) : Before(q, o[m])
      BY <1>1, <3>1
    <3>4. o[m] \in DOMAIN T \ D(m - 1)
      <4>1. ~Before(o[m], o[m])
        BY <1>1
      <4> QED
        BY <1>1, <3>3, <4>1
    <3>5. ASSUME NEW q \in DOMAIN T \ D(m - 1), q # o[m] PROVE Before(o[m], q)
      <4>1. PICK i \in 1..n : o[i] = q
        BY <1>1
      <4>2. i \notin 1..(m - 1) /\ i # m
        BY <3>5, <4>1
      <4>3. m < i
        BY <1>1, <4>2
      <4> QED
        BY <1>1, <4>1, <4>3
    <3> HIDE DEF D, o
    <3> QED
      BY <3>2, <3>3, <3>4, <3>5 DEF NextField
  <2>4. got[m] = Visit(T, o[m], kv, got[m - 1])
    BY <1>3 DEF AreVisits
  <2> HIDE DEF D, o
  <2>5. GotSoFar(T, kv, v, D(m - 1) \cup {o[m]}, Visit(T, o[m], kv, got[m - 1]))
    BY <2>1, <2>3, VisitStep
  <2>6. GotSoFar(T, kv, v, D(m), got[m])
    BY <2>2, <2>4, <2>5
  <2> QED
    BY <1>1, <2>6
<1> HIDE DEF X
<1>6. n \in X
  <2>1. \A k \in 1..n : k - 1 \in X => k \in X
    BY <1>5
  <2>2. \A k \in 0..n : k \in X
    BY <1>1, <1>4, <2>1, NumbersUpTo
  <2> QED
    BY <1>1, <2>2
<1>7. D(n) = DOMAIN T
  BY <1>1
<1>8. GotSoFar(T, kv, v, DOMAIN T, got[n])
  BY <1>6, <1>7 DEF X
<1>9. got[n].val = Partial(T, v, DOMAIN T)
  BY <1>8 DEF GotSoFar, Got
<1>10. Partial(T, v, DOMAIN T) = [p \in Parts(T) |-> v[p]]
  BY DEF Partial, Parts
<1>11. v = [p \in Parts(T) |-> v[p]]
  BY DEF Encodes
<1> QED
  BY <1>3, <1>9, <1>10, <1>11, Zenon

-----------------------------------------------------------------------------
(* The pairs of a value: each part has its own, with keys that differ.     *)
LEMMA ClaimsWithin ==
  ASSUME NEW T, IsType(T), NEW p \in Parts(T), NEW k \in Key, Claims(T, p, k)
  PROVE  AtOrWithin(k, p)
<1>1. p \in Key
  BY DEF IsType, Parts
<1>2. CASE k = p
  BY <1>1, <1>2, KeysAre DEF AtOrWithin
<1>3. CASE k # p
  BY <1>3 DEF Claims, Within
<1> QED
  BY <1>2, <1>3

LEMMA OnePart ==
  ASSUME NEW T, IsType(T), NEW p \in Parts(T), NEW q \in Parts(T), NEW k \in Key,
         AtOrWithin(k, p), AtOrWithin(k, q)
  PROVE  p = q
<1>1. p \in Key /\ q \in Key
  BY DEF IsType, Parts
<1>2. AtOrWithin(p, q) \/ AtOrWithin(q, p)
  BY <1>1, WithinComparable
<1>3. \A a, b \in Parts(T) : ~Within(a, b)
  BY DEF IsType, Parts
<1>4. Len(p) \in Nat /\ Len(q) \in Nat
  BY <1>1, KeysAre
<1>5. Len(p) = Len(q)
  BY <1>2, <1>3, <1>4 DEF Within, AtOrWithin
<1>6. AtOrWithin(p, q) /\ AtOrWithin(q, p)
  BY <1>2, <1>4, <1>5 DEF AtOrWithin
<1> QED
  BY <1>1, <1>6, WithinBoth

LEMMA ConcatKey ==
  ASSUME NEW p \in Key, NEW k \in Key
  PROVE  /\ p \o k \in Key /\ AtOrWithin(p \o k, p)
         /\ k # <<>> => Within(p \o k, p)
         /\ \A l \in Key : p \o k = p \o l => k = l
<1>1. Len(p) \in Nat /\ Len(k) \in Nat /\ p \in Seq(Nat) /\ k \in Seq(Nat)
  BY KeysAre DEF Key
<1>2. /\ p \o k \in Seq(Nat) /\ Len(p \o k) = Len(p) + Len(k)
      /\ \A i \in 1..(Len(p) + Len(k)) : (p \o k)[i] = IF i <= Len(p) THEN p[i] ELSE k[i - Len(p)]
  BY <1>1, ConcatProperties
<1> DEFINE c == p \o k
<1>3. c \in Seq(Nat) /\ Len(c) = Len(p) + Len(k) /\ \A i \in 1..Len(p) : c[i] = p[i]
  <2>1. \A i \in 1..Len(p) : i \in 1..(Len(p) + Len(k)) /\ i <= Len(p)
    BY <1>1
  <2> QED
    BY <1>2, <2>1
<1> HIDE DEF c
<1>4. AtOrWithin(c, p)
  BY <1>1, <1>3 DEF AtOrWithin
<1>5. k # <<>> => Len(k) # 0
  BY <1>1, EmptySeq
<1>6. k # <<>> => Within(c, p)
  BY <1>1, <1>3, <1>4, <1>5 DEF Within
<1>7. \A l \in Key : p \o k = p \o l => k = l
  <2> SUFFICES ASSUME NEW l \in Seq(Nat), p \o k = p \o l PROVE k = l
    BY DEF Key
  <2> QED
    BY <1>1, ConcatSimplifications
<1> QED
  BY <1>3, <1>4, <1>6, <1>7 DEF c, Key

LEMMA ListKey ==
  ASSUME NEW x \in Seq(STRING), NEW i \in 1..Len(x)
  PROVE  i - 1 \in Nat /\ x[i] \in STRING
<1>1. Len(x) \in Nat /\ x[i] \in STRING
  BY LenProperties, ElementOfSeq
<1> QED
  BY <1>1

(* What the parts of a value that are lists and maps hold.                 *)
LEMMA ListValue ==
  ASSUME NEW T, NEW v, IsValue(T, v), NEW p \in Parts(T), T[p] \in ListKinds
  PROVE  /\ v[p] \in Seq(STRING)
         /\ \A i \in 1..Len(v[p]) : Parses(T[p], v[p][i]) /\ i - 1 \in Indices
<1> DEFINE x == v[p]
<1>1. x \in Seq(Texts(T[p])) /\ \A i \in DOMAIN x : i - 1 \in Indices
  BY DEF IsValue
<1>2. Texts(T[p]) \subseteq STRING
  BY NumbersAssumption DEF Texts
<1> HIDE DEF x
<1>3. Len(x) \in Nat /\ DOMAIN x = 1..Len(x) /\ x \in [1..Len(x) -> Texts(T[p])]
  BY <1>1, LenProperties
<1>4. x \in Seq(STRING)
  BY <1>2, <1>3
<1>5. \A i \in 1..Len(x) : Parses(T[p], x[i]) /\ i - 1 \in Indices
  BY <1>1, <1>3 DEF Parses, Texts
<1> QED
  BY <1>4, <1>5 DEF x

LEMMA MapValue ==
  ASSUME NEW T, NEW v, IsValue(T, v), NEW p \in Parts(T), T[p] \in MapKinds
  PROVE  /\ IsFiniteSet(DOMAIN v[p]) /\ DOMAIN v[p] \subseteq Key \ {<<>>}
         /\ v[p] \in [DOMAIN v[p] -> STRING]
         /\ \A k \in DOMAIN v[p] : Parses(T[p], v[p][k])
<1> DEFINE x == v[p]
<1>1. IsFiniteSet(DOMAIN x) /\ DOMAIN x \subseteq Key \ {<<>>} /\ x \in [DOMAIN x -> Texts(T[p])]
  BY DEF IsValue
<1>2. Texts(T[p]) \subseteq STRING
  BY NumbersAssumption DEF Texts
<1> HIDE DEF x
<1>3. x \in [DOMAIN x -> STRING]
  BY <1>1, <1>2
<1>4. \A k \in DOMAIN x : Parses(T[p], x[k])
  BY <1>1 DEF Parses, Texts
<1> QED
  BY <1>1, <1>3, <1>4 DEF x

LEMMA PartPairsAre ==
  ASSUME NEW T, IsType(T), NEW v, IsValue(T, v), NEW p \in Parts(T)
  PROVE  /\ IsFiniteSet(PartPairs(T[p], p, v[p]))
         /\ \A pr \in PartPairs(T[p], p, v[p]) : pr \in KV /\ Claims(T, p, pr.key)
         /\ \A a, b \in PartPairs(T[p], p, v[p]) : a.key = b.key => a = b
<1> DEFINE x == v[p]
           P == PartPairs(T[p], p, x)
<1>1. p \in Key /\ T[p] \in LeafKinds \cup ListKinds \cup MapKinds
  BY DEF IsType, Parts, Kinds
<1>2. CASE T[p] \in LeafKinds
  <2>1. P = {Pair(p, x)}
    BY <1>2 DEF PartPairs
  <2>2. x \in STRING
    BY <1>2, NumbersAssumption DEF IsValue, Texts
  <2>3. Pair(p, x) \in KV /\ Pair(p, x).key = p
    BY <1>1, <2>2 DEF KV, Pair
  <2>4. Claims(T, p, p)
    BY <1>2 DEF Claims
  <2>5. IsFiniteSet({Pair(p, x)})
    BY FS_Singleton
  <2> HIDE DEF P, x
  <2>6. \A pr \in P : pr = Pair(p, x)
    BY <2>1
  <2>7. IsFiniteSet(P)
    BY <2>1, <2>5
  <2>8. \A pr \in P : pr \in KV /\ Claims(T, p, pr.key)
    BY <2>3, <2>4, <2>6
  <2>9. \A a, b \in P : a.key = b.key => a = b
    BY <2>6
  <2> QED
    BY <2>7, <2>8, <2>9 DEF P, x
<1>3. CASE T[p] \in ListKinds
  <2>1. x \in Seq(STRING)
    BY <1>3, ListValue
  <2>2. DOMAIN x = 1..Len(x) /\ Len(x) \in Nat
    BY <2>1, LenProperties
  <2> DEFINE f == [i \in 1..Len(x) |-> Pair(Append(p, i - 1), x[i])]
  <2>3. P = {Pair(Append(p, i - 1), x[i]) : i \in 1..Len(x)}
    BY <1>3, <2>2 DEF PartPairs
  <2>4. P = {f[i] : i \in 1..Len(x)}
    BY <2>3
  <2>5. IsFiniteSet(P)
    <3>1. IsFiniteSet(1..Len(x))
      BY <2>2, FS_Interval
    <3> HIDE DEF f, P, x
    <3> QED
      BY <2>4, <3>1, ImageFinite
  <2>6. ASSUME NEW i \in 1..Len(x)
        PROVE  /\ Pair(Append(p, i - 1), x[i]) \in KV
               /\ Claims(T, p, Append(p, i - 1))
               /\ Pair(Append(p, i - 1), x[i]).key = Append(p, i - 1)
               /\ Last(Append(p, i - 1)) = i - 1
    <3>1. i - 1 \in Nat /\ x[i] \in STRING
      BY <2>1, ListKey
    <3>2. Append(p, i - 1) \in Key /\ Within(Append(p, i - 1), p) /\ Last(Append(p, i - 1)) = i - 1
      BY <1>1, <3>1, LastName
    <3> HIDE DEF x
    <3> QED
      BY <1>3, <3>1, <3>2 DEF KV, Pair, Claims, Within
  <2>7. ASSUME NEW pr \in P
        PROVE  \E i \in 1..Len(x) : /\ pr = Pair(Append(p, i - 1), x[i])
                                    /\ pr.key = Append(p, i - 1) /\ Last(pr.key) = i - 1
    <3>1. PICK i \in 1..Len(x) : pr = Pair(Append(p, i - 1), x[i])
      BY <2>3
    <3> HIDE DEF P, x
    <3> QED
      BY <2>6, <3>1
  <2> HIDE DEF P, x, f
  <2>8. \A pr \in P : pr \in KV /\ Claims(T, p, pr.key)
    BY <2>6, <2>7
  <2>9. ASSUME NEW a \in P, NEW b \in P, a.key = b.key PROVE a = b
    <3>1. PICK i \in 1..Len(x) : a = Pair(Append(p, i - 1), x[i]) /\ Last(a.key) = i - 1
      BY <2>7
    <3>2. PICK j \in 1..Len(x) : b = Pair(Append(p, j - 1), x[j]) /\ Last(b.key) = j - 1
      BY <2>7
    <3>3. i = j
      <4>1. i - 1 = j - 1
        BY <2>9, <3>1, <3>2
      <4> QED
        BY <2>2, <4>1
    <3> QED
      BY <3>1, <3>2, <3>3
  <2> QED
    BY <2>5, <2>8, <2>9 DEF P, x
<1>4. CASE T[p] \in MapKinds
  <2>1. IsFiniteSet(DOMAIN x) /\ DOMAIN x \subseteq Key \ {<<>>} /\ x \in [DOMAIN x -> STRING]
    BY <1>4, MapValue
  <2> DEFINE f == [k \in DOMAIN x |-> Pair(p \o k, x[k])]
  <2>2. P = {Pair(p \o k, x[k]) : k \in DOMAIN x}
    BY <1>4 DEF PartPairs
  <2>3. P = {f[k] : k \in DOMAIN x}
    BY <2>2
  <2>4. IsFiniteSet(P)
    <3> HIDE DEF f, P, x
    <3> QED
      BY <2>1, <2>3, ImageFinite
  <2>5. ASSUME NEW k \in DOMAIN x
        PROVE  /\ Pair(p \o k, x[k]) \in KV
               /\ Claims(T, p, p \o k)
               /\ Pair(p \o k, x[k]).key = p \o k
    <3>1. k \in Key /\ k # <<>> /\ x[k] \in STRING
      BY <2>1
    <3>2. p \o k \in Key /\ Within(p \o k, p)
      BY <1>1, <3>1, ConcatKey
    <3> HIDE DEF x
    <3> QED
      BY <1>4, <3>1, <3>2 DEF KV, Pair, Claims
  <2>6. ASSUME NEW pr \in P
        PROVE  \E k \in DOMAIN x : pr = Pair(p \o k, x[k]) /\ pr.key = p \o k
    <3>1. PICK k \in DOMAIN x : pr = Pair(p \o k, x[k])
      BY <2>2
    <3> HIDE DEF P, x
    <3> QED
      BY <2>5, <3>1
  <2> HIDE DEF P, x, f
  <2>7. \A pr \in P : pr \in KV /\ Claims(T, p, pr.key)
    BY <2>5, <2>6
  <2>8. ASSUME NEW a \in P, NEW b \in P, a.key = b.key PROVE a = b
    <3>1. PICK k \in DOMAIN x : a = Pair(p \o k, x[k]) /\ a.key = p \o k
      BY <2>6
    <3>2. PICK l \in DOMAIN x : b = Pair(p \o l, x[l]) /\ b.key = p \o l
      BY <2>6
    <3>3. k \in Key /\ l \in Key /\ p \o k = p \o l
      BY <2>1, <2>8, <3>1, <3>2
    <3>4. k = l
      BY <1>1, <3>3, ConcatKey
    <3> QED
      BY <3>1, <3>2, <3>4
  <2> QED
    BY <2>4, <2>7, <2>8 DEF P, x
<1> QED
  BY <1>1, <1>2, <1>3, <1>4

LEMMA FlattenedIs ==
  ASSUME NEW T, IsType(T), NEW v, IsValue(T, v)
  PROVE  /\ Flatten(T, v) \in SUBSET KV /\ IsFiniteSet(Flatten(T, v))
         /\ \A pr \in Flatten(T, v) : \E p \in Parts(T) : pr \in PartPairs(T[p], p, v[p])
         /\ \A p \in Parts(T) : PartPairs(T[p], p, v[p]) \subseteq Flatten(T, v)
         /\ \A pr \in Flatten(T, v), p \in Parts(T) :
                Claims(T, p, pr.key) => pr \in PartPairs(T[p], p, v[p])
         /\ \A a, b \in Flatten(T, v) : a.key = b.key => a = b
         /\ \A pr \in Flatten(T, v) : ~IsSchema(pr.key)
<1> DEFINE F == Flatten(T, v)
           S(p) == PartPairs(T[p], p, v[p])
<1>1. /\ \A pr \in F : \E p \in Parts(T) : pr \in S(p)
      /\ \A p \in Parts(T) : S(p) \subseteq F
  BY DEF Flatten
<1>2. \A p \in Parts(T) : /\ IsFiniteSet(S(p))
                          /\ \A pr \in S(p) : pr \in KV /\ Claims(T, p, pr.key)
                          /\ \A a, b \in S(p) : a.key = b.key => a = b
  BY PartPairsAre
<1>3. IsFiniteSet(F)
  <2> DEFINE g == [p \in Parts(T) |-> S(p)]
  <2>1. F = UNION {g[p] : p \in Parts(T)}
    BY DEF Flatten
  <2>2. IsFiniteSet(Parts(T))
    <3>1. Parts(T) \in SUBSET (DOMAIN T) /\ IsFiniteSet(DOMAIN T)
      BY DEF Parts, IsType
    <3> QED
      BY <3>1, FS_Subset
  <2>3. \A p \in Parts(T) : IsFiniteSet(g[p])
    BY <1>2
  <2> HIDE DEF g, F
  <2>4. IsFiniteSet({g[p] : p \in Parts(T)})
    BY <2>2, ImageFinite
  <2>5. \A X \in {g[p] : p \in Parts(T)} : IsFiniteSet(X)
    BY <2>3
  <2> DEFINE G == {g[p] : p \in Parts(T)}
  <2> HIDE DEF G
  <2>6. IsFiniteSet(UNION G)
    BY <2>4, <2>5, FS_UNION DEF G
  <2> QED
    BY <2>1, <2>6 DEF G
<1> HIDE DEF F, S
<1>4. \A pr \in F : pr \in KV /\ pr.key \in Key
  <2>1. \A pr \in F : pr \in KV
    BY <1>1, <1>2
  <2> QED
    BY <2>1 DEF KV
<1>5. ASSUME NEW pr \in F, NEW p \in Parts(T), Claims(T, p, pr.key) PROVE pr \in S(p)
  <2>1. PICK q \in Parts(T) : pr \in S(q)
    BY <1>1
  <2>2. Claims(T, q, pr.key) /\ pr.key \in Key
    BY <1>2, <1>4, <2>1
  <2>3. AtOrWithin(pr.key, p) /\ AtOrWithin(pr.key, q)
    BY <1>5, <2>2, ClaimsWithin
  <2>4. p = q
    BY <2>2, <2>3, OnePart
  <2> QED
    BY <2>1, <2>4
<1>6. ASSUME NEW a \in F, NEW b \in F, a.key = b.key PROVE a = b
  <2>1. PICK p \in Parts(T) : a \in S(p)
    BY <1>1
  <2>2. Claims(T, p, b.key)
    BY <1>2, <1>6, <2>1
  <2>3. b \in S(p)
    BY <1>5, <2>2
  <2> QED
    BY <1>2, <1>6, <2>1, <2>3
<1>7. ASSUME NEW pr \in F PROVE ~IsSchema(pr.key)
  <2>1. PICK p \in Parts(T) : pr \in S(p)
    BY <1>1
  <2>2. AtOrWithin(pr.key, p) /\ p \in Key /\ p # <<>> /\ p[1] \notin Schemas
    <3>1. AtOrWithin(pr.key, p)
      BY <1>2, <1>4, <2>1, ClaimsWithin
    <3> QED
      BY <3>1 DEF IsType, Parts
  <2>3. Len(p) \in Nat \ {0}
    BY <2>2, EmptySeq DEF Key
  <2>4. pr.key[1] = p[1]
    BY <2>2, <2>3 DEF AtOrWithin
  <2> QED
    BY <2>2, <2>4 DEF IsSchema
<1>8. F \in SUBSET KV
  BY <1>4
<1> QED
  BY <1>1, <1>3, <1>5, <1>6, <1>7, <1>8 DEF F, S

-----------------------------------------------------------------------------
(* Filtering a concatenation filters its parts.                            *)
LEMMA OnlyConcat ==
  ASSUME NEW X, NEW s \in Seq(X), NEW t \in Seq(X), NEW K
  PROVE  Only(s \o t, K) = Only(s, K) \o Only(t, K)
<1> DEFINE a == Len(s)
           b == Len(t)
           c == s \o t
<1>1. a \in Nat /\ b \in Nat
  BY LenProperties
<1>2. /\ c \in Seq(X) /\ Len(c) = a + b
      /\ \A i \in 1..(a + b) : c[i] = IF i <= a THEN s[i] ELSE t[i - a]
  BY ConcatProperties
<1> HIDE DEF c
<1>3. PICK fl \in [0..Len(c) -> Seq(X)] : IsKept(fl, c, K) /\ Only(c, K) = fl[Len(c)]
  <2>1. c \in Seq(X)
    BY <1>2
  <2> QED
    BY ONLY <2>1, KeptIs
<1>4. PICK gl \in [0..a -> Seq(X)] : IsKept(gl, s, K) /\ Only(s, K) = gl[a]
  BY KeptIs
<1>5. PICK hl \in [0..b -> Seq(X)] : IsKept(hl, t, K) /\ Only(t, K) = hl[b]
  BY KeptIs
<1>6. /\ fl[0] = <<>> /\ gl[0] = <<>> /\ hl[0] = <<>>
      /\ \A k \in 1..(a + b) : fl[k] = IF c[k] \in K THEN Append(fl[k - 1], c[k]) ELSE fl[k - 1]
      /\ \A k \in 1..a : gl[k] = IF s[k] \in K THEN Append(gl[k - 1], s[k]) ELSE gl[k - 1]
      /\ \A k \in 1..b : hl[k] = IF t[k] \in K THEN Append(hl[k - 1], t[k]) ELSE hl[k - 1]
  BY <1>2, <1>3, <1>4, <1>5 DEF IsKept
<1>7. /\ \A i \in 1..a : i \in 1..(a + b) /\ c[i] = s[i]
      /\ \A i \in 1..b : a + i \in 1..(a + b) /\ c[a + i] = t[i]
  <2>1. ASSUME NEW i \in 1..a PROVE i \in 1..(a + b) /\ c[i] = s[i]
    <3>1. i \in 1..(a + b) /\ i <= a
      BY <1>1
    <3> QED
      BY <1>2, <3>1
  <2>2. ASSUME NEW i \in 1..b PROVE a + i \in 1..(a + b) /\ c[a + i] = t[i]
    <3>1. a + i \in 1..(a + b) /\ ~(a + i <= a) /\ (a + i) - a = i
      BY <1>1
    <3> QED
      BY <1>2, <3>1
  <2> QED
    BY <2>1, <2>2
<1> HIDE DEF a, b
<1> DEFINE U == {k \in 0..a : fl[k] = gl[k]}
           V == {k \in 0..b : fl[a + k] = gl[a] \o hl[k]}
<1>8. a \in U
  <2>1. 0 \in U
    BY <1>1, <1>6
  <2>2. ASSUME NEW k \in 1..a, k - 1 \in U PROVE k \in U
    <3>1. fl[k - 1] = gl[k - 1]
      BY <2>2
    <3>2. fl[k] = IF s[k] \in K THEN Append(fl[k - 1], s[k]) ELSE fl[k - 1]
      BY <1>6, <1>7
    <3>3. fl[k] = gl[k]
      BY <1>6, <3>1, <3>2
    <3>4. k \in 0..a
      OBVIOUS
    <3> QED
      BY <3>3, <3>4
  <2> HIDE DEF U
  <2>3. \A k \in 1..a : k - 1 \in U => k \in U
    BY <2>2
  <2>4. \A k \in 0..a : k \in U
    BY <1>1, <2>1, <2>3, NumbersUpTo
  <2> QED
    BY <1>1, <2>4
<1>9. gl[a] \in Seq(X) /\ \A k \in 0..b : hl[k] \in Seq(X)
  <2>1. a \in 0..a
    BY <1>1
  <2> QED
    BY <1>4, <1>5, <2>1
<1>10. b \in V
  <2>1. 0 \in V
    <3>1. fl[a] = gl[a] /\ a + 0 = a /\ 0 \in 0..b
      BY <1>1, <1>8
    <3>2. gl[a] \o hl[0] = gl[a]
      BY <1>6, <1>9, ConcatEmptySeq
    <3>3. fl[a + 0] = gl[a] \o hl[0]
      BY <3>1, <3>2
    <3> QED
      BY <3>1, <3>3
  <2>2. ASSUME NEW k \in 1..b, k - 1 \in V PROVE k \in V
    <3>1. fl[a + (k - 1)] = gl[a] \o hl[k - 1] /\ k - 1 \in 0..b /\ k \in 0..b
      <4>1. fl[a + (k - 1)] = gl[a] \o hl[k - 1]
        BY <2>2, Zenon
      <4>2. k - 1 \in 0..b /\ k \in 0..b
        BY <1>1
      <4> QED
        BY <4>1, <4>2
    <3>2. a + k \in 1..(a + b) /\ c[a + k] = t[k] /\ (a + k) - 1 = a + (k - 1)
      BY <1>1, <1>7
    <3>3. fl[a + k] = IF t[k] \in K THEN Append(fl[(a + k) - 1], t[k]) ELSE fl[(a + k) - 1]
      BY <1>6, <3>2
    <3>4. fl[a + k] = IF t[k] \in K THEN Append(gl[a] \o hl[k - 1], t[k]) ELSE gl[a] \o hl[k - 1]
      BY <3>1, <3>2, <3>3
    <3>5. hl[k] = IF t[k] \in K THEN Append(hl[k - 1], t[k]) ELSE hl[k - 1]
      BY <1>6
    <3>6. hl[k - 1] \in Seq(X) /\ t[k] \in X
      BY <1>9, <3>1, ElementOfSeq DEF b
    <3>7. Append(gl[a] \o hl[k - 1], t[k]) = gl[a] \o Append(hl[k - 1], t[k])
      <4>1. gl[a] \o hl[k - 1] \in Seq(X) /\ <<t[k]>> \in Seq(X)
        BY <1>9, <3>6, ConcatProperties
      <4>2. Append(gl[a] \o hl[k - 1], t[k]) = (gl[a] \o hl[k - 1]) \o <<t[k]>>
        BY <3>6, <4>1, AppendIsConcat
      <4>3. Append(hl[k - 1], t[k]) = hl[k - 1] \o <<t[k]>>
        BY <3>6, AppendIsConcat
      <4>4. (gl[a] \o hl[k - 1]) \o <<t[k]>> = gl[a] \o (hl[k - 1] \o <<t[k]>>)
        <5> DEFINE r == <<t[k]>>
        <5>1. r \in Seq(X)
          BY <4>1
        <5> HIDE DEF r
        <5>2. Associates(gl[a], hl[k - 1], r)
          BY <1>9, <3>6, <5>1, Associative
        <5>3. (gl[a] \o hl[k - 1]) \o r = gl[a] \o (hl[k - 1] \o r)
          BY <5>2, Zenon DEF Associates
        <5> QED
          BY <5>3, Zenon DEF r
      <4> QED
        BY <4>2, <4>3, <4>4, Zenon
    <3>8. fl[a + k] = gl[a] \o hl[k]
      <4>1. CASE t[k] \in K
        BY <3>4, <3>5, <3>7, <4>1, Zenon
      <4>2. CASE t[k] \notin K
        BY <3>4, <3>5, <4>2, Zenon
      <4> QED
        BY <4>1, <4>2
    <3> QED
      BY <3>1, <3>8
  <2> HIDE DEF V
  <2>3. \A k \in 1..b : k - 1 \in V => k \in V
    BY <2>2
  <2>4. \A k \in 0..b : k \in V
    BY <1>1, <2>1, <2>3, NumbersUpTo
  <2> QED
    BY <1>1, <2>4
<1>11. Only(c, K) = gl[a] \o hl[b]
  BY <1>2, <1>3, <1>10
<1> QED
  BY <1>4, <1>5, <1>11 DEF c

LEMMA OnlyNone ==
  ASSUME NEW X, NEW s \in Seq(X), NEW K, Range(s) \cap K = {}
  PROVE  Only(s, K) = <<>>
<1>1. Only(s, K) \in Seq(X) /\ Range(Only(s, K)) = {}
  BY OnlyIs
<1> DEFINE o == Only(s, K)
<1> HIDE DEF o
<1>2. o \in Seq(X) /\ Range(o) = {}
  BY <1>1 DEF o
<1>3. Len(o) \in Nat /\ DOMAIN o = 1..Len(o)
  BY <1>2, LenProperties
<1>4. Len(o) = 0
  <2> SUFFICES ASSUME Len(o) # 0 PROVE FALSE
    OBVIOUS
  <2>1. 1 \in DOMAIN o
    BY <1>3
  <2>2. o[1] \in Range(o)
    BY <2>1 DEF Range
  <2> QED
    BY <1>2, <2>2
<1>5. o = <<>>
  BY <1>2, <1>4, EmptySeq
<1> QED
  BY <1>5 DEF o

(* An event as annotations: its pairs and its schema.                      *)
HeadPair(e) == Pair(<<e.schema>>, "")

LEMMA SchemaPair ==
  ASSUME NEW e, IsEvent(e)
  PROVE  /\ HeadPair(e) \in KV /\ HeadPair(e).key = <<e.schema>> /\ IsSchema(HeadPair(e).key)
         /\ HeadPair(e).key[1] = e.schema
<1>1. e.schema \in Schemas /\ e.schema \in Nat
  BY TypesAssumption DEF IsEvent
<1> DEFINE k == <<e.schema>>
<1>2. k \in Key /\ Len(k) = 1 /\ k[1] = e.schema
  BY <1>1 DEF Key
<1>3. IsSchema(k)
  BY <1>1, <1>2 DEF IsSchema
<1> DEFINE h == Pair(k, "")
<1>4. HeadPair(e) = h
  BY DEF HeadPair
<1> HIDE DEF k
<1>5. h.key = k /\ h \in KV
  <2>1. h = [key |-> k, val |-> ""]
    BY DEF Pair
  <2>2. "" \in STRING /\ k \in Key
    BY <1>2, NumbersAssumption
  <2> HIDE DEF h
  <2> QED
    BY <2>1, <2>2 DEF KV
<1> HIDE DEF h
<1>6. HeadPair(e) \in KV /\ HeadPair(e).key = k
  BY <1>4, <1>5, Zenon
<1>7. k = <<e.schema>>
  BY DEF k
<1> QED
  BY <1>2, <1>3, <1>6, <1>7

LEMMA MarshalIs ==
  ASSUME NEW e, IsEvent(e)
  PROVE  /\ MarshalEvent(e) \in Seq(KV)
         /\ Range(MarshalEvent(e)) = Flatten(TypeOf[e.schema], e.val) \cup {HeadPair(e)}
         /\ \A K : (\A pr \in KV : pr \in K => IsSchema(pr.key)) /\ HeadPair(e) \in K
                     => Only(MarshalEvent(e), K) = <<HeadPair(e)>>
<1> DEFINE F == Flatten(TypeOf[e.schema], e.val)
           m == Sorted(F)
           h == HeadPair(e)
           g == <<h>>
<1>1. IsType(TypeOf[e.schema]) /\ IsValue(TypeOf[e.schema], e.val)
  BY TypesAssumption DEF IsEvent
<1>2. /\ F \in SUBSET KV /\ IsFiniteSet(F) /\ \A a, b \in F : a.key = b.key => a = b
      /\ \A pr \in F : ~IsSchema(pr.key)
  BY <1>1, FlattenedIs
<1>3. MarshalEvent(e) = Append(m, h)
  BY DEF MarshalEvent, HeadPair
<1> HIDE DEF F
<1>4. m \in Seq(KV) /\ ToSet(m) = F
  BY <1>2, SortedIs DEF InKeyOrder
<1>5. h \in KV /\ IsSchema(h.key)
  BY SchemaPair
<1> HIDE DEF m, h
<1>6. Append(m, h) = m \o g /\ g \in Seq(KV)
  BY <1>4, <1>5, AppendIsConcat
<1>7. Range(g) = {h}
  BY DEF Range
<1>8. Range(m) = F
  BY <1>4 DEF Range, ToSet
<1> HIDE DEF g
<1>9. m \o g \in Seq(KV) /\ Range(m \o g) = F \cup {h}
  BY <1>4, <1>6, <1>7, <1>8, ConcatProperties, RangeConcatenation
<1>10. ASSUME NEW K, \A pr \in KV : pr \in K => IsSchema(pr.key), h \in K
       PROVE  Only(m \o g, K) = g
  <2>1. Range(m) \cap K = {}
    BY <1>2, <1>8, <1>10
  <2>2. Only(m, K) = <<>>
    BY <1>4, <2>1, OnlyNone
  <2>3. Only(g, K) = g
    BY <1>6, <1>7, <1>10, OnlyIs
  <2>4. Only(m \o g, K) = Only(m, K) \o Only(g, K)
    BY <1>4, <1>6, OnlyConcat
  <2>5. <<>> \o g = g
    BY <1>6, ConcatEmptySeq
  <2> QED
    BY <2>2, <2>3, <2>4, <2>5, Zenon
<1>11. MarshalEvent(e) = m \o g
  BY <1>3, <1>6, Zenon
<1>12. \A K : (\A pr \in KV : pr \in K => IsSchema(pr.key)) /\ h \in K
                => Only(MarshalEvent(e), K) = g
  <2> SUFFICES ASSUME NEW K, \A pr \in KV : pr \in K => IsSchema(pr.key), h \in K
               PROVE  Only(MarshalEvent(e), K) = g
    OBVIOUS
  <2> QED
    BY <1>10, <1>11, Zenon
<1>13. MarshalEvent(e) \in Seq(KV) /\ Range(MarshalEvent(e)) = F \cup {h}
  BY <1>9, <1>11, Zenon
<1>14. Range(MarshalEvent(e)) = Flatten(TypeOf[e.schema], e.val) \cup {HeadPair(e)}
  BY <1>13 DEF F, h
<1>15. \A K : (\A pr \in KV : pr \in K => IsSchema(pr.key)) /\ HeadPair(e) \in K
                     => Only(MarshalEvent(e), K) = <<HeadPair(e)>>
  BY <1>12, Zenon DEF g, h
<1> QED
  BY <1>13, <1>14, <1>15

LEMMA WrittenIs ==
  ASSUME NEW s, IsSpan(s), NEW extra \in Seq(KV), \A i \in DOMAIN extra : ~IsSchema(extra[i].key)
  PROVE  /\ Written(s, extra) \in Seq(KV)
         /\ \A pr : pr \in Range(Written(s, extra)) <=>
                \/ pr \in Range(extra)
                \/ \E i \in 1..Len(s) :
                        pr \in Flatten(TypeOf[s[i].schema], s[i].val) \cup {HeadPair(s[i])}
         /\ SchemasOf(Written(s, extra)) = [i \in 1..Len(s) |-> s[i].schema]
<1> DEFINE n == Len(s)
           ms == [i \in 1..n |-> MarshalEvent(s[i])]
           W == Written(s, extra)
           K == {a \in ToSet(W) : IsSchema(a.key)}
           F(i) == Flatten(TypeOf[s[i].schema], s[i].val)
<1>1. n \in Nat /\ DOMAIN s = 1..n /\ \A i \in 1..n : IsEvent(s[i])
  BY DEF IsSpan
<1>2. W = extra \o FlattenSeq(ms)
  BY <1>1 DEF Written
<1> HIDE DEF n
<1>3. \A i \in 1..n : MarshalEvent(s[i]) \in Seq(KV) /\ Range(MarshalEvent(s[i])) = F(i) \cup {HeadPair(s[i])}
  BY <1>1, MarshalIs
<1>4. ms \in [1..n -> Seq(KV)] /\ \A i \in 1..n : ms[i] = MarshalEvent(s[i])
  BY <1>3
<1> HIDE DEF ms, F, W
<1>5. /\ FlattenSeq(ms) \in Seq(KV)
      /\ \A x : x \in Range(FlattenSeq(ms)) <=> \E i \in 1..n : x \in Range(ms[i])
  BY <1>1, <1>4, FlattenRange
<1>6. W \in Seq(KV) /\ Range(W) = Range(extra) \cup Range(FlattenSeq(ms))
  <2>1. extra \o FlattenSeq(ms) \in Seq(KV)
    BY <1>5, ConcatProperties
  <2>2. Range(extra \o FlattenSeq(ms)) = Range(extra) \cup Range(FlattenSeq(ms))
    BY <1>5, RangeConcatenation
  <2> QED
    BY <1>2, <2>1, <2>2, Zenon
<1>7. \A pr : pr \in Range(W) <=> \/ pr \in Range(extra)
                                  \/ \E i \in 1..n : pr \in F(i) \cup {HeadPair(s[i])}
  <2>1. \A x : x \in Range(FlattenSeq(ms)) <=> \E i \in 1..n : x \in F(i) \cup {HeadPair(s[i])}
    BY <1>3, <1>4, <1>5
  <2> QED
    BY <1>6, <2>1
<1>8. ToSet(W) = Range(W)
  BY DEF ToSet, Range
<1>9. /\ \A pr \in KV : pr \in K => IsSchema(pr.key)
      /\ \A i \in 1..n : HeadPair(s[i]) \in K
      /\ Range(extra) \cap K = {}
  <2>1. \A i \in 1..n : HeadPair(s[i]) \in ToSet(W) /\ IsSchema(HeadPair(s[i]).key)
    BY <1>1, <1>7, <1>8, SchemaPair
  <2>2. \A pr \in Range(extra) : ~IsSchema(pr.key)
    BY DEF Range
  <2> QED
    BY <2>1, <2>2
<1> HIDE DEF K
<1>10. PICK fl \in [0..n -> Seq(KV)] : IsConcat(fl, n, ms) /\ FlattenSeq(ms) = fl[n]
  BY <1>1, <1>4, FlattenIs
<1> DEFINE Q(k) == /\ Only(fl[k], K) \in Seq(KV) /\ Len(Only(fl[k], K)) = k
                   /\ \A i \in 1..k : Only(fl[k], K)[i] = HeadPair(s[i])
           X == {k \in 0..n : Q(k)}
<1>11. 0 \in X
  <2>1. <<>> \in Seq(KV) /\ Range(<<>>) \cap K = {} /\ Len(<<>>) = 0
    BY EmptySeq DEF Range
  <2>2. Only(<<>>, K) = <<>>
    BY <2>1, OnlyNone
  <2>3. fl[0] = <<>>
    BY <1>10 DEF IsConcat
  <2>4. Only(fl[0], K) = <<>>
    BY <2>2, <2>3, Zenon
  <2>5. Q(0)
    BY <2>1, <2>4
  <2> HIDE DEF Q
  <2> QED
    BY <1>1, <2>5
<1>12. ASSUME NEW k \in 1..n, k - 1 \in X PROVE k \in X
  <2>1. Q(k - 1) /\ k - 1 \in 0..n
    BY <1>12
  <2>2. fl[k - 1] \in Seq(KV) /\ ms[k] \in Seq(KV) /\ ms[k] = MarshalEvent(s[k])
    BY <1>4, <1>10, <2>1
  <2>3. fl[k] = fl[k - 1] \o ms[k]
    BY <1>10 DEF IsConcat
  <2> DEFINE g == <<HeadPair(s[k])>>
             o == Only(fl[k - 1], K)
  <2>4. Only(ms[k], K) = g
    <3>1. Only(MarshalEvent(s[k]), K) = g
      BY <1>1, <1>9, MarshalIs
    <3> QED
      BY <2>2, <3>1, Zenon
  <2>5. g \in Seq(KV) /\ Len(g) = 1 /\ g[1] = HeadPair(s[k])
    <3>1. HeadPair(s[k]) \in KV
      BY <1>1, SchemaPair
    <3> QED
      BY <3>1
  <2>6. Only(fl[k - 1] \o ms[k], K) = o \o Only(ms[k], K)
    <3>1. \A a, b \in Seq(KV) : Only(a \o b, K) = Only(a, K) \o Only(b, K)
      BY OnlyConcat
    <3> QED
      BY <2>2, <3>1, Zenon
  <2>7. o \in Seq(KV) /\ Len(o) = k - 1 /\ \A i \in 1..(k - 1) : o[i] = HeadPair(s[i])
    BY <2>1
  <2> HIDE DEF g, o, Q
  <2> DEFINE r == o \o g
  <2>8. /\ r \in Seq(KV) /\ Len(r) = k
        /\ \A i \in 1..k : r[i] = IF i <= k - 1 THEN o[i] ELSE g[i - (k - 1)]
    <3>1. /\ r \in Seq(KV) /\ Len(r) = Len(o) + Len(g)
          /\ \A i \in 1..(Len(o) + Len(g)) : r[i] = IF i <= Len(o) THEN o[i] ELSE g[i - Len(o)]
      BY <2>5, <2>7, ConcatProperties
    <3>2. Len(o) + Len(g) = k
      BY <1>1, <2>5, <2>7
    <3> HIDE DEF r
    <3> QED
      BY <2>7, <3>1, <3>2
  <2>9. Only(fl[k], K) = r
    BY <2>3, <2>4, <2>6, Zenon
  <2> HIDE DEF r
  <2>10. ASSUME NEW i \in 1..k PROVE r[i] = HeadPair(s[i])
    <3>1. CASE i <= k - 1
      <4>1. i \in 1..(k - 1)
        BY <1>1, <3>1
      <4> QED
        BY <2>7, <2>8, <3>1, <4>1
    <3>2. CASE ~(i <= k - 1)
      <4>1. i = k /\ i - (k - 1) = 1
        BY <1>1, <3>2
      <4> QED
        BY <2>5, <2>8, <3>2, <4>1
    <3> QED
      BY <3>1, <3>2
  <2>11. Q(k)
    BY <2>8, <2>9, <2>10 DEF Q
  <2> QED
    BY <1>1, <2>11
<1> HIDE DEF X
<1>13. n \in X
  <2>1. \A k \in 1..n : k - 1 \in X => k \in X
    BY <1>12
  <2>2. \A k \in 0..n : k \in X
    BY <1>1, <1>11, <2>1, NumbersUpTo
  <2> QED
    BY <1>1, <2>2
<1>14. Q(n)
  BY <1>13 DEF X
<1> DEFINE found == Only(W, K)
<1>15. found = Only(fl[n], K)
  <2>1. Only(extra, K) = <<>>
    BY <1>9, OnlyNone
  <2>2. Only(extra \o FlattenSeq(ms), K) = Only(extra, K) \o Only(FlattenSeq(ms), K)
    BY <1>5, OnlyConcat
  <2>3. <<>> \o Only(fl[n], K) = Only(fl[n], K)
    BY <1>14, ConcatEmptySeq
  <2> HIDE DEF Q
  <2> QED
    BY <1>2, <1>10, <2>1, <2>2, <2>3, Zenon
<1>16. /\ found \in Seq(KV) /\ Len(found) = n
       /\ \A i \in 1..n : found[i] = HeadPair(s[i])
  <2>1. LET o == Only(fl[n], K) IN o \in Seq(KV) /\ Len(o) = n /\ \A i \in 1..n : o[i] = HeadPair(s[i])
    BY <1>14
  <2> HIDE DEF found
  <2> QED
    BY <1>15, <2>1
<1>17. SchemasOf(W) = [i \in DOMAIN found |-> found[i].key[1]]
  BY DEF SchemasOf, K
<1> HIDE DEF found
<1>18. DOMAIN found = 1..n
  BY <1>16, LenProperties
<1>19. \A i \in 1..n : found[i].key[1] = s[i].schema
  BY <1>1, <1>16, SchemaPair
<1>20. SchemasOf(W) = [i \in 1..n |-> s[i].schema]
  BY <1>17, <1>18, <1>19
<1> QED
  BY <1>6, <1>7, <1>20 DEF W, n, F

(* The last annotation of each key.                                        *)
LEMMA StringMapIs ==
  ASSUME NEW anns \in Seq(KV)
  PROVE  /\ StringMap(anns) \in SUBSET KV /\ StringMap(anns) \subseteq Range(anns)
         /\ IsFiniteSet(StringMap(anns))
         /\ \A a, b \in StringMap(anns) : a.key = b.key => a = b
         /\ \A a \in Range(anns) : \E b \in StringMap(anns) : b.key = a.key
<1> DEFINE n == Len(anns)
           Is(i) == \A k \in DOMAIN anns : anns[k].key = anns[i].key => k <= i
<1>1. n \in Nat /\ DOMAIN anns = 1..n /\ \A i \in 1..n : anns[i] \in KV
  BY LenProperties, ElementOfSeq
<1>2. \A a : a \in StringMap(anns) <=> \E i \in 1..n : a = anns[i] /\ Is(i)
  BY <1>1 DEF StringMap
<1>3. \A a : a \in Range(anns) <=> \E i \in 1..n : a = anns[i]
  BY <1>1 DEF Range
<1>4. StringMap(anns) \in SUBSET KV /\ StringMap(anns) \subseteq Range(anns)
  BY <1>1, <1>2, <1>3
<1>5. IsFiniteSet(StringMap(anns))
  <2>1. IsFiniteSet(1..n)
    BY <1>1, FS_Interval
  <2>2. IsFiniteSet({anns[i] : i \in 1..n})
    BY <2>1, ImageFinite
  <2>3. StringMap(anns) \in SUBSET {anns[i] : i \in 1..n}
    BY <1>2
  <2> QED
    BY <2>2, <2>3, FS_Subset
<1>6. ASSUME NEW a \in StringMap(anns), NEW b \in StringMap(anns), a.key = b.key PROVE a = b
  <2>1. PICK i \in 1..n : a = anns[i] /\ Is(i)
    BY <1>2
  <2>2. PICK j \in 1..n : b = anns[j] /\ Is(j)
    BY <1>2
  <2>3. i <= j /\ j <= i
    BY <1>1, <1>6, <2>1, <2>2
  <2>4. i = j
    BY <1>1, <2>3
  <2> QED
    BY <2>1, <2>2, <2>4
<1>7. ASSUME NEW a \in Range(anns) PROVE \E b \in StringMap(anns) : b.key = a.key
  <2> DEFINE J == {j \in 1..n : anns[j].key = a.key}
  <2>1. J \in SUBSET Int /\ J # {} /\ IsFiniteSet(J)
    <3>1. IsFiniteSet(1..n) /\ J \in SUBSET (1..n)
      BY <1>1, FS_Interval
    <3>2. IsFiniteSet(J)
      BY <3>1, FS_Subset
    <3>3. J # {}
      BY <1>3
    <3> QED
      BY <3>1, <3>2, <3>3
  <2> HIDE DEF J
  <2>2. PICK g \in J : \A m \in J : m <= g
    BY <2>1, Extremes
  <2>3. g \in 1..n /\ anns[g].key = a.key
    BY DEF J
  <2>4. Is(g)
    BY <1>1, <2>2, <2>3 DEF J
  <2> QED
    BY <1>2, <2>3, <2>4
<1> QED
  BY <1>4, <1>5, <1>6, <1>7

(* What a value writes reads as the value.                                 *)
LEMMA PartRead ==
  ASSUME NEW T, IsType(T), NEW v, IsValue(T, v), NEW p \in Parts(T),
         T[p] \in ListKinds => v[p] # <<>>
  PROVE  IsRead(T[p], p, PartPairs(T[p], p, v[p]), v[p])
<1> DEFINE x == v[p]
           P == PartPairs(T[p], p, x)
<1>2. ASSUME T[p] \in LeafKinds PROVE P = {Pair(p, x)} /\ Parses(T[p], x)
  <2>1. P = {Pair(p, x)}
    BY <1>2 DEF PartPairs
  <2>2. x \in Texts(T[p])
    BY <1>2 DEF IsValue
  <2> QED
    BY <2>1, <2>2 DEF Parses, Texts
<1>3. ASSUME T[p] \in ListKinds
      PROVE  /\ x \in Seq(STRING) \ {<<>>}
             /\ \A i \in 1..Len(x) : Parses(T[p], x[i]) /\ i - 1 \in Indices
             /\ \A pr \in P : \E i \in 1..Len(x) : pr = Pair(Append(p, i - 1), x[i])
             /\ Pair(Append(p, Len(x) - 1), x[Len(x)]) \in P
             /\ \A i \in 1..Len(x) : Pair(Append(p, i - 1), x[i]) \in P \/ x[i] = Empty(T[p])
  <2>1. /\ x \in Seq(STRING) /\ x # <<>>
        /\ \A i \in 1..Len(x) : Parses(T[p], x[i]) /\ i - 1 \in Indices
    BY <1>3, ListValue
  <2>2. DOMAIN x = 1..Len(x) /\ Len(x) \in Nat \ {0}
    BY <2>1, LenProperties, EmptySeq
  <2>3. P = {Pair(Append(p, i - 1), x[i]) : i \in 1..Len(x)}
    BY <1>3, <2>2 DEF PartPairs
  <2>4. Len(x) \in 1..Len(x)
    BY <2>2
  <2> HIDE DEF P, x
  <2> QED
    BY <2>1, <2>3, <2>4
<1>4. ASSUME T[p] \in MapKinds
      PROVE  /\ DOMAIN x \subseteq Key /\ x = [k \in DOMAIN x |-> x[k]]
             /\ \A k \in DOMAIN x : Parses(T[p], x[k])
             /\ P = {Pair(p \o k, x[k]) : k \in DOMAIN x}
  <2>1. /\ DOMAIN x \subseteq Key /\ x \in [DOMAIN x -> STRING]
        /\ \A k \in DOMAIN x : Parses(T[p], x[k])
    BY <1>4, MapValue
  <2>2. P = {Pair(p \o k, x[k]) : k \in DOMAIN x}
    BY <1>4 DEF PartPairs
  <2> HIDE DEF P, x
  <2> QED
    BY <2>1, <2>2
<1> HIDE DEF P, x
<1>5. IsRead(T[p], p, P, x)
  BY <1>2, <1>3, <1>4 DEF IsRead
<1> QED
  BY <1>5 DEF P, x

LEMMA EncodesSorted ==
  ASSUME NEW T, IsType(T), NEW P \in SUBSET KV, IsFiniteSet(P), \A a, b \in P : a.key = b.key => a = b,
         NEW v, v = [p \in Parts(T) |-> v[p]],
         \A p \in Parts(T) : IsRead(T[p], p, {pr \in P : Claims(T, p, pr.key)}, v[p]),
         \A p \in DOMAIN T : T[p] = "struct" /\ p # <<>> =>
            \E pr \in P, q \in Parts(T) : Within(pr.key, p) /\ Claims(T, q, pr.key)
  PROVE  Encodes(T, Sorted(P), v)
<1> DEFINE kv == Sorted(P)
<1>1. InKeyOrder(kv) /\ ToSet(kv) = P
  BY SortedIs
<1> HIDE DEF kv
<1>2. \A pr : pr \in P <=> \E j \in DOMAIN kv : pr = kv[j]
  BY <1>1 DEF ToSet
<1>3. ASSUME NEW p \in Parts(T) PROVE Claimed(T, kv, p) = {pr \in P : Claims(T, p, pr.key)}
  BY <1>2 DEF Claimed, Mine
<1>4. \A p \in Parts(T) : IsRead(T[p], p, Claimed(T, kv, p), v[p])
  BY <1>3
<1>5. ASSUME NEW p \in DOMAIN T, T[p] = "struct", p # <<>>
      PROVE  \E q \in Parts(T) : Within(q, p) /\ Mine(T, kv, q) # {}
  <2>1. PICK pr \in P, q \in Parts(T) : Within(pr.key, p) /\ Claims(T, q, pr.key)
    BY <1>5
  <2>2. Mine(T, kv, q) # {}
    BY <1>2, <2>1 DEF Mine
  <2>3. p \in Key /\ q \in Key /\ q \in DOMAIN T /\ T[q] # "struct" /\ pr.key \in Key
    BY DEF IsType, Parts, KV
  <2>4. AtOrWithin(pr.key, q) /\ AtOrWithin(pr.key, p)
    BY <2>1, <2>3, ClaimsWithin DEF Within
  <2>5. AtOrWithin(p, q) \/ AtOrWithin(q, p)
    BY <2>3, <2>4, WithinComparable
  <2>6. ~Within(p, q)
    BY <1>5, <2>3 DEF IsType
  <2>7. Len(p) \in Nat /\ Len(q) \in Nat
    BY <2>3, KeysAre
  <2>8. Len(p) # Len(q)
    <3> SUFFICES ASSUME Len(p) = Len(q) PROVE FALSE
      OBVIOUS
    <3>1. AtOrWithin(p, q) /\ AtOrWithin(q, p)
      BY <2>5, <2>7 DEF AtOrWithin
    <3> QED
      BY <1>5, <2>3, <3>1, WithinBoth
  <2>9. Within(q, p)
    BY <2>5, <2>6, <2>7, <2>8 DEF Within, AtOrWithin
  <2> QED
    BY <2>2, <2>9
<1>6. Encodes(T, kv, v)
  BY <1>1, <1>4, <1>5 DEF Encodes
<1> QED
  BY <1>6 DEF kv

(* Nothing in the annotations of a span is taken for an event's own but    *)
(* what it wrote.                                                          *)
OwnClaims(s, extra, i) ==
    LET T == TypeOf[s[i].schema]
    IN  \A p \in Parts(T), pr \in KV :
            /\ Claims(T, p, pr.key)
            /\ pr \in Range(extra) \/ \E j \in 1..Len(s) : pr \in Flatten(TypeOf[s[j].schema], s[j].val)
            => pr \in PartPairs(T[p], p, s[i].val[p])

LEMMA HeadPairNotClaimed ==
  ASSUME NEW T, IsType(T), NEW p \in Parts(T), NEW k \in Key, IsSchema(k)
  PROVE  ~Claims(T, p, k)
<1> SUFFICES ASSUME Claims(T, p, k) PROVE FALSE
  OBVIOUS
<1>1. AtOrWithin(k, p) /\ p \in Key /\ p # <<>> /\ p[1] \notin Schemas
  <2>1. AtOrWithin(k, p)
    BY ClaimsWithin
  <2> QED
    BY <2>1 DEF IsType, Parts
<1>2. Len(p) \in Nat \ {0}
  BY <1>1, EmptySeq DEF Key
<1>3. k[1] = p[1]
  BY <1>1, <1>2 DEF AtOrWithin
<1> QED
  BY <1>1, <1>3 DEF IsSchema

(* What a span is written as holds what each event wrote, and nothing that *)
(* the event would take for its own.                                       *)
LEMMA WrittenPairs ==
  ASSUME NEW s, IsSpan(s), NEW extra \in Seq(KV), \A i \in DOMAIN extra : ~IsSchema(extra[i].key),
         NEW i \in 1..Len(s), OwnClaims(s, extra, i)
  PROVE  LET T == TypeOf[s[i].schema]
             v == s[i].val
             P == StringMap(Written(s, extra))
         IN  /\ P \in SUBSET KV /\ IsFiniteSet(P) /\ \A a, b \in P : a.key = b.key => a = b
             /\ \A p \in Parts(T), pr \in P : Claims(T, p, pr.key) => pr \in PartPairs(T[p], p, v[p])
             /\ \A p \in Parts(T) : PartPairs(T[p], p, v[p]) \subseteq P
<1> DEFINE T == TypeOf[s[i].schema]
           v == s[i].val
           W == Written(s, extra)
           P == StringMap(W)
           F(j) == Flatten(TypeOf[s[j].schema], s[j].val)
<1>1. IsEvent(s[i]) /\ IsType(T) /\ IsValue(T, v)
  <2>1. IsEvent(s[i])
    BY DEF IsSpan
  <2> QED
    BY <2>1, TypesAssumption DEF IsEvent
<1>2. /\ W \in Seq(KV)
      /\ \A pr : pr \in Range(W) <=> \/ pr \in Range(extra)
                                     \/ \E j \in 1..Len(s) : pr \in F(j) \cup {HeadPair(s[j])}
  BY WrittenIs
<1> HIDE DEF W
<1>3. /\ P \in SUBSET KV /\ P \subseteq Range(W) /\ IsFiniteSet(P)
      /\ \A a, b \in P : a.key = b.key => a = b
      /\ \A a \in Range(W) : \E b \in P : b.key = a.key
  BY <1>2, StringMapIs
<1> HIDE DEF P
<1>4. /\ F(i) \in SUBSET KV
      /\ \A pr \in F(i) : \E p \in Parts(T) : pr \in PartPairs(T[p], p, v[p])
      /\ \A p \in Parts(T) : PartPairs(T[p], p, v[p]) \subseteq F(i)
      /\ \A pr \in F(i), p \in Parts(T) : Claims(T, p, pr.key) => pr \in PartPairs(T[p], p, v[p])
      /\ \A a, b \in F(i) : a.key = b.key => a = b
  BY <1>1, FlattenedIs
<1>5. ASSUME NEW p \in Parts(T), NEW pr \in P, Claims(T, p, pr.key)
      PROVE  pr \in PartPairs(T[p], p, v[p])
  <2>1. pr \in KV /\ pr \in Range(W) /\ pr.key \in Key
    BY <1>3 DEF KV
  <2>2. \A j \in 1..Len(s) : IsEvent(s[j])
    BY DEF IsSpan
  <2>3. \A j \in 1..Len(s) : pr # HeadPair(s[j])
    BY <1>1, <1>5, <2>1, <2>2, HeadPairNotClaimed, SchemaPair
  <2>4. pr \in Range(extra) \/ \E j \in 1..Len(s) : pr \in F(j)
    BY <1>2, <2>1, <2>3
  <2> QED
    BY <1>5, <2>1, <2>4 DEF OwnClaims
<1>6. ASSUME NEW p \in Parts(T), NEW pr \in PartPairs(T[p], p, v[p])
      PROVE  pr \in P /\ Claims(T, p, pr.key)
  <2>1. pr \in KV /\ Claims(T, p, pr.key) /\ pr \in F(i)
    BY <1>1, <1>4, PartPairsAre
  <2>2. pr \in Range(W)
    BY <1>2, <2>1
  <2>3. PICK b \in P : b.key = pr.key
    BY <1>3, <2>2
  <2>4. b \in PartPairs(T[p], p, v[p])
    BY <1>5, <2>1, <2>3
  <2>5. b = pr
    BY <1>4, <2>1, <2>3, <2>4
  <2> QED
    BY <2>1, <2>5
<1>7. /\ \A p \in Parts(T), pr \in P : Claims(T, p, pr.key) => pr \in PartPairs(T[p], p, v[p])
      /\ \A p \in Parts(T) : PartPairs(T[p], p, v[p]) \subseteq P
  BY <1>5, <1>6
<1> QED
  BY <1>3, <1>7, Zenon DEF P, W

LEMMA WrittenEncodes ==
  ASSUME NEW s, IsSpan(s), NEW extra \in Seq(KV), \A i \in DOMAIN extra : ~IsSchema(extra[i].key),
         NEW i \in 1..Len(s), LeavesTrace(TypeOf[s[i].schema], s[i].val), OwnClaims(s, extra, i)
  PROVE  Encodes(TypeOf[s[i].schema], Sorted(StringMap(Written(s, extra))), s[i].val)
<1> DEFINE T == TypeOf[s[i].schema]
           v == s[i].val
           P == StringMap(Written(s, extra))
<1>1. IsEvent(s[i]) /\ IsType(T) /\ IsValue(T, v)
  <2>1. IsEvent(s[i])
    BY DEF IsSpan
  <2> QED
    BY <2>1, TypesAssumption DEF IsEvent
<1>2. /\ P \in SUBSET KV /\ IsFiniteSet(P) /\ \A a, b \in P : a.key = b.key => a = b
      /\ \A p \in Parts(T), pr \in P : Claims(T, p, pr.key) => pr \in PartPairs(T[p], p, v[p])
      /\ \A p \in Parts(T) : PartPairs(T[p], p, v[p]) \subseteq P
  BY WrittenPairs
<1> HIDE DEF P
<1>3. ASSUME NEW p \in Parts(T)
      PROVE  IsRead(T[p], p, {pr \in P : Claims(T, p, pr.key)}, v[p])
  <2>1. {pr \in P : Claims(T, p, pr.key)} = PartPairs(T[p], p, v[p])
    BY <1>1, <1>2, PartPairsAre
  <2>2. T[p] \in ListKinds => v[p] # <<>>
    BY DEF LeavesTrace, Parts
  <2>3. IsRead(T[p], p, PartPairs(T[p], p, v[p]), v[p])
    BY <1>1, <2>2, PartRead
  <2> QED
    BY <2>1, <2>3
<1>4. ASSUME NEW p \in DOMAIN T, T[p] = "struct", p # <<>>
      PROVE  \E pr \in P, q \in Parts(T) : Within(pr.key, p) /\ Claims(T, q, pr.key)
  <2>1. PICK pr \in Flatten(T, v) : Within(pr.key, p)
    BY <1>4 DEF LeavesTrace
  <2>2. PICK q \in Parts(T) : pr \in PartPairs(T[q], q, v[q])
    BY <1>1, FlattenedIs
  <2>3. pr \in P /\ Claims(T, q, pr.key)
    BY <1>1, <1>2, <2>2, PartPairsAre
  <2> QED
    BY <2>1, <2>3
<1>5. v = [p \in Parts(T) |-> v[p]]
  BY <1>1 DEF IsValue
<1> HIDE DEF T, v
<1>6. Encodes(T, Sorted(P), v)
  BY <1>1, <1>2, <1>3, <1>4, <1>5, EncodesSorted
<1> QED
  BY <1>6 DEF T, v, P

LEMMA ReadableOwns ==
  ASSUME NEW s, IsSpan(s), NEW extra \in Seq(KV), Readable(s, extra), NEW i \in 1..Len(s)
  PROVE  LeavesTrace(TypeOf[s[i].schema], s[i].val) /\ OwnClaims(s, extra, i)
<1> DEFINE T == TypeOf[s[i].schema]
           v == s[i].val
           F(j) == Flatten(TypeOf[s[j].schema], s[j].val)
<1>1. IsEvent(s[i]) /\ IsType(T) /\ IsValue(T, v) /\ DOMAIN s = 1..Len(s)
  <2>1. IsEvent(s[i]) /\ DOMAIN s = 1..Len(s)
    BY DEF IsSpan
  <2> QED
    BY <2>1, TypesAssumption DEF IsEvent
<1>2. /\ LeavesTrace(T, v)
      /\ \A k \in (UNION {Keys(s[j]) : j \in DOMAIN s \ {i}}) \cup {pr.key : pr \in ToSet(extra)} :
            \A p \in Parts(T) : ~Claims(T, p, k)
  BY <1>1 DEF Readable
<1>3. ASSUME NEW p \in Parts(T), NEW pr \in KV, Claims(T, p, pr.key),
             pr \in Range(extra) \/ \E j \in 1..Len(s) : pr \in F(j)
      PROVE  pr \in PartPairs(T[p], p, v[p])
  <2>1. ASSUME pr \in Range(extra) PROVE FALSE
    <3>1. Range(extra) = ToSet(extra)
      BY DEF Range, ToSet
    <3>2. pr.key \in {q.key : q \in ToSet(extra)}
      BY <2>1, <3>1
    <3>3. ~Claims(T, p, pr.key)
      BY <1>2, <3>2
    <3> QED
      BY <1>3, <3>3
  <2>2. PICK j \in 1..Len(s) : pr \in F(j)
    BY <1>3, <2>1
  <2>3. pr.key \in Keys(s[j])
    BY <2>2 DEF Keys
  <2>4. j = i
    BY <1>1, <1>2, <1>3, <2>3
  <2>5. pr \in F(i)
    BY <2>2, <2>4
  <2> QED
    BY <1>1, <1>3, <2>5, FlattenedIs
<1> QED
  BY <1>2, <1>3 DEF OwnClaims

(* UnmarshalEvents of the annotations that a span was written as.          *)
LEMMA DecodeIs ==
  ASSUME NEW s, IsSpan(s), NEW extra \in Seq(KV), \A i \in DOMAIN extra : ~IsSchema(extra[i].key),
         \A i \in 1..Len(s) : LeavesTrace(TypeOf[s[i].schema], s[i].val) /\ OwnClaims(s, extra, i)
  PROVE  UnmarshalEvents(Written(s, extra)) = s
<1> DEFINE n == Len(s)
           kv == Sorted(StringMap(Written(s, extra)))
           sc == SchemasOf(Written(s, extra))
<1>1. n \in Nat /\ s = [i \in 1..n |-> s[i]] /\ \A i \in 1..n : IsEvent(s[i])
  BY DEF IsSpan
<1>2. sc = [i \in 1..n |-> s[i].schema]
  BY WrittenIs
<1>3. \A i \in 1..n : Encodes(TypeOf[s[i].schema], kv, s[i].val)
  BY WrittenEncodes
<1>4. UnmarshalEvents(Written(s, extra)) =
        [i \in DOMAIN sc |-> Event(sc[i], Unflatten(TypeOf[sc[i]], kv).val)]
  BY DEF UnmarshalEvents
<1> HIDE DEF n, kv, sc
<1>5. DOMAIN sc = 1..n /\ \A i \in 1..n : sc[i] = s[i].schema
  BY <1>2
<1>6. ASSUME NEW i \in 1..n PROVE Event(sc[i], Unflatten(TypeOf[sc[i]], kv).val) = s[i]
  <2>1. Unflatten(TypeOf[s[i].schema], kv).val = s[i].val
    BY <1>3, UnflattenIs
  <2>2. Event(s[i].schema, s[i].val) = s[i]
    BY <1>1 DEF IsEvent
  <2> QED
    BY <1>5, <2>1, <2>2
<1>7. [i \in DOMAIN sc |-> Event(sc[i], Unflatten(TypeOf[sc[i]], kv).val)] = [i \in 1..n |-> s[i]]
  BY <1>5, <1>6
<1> QED
  BY <1>1, <1>4, <1>7, Zenon

(* What ReadSpans answers is as DecodeUndoesEncode wants it.               *)
SpansFor(of, extra, out) ==
    out # <<>> /\ out[1] = "spans" =>
        \A s \in of : Readable(s, extra) => out[2][s] = s

LEMMA SpanInput ==
  ASSUME InputOK, input.kind = "spans", NEW s \in input.of
  PROVE  /\ IsSpan(s) /\ input.extra \in Seq(KV)
         /\ \A i \in DOMAIN input.extra : ~IsSchema(input.extra[i].key)
<1>1. input.of \in SpanInputs /\ input.extra \in Extras
  BY DEF InputOK
<1> QED
  BY <1>1, SpansAssumption DEF KV

(* The codec of events loses nothing: whatever the types and the other     *)
(* annotations, a span that the decoder can be expected to read decodes to *)
(* the events it was written from, in their order (MarshalEvent over       *)
(* flattenValue, UnmarshalEvents over unflattenValue).                     *)
THEOREM DecodingUndoesEncoding == Spec => []DecodeUndoesEncode
<1>1. Init => DecodeUndoesEncode
  BY DEF Init, DecodeUndoesEncode, Answered
<1>2. InputOK /\ DecodeUndoesEncode /\ [Next]_vars => DecodeUndoesEncode'
  <2> SUFFICES ASSUME InputOK, DecodeUndoesEncode, [Next]_vars PROVE DecodeUndoesEncode'
    OBVIOUS
  <2>1. CASE ReadSpans
    <3>1. /\ input.kind = "spans" /\ input' = input
          /\ output' = <<"spans", [s \in input.of |-> UnmarshalEvents(Written(s, input.extra))]>>
      BY <2>1 DEF ReadSpans, Request
    <3>2. ASSUME NEW s \in input.of, Readable(s, input.extra) PROVE output'[2][s] = s
      <4>1. /\ IsSpan(s) /\ input.extra \in Seq(KV)
            /\ \A i \in DOMAIN input.extra : ~IsSchema(input.extra[i].key)
        BY <3>1, SpanInput
      <4>2. UnmarshalEvents(Written(s, input.extra)) = s
        BY <3>2, <4>1, ReadableOwns, DecodeIs
      <4> QED
        BY <3>1, <4>2
    <3>3. SpansFor(input.of, input.extra, output')
      BY <3>2 DEF SpansFor
    <3>4. SpansFor(input'.of, input'.extra, output')
      BY <3>1, <3>3
    <3> QED
      BY <3>4, Zenon DEF SpansFor, DecodeUndoesEncode, Answered
  <2>2. CASE ReadRows \/ serveTrace \/ serveAggregate \/ serveDashboardData
    <3>1. output' # <<>> /\ output'[1] # "spans"
      BY <2>2 DEF ReadRows, serveTrace, serveAggregate, serveDashboardData
    <3> QED
      BY <3>1 DEF DecodeUndoesEncode, Answered
  <2>3. CASE UNCHANGED vars
    <3>1. input' = input /\ output' = output
      BY <2>3 DEF vars
    <3>2. SpansFor(input.of, input.extra, output)
      BY Zenon DEF SpansFor, DecodeUndoesEncode, Answered
    <3>3. SpansFor(input'.of, input'.extra, output')
      BY <3>1, <3>2
    <3> QED
      BY <3>3, Zenon DEF SpansFor, DecodeUndoesEncode, Answered
  <2> QED
    BY <2>1, <2>2, <2>3 DEF Next
<1> QED
  BY <1>1, <1>2, InputStays, PTL DEF Spec

-----------------------------------------------------------------------------
(* A row of a table has a value for every column, and "" in the place of a *)
(* null.                                                                   *)
ValueOf(P, k) == IF \E pr \in P : pr.key = k THEN (CHOOSE pr \in P : pr.key = k).val ELSE ""

InRow(P, C) == {Pair(k, ValueOf(P, k)) : k \in C}

(* The value v in a row that was written as P, with the columns C.         *)
Tabled(T, v, P, C) ==
    /\ IsType(T) /\ IsValue(T, v)
    /\ P \in SUBSET KV /\ \A a, b \in P : a.key = b.key => a = b
    /\ C \in SUBSET Key /\ IsFiniteSet(C) /\ \A pr \in P : pr.key \in C
    /\ \A p \in Parts(T), pr \in P : Claims(T, p, pr.key) => pr \in PartPairs(T[p], p, v[p])
    /\ \A p \in Parts(T) :
        /\ PartPairs(T[p], p, v[p]) \subseteq P
        /\ T[p] \in ListKinds =>
            v[p] # <<>> /\ \A k \in C : AtOrWithin(k, p) => IsElement(k, p)
        /\ T[p] \in {"numbers", "numberMap"} =>
            \A k \in C : Within(k, p) => \E pr \in P : pr.key = k

(* The part p reads as x from the row.                                     *)
IsFilled(T, v, P, C, p, x) ==
    LET mine == {pr \in InRow(P, C) : Claims(T, p, pr.key)}
    IN  /\ IsRead(T[p], p, mine, x)
        /\ mine \subseteq PartPairs(T[p], p, x)
        /\ PartPairs(T[p], p, v[p]) \subseteq PartPairs(T[p], p, x)
        /\ \A pr \in PartPairs(T[p], p, x) :
                pr.val = ValueOf(P, pr.key) /\ (pr.key \in C \/ T[p] = "list")
        /\ T[p] \notin {"list", "map"} => x = v[p]
        /\ T[p] = "list" => /\ x \in Seq(STRING) /\ x # <<>>
                            /\ \A i \in 1..Len(x) : i - 1 \in Indices
        /\ T[p] = "map" => /\ IsFiniteSet(DOMAIN x) /\ DOMAIN x \subseteq Key \ {<<>>}
                           /\ x \in [DOMAIN x -> STRING]
        /\ T[p] \in {"list", "map"} =>
            /\ \A k \in DOMAIN v[p] : k \in DOMAIN x /\ x[k] = v[p][k]
            /\ \A k \in DOMAIN x \ DOMAIN v[p] : x[k] = ""
        /\ C = {pr.key : pr \in P} => x = v[p]

LEMMA ValueIs ==
  ASSUME NEW P \in SUBSET KV, \A a, b \in P : a.key = b.key => a = b
  PROVE  /\ \A pr \in P : ValueOf(P, pr.key) = pr.val
         /\ \A k : ValueOf(P, k) \in STRING
         /\ \A k : (\A pr \in P : pr.key # k) => ValueOf(P, k) = ""
<1>1. ASSUME NEW pr \in P PROVE ValueOf(P, pr.key) = pr.val
  <2> DEFINE c == CHOOSE q \in P : q.key = pr.key
  <2>1. c \in P /\ c.key = pr.key
    OBVIOUS
  <2>2. ValueOf(P, pr.key) = c.val
    BY DEF ValueOf
  <2> HIDE DEF c
  <2> QED
    BY <2>1, <2>2
<1>2. ASSUME NEW k, \A pr \in P : pr.key # k PROVE ValueOf(P, k) = ""
  BY <1>2 DEF ValueOf
<1>3. ASSUME NEW k PROVE ValueOf(P, k) \in STRING
  <2>1. CASE \A pr \in P : pr.key # k
    BY <1>2, <2>1, NumbersAssumption
  <2>2. CASE \E pr \in P : pr.key = k
    <3>1. PICK pr \in P : pr.key = k
      BY <2>2
    <3>2. pr.val \in STRING
      BY DEF KV
    <3> QED
      BY <1>1, <3>1, <3>2
  <2> QED
    BY <2>1, <2>2
<1> QED
  BY <1>1, <1>2, <1>3

(* What was written is in the row; a column that a part claims has the     *)
(* value of the part, or none.                                             *)
LEMMA ColumnIs ==
  ASSUME NEW T, NEW v, NEW P, NEW C, Tabled(T, v, P, C), NEW p \in Parts(T),
         NEW pr \in PartPairs(T[p], p, v[p])
  PROVE  pr \in P /\ pr.key \in C /\ ValueOf(P, pr.key) = pr.val /\ Claims(T, p, pr.key)
<1>1. /\ IsType(T) /\ IsValue(T, v)
      /\ P \in SUBSET KV /\ \A a, b \in P : a.key = b.key => a = b
      /\ \A q \in P : q.key \in C
      /\ PartPairs(T[p], p, v[p]) \subseteq P
  BY DEF Tabled
<1>2. \A q \in P : ValueOf(P, q.key) = q.val
  BY <1>1, ValueIs
<1> QED
  BY <1>1, <1>2, PartPairsAre

LEMMA ClaimedColumn ==
  ASSUME NEW T, NEW v, NEW P, NEW C, Tabled(T, v, P, C), NEW p \in Parts(T),
         NEW k \in C, Claims(T, p, k)
  PROVE  Pair(k, ValueOf(P, k)) \in PartPairs(T[p], p, v[p])
         \/ (ValueOf(P, k) = "" /\ \A pr \in P : pr.key # k)
<1>1. /\ P \in SUBSET KV /\ \A a, b \in P : a.key = b.key => a = b
      /\ \A pr \in P : Claims(T, p, pr.key) => pr \in PartPairs(T[p], p, v[p])
  BY DEF Tabled
<1>2. /\ \A pr \in P : ValueOf(P, pr.key) = pr.val
      /\ (\A pr \in P : pr.key # k) => ValueOf(P, k) = ""
  BY <1>1, ValueIs
<1>3. ASSUME NEW pr \in P, pr.key = k PROVE Pair(k, ValueOf(P, k)) \in PartPairs(T[p], p, v[p])
  <2>1. pr \in PartPairs(T[p], p, v[p])
    BY <1>1, <1>3
  <2>2. pr = Pair(k, ValueOf(P, k))
    BY <1>1, <1>2, <1>3 DEF KV, Pair
  <2> QED
    BY <2>1, <2>2
<1> QED
  BY <1>2, <1>3

LEMMA NoColumn ==
  ASSUME NEW T, NEW v, NEW P, NEW C, Tabled(T, v, P, C), NEW k
  PROVE  ValueOf(P, k) \in STRING /\ (k \notin C => ValueOf(P, k) = "")
<1>1. P \in SUBSET KV /\ (\A a, b \in P : a.key = b.key => a = b) /\ \A pr \in P : pr.key \in C
  BY DEF Tabled
<1>2. ValueOf(P, k) \in STRING /\ ((\A pr \in P : pr.key # k) => ValueOf(P, k) = "")
  BY <1>1, ValueIs
<1> QED
  BY <1>1, <1>2

LEMMA FilledSame ==
  ASSUME NEW T, NEW v, NEW P, NEW C, Tabled(T, v, P, C), NEW p \in Parts(T),
         T[p] \notin {"list", "map"}
  PROVE  IsFilled(T, v, P, C, p, v[p])
<1> DEFINE mine == {pr \in InRow(P, C) : Claims(T, p, pr.key)}
           V == PartPairs(T[p], p, v[p])
<1>1. IsType(T) /\ IsValue(T, v) /\ p \in Key /\ (T[p] \in ListKinds => v[p] # <<>>)
  BY DEF Tabled, IsType, Parts
<1>2. IsRead(T[p], p, V, v[p])
  BY <1>1, PartRead
<1>3. ASSUME NEW pr \in V PROVE pr \in KV /\ pr.key \in C /\ ValueOf(P, pr.key) = pr.val /\ Claims(T, p, pr.key)
  BY <1>1, ColumnIs, PartPairsAre
<1>4. ASSUME NEW k \in C, Claims(T, p, k) PROVE \E pr \in P : pr.key = k
  <2>1. CASE T[p] \in LeafKinds
    <3>1. Pair(p, v[p]) \in V /\ Pair(p, v[p]).key = p
      BY <2>1 DEF PartPairs, Pair
    <3>2. k = p
      BY <1>4, <2>1 DEF Claims
    <3>3. Pair(p, v[p]) \in P
      BY <3>1, ColumnIs
    <3> QED
      BY <3>1, <3>2, <3>3
  <2>2. CASE T[p] \in {"numbers", "numberMap"}
    <3>1. AtOrWithin(k, p) /\ (T[p] \in ListKinds => IsElement(k, p)) /\ (T[p] \in MapKinds => Within(k, p))
      BY <1>4, <2>2 DEF Claims, Tabled, Within
    <3>2. Within(k, p)
      <4>1. Len(p) \in Nat
        BY <1>1, KeysAre
      <4> QED
        BY <2>2, <3>1, <4>1 DEF IsElement, Within
    <3> QED
      BY <2>2, <3>2 DEF Tabled
  <2>3. T[p] \in Kinds \ {"struct"}
    BY <1>1 DEF IsType, Parts
  <2> QED
    BY <2>1, <2>2, <2>3
<1>5. mine = V
  <2>1. ASSUME NEW pr \in mine PROVE pr \in V
    <3>1. PICK k \in C : pr = Pair(k, ValueOf(P, k))
      BY DEF InRow
    <3>2. Claims(T, p, k)
      BY <3>1 DEF Pair
    <3>3. \E q \in P : q.key = k
      BY <1>4, <3>2
    <3>4. Tabled(T, v, P, C) /\ p \in Parts(T) /\ k \in C /\ Claims(T, p, k)
      BY <3>2
    <3>5. Pair(k, ValueOf(P, k)) \in PartPairs(T[p], p, v[p])
      BY ONLY <3>3, <3>4, ClaimedColumn, Zenon
    <3> QED
      BY <3>1, <3>5
  <2>2. ASSUME NEW pr \in V PROVE pr \in mine
    <3>1. pr = Pair(pr.key, ValueOf(P, pr.key)) /\ pr.key \in C
      BY <1>3 DEF KV, Pair
    <3>2. pr \in InRow(P, C)
      BY <3>1 DEF InRow
    <3> QED
      BY <1>3, <3>2
  <2> QED
    BY <2>1, <2>2
<1> HIDE DEF mine, V
<1>6. IsFilled(T, v, P, C, p, v[p])
  BY <1>2, <1>3, <1>5 DEF IsFilled, mine, V
<1> QED
  BY <1>6

LEMMA FilledMap ==
  ASSUME NEW T, NEW v, NEW P, NEW C, Tabled(T, v, P, C), NEW p \in Parts(T), T[p] = "map"
  PROVE  \E x : IsFilled(T, v, P, C, p, x)
<1> DEFINE M == {c \in C : Within(c, p)}
           b == [c \in M |-> SubSeq(c, Len(p) + 1, Len(c))]
           D == {b[c] : c \in M}
           x == [k \in D |-> ValueOf(P, p \o k)]
           mine == {pr \in InRow(P, C) : Claims(T, p, pr.key)}
           V == PartPairs(T[p], p, v[p])
<1>1. /\ IsType(T) /\ IsValue(T, v) /\ C \in SUBSET Key /\ IsFiniteSet(C)
      /\ p \in Key
  BY DEF Tabled, IsType, Parts
<1>2. IsFiniteSet(D)
  <2>1. IsFiniteSet(M)
    BY <1>1, FS_Subset
  <2> HIDE DEF M, b
  <2> QED
    BY <2>1, ImageFinite
<1>3. ASSUME NEW c \in M PROVE b[c] \in Key \ {<<>>} /\ p \o b[c] = c
  <2>1. c \in Key /\ Within(c, p)
    BY <1>1
  <2>2. b[c] = SubSeq(c, Len(p) + 1, Len(c))
    OBVIOUS
  <2>3. c \in Seq(Nat) /\ p \in Seq(Nat) /\ Len(p) \in Nat /\ Len(c) \in Nat
        /\ Len(p) < Len(c) /\ \A i \in 1..Len(p) : c[i] = p[i]
    BY <1>1, <2>1, KeysAre DEF Within, AtOrWithin, Key
  <2> DEFINE r == SubSeq(c, Len(p) + 1, Len(c))
  <2>4. r \in Seq(Nat) /\ Len(r) = Len(c) - Len(p)
        /\ \A i \in 1..(Len(c) - Len(p)) : r[i] = c[Len(p) + i]
    BY <2>3
  <2> HIDE DEF r
  <2>5. r # <<>>
    BY <2>3, <2>4
  <2>6. /\ p \o r \in Seq(Nat) /\ Len(p \o r) = Len(p) + Len(r)
        /\ \A i \in 1..(Len(p) + Len(r)) : (p \o r)[i] = IF i <= Len(p) THEN p[i] ELSE r[i - Len(p)]
    BY <2>3, <2>4, ConcatProperties
  <2> DEFINE pr == p \o r
  <2>7. /\ pr \in Seq(Nat) /\ Len(pr) = Len(p) + Len(r)
        /\ \A i \in 1..(Len(p) + Len(r)) : pr[i] = IF i <= Len(p) THEN p[i] ELSE r[i - Len(p)]
    BY <2>6
  <2> HIDE DEF pr
  <2>8. Len(pr) = Len(c) /\ \A i \in 1..Len(c) : pr[i] = c[i]
    <3>1. Len(p) + Len(r) = Len(c)
      BY <2>3, <2>4
    <3>2. ASSUME NEW i \in 1..Len(c) PROVE pr[i] = c[i]
      <4>1. CASE i <= Len(p)
        <5>1. i \in 1..(Len(p) + Len(r)) /\ i \in 1..Len(p)
          BY <2>3, <3>1, <4>1
        <5>2. pr[i] = p[i]
          BY <2>7, <4>1, <5>1
        <5> QED
          BY <2>3, <5>1, <5>2
      <4>2. CASE i > Len(p)
        <5>1. i - Len(p) \in 1..(Len(c) - Len(p)) /\ Len(p) + (i - Len(p)) = i /\ ~(i <= Len(p))
          BY <2>3, <4>2
        <5> QED
          BY <2>4, <2>7, <3>1, <5>1
      <4> QED
        BY <2>3, <4>1, <4>2
    <3> QED
      BY <2>7, <3>1, <3>2
  <2>9. pr = c
    BY <2>3, <2>7, <2>8, SeqEqual
  <2> QED
    BY <2>2, <2>4, <2>5, <2>9 DEF pr, r, Key
<1>4. ASSUME NEW k \in Key \ {<<>>}, p \o k \in C PROVE k \in D
  <2>1. Within(p \o k, p)
    BY <1>1, <1>4, ConcatKey
  <2>2. p \o k \in M
    BY <1>4, <2>1
  <2>3. p \o b[p \o k] = p \o k /\ b[p \o k] \in Key
    BY <1>3, <2>2
  <2>4. b[p \o k] = k
    BY <1>1, <2>3, ConcatKey
  <2> QED
    BY <2>2, <2>4
<1> HIDE DEF V
<1>5. /\ \A k : ValueOf(P, k) \in STRING
      /\ \A pr \in V : pr \in P /\ pr.key \in C /\ ValueOf(P, pr.key) = pr.val
      /\ \A k \in C : Claims(T, p, k) =>
                Pair(k, ValueOf(P, k)) \in V \/ (ValueOf(P, k) = "" /\ \A pr \in P : pr.key # k)
      /\ C = {pr.key : pr \in P} => \A k \in C : \E pr \in P : pr.key = k
  <2>1. ASSUME NEW k PROVE ValueOf(P, k) \in STRING
    BY NoColumn, Zenon
  <2>2. ASSUME NEW pr \in PartPairs(T[p], p, v[p])
        PROVE  pr \in P /\ pr.key \in C /\ ValueOf(P, pr.key) = pr.val
    BY ColumnIs
  <2>3. ASSUME NEW k \in C, Claims(T, p, k)
        PROVE  Pair(k, ValueOf(P, k)) \in PartPairs(T[p], p, v[p])
               \/ (ValueOf(P, k) = "" /\ \A pr \in P : pr.key # k)
    <3>1. Tabled(T, v, P, C) /\ p \in Parts(T) /\ k \in C /\ Claims(T, p, k)
      BY <2>3
    <3> QED
      BY ONLY <3>1, ClaimedColumn, Zenon
  <2>4. C = {pr.key : pr \in P} => \A k \in C : \E pr \in P : pr.key = k
    OBVIOUS
  <2> QED
    BY <2>1, <2>2, <2>3, <2>4, Zenon DEF V
<1>6. V = {Pair(p \o k, v[p][k]) : k \in DOMAIN v[p]}
  BY DEF PartPairs, V
<1>7. \A k \in D : k \in Key \ {<<>>} /\ p \o k \in C /\ Claims(T, p, p \o k)
  <2> SUFFICES ASSUME NEW c \in M
               PROVE  b[c] \in Key \ {<<>>} /\ p \o b[c] \in C /\ Claims(T, p, p \o b[c])
    OBVIOUS
  <2> QED
    BY <1>3 DEF Claims
<1>8. ASSUME NEW k \in C, Claims(T, p, k) PROVE \E d \in D : k = p \o d
  <2>1. k \in M
    BY <1>8 DEF Claims
  <2> QED
    BY <1>3, <2>1
<1>9. \A k, l \in Key : p \o k = p \o l => k = l
  BY <1>1, ConcatKey
<1>10. DOMAIN v[p] \subseteq Key \ {<<>>} /\ v[p] = [k \in DOMAIN v[p] |-> v[p][k]]
  <2>1. DOMAIN v[p] \subseteq Key \ {<<>>} /\ v[p] \in [DOMAIN v[p] -> STRING]
    BY <1>1, MapValue
  <2> QED
    BY <2>1
<1>11. ASSUME NEW k \in DOMAIN v[p] PROVE k \in D /\ ValueOf(P, p \o k) = v[p][k]
  <2>1. Pair(p \o k, v[p][k]) \in V
    BY <1>6
  <2>2. Pair(p \o k, v[p][k]).key = p \o k /\ Pair(p \o k, v[p][k]).val = v[p][k]
    BY DEF Pair
  <2>3. p \o k \in C /\ ValueOf(P, p \o k) = v[p][k]
    BY <1>5, <2>1, <2>2
  <2>4. k \in D
    BY <1>4, <1>10, <2>3
  <2> QED
    BY <2>3, <2>4
<1>12. ASSUME NEW k \in D, \E pr \in P : pr.key = p \o k PROVE k \in DOMAIN v[p]
  <2>1. Pair(p \o k, ValueOf(P, p \o k)) \in V
    BY <1>5, <1>7, <1>12
  <2>2. PICK l \in DOMAIN v[p] : Pair(p \o k, ValueOf(P, p \o k)) = Pair(p \o l, v[p][l])
    BY <1>6, <2>1
  <2>3. p \o k = p \o l
    BY <2>2 DEF Pair
  <2> QED
    BY <1>7, <1>9, <1>10, <2>3
<1>13. ASSUME NEW k \in D \ DOMAIN v[p] PROVE ValueOf(P, p \o k) = ""
  <2>1. \A pr \in P : pr.key # p \o k
    BY <1>12
  <2>2. p \o k \in C /\ Claims(T, p, p \o k)
    BY <1>7
  <2>3. ~(Pair(p \o k, ValueOf(P, p \o k)) \in V)
    BY <1>5, <2>1 DEF Pair
  <2> QED
    BY <1>5, <2>2, <2>3
<1> HIDE DEF D
<1>14. DOMAIN x = D /\ \A k \in D : x[k] = ValueOf(P, p \o k)
  OBVIOUS
<1>15. x \in [D -> STRING]
  BY <1>5
<1> HIDE DEF x
<1>16. PartPairs(T[p], p, x) = {Pair(p \o k, x[k]) : k \in D}
  BY <1>14 DEF PartPairs
<1>17. mine = {Pair(p \o k, x[k]) : k \in D}
  <2>1. ASSUME NEW pr \in mine PROVE \E k \in D : pr = Pair(p \o k, x[k])
    <3>1. PICK k \in C : pr = Pair(k, ValueOf(P, k))
      BY DEF InRow
    <3>2. Claims(T, p, k)
      BY <3>1 DEF Pair
    <3>3. PICK d \in D : k = p \o d
      BY <1>8, <3>2
    <3> QED
      BY <1>14, <3>1, <3>3
  <2>2. ASSUME NEW k \in D PROVE Pair(p \o k, x[k]) \in mine
    <3>1. Pair(p \o k, x[k]) = Pair(p \o k, ValueOf(P, p \o k)) /\ p \o k \in C
      BY <1>7, <1>14
    <3>2. Pair(p \o k, x[k]) \in InRow(P, C)
      BY <3>1 DEF InRow
    <3>3. Pair(p \o k, x[k]).key = p \o k
      BY DEF Pair
    <3> QED
      BY <1>7, <3>2, <3>3
  <2> QED
    BY <2>1, <2>2
<1> HIDE DEF mine
<1>18. IsRead(T[p], p, mine, x)
  <2>1. DOMAIN x \subseteq Key /\ x = [k \in DOMAIN x |-> x[k]]
    BY <1>7, <1>14, <1>15
  <2> QED
    BY <1>14, <1>17, <2>1 DEF IsRead, Parses
<1>19. V \subseteq PartPairs(T[p], p, x)
  <2> SUFFICES ASSUME NEW k \in DOMAIN v[p] PROVE Pair(p \o k, v[p][k]) \in PartPairs(T[p], p, x)
    BY <1>6 DEF V
  <2> QED
    BY <1>11, <1>14, <1>16
<1>20. ASSUME NEW pr \in PartPairs(T[p], p, x) PROVE pr.val = ValueOf(P, pr.key) /\ pr.key \in C
  <2>1. PICK k \in D : pr = Pair(p \o k, x[k])
    BY <1>16
  <2>2. pr.key = p \o k /\ pr.val = x[k]
    BY <2>1 DEF Pair
  <2> QED
    BY <1>7, <1>14, <2>2
<1>21. /\ \A k \in DOMAIN v[p] : k \in DOMAIN x /\ x[k] = v[p][k]
       /\ \A k \in DOMAIN x \ DOMAIN v[p] : x[k] = ""
  BY <1>11, <1>13, <1>14
<1>22. ASSUME C = {pr.key : pr \in P} PROVE x = v[p]
  <2>1. DOMAIN x = DOMAIN v[p]
    BY <1>5, <1>7, <1>11, <1>12, <1>14, <1>22
  <2>2. x = [k \in DOMAIN x |-> x[k]]
    BY <1>14, <1>15
  <2> QED
    BY <1>10, <1>21, <2>1, <2>2
<1>23. IsFiniteSet(DOMAIN x) /\ DOMAIN x \subseteq Key \ {<<>>} /\ x \in [DOMAIN x -> STRING]
  BY <1>2, <1>7, <1>14, <1>15
<1>24. IsFilled(T, v, P, C, p, x)
  BY <1>16, <1>17, <1>18, <1>19, <1>20, <1>21, <1>22, <1>23 DEF IsFilled, mine, V
<1> QED
  BY <1>24

LEMMA KeyOfList ==
  ASSUME NEW p \in Key, NEW c \in Key, AtOrWithin(c, p), Len(c) = Len(p) + 1
  PROVE  Last(c) \in Nat /\ c = Append(p, Last(c))
<1>1. /\ Len(p) \in Nat /\ c \in Seq(Nat) /\ p \in Seq(Nat)
      /\ \A i \in 1..Len(c) : c[i] \in Nat
      /\ \A i \in 1..Len(p) : c[i] = p[i]
  BY KeysAre DEF AtOrWithin, Key
<1>2. Last(c) = c[Len(p) + 1] /\ Last(c) \in Nat
  BY <1>1 DEF Last
<1> DEFINE m == Last(c)
           a == Append(p, m)
<1>3. /\ a \in Seq(Nat) /\ Len(a) = Len(p) + 1
      /\ a[Len(p) + 1] = m /\ \A i \in 1..Len(p) : a[i] = p[i]
  BY <1>1, <1>2, AppendProperties
<1>4. m = c[Len(p) + 1]
  BY <1>2
<1> HIDE DEF a, m
<1>5. ASSUME NEW i \in 1..Len(c) PROVE c[i] = a[i]
  <2>1. i \in 1..Len(p) \/ i = Len(p) + 1
    BY <1>1
  <2> QED
    BY <1>1, <1>3, <1>4, <2>1
<1>6. c = a
  BY <1>1, <1>3, <1>5, SeqEqual
<1> QED
  BY <1>2, <1>6 DEF a, m

LEMMA FilledList ==
  ASSUME NEW T, NEW v, NEW P, NEW C, Tabled(T, v, P, C), NEW p \in Parts(T), T[p] = "list"
  PROVE  \E x : IsFilled(T, v, P, C, p, x)
<1> DEFINE M == {c \in C : AtOrWithin(c, p)}
           b == [c \in M |-> Last(c) + 1]
           S == {b[c] : c \in M}
           N == Greatest(S)
           L == Len(v[p])
           at(i) == Append(p, i - 1)
           x == [i \in 1..N |-> ValueOf(P, Append(p, i - 1))]
           mine == {pr \in InRow(P, C) : Claims(T, p, pr.key)}
           V == PartPairs(T[p], p, v[p])
<1>1. /\ IsType(T) /\ IsValue(T, v) /\ C \in SUBSET Key /\ IsFiniteSet(C) /\ p \in Key
      /\ v[p] # <<>> /\ \A k \in C : AtOrWithin(k, p) => IsElement(k, p)
  BY DEF Tabled, IsType, Parts
<1>2. v[p] \in Seq(STRING) /\ L \in Nat \ {0} /\ DOMAIN v[p] = 1..L
      /\ \A i \in 1..L : v[p][i] \in STRING
  <2>1. v[p] \in Seq(STRING)
    BY <1>1, ListValue
  <2>2. L \in Nat /\ L # 0 /\ DOMAIN v[p] = 1..L
    BY <1>1, <2>1, LenProperties, EmptySeq
  <2> QED
    BY <2>1, <2>2, ElementOfSeq
<1> HIDE DEF L
<1>3. V = {Pair(at(i), v[p][i]) : i \in 1..L}
  BY <1>2 DEF PartPairs
<1>4. ASSUME NEW c \in M PROVE Last(c) \in Nat /\ c = Append(p, Last(c)) /\ Last(c) \in Indices
  BY <1>1, KeyOfList DEF IsElement
<1>5. ASSUME NEW i \in Nat \ {0}
      PROVE  at(i) \in Key /\ AtOrWithin(at(i), p) /\ Last(at(i)) = i - 1 /\ Claims(T, p, at(i))
  <2>1. i - 1 \in Nat
    OBVIOUS
  <2>2. at(i) \in Key /\ Last(at(i)) = i - 1 /\ Within(at(i), p)
    BY <1>1, <2>1, LastName
  <2> QED
    BY <2>2 DEF Within, Claims
<1> DEFINE atp == [i \in Nat \ {0} |-> at(i)]
<1>6. \A i \in Nat \ {0} : atp[i] = at(i)
  OBVIOUS
<1> HIDE DEF atp
<1>7. ASSUME NEW i \in 1..L
      PROVE  at(i) \in C /\ at(i) \in M /\ ValueOf(P, at(i)) = v[p][i]
  <2>2. Pair(at(i), v[p][i]) \in PartPairs(T[p], p, v[p])
    BY <1>3
  <2>3. Pair(at(i), v[p][i]).key \in C
        /\ ValueOf(P, Pair(at(i), v[p][i]).key) = Pair(at(i), v[p][i]).val
    BY <2>2, ColumnIs
  <2>4. at(i) \in C /\ ValueOf(P, at(i)) = v[p][i]
    BY <2>3 DEF Pair
  <2>5. i \in Nat \ {0}
    BY <1>2
  <2> QED
    BY <1>5, <2>4, <2>5
<1>8. /\ S \in SUBSET (Nat \ {0}) /\ IsFiniteSet(S) /\ S # {}
      /\ \A i \in 1..L : i \in S
  <2>1. IsFiniteSet(M)
    BY <1>1, FS_Subset
  <2>2. IsFiniteSet(S)
    <3> HIDE DEF M, b
    <3> QED
      BY <2>1, ImageFinite
  <2>3. \A c \in M : b[c] \in Nat \ {0}
    BY <1>4
  <2>4. ASSUME NEW i \in 1..L PROVE i \in S
    <3>0. i \in Nat \ {0}
      BY <1>2
    <3>1. at(i) \in M
      BY <1>7
    <3>2. b[at(i)] = Last(at(i)) + 1
      BY <3>1
    <3>3. b[at(i)] = i
      BY <1>5, <3>0, <3>2
    <3> QED
      BY <3>1, <3>3
  <2>5. 1 \in 1..L
    BY <1>2
  <2> QED
    BY <2>2, <2>3, <2>4, <2>5
<1>9. N \in Nat \ {0} /\ N \in S /\ (\A m \in S : m <= N) /\ L <= N
  <2> HIDE DEF S
  <2>1. S \in SUBSET Int
    BY <1>8
  <2>2. N \in S /\ \A m \in S : m <= N
    BY <1>8, <2>1, Extremes
  <2>3. L \in S
    BY <1>2, <1>8
  <2> QED
    BY <1>8, <2>2, <2>3
<1>10. at(N) \in C /\ N - 1 \in Indices
  <2>1. PICK c \in M : b[c] = N
    BY <1>9
  <2>2. N = Last(c) + 1 /\ Last(c) \in Nat /\ c = Append(p, Last(c)) /\ Last(c) \in Indices
    BY <1>4, <2>1
  <2>3. N - 1 = Last(c)
    BY <2>2
  <2>4. c = at(N)
    BY <2>2, <2>3
  <2> QED
    BY <2>2, <2>3, <2>4
<1>11. ASSUME NEW c \in C, Claims(T, p, c) PROVE \E i \in 1..N : c = at(i)
  <2>1. c \in M
    BY <1>11 DEF Claims
  <2>2. Last(c) \in Nat /\ c = Append(p, Last(c)) /\ b[c] \in S /\ b[c] = Last(c) + 1
    BY <1>4, <2>1
  <2>3. Last(c) + 1 <= N
    BY <1>9, <2>2
  <2>4. Last(c) + 1 \in 1..N /\ (Last(c) + 1) - 1 = Last(c)
    BY <1>9, <2>2, <2>3
  <2>5. c = at(Last(c) + 1)
    BY <2>2, <2>4
  <2> QED
    BY <2>4, <2>5
<1> HIDE DEF N, S
<1>12. ASSUME NEW i \in 1..N, Pair(at(i), ValueOf(P, at(i))) \in V PROVE i \in 1..L
  <2>1. PICK j \in 1..L : Pair(at(i), ValueOf(P, at(i))) = Pair(at(j), v[p][j])
    BY <1>3, <1>12
  <2>2. at(i) = at(j)
    BY <2>1 DEF Pair
  <2>3. i \in Nat \ {0} /\ j \in Nat \ {0}
    BY <1>2, <1>9
  <2>4. Last(at(i)) = i - 1 /\ Last(at(j)) = j - 1
    BY <1>5, <2>3
  <2>5. i - 1 = j - 1
    BY <2>2, <2>4
  <2> QED
    BY <2>3, <2>5
<1>13. ASSUME NEW i \in 1..N, at(i) \in C, i \notin 1..L
       PROVE  ValueOf(P, at(i)) = "" /\ \A pr \in P : pr.key # at(i)
  <2>1. i \in Nat \ {0}
    BY <1>9
  <2>2. Tabled(T, v, P, C) /\ p \in Parts(T) /\ at(i) \in C /\ Claims(T, p, at(i))
    BY <1>5, <1>13, <2>1
  <2>3. Pair(at(i), ValueOf(P, at(i))) \in PartPairs(T[p], p, v[p])
        \/ (ValueOf(P, at(i)) = "" /\ \A pr \in P : pr.key # at(i))
    BY ONLY <2>2, ClaimedColumn, Zenon
  <2> QED
    BY <1>12, <1>13, <2>3
<1>14. (\A k : ValueOf(P, k) \in STRING) /\ \A k : k \notin C => ValueOf(P, k) = ""
  <2>1. Tabled(T, v, P, C) /\ p \in Parts(T)
    OBVIOUS
  <2>2. ASSUME NEW k PROVE ValueOf(P, k) \in STRING
    BY ONLY <2>1, NoColumn, Zenon
  <2>3. ASSUME NEW k, k \notin C PROVE ValueOf(P, k) = ""
    BY ONLY <2>1, <2>3, NoColumn, Zenon
  <2> QED
    BY <2>2, <2>3
<1> HIDE DEF V
<1>15. DOMAIN x = 1..N /\ \A i \in 1..N : x[i] = ValueOf(P, at(i))
  OBVIOUS
<1>16. x \in Seq(STRING) /\ Len(x) = N /\ x # <<>>
  <2>1. x \in [1..N -> STRING]
    BY <1>14
  <2> HIDE DEF x
  <2> QED
    BY <1>9, <2>1
<1> HIDE DEF x
<1>17. PartPairs(T[p], p, x) = {Pair(at(i), x[i]) : i \in 1..N}
  BY <1>15 DEF PartPairs
<1>18. ASSUME NEW pr \in mine PROVE \E i \in 1..N : pr = Pair(at(i), x[i])
  <2>1. PICK c \in C : pr = Pair(c, ValueOf(P, c))
    BY DEF InRow
  <2>2. Claims(T, p, c)
    BY <2>1 DEF Pair
  <2>3. PICK i \in 1..N : c = at(i)
    BY <1>11, <2>2
  <2> QED
    BY <1>15, <2>1, <2>3
<1>19. ASSUME NEW i \in 1..N, at(i) \in C PROVE Pair(at(i), x[i]) \in mine
  <2>1. Pair(at(i), x[i]) \in InRow(P, C)
    BY <1>15, <1>19 DEF InRow
  <2>2. Pair(at(i), x[i]).key = at(i) /\ i \in Nat \ {0}
    BY <1>9 DEF Pair
  <2> QED
    BY <1>5, <2>1, <2>2
<1> HIDE DEF mine
<1>20. ASSUME NEW i \in 1..Len(x) PROVE i - 1 \in Indices
  <2>1. N - 1 \in Nat /\ i - 1 \in 0..(N - 1)
    BY <1>9, <1>16
  <2> QED
    BY <1>10, <2>1, TypesAssumption
<1>27. IsRead(T[p], p, mine, x)
  <2>1. \A pr \in mine : \E i \in 1..Len(x) : pr = Pair(Append(p, i - 1), x[i])
    BY <1>16, <1>18
  <2>2. Pair(Append(p, Len(x) - 1), x[Len(x)]) \in mine
    BY <1>9, <1>10, <1>16, <1>19
  <2>3. ASSUME NEW i \in 1..Len(x)
        PROVE  Pair(Append(p, i - 1), x[i]) \in mine \/ x[i] = Empty(T[p])
    BY <1>14, <1>15, <1>16, <1>19 DEF Empty
  <2> QED
    BY <1>16, <1>20, <2>1, <2>2, <2>3 DEF IsRead, Parses
<1>21. mine \subseteq PartPairs(T[p], p, x)
  BY <1>17, <1>18
<1>22. V \subseteq PartPairs(T[p], p, x)
  <2> SUFFICES ASSUME NEW i \in 1..L PROVE Pair(at(i), v[p][i]) \in PartPairs(T[p], p, x)
    BY <1>3
  <2>1. i \in 1..N
    BY <1>2, <1>9
  <2> QED
    BY <1>7, <1>15, <1>17, <2>1
<1>23. ASSUME NEW pr \in PartPairs(T[p], p, x) PROVE pr.val = ValueOf(P, pr.key)
  <2>1. PICK i \in 1..N : pr = Pair(at(i), x[i])
    BY <1>17
  <2> QED
    BY <1>15, <2>1 DEF Pair
<1>24. /\ \A i \in DOMAIN v[p] : i \in DOMAIN x /\ x[i] = v[p][i]
       /\ \A i \in DOMAIN x \ DOMAIN v[p] : x[i] = ""
  <2>1. \A i \in 1..L : i \in 1..N /\ x[i] = v[p][i]
    BY <1>2, <1>7, <1>9, <1>15
  <2>2. \A i \in 1..N : i \notin 1..L => x[i] = ""
    BY <1>13, <1>14, <1>15
  <2> QED
    BY <1>2, <1>15, <2>1, <2>2
<1>25. ASSUME C = {pr.key : pr \in P} PROVE x = v[p]
  <2>1. N \in 1..N
    BY <1>9
  <2>2. \E pr \in P : pr.key = at(N)
    BY <1>10, <1>25
  <2>3. N \in 1..L
    BY <1>10, <1>13, <2>1, <2>2
  <2>4. N = L
    BY <1>2, <1>9, <2>3
  <2> QED
    BY <1>2, <1>16, <1>24, <2>4, SeqEqual DEF L
<1>26. IsFilled(T, v, P, C, p, x)
  BY <1>16, <1>20, <1>21, <1>22, <1>23, <1>24, <1>25, <1>27 DEF IsFilled, mine, V
<1> QED
  BY <1>26

-----------------------------------------------------------------------------
(* What an event reads as from a row: itself, filled up.                   *)
Filled(T, v, P, C) == [p \in Parts(T) |-> CHOOSE x : IsFilled(T, v, P, C, p, x)]

LEMMA FilledIs ==
  ASSUME NEW T, NEW v, NEW P, NEW C, Tabled(T, v, P, C), NEW p \in Parts(T)
  PROVE  IsFilled(T, v, P, C, p, Filled(T, v, P, C)[p])
<1>2. \E x : IsFilled(T, v, P, C, p, x)
  <2>1. CASE T[p] \notin {"list", "map"}
    BY <2>1, FilledSame
  <2>2. CASE T[p] = "list"
    BY <2>2, FilledList
  <2>3. CASE T[p] = "map"
    BY <2>3, FilledMap
  <2> QED
    BY <2>1, <2>2, <2>3
<1>3. Filled(T, v, P, C)[p] = CHOOSE x : IsFilled(T, v, P, C, p, x)
  BY DEF Filled
<1>4. IsFilled(T, v, P, C, p, CHOOSE x : IsFilled(T, v, P, C, p, x))
  BY <1>2, Zenon
<1> QED
  BY <1>3, <1>4, Zenon

LEMMA FilledValue ==
  ASSUME NEW T, NEW v, NEW P, NEW C, Tabled(T, v, P, C), LeavesTrace(T, v)
  PROVE  /\ IsValue(T, Filled(T, v, P, C)) /\ LeavesTrace(T, Filled(T, v, P, C))
         /\ \A p \in Parts(T) : Padded(T, v, Filled(T, v, P, C), p)
         /\ C = {pr.key : pr \in P} => Filled(T, v, P, C) = v
<1> DEFINE w == Filled(T, v, P, C)
<1>1. IsType(T) /\ IsValue(T, v)
  BY DEF Tabled
<1>2. \A p \in Parts(T) : IsFilled(T, v, P, C, p, w[p])
  BY FilledIs
<1>3. w = [p \in Parts(T) |-> w[p]]
  BY DEF Filled
<1> HIDE DEF w
<1>4. ASSUME NEW p \in Parts(T)
      PROVE  CASE T[p] \in LeafKinds -> w[p] \in Texts(T[p])
               [] T[p] \in ListKinds -> /\ w[p] \in Seq(Texts(T[p]))
                                        /\ \A i \in DOMAIN w[p] : i - 1 \in Indices
               [] T[p] \in MapKinds  -> /\ IsFiniteSet(DOMAIN w[p]) /\ DOMAIN w[p] \subseteq Key \ {<<>>}
                                        /\ w[p] \in [DOMAIN w[p] -> Texts(T[p])]
  <2>1. T[p] \in LeafKinds \cup ListKinds \cup MapKinds
    BY <1>1 DEF IsType, Parts, Kinds
  <2>2. CASE T[p] \notin {"list", "map"}
    <3>1. w[p] = v[p]
      BY <1>2, <2>2 DEF IsFilled
    <3> QED
      BY <1>1, <2>1, <3>1 DEF IsValue
  <2>3. CASE T[p] = "list"
    <3>1. w[p] \in Seq(STRING) /\ \A i \in 1..Len(w[p]) : i - 1 \in Indices
      BY <1>2, <2>3 DEF IsFilled
    <3>2. DOMAIN w[p] = 1..Len(w[p])
      BY <3>1, LenProperties
    <3> QED
      BY <2>3, <3>1, <3>2 DEF Texts
  <2>4. CASE T[p] = "map"
    <3>1. /\ IsFiniteSet(DOMAIN w[p]) /\ DOMAIN w[p] \subseteq Key \ {<<>>}
          /\ w[p] \in [DOMAIN w[p] -> STRING]
      BY <1>2, <2>4 DEF IsFilled
    <3> QED
      BY <2>4, <3>1 DEF Texts
  <2> QED
    BY <2>2, <2>3, <2>4
<1>5. IsValue(T, w)
  BY <1>3, <1>4 DEF IsValue
<1>6. ASSUME NEW p \in DOMAIN T, T[p] \in ListKinds PROVE w[p] # <<>>
  BY <1>2, <1>6 DEF IsFilled, Parts, LeavesTrace
<1>7. ASSUME NEW p \in DOMAIN T, T[p] = "struct", p # <<>>
      PROVE  \E pr \in Flatten(T, w) : Within(pr.key, p)
  <2>1. PICK pr \in Flatten(T, v) : Within(pr.key, p)
    BY <1>7 DEF LeavesTrace
  <2>2. PICK q \in Parts(T) : pr \in PartPairs(T[q], q, v[q])
    BY <1>1, FlattenedIs
  <2>3. PartPairs(T[q], q, v[q]) \subseteq PartPairs(T[q], q, w[q])
    BY <1>2 DEF IsFilled
  <2>4. PartPairs(T[q], q, w[q]) \subseteq Flatten(T, w)
    BY <1>1, <1>5, FlattenedIs
  <2> QED
    BY <2>1, <2>2, <2>3, <2>4
<1>8. LeavesTrace(T, w)
  BY <1>6, <1>7 DEF LeavesTrace
<1>9. \A p \in Parts(T) : Padded(T, v, w, p)
  BY <1>2 DEF Padded, IsFilled
<1>10. ASSUME C = {pr.key : pr \in P} PROVE w = v
  <2>1. \A p \in Parts(T) : w[p] = v[p]
    BY <1>2, <1>10 DEF IsFilled
  <2>2. v = [p \in Parts(T) |-> v[p]]
    BY <1>1 DEF IsValue
  <2> QED
    BY <1>3, <2>1, <2>2
<1> QED
  BY <1>5, <1>8, <1>9, <1>10 DEF w

LEMMA InRowIs ==
  ASSUME NEW P \in SUBSET KV, \A a, b \in P : a.key = b.key => a = b,
         NEW C \in SUBSET Key, IsFiniteSet(C)
  PROVE  /\ InRow(P, C) \in SUBSET KV /\ IsFiniteSet(InRow(P, C))
         /\ \A a, b \in InRow(P, C) : a.key = b.key => a = b
         /\ \A k : (\E pr \in InRow(P, C) : pr.key = k) <=> k \in C
<1> DEFINE b == [k \in C |-> Pair(k, ValueOf(P, k))]
<1>1. InRow(P, C) = {b[k] : k \in C}
  BY DEF InRow
<1>2. IsFiniteSet({b[k] : k \in C})
  <2> HIDE DEF b
  <2> QED
    BY ImageFinite
<1>3. ASSUME NEW k \in C PROVE b[k] \in KV /\ b[k].key = k
  <2>1. ValueOf(P, k) \in STRING
    BY ValueIs
  <2> QED
    BY <2>1 DEF KV, Pair
<1> HIDE DEF b
<1> QED
  BY <1>1, <1>2, <1>3

LEMMA RowEncodes ==
  ASSUME NEW T, NEW v, NEW P, NEW C, Tabled(T, v, P, C), LeavesTrace(T, v),
         NEW R \in SUBSET InRow(P, C),
         \A pr \in InRow(P, C), p \in Parts(T) : Claims(T, p, pr.key) => pr \in R
  PROVE  Encodes(T, Sorted(R), Filled(T, v, P, C))
<1> DEFINE w == Filled(T, v, P, C)
<1>1. IsType(T) /\ IsValue(T, v)
  BY DEF Tabled
<1>2. /\ InRow(P, C) \in SUBSET KV /\ IsFiniteSet(InRow(P, C))
      /\ \A a, b \in InRow(P, C) : a.key = b.key => a = b
      /\ \A k \in C : \E pr \in InRow(P, C) : pr.key = k
  BY InRowIs DEF Tabled
<1>3. R \in SUBSET KV /\ IsFiniteSet(R) /\ \A a, b \in R : a.key = b.key => a = b
  BY <1>2, FS_Subset
<1>4. w = [p \in Parts(T) |-> w[p]]
  BY DEF Filled
<1> HIDE DEF w
<1>5. ASSUME NEW p \in Parts(T)
      PROVE  IsRead(T[p], p, {pr \in R : Claims(T, p, pr.key)}, w[p])
  <2>1. IsRead(T[p], p, {pr \in InRow(P, C) : Claims(T, p, pr.key)}, w[p])
    BY FilledIs DEF IsFilled, w
  <2>2. {pr \in R : Claims(T, p, pr.key)} = {pr \in InRow(P, C) : Claims(T, p, pr.key)}
    OBVIOUS
  <2> QED
    BY <2>1, <2>2, Zenon
<1>6. ASSUME NEW p \in DOMAIN T, T[p] = "struct", p # <<>>
      PROVE  \E pr \in R, q \in Parts(T) : Within(pr.key, p) /\ Claims(T, q, pr.key)
  <2>1. PICK pr \in Flatten(T, v) : Within(pr.key, p)
    BY <1>6 DEF LeavesTrace
  <2>2. PICK q \in Parts(T) : pr \in PartPairs(T[q], q, v[q])
    BY <1>1, FlattenedIs
  <2>3. pr \in P /\ pr.key \in C /\ ValueOf(P, pr.key) = pr.val /\ Claims(T, q, pr.key)
    BY <2>2, ColumnIs
  <2>4. PICK r \in InRow(P, C) : r.key = pr.key
    BY <1>2, <2>3
  <2>5. r \in R
    BY <2>3, <2>4
  <2> QED
    BY <2>1, <2>3, <2>4, <2>5
<1>7. Encodes(T, Sorted(R), w)
  BY <1>1, <1>3, <1>4, <1>5, <1>6, EncodesSorted
<1> QED
  BY <1>7 DEF w

-----------------------------------------------------------------------------
(* The events of a span in a table of spans.                               *)
FieldsOf(s, extra)      == StringMap(Written(s, extra))
ColumnsOf(spans, extra) == Columns({Point(Written(t, extra)) : t \in spans})

(* Spans and other annotations as they are read.                           *)
AreInputs(spans, extra) ==
    /\ IsFiniteSet(spans) /\ \A t \in spans : IsSpan(t)
    /\ extra \in Seq(KV) /\ \A i \in DOMAIN extra : ~IsSchema(extra[i].key)

LEMMA FieldsAre ==
  ASSUME NEW spans, NEW extra, AreInputs(spans, extra), NEW s \in spans
  PROVE  /\ FieldsOf(s, extra) \in SUBSET KV /\ IsFiniteSet(FieldsOf(s, extra))
         /\ \A a, b \in FieldsOf(s, extra) : a.key = b.key => a = b
         /\ \A a \in Range(Written(s, extra)) : \E b \in FieldsOf(s, extra) : b.key = a.key
<1>1. IsSpan(s) /\ extra \in Seq(KV) /\ \A i \in DOMAIN extra : ~IsSchema(extra[i].key)
  BY DEF AreInputs
<1>2. Written(s, extra) \in Seq(KV)
  BY <1>1, WrittenIs
<1> QED
  BY <1>2, StringMapIs DEF FieldsOf

LEMMA ColumnsAre ==
  ASSUME NEW spans, NEW extra, AreInputs(spans, extra)
  PROVE  /\ ColumnsOf(spans, extra) \in SUBSET Key /\ IsFiniteSet(ColumnsOf(spans, extra))
         /\ \A k : k \in ColumnsOf(spans, extra) <=>
                \E t \in spans : \E pr \in FieldsOf(t, extra) : pr.key = k
<1> DEFINE C == ColumnsOf(spans, extra)
           keys == [t \in spans |-> {pr.key : pr \in FieldsOf(t, extra)}]
<1>1. \A k : k \in C <=> \E t \in spans : k \in keys[t]
  <2>1. C = UNION {{pr.key : pr \in pt.fields} : pt \in {Point(Written(t, extra)) : t \in spans}}
    BY DEF ColumnsOf, Columns
  <2>2. \A t \in spans : Point(Written(t, extra)).fields = FieldsOf(t, extra)
    BY DEF Point, FieldsOf
  <2>3. ASSUME NEW k \in C PROVE \E t \in spans : k \in keys[t]
    <3>1. PICK pt \in {Point(Written(t, extra)) : t \in spans} : k \in {pr.key : pr \in pt.fields}
      BY <2>1
    <3>2. PICK t \in spans : pt = Point(Written(t, extra))
      BY <3>1
    <3> QED
      BY <2>2, <3>1, <3>2
  <2>4. ASSUME NEW t \in spans, NEW k \in keys[t] PROVE k \in C
    <3>1. k \in {pr.key : pr \in Point(Written(t, extra)).fields}
      BY <2>2
    <3> QED
      BY <2>1, <3>1
  <2> QED
    BY <2>3, <2>4
<1>2. ASSUME NEW t \in spans PROVE keys[t] \in SUBSET Key /\ IsFiniteSet(keys[t])
  <2> DEFINE P == FieldsOf(t, extra)
             b == [pr \in P |-> pr.key]
  <2>3. P \in SUBSET KV /\ IsFiniteSet(P)
    BY FieldsAre
  <2>4. keys[t] = {b[pr] : pr \in P}
    OBVIOUS
  <2>5. \A pr \in P : b[pr] \in Key
    BY <2>3 DEF KV
  <2> HIDE DEF b, keys, P
  <2>6. IsFiniteSet({b[pr] : pr \in P})
    BY <2>3, ImageFinite
  <2> QED
    BY <2>4, <2>5, <2>6
<1>3. C \in SUBSET Key
  BY <1>1, <1>2
<1>4. IsFiniteSet(C)
  <2>1. IsFiniteSet(spans)
    BY DEF AreInputs
  <2> HIDE DEF keys, C
  <2>2. IsFiniteSet({keys[t] : t \in spans})
    BY <2>1, ImageFinite
  <2>3. IsFiniteSet(UNION {keys[t] : t \in spans})
    BY <1>2, <2>2, FS_UNION
  <2>4. C = UNION {keys[t] : t \in spans}
    BY <1>1
  <2> QED
    BY <2>3, <2>4
<1>5. \A k : k \in C <=> \E t \in spans : \E pr \in FieldsOf(t, extra) : pr.key = k
  BY <1>1
<1> QED
  BY <1>3, <1>4, <1>5 DEF C

(* The spans that RowsReadBack is about.                                   *)
KeepsRow(s, spans, extra) ==
    ReadableRow(s, spans, extra) /\ \A i \in DOMAIN s : NullAmongNumbers(s[i], spans) = {}

LEMMA SpanTabled ==
  ASSUME NEW spans, NEW extra, AreInputs(spans, extra), NEW s \in spans,
         KeepsRow(s, spans, extra), NEW i \in 1..Len(s)
  PROVE  /\ Tabled(TypeOf[s[i].schema], s[i].val, FieldsOf(s, extra), ColumnsOf(spans, extra))
         /\ LeavesTrace(TypeOf[s[i].schema], s[i].val)
<1> DEFINE T == TypeOf[s[i].schema]
           v == s[i].val
           P == FieldsOf(s, extra)
           C == ColumnsOf(spans, extra)
<1>1. /\ IsSpan(s) /\ extra \in Seq(KV) /\ (\A j \in DOMAIN extra : ~IsSchema(extra[j].key))
      /\ Readable(s, extra)
  BY DEF AreInputs, KeepsRow, ReadableRow
<1>2. IsEvent(s[i]) /\ IsType(T) /\ IsValue(T, v) /\ DOMAIN s = 1..Len(s)
  <2>1. IsEvent(s[i]) /\ DOMAIN s = 1..Len(s)
    BY <1>1 DEF IsSpan
  <2> QED
    BY <2>1, TypesAssumption DEF IsEvent
<1>3. LeavesTrace(T, v) /\ OwnClaims(s, extra, i)
  BY <1>1, ReadableOwns
<1>4. /\ P \in SUBSET KV /\ IsFiniteSet(P) /\ \A a, b \in P : a.key = b.key => a = b
      /\ \A p \in Parts(T), pr \in P : Claims(T, p, pr.key) => pr \in PartPairs(T[p], p, v[p])
      /\ \A p \in Parts(T) : PartPairs(T[p], p, v[p]) \subseteq P
  BY <1>1, <1>3, WrittenPairs DEF FieldsOf
<1>5. C \in SUBSET Key /\ IsFiniteSet(C) /\ \A pr \in P : pr.key \in C
  BY ColumnsAre
<1>6. ASSUME NEW p \in Parts(T), NEW k \in C, Claims(T, p, k)
      PROVE  \E t \in spans : \E j \in DOMAIN t : k \in Keys(t[j])
  <2>1. PICK t \in spans : \E pr \in FieldsOf(t, extra) : pr.key = k
    BY ColumnsAre
  <2>2. PICK pr \in FieldsOf(t, extra) : pr.key = k
    BY <2>1
  <2>3. IsSpan(t)
    BY DEF AreInputs
  <2>4. /\ Written(t, extra) \in Seq(KV)
        /\ \A q : q \in Range(Written(t, extra)) <=>
                \/ q \in Range(extra)
                \/ \E j \in 1..Len(t) :
                        q \in Flatten(TypeOf[t[j].schema], t[j].val) \cup {HeadPair(t[j])}
    BY <1>1, <2>3, WrittenIs
  <2>5. pr \in Range(Written(t, extra))
    BY <2>2, <2>4, StringMapIs DEF FieldsOf
  <2>6. Claims(T, p, k) /\ k \in Key
    BY <1>5, <1>6
  <2>7. pr \notin Range(extra)
    <3> SUFFICES ASSUME pr \in Range(extra) PROVE FALSE
      OBVIOUS
    <3>1. Range(extra) = ToSet(extra)
      BY DEF Range, ToSet
    <3>2. k \in {q.key : q \in ToSet(extra)}
      BY <2>2, <3>1
    <3>3. ~Claims(T, p, k)
      BY <1>1, <1>2, <3>2 DEF Readable
    <3> QED
      BY <2>6, <3>3
  <2>8. PICK j \in 1..Len(t) : pr \in Flatten(TypeOf[t[j].schema], t[j].val) \cup {HeadPair(t[j])}
    BY <2>4, <2>5, <2>7
  <2>9. IsEvent(t[j]) /\ DOMAIN t = 1..Len(t)
    BY <2>3 DEF IsSpan
  <2>10. pr # HeadPair(t[j])
    BY <1>2, <2>2, <2>6, <2>9, HeadPairNotClaimed, SchemaPair
  <2>11. k \in Keys(t[j])
    BY <2>2, <2>8, <2>10 DEF Keys
  <2> QED
    BY <2>9, <2>11
<1>7. \A p \in Parts(T) : T[p] \in ListKinds => v[p] # <<>>
  BY <1>3 DEF LeavesTrace, Parts
<1>9. ASSUME NEW p \in Parts(T), T[p] \in ListKinds, NEW k \in C, AtOrWithin(k, p)
      PROVE  IsElement(k, p)
  <2>1. Claims(T, p, k)
    BY <1>9 DEF Claims
  <2>2. PICK t \in spans : \E j \in DOMAIN t : k \in Keys(t[j])
    BY <1>6, <2>1
  <2> QED
    BY <1>2, <1>9, <2>2 DEF KeepsRow, ReadableRow
<1>10. ASSUME NEW p \in Parts(T), T[p] \in {"numbers", "numberMap"}, NEW k \in C, Within(k, p)
       PROVE  \E pr \in P : pr.key = k
  <2>1. Claims(T, p, k)
    BY <1>10 DEF Claims, Within
  <2>2. PICK t \in spans : \E j \in DOMAIN t : k \in Keys(t[j])
    BY <1>6, <2>1
  <2>3. k \in Keys(s[i])
    <3>1. p \notin NullAmongNumbers(s[i], spans)
      BY <1>2 DEF KeepsRow
    <3> QED
      BY <1>10, <2>2, <3>1 DEF NullAmongNumbers
  <2>4. PICK pr \in Flatten(T, v) : pr.key = k
    BY <2>3 DEF Keys
  <2>5. PICK q \in Parts(T) : pr \in PartPairs(T[q], q, v[q])
    BY <1>2, FlattenedIs
  <2> QED
    BY <1>4, <2>4, <2>5
<1> HIDE DEF P, C
<1>8. Tabled(T, v, P, C)
  BY <1>2, <1>4, <1>5, <1>7, <1>9, <1>10 DEF Tabled
<1> QED
  BY <1>3, <1>8 DEF P, C

-----------------------------------------------------------------------------
(* Only keeps nothing twice that is not in the sequence twice.             *)
LEMMA OnlyOnce ==
  ASSUME NEW X, NEW s \in Seq(X), NEW K, \A i, j \in 1..Len(s) : s[i] = s[j] => i = j
  PROVE  LET o == Only(s, K) IN \A i, j \in 1..Len(o) : o[i] = o[j] => i = j
<1> DEFINE n == Len(s)
<1>1. n \in Nat /\ \A i \in 1..n : s[i] \in X
  BY ElementOfSeq
<1>2. PICK fl \in [0..n -> Seq(X)] : IsKept(fl, s, K) /\ Only(s, K) = fl[n]
  BY KeptIs
<1> DEFINE Is(k) == /\ \A j \in 1..Len(fl[k]) : \E i \in 1..k : fl[k][j] = s[i]
                    /\ \A i, j \in 1..Len(fl[k]) : fl[k][i] = fl[k][j] => i = j
           T == {k \in 0..n : Is(k)}
<1>3. 0 \in T
  <2>1. Len(fl[0]) = 0
    BY <1>2 DEF IsKept
  <2>2. Is(0)
    BY <2>1
  <2> HIDE DEF Is
  <2> QED
    BY <1>1, <2>2
<1>4. ASSUME NEW k \in 1..n, k - 1 \in T PROVE k \in T
  <2> DEFINE a == fl[k - 1]
             b == fl[k]
  <2>1. a \in Seq(X) /\ s[k] \in X /\ b = IF s[k] \in K THEN Append(a, s[k]) ELSE a
    <3>1. k - 1 \in 0..n /\ k \in 0..n /\ k \in 1..Len(s)
      BY <1>1
    <3>2. b = IF s[k] \in K THEN Append(a, s[k]) ELSE a
      BY <1>2, <3>1 DEF IsKept
    <3>3. a \in Seq(X)
      BY <3>1
    <3> QED
      BY <1>1, <3>2, <3>3
  <2>2. /\ \A j \in 1..Len(a) : \E i \in 1..(k - 1) : a[j] = s[i]
        /\ \A i, j \in 1..Len(a) : a[i] = a[j] => i = j
    BY <1>4
  <2>3. \A j \in 1..Len(a) : a[j] # s[k]
    <3> SUFFICES ASSUME NEW j \in 1..Len(a), a[j] = s[k] PROVE FALSE
      OBVIOUS
    <3>1. PICK i \in 1..(k - 1) : a[j] = s[i]
      BY <2>2
    <3>2. i \in 1..n /\ i # k
      BY <1>1
    <3> QED
      BY <3>1, <3>2
  <2> HIDE DEF a, b
  <2>4. /\ \A j \in 1..Len(b) : \E i \in 1..k : b[j] = s[i]
        /\ \A i, j \in 1..Len(b) : b[i] = b[j] => i = j
    <3>1. CASE s[k] \notin K
      BY <2>1, <2>2, <3>1
    <3>2. CASE s[k] \in K
      <4>1. /\ b = Append(a, s[k]) /\ Len(a) \in Nat /\ Len(b) = Len(a) + 1
            /\ b[Len(a) + 1] = s[k] /\ \A j \in 1..Len(a) : b[j] = a[j]
        BY <2>1, <3>2, AppendProperties, LenProperties
      <4>2. \A j \in 1..Len(b) : j \in 1..Len(a) \/ j = Len(a) + 1
        BY <4>1
      <4>3. ASSUME NEW j \in 1..Len(b) PROVE \E i \in 1..k : b[j] = s[i]
        <5>1. CASE j \in 1..Len(a)
          BY <2>2, <4>1, <5>1
        <5>2. CASE j = Len(a) + 1
          BY <4>1, <5>2
        <5> QED
          BY <4>2, <5>1, <5>2
      <4>4. ASSUME NEW i \in 1..Len(b), NEW j \in 1..Len(b), b[i] = b[j] PROVE i = j
        BY <2>2, <2>3, <4>1, <4>2, <4>4
      <4> QED
        BY <4>3, <4>4
    <3> QED
      BY <3>1, <3>2
  <2>5. Is(k)
    BY <2>4 DEF b
  <2> HIDE DEF Is
  <2> QED
    BY <1>1, <2>5
<1> HIDE DEF T
<1>5. \A k \in 0..n : k \in T
  BY <1>1, <1>3, <1>4, NumbersUpTo
<1>6. n \in T
  BY <1>1, <1>5
<1> QED
  BY <1>2, <1>6 DEF T

(* What spansFromRow keeps of the row of a span: one schema annotation for *)
(* each of its events, and everything that is no schema annotation.        *)
Kept(s, spans, extra) ==
    filterSchemas(RowAnnotations(Point(Written(s, extra)), {Point(Written(t, extra)) : t \in spans}),
                  Point(Written(s, extra)).schemas)

SchemasIn(s) == {s[i].schema : i \in 1..Len(s)}

(* A is kept of a row of the pairs I, with the columns C.                  *)
IsKeptRow(s, C, I, A) ==
    /\ I \in SUBSET KV /\ (\A a, b \in I : a.key = b.key => a = b)
    /\ \A k : (\E pr \in I : pr.key = k) <=> k \in C
    /\ A \in Seq(KV) /\ \A i, j \in 1..Len(A) : A[i] = A[j] => i = j
    /\ Range(A) = {pr \in I : IsSchema(pr.key) => pr.key[1] \in SchemasIn(s)}

LEMMA KeptAre ==
  ASSUME NEW spans, NEW extra, AreInputs(spans, extra), NEW s \in spans
  PROVE  IsKeptRow(s, ColumnsOf(spans, extra), InRow(FieldsOf(s, extra), ColumnsOf(spans, extra)),
                   Kept(s, spans, extra))
<1> DEFINE I == InRow(FieldsOf(s, extra), ColumnsOf(spans, extra))
           pt == Point(Written(s, extra))
           points == {Point(Written(t, extra)) : t \in spans}
           r == Sorted(I)
           K == {a \in ToSet(r) : IsSchema(a.key) => a.key[1] \in SchemasIn(s)}
<1>1. RowAnnotations(pt, points) = r
  <2>1. pt.fields = FieldsOf(s, extra) /\ Columns(points) = ColumnsOf(spans, extra)
    BY DEF Point, FieldsOf, ColumnsOf
  <2>2. RowAnnotations(pt, points) = Sorted(InRow(pt.fields, Columns(points)))
    BY DEF RowAnnotations, InRow, ValueOf
  <2> QED
    BY <2>1, <2>2
<1>2. pt.schemas = SchemasIn(s)
  <2>1. IsSpan(s) /\ extra \in Seq(KV) /\ \A i \in DOMAIN extra : ~IsSchema(extra[i].key)
    BY DEF AreInputs
  <2>2. SchemasOf(Written(s, extra)) = [i \in 1..Len(s) |-> s[i].schema]
    BY <2>1, WrittenIs
  <2>3. pt.schemas = ToSet(SchemasOf(Written(s, extra)))
    BY DEF Point, SchemasField
  <2> HIDE DEF pt
  <2> QED
    BY <2>2, <2>3 DEF ToSet, SchemasIn
<1>3. /\ I \in SUBSET KV /\ IsFiniteSet(I) /\ \A a, b \in I : a.key = b.key => a = b
      /\ \A k : (\E pr \in I : pr.key = k) <=> k \in ColumnsOf(spans, extra)
  <2>1. FieldsOf(s, extra) \in SUBSET KV /\ \A a, b \in FieldsOf(s, extra) : a.key = b.key => a = b
    BY FieldsAre
  <2>2. ColumnsOf(spans, extra) \in SUBSET Key /\ IsFiniteSet(ColumnsOf(spans, extra))
    BY ColumnsAre
  <2> QED
    BY <2>1, <2>2, InRowIs
<1> HIDE DEF I
<1>4. InKeyOrder(r) /\ ToSet(r) = I
  BY <1>3, SortedIs
<1> HIDE DEF r
<1>5. r \in Seq(KV) /\ \A i, j \in 1..Len(r) : r[i] = r[j] => i = j
  <2>1. \A i, j \in 1..Len(r) : r[i].key = r[j].key => i = j
    BY <1>4, InKeyOrderIs
  <2> QED
    BY <1>4, <2>1 DEF InKeyOrder
<1>6. Kept(s, spans, extra) = Only(r, K)
  <2>1. Kept(s, spans, extra) = filterSchemas(RowAnnotations(pt, points), pt.schemas)
    BY DEF Kept
  <2>2. Kept(s, spans, extra) = filterSchemas(r, SchemasIn(s))
    BY <1>1, <1>2, <2>1, Zenon
  <2> QED
    BY <2>2, Zenon DEF filterSchemas
<1>7. Only(r, K) \in Seq(KV) /\ Range(Only(r, K)) = Range(r) \cap K
  <2> HIDE DEF K
  <2> QED
    BY <1>5, OnlyIs
<1>8. \A i, j \in 1..Len(Only(r, K)) : Only(r, K)[i] = Only(r, K)[j] => i = j
  <2> HIDE DEF K
  <2> QED
    BY <1>5, OnlyOnce
<1>9. Range(r) \cap K = {pr \in I : IsSchema(pr.key) => pr.key[1] \in SchemasIn(s)}
  <2>1. Range(r) = ToSet(r)
    BY DEF Range, ToSet
  <2> QED
    BY <1>4, <2>1
<1>10. Range(Only(r, K)) = {pr \in I : IsSchema(pr.key) => pr.key[1] \in SchemasIn(s)}
  BY <1>7, <1>9
<1> HIDE DEF K
<1>11. IsKeptRow(s, ColumnsOf(spans, extra), I, Only(r, K))
  BY <1>3, <1>7, <1>8, <1>10, Zenon DEF IsKeptRow
<1> QED
  BY <1>6, <1>11, Zenon DEF I

(* The schemas sc are those of the events, each once.                      *)
ListsSchemas(s, sc) ==
    /\ sc = [j \in 1..Len(s) |-> sc[j]]
    /\ \A j \in 1..Len(s) : \E i \in 1..Len(s) : sc[j] = s[i].schema
    /\ \A i \in 1..Len(s) : \E j \in 1..Len(s) : sc[j] = s[i].schema
    /\ \A i, j \in 1..Len(s) : sc[i] = sc[j] => i = j

LEMMA KeptSchemas ==
  ASSUME NEW spans, NEW extra, AreInputs(spans, extra), NEW s \in spans,
         \A i, j \in 1..Len(s) : s[i].schema = s[j].schema => i = j
  PROVE  ListsSchemas(s, SchemasOf(Kept(s, spans, extra)))
<1> DEFINE A == Kept(s, spans, extra)
           I == InRow(FieldsOf(s, extra), ColumnsOf(spans, extra))
           K == {a \in ToSet(A) : IsSchema(a.key)}
           found == Only(A, K)
           m == Len(found)
           n == Len(s)
           sc == [j \in DOMAIN found |-> found[j].key[1]]
<1>1. /\ I \in SUBSET KV /\ (\A a, b \in I : a.key = b.key => a = b)
      /\ \A k : (\E pr \in I : pr.key = k) <=> k \in ColumnsOf(spans, extra)
      /\ A \in Seq(KV) /\ \A i, j \in 1..Len(A) : A[i] = A[j] => i = j
      /\ Range(A) = {pr \in I : IsSchema(pr.key) => pr.key[1] \in SchemasIn(s)}
  <2>1. IsKeptRow(s, ColumnsOf(spans, extra), I, A)
    BY KeptAre
  <2> QED
    BY <2>1, Zenon DEF IsKeptRow
<1>2. SchemasOf(A) = sc
  BY DEF SchemasOf
<1> HIDE DEF A, I
<1>3. Range(A) = ToSet(A)
  BY DEF Range, ToSet
<1>4. /\ found \in Seq(KV) /\ Range(found) = Range(A) \cap K
      /\ \A i, j \in 1..m : found[i] = found[j] => i = j
  <2> HIDE DEF K
  <2>1. found \in Seq(KV) /\ Range(found) = Range(A) \cap K
    BY <1>1, OnlyIs
  <2>2. \A i, j \in 1..m : found[i] = found[j] => i = j
    BY <1>1, OnlyOnce
  <2> QED
    BY <2>1, <2>2
<1>5. \A pr : pr \in Range(found) <=>
                pr \in I /\ IsSchema(pr.key) /\ pr.key[1] \in SchemasIn(s)
  BY <1>1, <1>3, <1>4
<1> HIDE DEF found, K
<1>6. m \in Nat /\ DOMAIN found = 1..m /\ \A j \in 1..m : found[j] \in KV
  BY <1>4, LenProperties, ElementOfSeq
<1> HIDE DEF m
<1>7. sc = [j \in 1..m |-> sc[j]] /\ \A j \in 1..m : sc[j] = found[j].key[1]
  BY <1>6
<1> HIDE DEF sc
<1>8. ASSUME NEW j \in 1..m
      PROVE  found[j] \in I /\ IsSchema(found[j].key) /\ sc[j] \in SchemasIn(s)
  BY <1>5, <1>6, <1>7 DEF Range
<1>9. ASSUME NEW i \in 1..m, NEW j \in 1..m, sc[i] = sc[j] PROVE i = j
  <2>1. /\ found[i].key \in Key /\ Len(found[i].key) = 1 /\ found[i].key[1] = sc[i]
        /\ found[j].key \in Key /\ Len(found[j].key) = 1 /\ found[j].key[1] = sc[j]
    BY <1>6, <1>7, <1>8 DEF IsSchema, KV
  <2>2. \A l \in 1..1 : found[i].key[l] = found[j].key[l]
    BY <1>9, <2>1
  <2>3. found[i].key = found[j].key
    BY <2>1, <2>2, SeqEqual DEF Key
  <2>4. found[i] = found[j]
    BY <1>1, <1>8, <2>3
  <2> QED
    BY <1>4, <2>4 DEF m
<1>10. IsSpan(s) /\ extra \in Seq(KV) /\ (\A i \in DOMAIN extra : ~IsSchema(extra[i].key)) /\ n \in Nat
  BY DEF AreInputs, IsSpan
<1>11. ASSUME NEW i \in 1..n PROVE \E j \in 1..m : sc[j] = s[i].schema
  <2> DEFINE h == HeadPair(s[i])
  <2>1. h \in KV /\ IsSchema(h.key) /\ h.key[1] = s[i].schema
    BY <1>10, SchemaPair DEF IsSpan
  <2>2. h \in Range(Written(s, extra))
    BY <1>10, WrittenIs
  <2> HIDE DEF h
  <2>3. PICK b \in FieldsOf(s, extra) : b.key = h.key
    BY <2>2, FieldsAre
  <2>4. h.key \in ColumnsOf(spans, extra)
    BY <2>3, ColumnsAre
  <2>5. PICK q \in I : q.key = h.key
    BY <1>1, <2>4
  <2>6. q \in Range(found)
    BY <1>5, <2>1, <2>5 DEF SchemasIn
  <2>7. PICK j \in 1..m : q = found[j]
    BY <1>6, <2>6 DEF Range
  <2> QED
    BY <1>7, <2>1, <2>5, <2>7
<1>12. \A j \in 1..m : \E i \in 1..n : sc[j] = s[i].schema
  BY <1>8 DEF SchemasIn
<1>13. m = n
  <2> DEFINE S == SchemasIn(s)
             f == [i \in 1..n |-> s[i].schema]
  <2>1. f \in Bijection(1..n, S)
    BY DEF Bijection, Injection, Surjection, IsInjective, SchemasIn
  <2>2. sc \in Bijection(1..m, S)
    <3>1. sc \in [1..m -> S]
      BY <1>7, <1>8
    <3>2. \A x \in S : \E j \in 1..m : sc[j] = x
      BY <1>11 DEF SchemasIn
    <3> QED
      BY <1>9, <3>1, <3>2 DEF Bijection, Injection, Surjection, IsInjective
  <2> HIDE DEF S, f
  <2>3. Cardinality(S) = n
    BY <1>10, <2>1, FS_CountingElements DEF ExistsBijection
  <2>4. Cardinality(S) = m
    BY <1>6, <2>2, FS_CountingElements DEF ExistsBijection
  <2> QED
    BY <2>3, <2>4
<1>14. ListsSchemas(s, sc)
  BY <1>7, <1>9, <1>11, <1>12, <1>13 DEF ListsSchemas
<1> QED
  BY <1>2, <1>14, Zenon DEF A

-----------------------------------------------------------------------------
(* What the row of a span decodes to: its events, filled up, in some order. *)
FilledEvent(e, P, C) == Event(e.schema, Filled(TypeOf[e.schema], e.val, P, C))

ReadOnce(s, spans, extra) == UnmarshalEvents(Kept(s, spans, extra))

(* u are the events of s, filled up, each once.                            *)
AreFilled(s, P, C, u) ==
    /\ u = [j \in 1..Len(s) |-> u[j]]
    /\ \A j \in 1..Len(s) : \E i \in 1..Len(s) : u[j] = FilledEvent(s[i], P, C)
    /\ \A i \in 1..Len(s) : \E j \in 1..Len(s) : u[j] = FilledEvent(s[i], P, C)
    /\ \A i, j \in 1..Len(s) : u[i].schema = u[j].schema => i = j

LEMMA ReadOnceIs ==
  ASSUME NEW spans, NEW extra, AreInputs(spans, extra), NEW s \in spans,
         KeepsRow(s, spans, extra)
  PROVE  AreFilled(s, FieldsOf(s, extra), ColumnsOf(spans, extra), ReadOnce(s, spans, extra))
<1> DEFINE A == Kept(s, spans, extra)
           u == ReadOnce(s, spans, extra)
           P == FieldsOf(s, extra)
           C == ColumnsOf(spans, extra)
           I == InRow(P, C)
           n == Len(s)
           sc == SchemasOf(A)
           kv == Sorted(StringMap(A))
<1>1. /\ IsSpan(s) /\ DOMAIN s = 1..n
      /\ \A i, j \in 1..n : s[i].schema = s[j].schema => i = j
  <2>1. IsSpan(s) /\ DOMAIN s = 1..n
    BY DEF AreInputs, IsSpan
  <2> QED
    BY <2>1 DEF KeepsRow, ReadableRow
<1>2. /\ I \in SUBSET KV /\ (\A a, b \in I : a.key = b.key => a = b)
      /\ A \in Seq(KV)
      /\ Range(A) = {pr \in I : IsSchema(pr.key) => pr.key[1] \in SchemasIn(s)}
  <2>1. IsKeptRow(s, ColumnsOf(spans, extra), I, A)
    BY KeptAre
  <2> QED
    BY <2>1, Zenon DEF IsKeptRow
<1>3. /\ sc = [j \in 1..n |-> sc[j]]
      /\ \A j \in 1..n : \E i \in 1..n : sc[j] = s[i].schema
      /\ \A i \in 1..n : \E j \in 1..n : sc[j] = s[i].schema
      /\ \A i, j \in 1..n : sc[i] = sc[j] => i = j
  <2>1. \A i, j \in 1..Len(s) : s[i].schema = s[j].schema => i = j
    BY <1>1
  <2>2. ListsSchemas(s, SchemasOf(Kept(s, spans, extra)))
    BY <2>1, KeptSchemas
  <2> QED
    BY <2>2, Zenon DEF ListsSchemas
<1>4. u = [j \in DOMAIN sc |-> Event(sc[j], Unflatten(TypeOf[sc[j]], kv).val)]
  BY DEF UnmarshalEvents, ReadOnce
<1> HIDE DEF A, I
<1>5. StringMap(A) = Range(A)
  <2>1. /\ StringMap(A) \subseteq Range(A)
        /\ \A a \in Range(A) : \E b \in StringMap(A) : b.key = a.key
    BY <1>2, StringMapIs
  <2>2. ASSUME NEW a \in Range(A) PROVE a \in StringMap(A)
    <3>1. PICK b \in StringMap(A) : b.key = a.key
      BY <2>1
    <3>2. a \in I /\ b \in I
      BY <1>2, <2>1
    <3>3. a = b
      BY <1>2, <3>1, <3>2
    <3> QED
      BY <3>3
  <2> QED
    BY <2>1, <2>2
<1> HIDE DEF sc
<1>6. ASSUME NEW i \in 1..n
      PROVE  Unflatten(TypeOf[s[i].schema], kv).val = Filled(TypeOf[s[i].schema], s[i].val, P, C)
  <2> DEFINE T == TypeOf[s[i].schema]
             v == s[i].val
  <2>1. Tabled(T, v, P, C) /\ LeavesTrace(T, v)
    BY SpanTabled
  <2>2. IsType(T)
    BY <2>1 DEF Tabled
  <2>3. ASSUME NEW pr \in I, NEW p \in Parts(T), Claims(T, p, pr.key) PROVE pr \in Range(A)
    <3>1. pr.key \in Key
      BY <1>2 DEF KV
    <3>2. ~IsSchema(pr.key)
      BY <2>2, <2>3, <3>1, HeadPairNotClaimed
    <3> QED
      BY <1>2, <3>2
  <2>4. Range(A) \in SUBSET I
    BY <1>2
  <2>5. Encodes(T, Sorted(Range(A)), Filled(T, v, P, C))
    <3> HIDE DEF T, v, P, C
    <3> QED
      BY <2>1, <2>3, <2>4, RowEncodes DEF I
  <2>6. Encodes(T, kv, Filled(T, v, P, C))
    BY <1>5, <2>5, Zenon
  <2> QED
    BY <2>6, UnflattenIs
<1> HIDE DEF kv, u, P, C
<1>7. u = [j \in 1..n |-> u[j]] /\ \A j \in 1..n : u[j] = Event(sc[j], Unflatten(TypeOf[sc[j]], kv).val)
  BY <1>3, <1>4
<1>8. ASSUME NEW i \in 1..n, NEW j \in 1..n, sc[j] = s[i].schema
      PROVE  u[j] = FilledEvent(s[i], P, C)
  BY <1>6, <1>7, <1>8 DEF FilledEvent
<1>9. ASSUME NEW i \in 1..n, NEW j \in 1..n, u[i].schema = u[j].schema PROVE i = j
  BY <1>3, <1>7, <1>9 DEF Event
<1>10. /\ \A j \in 1..n : \E i \in 1..n : u[j] = FilledEvent(s[i], P, C)
       /\ \A i \in 1..n : \E j \in 1..n : u[j] = FilledEvent(s[i], P, C)
  BY <1>3, <1>8
<1>11. AreFilled(s, P, C, u)
  BY <1>7, <1>9, <1>10 DEF AreFilled
<1> QED
  BY <1>11, Zenon DEF u, P, C

-----------------------------------------------------------------------------
(* What an event was filled up with is not taken for another's: a key of a *)
(* filled up event that a part of an event claims is one of that part.     *)
KeysApart(s) ==
    \A i, j \in 1..Len(s) : i # j =>
        \A k \in Keys(s[j]), p \in Parts(TypeOf[s[i].schema]) : ~Claims(TypeOf[s[i].schema], p, k)

LEMMA ListHasKey ==
  ASSUME NEW e, IsEvent(e), LeavesTrace(TypeOf[e.schema], e.val),
         NEW q \in Parts(TypeOf[e.schema]), TypeOf[e.schema][q] \in ListKinds
  PROVE  Append(q, 0) \in Keys(e) /\ AtOrWithin(Append(q, 0), q) /\ Append(q, 0) \in Key
<1> DEFINE T == TypeOf[e.schema]
           v == e.val
<1>1. IsType(T) /\ IsValue(T, v)
  BY TypesAssumption DEF IsEvent
<1>2. v[q] \in Seq(STRING) /\ v[q] # <<>>
  BY <1>1, ListValue DEF LeavesTrace, Parts
<1>3. 1 \in DOMAIN v[q]
  BY <1>2, EmptySeq, LenProperties
<1> DEFINE pr == Pair(Append(q, 1 - 1), v[q][1])
<1>4. pr \in PartPairs(T[q], q, v[q])
  BY <1>3 DEF PartPairs
<1>5. pr.key = Append(q, 0)
  BY DEF Pair
<1> HIDE DEF pr, T, v
<1>6. pr \in Flatten(T, v)
  BY <1>1, <1>4, FlattenedIs DEF T
<1>7. pr.key \in Keys(e)
  BY <1>6 DEF Keys, T, v
<1>8. q \in Key
  BY <1>1 DEF IsType, Parts, T
<1>9. Len(Append(q, 0)) = Len(q) + 1 /\ Append(q, 0) \in Key /\ \A l \in 1..Len(q) : Append(q, 0)[l] = q[l]
  BY <1>8, AppendProperties DEF Key
<1>10. AtOrWithin(Append(q, 0), q)
  BY <1>8, <1>9, KeysAre DEF AtOrWithin
<1> QED
  BY <1>5, <1>7, <1>9, <1>10

LEMMA FilledOwn ==
  ASSUME NEW s, IsSpan(s), KeysApart(s), NEW P, NEW C,
         NEW i \in 1..Len(s), NEW j \in 1..Len(s),
         Tabled(TypeOf[s[i].schema], s[i].val, P, C), LeavesTrace(TypeOf[s[i].schema], s[i].val),
         Tabled(TypeOf[s[j].schema], s[j].val, P, C), LeavesTrace(TypeOf[s[j].schema], s[j].val),
         NEW p \in Parts(TypeOf[s[i].schema]),
         NEW pr \in Flatten(TypeOf[s[j].schema], Filled(TypeOf[s[j].schema], s[j].val, P, C)),
         Claims(TypeOf[s[i].schema], p, pr.key)
  PROVE  pr \in PartPairs(TypeOf[s[i].schema][p], p,
                          Filled(TypeOf[s[i].schema], s[i].val, P, C)[p])
<1> DEFINE T == TypeOf[s[i].schema]
           v == s[i].val
           w == Filled(T, v, P, C)
           U == TypeOf[s[j].schema]
           x == s[j].val
           y == Filled(U, x, P, C)
           k == pr.key
<1>1. /\ IsEvent(s[i]) /\ IsType(T) /\ IsValue(T, v) /\ IsValue(T, w)
      /\ IsEvent(s[j]) /\ IsType(U) /\ IsValue(U, x) /\ IsValue(U, y)
  <2>1. IsEvent(s[i]) /\ IsEvent(s[j])
    BY DEF IsSpan
  <2>2. IsType(T) /\ IsValue(T, v) /\ IsType(U) /\ IsValue(U, x)
    BY DEF Tabled
  <2>3. IsValue(T, w) /\ IsValue(U, y)
    BY FilledValue
  <2> QED
    BY <2>1, <2>2, <2>3
<1>2. CASE i = j
  <2>1. pr \in Flatten(T, w) /\ Claims(T, p, pr.key)
    BY <1>2
  <2> HIDE DEF T, w
  <2> QED
    BY <1>1, <2>1, FlattenedIs DEF T, w
<1>3. CASE i # j
  <2>1. PICK q \in Parts(U) : pr \in PartPairs(U[q], q, y[q])
    <3> HIDE DEF y, U
    <3> QED
      BY <1>1, FlattenedIs DEF y, U
  <2>2. pr \in KV /\ Claims(U, q, k) /\ k \in Key /\ p \in Key /\ q \in Key
    <3>1. pr \in KV /\ Claims(U, q, k)
      <4> HIDE DEF y, U
      <4> QED
        BY <1>1, <2>1, PartPairsAre
    <3> QED
      BY <1>1, <3>1 DEF KV, IsType, Parts
  <2>3. pr.val = ValueOf(P, k) /\ (k \in C \/ U[q] = "list")
    <3>1. IsFilled(U, x, P, C, q, y[q])
      BY FilledIs
    <3> HIDE DEF y, U, x
    <3> QED
      BY <2>1, <3>1 DEF IsFilled
  <2>4. CASE k \in C
    <3>1. pr \in InRow(P, C)
      <4>1. pr = Pair(k, ValueOf(P, k))
        BY <2>2, <2>3 DEF KV, Pair
      <4> HIDE DEF k
      <4> QED
        BY <2>4, <4>1 DEF InRow
    <3>2. IsFilled(T, v, P, C, p, w[p])
      BY FilledIs
    <3>3. Claims(T, p, pr.key)
      OBVIOUS
    <3> HIDE DEF w, T, v
    <3>4. pr \in PartPairs(T[p], p, w[p])
      BY <3>1, <3>2, <3>3 DEF IsFilled
    <3> QED
      BY <3>4 DEF w, T, v
  <2>5. CASE k \notin C
    <3>1. U[q] = "list"
      BY <2>3, <2>5
    <3>2. Append(q, 0) \in Keys(s[j]) /\ AtOrWithin(Append(q, 0), q) /\ Append(q, 0) \in Key
      BY <1>1, <3>1, ListHasKey
    <3>3. ~Claims(T, p, Append(q, 0))
      BY <1>3, <3>2 DEF KeysApart
    <3>4. AtOrWithin(k, q) /\ AtOrWithin(k, p)
      BY <1>1, <2>2, ClaimsWithin
    <3>5. Len(p) \in Nat /\ Len(q) \in Nat /\ Len(k) = Len(q) + 1
      <4>1. PICK n \in DOMAIN y[q] : pr = Pair(Append(q, n - 1), y[q][n])
        <5>1. PartPairs("list", q, y[q]) = {Pair(Append(q, n - 1), y[q][n]) : n \in DOMAIN y[q]}
          BY DEF PartPairs
        <5> HIDE DEF y, U
        <5> QED
          BY <2>1, <3>1, <5>1
      <4>2. k = Append(q, n - 1)
        BY <4>1 DEF Pair
      <4>3. y[q] \in Seq(STRING)
        <5> HIDE DEF y, U
        <5> QED
          BY <1>1, <3>1, ListValue
      <4> HIDE DEF y, k
      <4>4. n - 1 \in Nat
        BY <4>3, ListKey
      <4>5. Len(Append(q, n - 1)) = Len(q) + 1
        BY <2>2, <4>4, AppendProperties DEF Key
      <4> QED
        BY <2>2, <4>2, <4>5, KeysAre
    <3>6. T[p] \in LeafKinds \cup ListKinds \cup MapKinds
      BY <1>1 DEF IsType, Parts, Kinds
    <3>7. CASE T[p] \in LeafKinds
      <4>1. k = p
        BY <3>7 DEF Claims
      <4>2. Pair(p, v[p]) \in PartPairs(T[p], p, v[p])
        BY <3>7 DEF PartPairs
      <4>3. Pair(p, v[p]).key \in C
        <5> HIDE DEF T, v
        <5> QED
          BY <4>2, ColumnIs DEF T, v
      <4> QED
        BY <2>5, <4>1, <4>3 DEF Pair
    <3>8. CASE T[p] \in ListKinds \cup MapKinds /\ AtOrWithin(q, p)
      <4>1. Within(Append(q, 0), p)
        <5>1. /\ Append(q, 0) \in Key /\ Len(Append(q, 0)) = Len(q) + 1
              /\ \A l \in 1..Len(q) : Append(q, 0)[l] = q[l]
          BY <2>2, AppendProperties DEF Key
        <5> QED
          BY <3>5, <3>8, <5>1 DEF Within, AtOrWithin
      <4>2. Claims(T, p, Append(q, 0))
        BY <3>8, <4>1 DEF Claims, Within
      <4> QED
        BY <3>3, <4>2
    <3>9. CASE T[p] \in ListKinds \cup MapKinds /\ ~AtOrWithin(q, p)
      <4>1. AtOrWithin(p, q)
        BY <2>2, <3>4, <3>9, WithinComparable
      <4>2. Len(p) = Len(k)
        <5>1. Len(p) # Len(q)
          <6> SUFFICES ASSUME Len(p) = Len(q) PROVE FALSE
            OBVIOUS
          <6> QED
            BY <3>5, <3>9, <4>1 DEF AtOrWithin
        <5>2. Len(q) <= Len(p) /\ Len(p) <= Len(k)
          BY <3>4, <4>1 DEF AtOrWithin
        <5> QED
          BY <3>5, <5>1, <5>2
      <4>3. T[p] \in ListKinds
        BY <3>9, <4>2, <3>5 DEF Claims, Within
      <4>4. Append(p, 0) \in Keys(s[i]) /\ AtOrWithin(Append(p, 0), p) /\ Append(p, 0) \in Key
        BY <1>1, <4>3, ListHasKey
      <4>5. AtOrWithin(Append(p, 0), q)
        BY <2>2, <4>1, <4>4, WithinTransitive
      <4>6. Claims(U, q, Append(p, 0))
        BY <3>1, <4>5 DEF Claims
      <4>7. ~Claims(U, q, Append(p, 0))
        BY <1>3, <4>4 DEF KeysApart
      <4> QED
        BY <4>6, <4>7
    <3> QED
      BY <3>6, <3>7, <3>8, <3>9
  <2> QED
    BY <2>4, <2>5
<1> QED
  BY <1>2, <1>3

(* The events that the row of a span reads as decode to themselves.        *)
LEMMA ReadOnceOwns ==
  ASSUME NEW spans, NEW extra, AreInputs(spans, extra), NEW s \in spans,
         KeepsRow(s, spans, extra)
  PROVE  LET u == ReadOnce(s, spans, extra)
         IN  /\ IsSpan(u) /\ Len(u) = Len(s)
             /\ \A i \in 1..Len(u) : LeavesTrace(TypeOf[u[i].schema], u[i].val) /\ OwnClaims(u, <<>>, i)
<1> DEFINE u == ReadOnce(s, spans, extra)
           P == FieldsOf(s, extra)
           C == ColumnsOf(spans, extra)
           n == Len(s)
<1>1. IsSpan(s) /\ n \in Nat /\ DOMAIN s = 1..n
  BY DEF AreInputs, IsSpan
<1>2. /\ u = [j \in 1..n |-> u[j]]
      /\ \A j \in 1..n : \E i \in 1..n : u[j] = FilledEvent(s[i], P, C)
      /\ \A i \in 1..n : \E j \in 1..n : u[j] = FilledEvent(s[i], P, C)
      /\ \A i, j \in 1..n : u[i].schema = u[j].schema => i = j
  <2>1. AreFilled(s, P, C, u)
    BY ReadOnceIs
  <2> QED
    BY <2>1, Zenon DEF AreFilled
<1>3. ASSUME NEW i \in 1..n
      PROVE  /\ Tabled(TypeOf[s[i].schema], s[i].val, P, C)
             /\ LeavesTrace(TypeOf[s[i].schema], s[i].val)
  BY SpanTabled
<1>4. KeysApart(s)
  BY <1>1 DEF KeysApart, KeepsRow, ReadableRow, Readable
<1> HIDE DEF u, P, C
<1>5. Len(u) = n /\ DOMAIN u = 1..n
  BY <1>1, <1>2
<1>6. ASSUME NEW i \in 1..n
      PROVE  LET e == FilledEvent(s[i], P, C)
             IN  IsEvent(e) /\ LeavesTrace(TypeOf[e.schema], e.val)
  <2> DEFINE T == TypeOf[s[i].schema]
             w == Filled(T, s[i].val, P, C)
  <2>1. IsValue(T, w) /\ LeavesTrace(T, w)
    BY <1>3, FilledValue
  <2>2. s[i].schema \in Schemas
    BY <1>1 DEF IsSpan, IsEvent
  <2>3. FilledEvent(s[i], P, C) = Event(s[i].schema, w)
    BY DEF FilledEvent
  <2> HIDE DEF w
  <2> QED
    BY <2>1, <2>2, <2>3 DEF IsEvent, Event
<1>7. \A j \in 1..n : IsEvent(u[j]) /\ LeavesTrace(TypeOf[u[j].schema], u[j].val)
  <2> SUFFICES ASSUME NEW j \in 1..n
               PROVE  IsEvent(u[j]) /\ LeavesTrace(TypeOf[u[j].schema], u[j].val)
    OBVIOUS
  <2>1. PICK i \in 1..n : u[j] = FilledEvent(s[i], P, C)
    BY <1>2
  <2>2. IsEvent(u[j]) /\ LeavesTrace(TypeOf[u[j].schema], u[j].val)
    BY <1>6, <2>1, Zenon
  <2> QED
    BY <2>2
<1>8. IsSpan(u)
  BY <1>1, <1>2, <1>5, <1>7 DEF IsSpan
<1>9. ASSUME NEW j \in 1..n, NEW p \in Parts(TypeOf[u[j].schema]), NEW pr \in KV,
             Claims(TypeOf[u[j].schema], p, pr.key),
             NEW l \in 1..n, pr \in Flatten(TypeOf[u[l].schema], u[l].val)
      PROVE  pr \in PartPairs(TypeOf[u[j].schema][p], p, u[j].val[p])
  <2>1. PICK i \in 1..n : u[j] = FilledEvent(s[i], P, C)
    BY <1>2
  <2>2. PICK m \in 1..n : u[l] = FilledEvent(s[m], P, C)
    BY <1>2
  <2>3. /\ u[j].schema = s[i].schema /\ u[j].val = Filled(TypeOf[s[i].schema], s[i].val, P, C)
        /\ u[l].schema = s[m].schema /\ u[l].val = Filled(TypeOf[s[m].schema], s[m].val, P, C)
    BY <2>1, <2>2 DEF FilledEvent, Event
  <2>4. /\ p \in Parts(TypeOf[s[i].schema]) /\ Claims(TypeOf[s[i].schema], p, pr.key)
        /\ pr \in Flatten(TypeOf[s[m].schema], Filled(TypeOf[s[m].schema], s[m].val, P, C))
    BY <1>9, <2>3
  <2>5. pr \in PartPairs(TypeOf[s[i].schema][p], p, Filled(TypeOf[s[i].schema], s[i].val, P, C)[p])
    BY <1>1, <1>3, <1>4, <2>4, FilledOwn
  <2> QED
    BY <2>3, <2>5
<1>10. ASSUME NEW j \in 1..n PROVE OwnClaims(u, <<>>, j)
  <2>1. Range(<<>>) = {}
    BY DEF Range
  <2> QED
    BY <1>5, <1>9, <2>1 DEF OwnClaims
<1> QED
  BY <1>5, <1>7, <1>8, <1>10 DEF u

(* What InfluxDBStore answers for a span.                                  *)
ReadTwice(s, spans, extra) ==
    UnmarshalEvents(spansFromRow(Point(Written(s, extra)), {Point(Written(t, extra)) : t \in spans}))

LEMMA ReadTwiceIs ==
  ASSUME NEW spans, NEW extra, AreInputs(spans, extra), NEW s \in spans,
         KeepsRow(s, spans, extra)
  PROVE  ReadTwice(s, spans, extra) = ReadOnce(s, spans, extra)
<1> DEFINE u == ReadOnce(s, spans, extra)
           ms == [i \in DOMAIN u |-> MarshalEvent(u[i])]
<1>1. /\ IsSpan(u)
      /\ \A i \in 1..Len(u) : LeavesTrace(TypeOf[u[i].schema], u[i].val) /\ OwnClaims(u, <<>>, i)
  BY ReadOnceOwns
<1>2. ReadTwice(s, spans, extra) = UnmarshalEvents(FlattenSeq(ms))
  <2>1. ReadTwice(s, spans, extra) = UnmarshalEvents(annotationsFromEvents(Kept(s, spans, extra)))
    BY DEF ReadTwice, spansFromRow, Kept
  <2>2. annotationsFromEvents(Kept(s, spans, extra)) = FlattenSeq(ms)
    BY DEF annotationsFromEvents, ReadOnce
  <2> QED
    BY <2>1, <2>2
<1> HIDE DEF u
<1>3. UnmarshalEvents(Written(u, <<>>)) = u
  <2>1. <<>> \in Seq(KV) /\ \A i \in DOMAIN <<>> : ~IsSchema(<<>>[i].key)
    OBVIOUS
  <2> DEFINE none == <<>>
  <2>2. none \in Seq(KV) /\ (\A i \in DOMAIN none : ~IsSchema(none[i].key))
        /\ \A i \in 1..Len(u) : LeavesTrace(TypeOf[u[i].schema], u[i].val) /\ OwnClaims(u, none, i)
    BY <1>1, <2>1
  <2> HIDE DEF none
  <2>3. UnmarshalEvents(Written(u, none)) = u
    BY <1>1, <2>2, DecodeIs
  <2> QED
    BY <2>3 DEF none
<1>4. Written(u, <<>>) = FlattenSeq(ms)
  <2>1. Written(u, <<>>) = <<>> \o FlattenSeq(ms)
    BY DEF Written
  <2>2. FlattenSeq(ms) \in Seq(KV)
    <3>1. Len(u) \in Nat /\ DOMAIN u = 1..Len(u) /\ \A i \in 1..Len(u) : IsEvent(u[i])
      BY <1>1 DEF IsSpan
    <3>2. ms \in [1..Len(u) -> Seq(KV)]
      BY <3>1, MarshalIs
    <3> HIDE DEF ms
    <3> QED
      BY <3>1, <3>2, FlattenRange
  <2> HIDE DEF ms
  <2> QED
    BY <2>1, <2>2, ConcatSimplifications
<1> QED
  BY <1>2, <1>3, <1>4 DEF u

(* What ReadRows answers is as RowsReadBack wants it.                      *)
RowKept(s, of, extra, got) ==
    KeepsRow(s, of, extra) =>
        /\ Len(got) = Len(s)
        /\ \A i \in DOMAIN s : \E j \in DOMAIN s :
                /\ got[j].schema = s[i].schema
                /\ \A p \in Parts(TypeOf[s[i].schema]) :
                        Padded(TypeOf[s[i].schema], s[i].val, got[j].val, p)
        /\ of = {s} => ToSet(got) = ToSet(s)

RowsFor(of, extra, out) ==
    out # <<>> /\ out[1] = "rows" => \A s \in of : RowKept(s, of, extra, out[2][s])

LEMMA RowIsKept ==
  ASSUME NEW of, NEW extra, AreInputs(of, extra), NEW s \in of
  PROVE  RowKept(s, of, extra, ReadTwice(s, of, extra))
<1> SUFFICES ASSUME KeepsRow(s, of, extra) PROVE RowKept(s, of, extra, ReadOnce(s, of, extra))
  <2>1. CASE KeepsRow(s, of, extra)
    BY <2>1, ReadTwiceIs, Zenon
  <2>2. CASE ~KeepsRow(s, of, extra)
    BY <2>2 DEF RowKept
  <2> QED
    BY <2>1, <2>2
<1> SUFFICES LET got == ReadOnce(s, of, extra)
             IN  /\ Len(got) = Len(s)
                 /\ \A i \in DOMAIN s : \E j \in DOMAIN s :
                        /\ got[j].schema = s[i].schema
                        /\ \A p \in Parts(TypeOf[s[i].schema]) :
                                Padded(TypeOf[s[i].schema], s[i].val, got[j].val, p)
                 /\ of = {s} => ToSet(got) = ToSet(s)
  BY Zenon DEF RowKept
<1> DEFINE u == ReadOnce(s, of, extra)
           P == FieldsOf(s, extra)
           C == ColumnsOf(of, extra)
           n == Len(s)
<1>1. n \in Nat /\ DOMAIN s = 1..n /\ \A i \in 1..n : IsEvent(s[i])
  BY DEF AreInputs, IsSpan
<1>2. Len(u) = n
  BY ReadOnceOwns
<1>3. /\ u = [j \in 1..n |-> u[j]]
      /\ \A j \in 1..n : \E i \in 1..n : u[j] = FilledEvent(s[i], P, C)
      /\ \A i \in 1..n : \E j \in 1..n : u[j] = FilledEvent(s[i], P, C)
  <2>1. AreFilled(s, P, C, u)
    BY ReadOnceIs
  <2> QED
    BY <2>1, Zenon DEF AreFilled
<1>4. ASSUME NEW i \in 1..n
      PROVE  /\ Tabled(TypeOf[s[i].schema], s[i].val, P, C)
             /\ LeavesTrace(TypeOf[s[i].schema], s[i].val)
  BY SpanTabled
<1>5. of = {s} => C = {pr.key : pr \in P}
  BY ColumnsAre
<1> HIDE DEF u, P, C
<1>6. ASSUME NEW i \in 1..n
      PROVE  /\ FilledEvent(s[i], P, C).schema = s[i].schema
             /\ \A p \in Parts(TypeOf[s[i].schema]) :
                    Padded(TypeOf[s[i].schema], s[i].val, FilledEvent(s[i], P, C).val, p)
             /\ of = {s} => FilledEvent(s[i], P, C) = s[i]
  <2> DEFINE T == TypeOf[s[i].schema]
             w == Filled(T, s[i].val, P, C)
  <2>1. (\A p \in Parts(T) : Padded(T, s[i].val, w, p)) /\ (C = {pr.key : pr \in P} => w = s[i].val)
    BY <1>4, FilledValue
  <2>2. FilledEvent(s[i], P, C) = Event(s[i].schema, w)
    BY DEF FilledEvent
  <2>3. s[i] = Event(s[i].schema, s[i].val)
    BY <1>1 DEF IsEvent
  <2> HIDE DEF w
  <2> QED
    BY <1>5, <2>1, <2>2, <2>3 DEF Event
<1>7. ASSUME NEW i \in DOMAIN s
      PROVE  \E j \in DOMAIN s : /\ u[j].schema = s[i].schema
                                 /\ \A p \in Parts(TypeOf[s[i].schema]) :
                                        Padded(TypeOf[s[i].schema], s[i].val, u[j].val, p)
  <2>1. i \in 1..n
    BY <1>1
  <2>2. PICK j \in 1..n : u[j] = FilledEvent(s[i], P, C)
    BY <1>3, <2>1
  <2> QED
    BY <1>1, <1>6, <2>1, <2>2
<1>8. ASSUME of = {s} PROVE ToSet(u) = ToSet(s)
  <2>1. /\ \A j \in 1..n : \E i \in 1..n : u[j] = s[i]
        /\ \A i \in 1..n : \E j \in 1..n : u[j] = s[i]
    <3>1. \A i \in 1..n : FilledEvent(s[i], P, C) = s[i]
      BY <1>6, <1>8
    <3> HIDE DEF n
    <3>2. ASSUME NEW j \in 1..n PROVE \E i \in 1..n : u[j] = s[i]
      BY <1>3, <3>1
    <3>3. ASSUME NEW i \in 1..n PROVE \E j \in 1..n : u[j] = s[i]
      <4>1. PICK j \in 1..n : u[j] = FilledEvent(s[i], P, C)
        BY <1>3
      <4>2. u[j] = s[i]
        BY <3>1, <4>1
      <4> QED
        BY <4>2
    <3> QED
      BY <3>2, <3>3
  <2>2. DOMAIN u = 1..n
    BY <1>3
  <2>3. ToSet(u) = {u[j] : j \in 1..n} /\ ToSet(s) = {s[i] : i \in 1..n}
    BY <1>1, <2>2 DEF ToSet
  <2> QED
    BY <2>1, <2>3, ZenonT(30)
<1> QED
  BY <1>2, <1>7, <1>8 DEF u

LEMMA RowInput ==
  ASSUME InputOK, input.kind = "spans"
  PROVE  AreInputs(input.of, input.extra)
<1>1. input.of \in SpanInputs /\ input.extra \in Extras
  BY DEF InputOK
<1> QED
  BY <1>1, SpansAssumption DEF KV, AreInputs

(* The events of a span survive the table that InfluxDB keeps them in,     *)
(* whatever the types, the other spans of the table and the other          *)
(* annotations, when the table has no null among the maps and lists of     *)
(* numbers of the span (such a null ends the decoding of the event): each  *)
(* event is read back, its maps and lists of strings filled up at most     *)
(* with empty ones, none of another span is, and a span alone in its table *)
(* is read back as it was (Collect, spansFromRow of InfluxDBStore).        *)
THEOREM RowsKeepEvents == Spec => []RowsReadBack
<1>1. Init => RowsReadBack
  BY DEF Init, RowsReadBack, Answered
<1>2. InputOK /\ RowsReadBack /\ [Next]_vars => RowsReadBack'
  <2> SUFFICES ASSUME InputOK, RowsReadBack, [Next]_vars PROVE RowsReadBack'
    OBVIOUS
  <2>1. CASE ReadRows
    <3>1. /\ input.kind = "spans" /\ input' = input
          /\ output' = <<"rows", [s \in input.of |-> ReadTwice(s, input.of, input.extra)]>>
      BY <2>1 DEF ReadRows, Request, ReadTwice
    <3>2. AreInputs(input.of, input.extra)
      BY <3>1, RowInput
    <3>3. ASSUME NEW s \in input.of PROVE RowKept(s, input.of, input.extra, output'[2][s])
      <4>1. RowKept(s, input.of, input.extra, ReadTwice(s, input.of, input.extra))
        BY <3>2, RowIsKept
      <4>2. output'[2][s] = ReadTwice(s, input.of, input.extra)
        BY <3>1
      <4> QED
        BY <4>1, <4>2, Zenon
    <3>4. RowsFor(input.of, input.extra, output')
      BY <3>3 DEF RowsFor
    <3>5. RowsFor(input'.of, input'.extra, output')
      BY <3>1, <3>4
    <3> QED
      BY <3>5, Zenon DEF RowsFor, RowKept, KeepsRow, RowsReadBack, Answered
  <2>2. CASE ReadSpans \/ serveTrace \/ serveAggregate \/ serveDashboardData
    <3>1. output' # <<>> /\ output'[1] # "rows"
      BY <2>2 DEF ReadSpans, serveTrace, serveAggregate, serveDashboardData
    <3> QED
      BY <3>1 DEF RowsReadBack, Answered
  <2>3. CASE UNCHANGED vars
    <3>1. input' = input /\ output' = output
      BY <2>3 DEF vars
    <3>2. RowsFor(input.of, input.extra, output)
      BY Zenon DEF RowsFor, RowKept, KeepsRow, RowsReadBack, Answered
    <3>3. RowsFor(input'.of, input'.extra, output')
      BY <3>1, <3>2
    <3> QED
      BY <3>3, Zenon DEF RowsFor, RowKept, KeepsRow, RowsReadBack, Answered
  <2> QED
    BY <2>1, <2>2, <2>3 DEF Next
<1> QED
  BY <1>1, <1>2, InputStays, PTL DEF Spec
=============================================================================
