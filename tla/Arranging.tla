------------------------------- MODULE Arranging -------------------------------
(***************************************************************************)
(* Sorting a set and filtering a sequence: SetToSortSeq and SelectSeq,     *)
(* with a set of pairs or of elements in the place of an operator, so that *)
(* the definitions can be reasoned about.                                  *)
(***************************************************************************)
EXTENDS Integers, FiniteSets, SequencesExt

(* The elements of S in the order R, a set of pairs.                       *)
Ranked(S, R) ==
    LET nth(i) == CHOOSE x \in S : Cardinality({y \in S : <<y, x>> \in R}) = i - 1
        first[n \in 0..Cardinality(S)] ==
            IF n = 0 THEN <<>> ELSE Append(first[n - 1], nth(n))
    IN  first[Cardinality(S)]

(* The elements of s that are in K, in the order of s.                     *)
Only(s, K) ==
    LET kept[i \in 0..Len(s)] ==
            IF i = 0 THEN <<>>
            ELSE IF s[i] \in K THEN Append(kept[i - 1], s[i])
            ELSE kept[i - 1]
    IN  kept[Len(s)]

Smallest(S) == CHOOSE n \in S : \A m \in S : n <= m
Greatest(S) == CHOOSE n \in S : \A m \in S : m <= n
=============================================================================
