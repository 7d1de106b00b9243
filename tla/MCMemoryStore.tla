---------------------------- MODULE MCMemoryStore ----------------------------
(* Model checking of MemoryStore: every tree over the span IDs, every order *)
(* of arrival, deletions in between.  Of the second trace one span at a     *)
(* time is enough to see whether traces disturb each other.                 *)
EXTENDS MemoryStore, TLC

CONSTANT Second     \* the second trace, kept small

SpanSymmetry == Permutations(Spans)

SecondIsSmall ==
    /\ \A t \in Traces : parent[Second] = parent[t]
    /\ Cardinality(Collected(Second)) <= 1
=============================================================================
