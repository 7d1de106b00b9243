------------------------------ MODULE TraceStore ------------------------------
(***************************************************************************)
(* What a DeleteStore promises its callers (the interfaces Collector,      *)
(* Store and DeleteStore): a span exists from its first Collect until its  *)
(* trace is deleted, and holds the annotations of all its Collects in the  *)
(* order they were made.                                                   *)
(***************************************************************************)
EXTENDS Sequences

CONSTANTS Traces, Spans, Anns, Nil

VARIABLE store      \* [trace][span] -> annotations, Nil if there is none

Batches == {<<>>} \cup {<<a>> : a \in Anns}

Init == store = [t \in Traces |-> [s \in Spans |-> Nil]]

Collect(t, s, as) ==
    store' = [store EXCEPT ![t][s] = IF @ = Nil THEN as ELSE @ \o as]

Delete(ts) ==
    store' = [t \in Traces |-> IF t \in ts THEN [s \in Spans |-> Nil] ELSE store[t]]

Next ==
    \/ \E t \in Traces, s \in Spans, as \in Batches : Collect(t, s, as)
    \/ \E ts \in SUBSET Traces : Delete(ts)

Spec == Init /\ [][Next]_store
=============================================================================
