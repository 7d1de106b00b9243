------------------------------ MODULE LimitStore ------------------------------
(***************************************************************************)
(* appdash.LimitStore (store.go): a ring of the trace IDs in insertion     *)
(* order and a set to look them up, over a DeleteStore.  Collect holds     *)
(* ls.mu to its end, so it is one action, with one outcome per error of    *)
(* the underlying store.                                                   *)
(***************************************************************************)
EXTENDS DeleteStore, Sequences

CONSTANT Max    \* ls.Max

(* A trace ID is a uint64; ls.Max is an int, and 0 switches the store off. *)
ASSUME IDsAssumption == IDs \subseteq Nat
ASSUME MaxAssumption == Max \in Nat

VARIABLES
    ring,           \* ls.ring
    nextInsertIdx,  \* ls.nextInsertIdx
    traces          \* ls.traces

vars == <<ring, nextInsertIdx, traces, stored>>

Free  == 0              \* what a slot of the ring holds before it is used
Slots == 0..(Max - 1)
Oldest == ring[nextInsertIdx]

Init ==
    /\ ring = [i \in Slots |-> Free]
    /\ nextInsertIdx = 0
    /\ traces = {}
    /\ stored = {}

(* The underlying Collect, at the end of every path: it stores the span or *)
(* returns an error, which Collect returns.                                *)
Underlying(t, kept) == stored' \in {kept, kept \cup {t}}

(* More of a trace that is in the ring.                                    *)
CollectKnown(t) ==
    /\ Max # 0 /\ t \in traces
    /\ Underlying(t, stored)
    /\ UNCHANGED <<ring, nextInsertIdx, traces>>

TakeSlot(t) ==
    /\ ring' = [ring EXCEPT ![nextInsertIdx] = t]
    /\ nextInsertIdx' = (nextInsertIdx + 1) % Max

CollectIntoFreeSlot(t) ==
    /\ Max # 0 /\ t \notin traces /\ Oldest = Free
    /\ traces' = traces \cup {t}
    /\ TakeSlot(t)
    /\ Underlying(t, stored)

(* Slips: the oldest trace is not deleted; it stays in ls.traces; the      *)
(* index stays behind.                                                     *)
EvictsNothing(t) ==
    /\ Max # 0 /\ t \notin traces /\ Oldest # Free
    /\ traces' = (traces \ {Oldest}) \cup {t}
    /\ TakeSlot(t)
    /\ Underlying(t, stored)

EvictsFromStoreOnly(t) ==
    /\ Max # 0 /\ t \notin traces /\ Oldest # Free
    /\ traces' = traces \cup {t}
    /\ TakeSlot(t)
    /\ Underlying(t, stored \ {Oldest})

EvictsInPlace(t) ==
    /\ Max # 0 /\ t \notin traces /\ Oldest # Free
    /\ traces' = (traces \ {Oldest}) \cup {t}
    /\ ring' = [ring EXCEPT ![nextInsertIdx] = t]
    /\ Underlying(t, stored \ {Oldest})
    /\ UNCHANGED nextInsertIdx

(* At capacity: delete the oldest trace and take its slot.                 *)
CollectEvicting(t) ==
    /\ Max # 0 /\ t \notin traces /\ Oldest # Free
    /\ traces' = (traces \ {Oldest}) \cup {t}
    /\ TakeSlot(t)
    /\ Underlying(t, stored \ {Oldest})

(* Slip: the slot is cleared before the Delete.                            *)
EvictionFailsLate(t) ==
    /\ Max # 0 /\ t \notin traces /\ Oldest # Free
    /\ traces' = traces \ {Oldest}
    /\ ring' = [ring EXCEPT ![nextInsertIdx] = Free]
    /\ stored' \in {stored, stored \ {Oldest}}
    /\ UNCHANGED nextInsertIdx

(* The same when the underlying Delete fails, with or without effect:      *)
(* Collect returns its error after it took the trace out of ls.traces and  *)
(* before it changed the ring.                                             *)
EvictionFails(t) ==
    /\ Max # 0 /\ t \notin traces /\ Oldest # Free
    /\ traces' = traces \ {Oldest}
    /\ stored' \in {stored, stored \ {Oldest}}
    /\ UNCHANGED <<ring, nextInsertIdx>>

(* LimitStore has no Delete of its own either: the ring stays as it is.    *)
Delete(t) ==
    /\ DeleteStored(t)
    /\ UNCHANGED <<ring, nextInsertIdx, traces>>

Next == \E t \in IDs :
    \/ CollectKnown(t)
    \/ CollectIntoFreeSlot(t)
    \/ CollectEvicting(t)
    \/ EvictionFails(t)
    \/ Delete(t)

Spec == Init /\ [][Next]_vars

-----------------------------------------------------------------------------
InRing == {ring[i] : i \in Slots} \ {Free}

TypeOK ==
    /\ ring \in [Slots -> IDs \cup {Free}]
    /\ nextInsertIdx \in IF Max = 0 THEN {0} ELSE Slots
    /\ traces \subseteq IDs
    /\ stored \subseteq IDs

(* Max is the maximum number of traces that the store keeps (store.go:464) *)
(* whatever fails on the way.                                              *)
WithinCapacity == Cardinality(stored) <= Max

(* Every trace with data has a slot in the ring and will be evicted in     *)
(* turn: nothing leaks, even when an eviction fails halfway.               *)
NothingLeaks == stored \subseteq InRing

(* The set and the ring agree: no trace takes two slots, and the only one  *)
(* that can be in the ring and not in the set is the next to go, after its *)
(* eviction failed.                                                        *)
RingMatchesSet ==
    /\ \A i, j \in Slots : ring[i] = ring[j] /\ ring[i] # Free => i = j
    /\ traces \subseteq InRing
    /\ \A i \in Slots : ring[i] # Free /\ ring[i] \notin traces => i = nextInsertIdx

(* A trace is forgotten only when the ring is full of traces: no slot is   *)
(* skipped while there are free ones.                                      *)
ForgetsOnlyWhenFull ==
    [][\A t \in traces : t \notin traces' => Free \notin {ring[i] : i \in Slots}]_vars

(* The window of traces: those of ls.traces, as they come when the ring is *)
(* read from nextInsertIdx once around.                                    *)
Around == [k \in 1..Max |-> ring[(nextInsertIdx + k - 1) % Max]]
window ==
    LET kept[k \in 0..Max] ==
            IF k = 0 THEN <<>>
            ELSE IF Around[k] \in traces THEN Append(kept[k - 1], Around[k])
            ELSE kept[k - 1]
    IN  kept[Max]

Abstract == INSTANCE TraceWindow

(* LimitStore implements the window: first collected, first evicted.       *)
EvictsInOrder == Abstract!Spec
=============================================================================
