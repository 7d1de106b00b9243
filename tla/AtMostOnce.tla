------------------------------ MODULE AtMostOnce ------------------------------
(***************************************************************************)
(* What a buffering Collector promises: what is handed to it waits in a    *)
(* buffer until it is passed on, or until it is dropped; nothing is passed *)
(* on twice, or after it was dropped, and nothing is passed on that was    *)
(* not handed over.                                                        *)
(***************************************************************************)
CONSTANT Items

VARIABLES
    buffered,   \* handed over and not yet decided
    passed,     \* passed on
    dropped     \* lost for good

Init == buffered = {} /\ passed = {} /\ dropped = {}

New == Items \ (buffered \cup passed \cup dropped)

Accept(i) ==
    /\ i \in New
    /\ buffered' = buffered \cup {i}
    /\ UNCHANGED <<passed, dropped>>

PassOn(S) ==
    /\ buffered' = buffered \ S
    /\ passed' = passed \cup S
    /\ UNCHANGED dropped

Drop(S) ==
    /\ buffered' = buffered \ S
    /\ dropped' = dropped \cup S
    /\ UNCHANGED passed

(* A new item that does not fit takes what is buffered down with it.       *)
Reject(i, S) ==
    /\ i \in New
    /\ buffered' = buffered \ S
    /\ dropped' = dropped \cup S \cup {i}
    /\ UNCHANGED passed

(* A batch that runs out of time is passed on in part.                     *)
PassOnAndDrop(S, T) ==
    /\ S \cap T = {}
    /\ buffered' = buffered \ (S \cup T)
    /\ passed' = passed \cup S
    /\ dropped' = dropped \cup T

Next ==
    \/ \E i \in Items : Accept(i)
    \/ \E S \in SUBSET buffered : PassOn(S) \/ Drop(S)
    \/ \E i \in Items, S \in SUBSET buffered : Reject(i, S)
    \/ \E S, T \in SUBSET buffered : PassOnAndDrop(S, T)

Spec == Init /\ [][Next]_<<buffered, passed, dropped>>
=============================================================================
