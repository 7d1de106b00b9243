------------------------------ MODULE TraceWindow ------------------------------
(***************************************************************************)
(* What a LimitStore promises its callers: it keeps the traces of a window *)
(* of at most Max traces, in the order they were first collected; a trace  *)
(* leaves the window only as its oldest member and only when the window is *)
(* full and a new trace wants in.                                          *)
(***************************************************************************)
EXTENDS Naturals, Sequences

CONSTANTS IDs, Max

VARIABLE window     \* the traces that are kept, oldest first

Init == window = <<>>

InWindow(t) == \E i \in 1..Len(window) : window[i] = t
Full        == Len(window) = Max

Admit(t) ==
    /\ ~InWindow(t)
    /\ window' = Append(IF Full THEN Tail(window) ELSE window, t)

(* The place was made but could not be taken: the Collect failed.          *)
MakeRoom ==
    /\ Full /\ window # <<>>
    /\ window' = Tail(window)

Next == MakeRoom \/ \E t \in IDs : Admit(t)

Spec == Init /\ [][Next]_window
=============================================================================
