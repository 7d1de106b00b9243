-------------------------- MODULE MCPersistentStore --------------------------
(* Model checking of PersistentStore: collects, saves, crashes and starts in *)
(* every order.  One span, Marked, is given annotations.                     *)
EXTENDS PersistentStore, TLC

CONSTANT Marked

OtherSymmetry == Permutations(Spans \ {Marked})

OnlyMarkedAnnotated == \A a \in Addr : a.span # Marked => anns[a] = <<>>
=============================================================================
