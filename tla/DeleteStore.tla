----------------------------- MODULE DeleteStore -----------------------------
(***************************************************************************)
(* The appdash.DeleteStore (store.go) that a RecentStore or a LimitStore   *)
(* embeds: the set of traces that it holds data of.  A Delete that is not  *)
(* a method of its own goes straight there.                                *)
(***************************************************************************)
EXTENDS Naturals, FiniteSets

CONSTANT IDs        \* the trace IDs that clients use

VARIABLE stored     \* the traces the underlying store holds data of

DeleteStored(t) == stored' = stored \ {t}
=============================================================================
