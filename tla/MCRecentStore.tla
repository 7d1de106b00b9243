---------------------------- MODULE MCRecentStore ----------------------------
(* Model checking of RecentStore: collects, evictions and the passing of    *)
(* time in every order.                                                     *)
EXTENDS RecentStore
=============================================================================
