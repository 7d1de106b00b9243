----------------------------- MODULE MCLimitStore -----------------------------
(* Model checking of LimitStore: a ring of three slots that wraps around,    *)
(* with failing evictions and deletions behind its back.                     *)
EXTENDS LimitStore

MCIDs == 1..5
=============================================================================
