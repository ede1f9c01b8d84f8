------------------------- MODULE MCRefundScheduler -------------------------
(***************************************************************************)
(* TLC instances of RefundScheduler: three goroutines that use it, and      *)
(* two cycles at once at most.                                             *)
(***************************************************************************)
EXTENDS RefundScheduler

CONSTANTS c1, c2, c3, j1, j2

MCCallers == {c1, c2, c3}
MCJobs == {j1, j2}
=============================================================================
