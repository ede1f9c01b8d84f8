------------------------- MODULE MCSchedulerManager -------------------------
(***************************************************************************)
(* TLC instances of SchedulerManager: two goroutines and up to four nodes. *)
(***************************************************************************)
EXTENDS SchedulerManager

CONSTANTS c1, c2, gateway, host, token, archive, unknown

MCCallers == {c1, c2}
MCNames == {gateway, host, token, archive, unknown}

MCName == [n \in Nodes |-> CASE n = 1 -> gateway [] n = 2 -> host
                             [] n = 3 -> token [] n = 4 -> archive]
=============================================================================
