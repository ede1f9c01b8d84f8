---------------------------- MODULE MCCollector ----------------------------
(***************************************************************************)
(* TLC instances of Collector: two concurrent scrapes.                     *)
(***************************************************************************)
EXTENDS Collector

CONSTANTS s1, s2, a1, a2, a3

MCScrapers == {s1, s2}
MCAccounts == {a1, a2, a3}
=============================================================================
