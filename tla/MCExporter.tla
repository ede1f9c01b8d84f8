----------------------------- MODULE MCExporter -----------------------------
(***************************************************************************)
(* TLC instance of Exporter: three nodes, two of them with refunds.        *)
(***************************************************************************)
EXTENDS Exporter

CONSTANTS gateway, host, token

MCCallers == {starter, main}
MCNames == {gateway, host, token}
MCName == [n \in Nodes |-> CASE n = 1 -> gateway [] n = 2 -> host [] n = 3 -> token]
=============================================================================
