--------------------------- MODULE MCRefundCycle ---------------------------
(***************************************************************************)
(* TLC instances of RefundCycle: two accounts with an address each.        *)
(***************************************************************************)
EXTENDS RefundCycle

CONSTANTS a1, a2, x1, x2

MCAccounts == {a1, a2}
MCAddresses == {x1, x2}
MCAddressOf == [a \in MCAccounts |-> IF a = a1 THEN x1 ELSE x2]
MCThreshold == [a \in MCAccounts |-> 2]
MCTarget == [a \in MCAccounts |-> 3]
MCInitialBalance == [x \in MCAddresses |-> 1]

\* a2 has its threshold above its target, which no check rejects for a cosmos
\* node, and a balance between the two.
MCThresholdAbove == [a \in MCAccounts |-> IF a = a1 THEN 2 ELSE 3]
MCTargetBelow == [a \in MCAccounts |-> IF a = a1 THEN 3 ELSE 1]
MCInitialBetween == [x \in MCAddresses |-> IF x = x1 THEN 1 ELSE 2]
=============================================================================
