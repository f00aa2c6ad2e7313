---------------------------- MODULE MCPrintEngine ----------------------------
(* Instances of PrintEngine for TLC. *)
EXTENDS PrintEngine

CONSTANTS j1, j2, p1, p2, c1, c2, k1

OnePrinter == [j \in Jobs |-> p1]
TwoPrinters == [j \in Jobs |-> IF j = j1 THEN p1 ELSE p2]
Unkeyed == [j \in Jobs |-> NoKey]
Keyed == [j \in Jobs |-> k1]
UnitSize == [j \in Jobs |-> 1]
MixedSize == [j \in Jobs |-> IF j = j1 THEN 1 ELSE 2]
=============================================================================
