----------------------------- MODULE MCReceive ------------------------------
(* Instances of Receive for TLC: a file of two ranges, one of one range and an *)
(* empty one.                                                               *)
EXTENDS Receive

CONSTANTS large, small, empty
TwoFiles == [f \in {large, empty} |-> IF f = large THEN 2 ELSE 0]
OneRange == [f \in {large, small} |-> IF f = large THEN 2 ELSE 1]
=============================================================================
