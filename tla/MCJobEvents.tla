----------------------------- MODULE MCJobEvents -----------------------------
(* Instances of JobEvents for TLC. *)
EXTENDS JobEvents

\* A clock that goes forward, and one that is set back before the last but one.
Forward == [v \in Versions |-> v]
SetBack == [v \in Versions |-> IF v >= Last - 1 THEN v - 3 ELSE v]
=============================================================================
