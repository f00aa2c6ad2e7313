----------------------------- MODULE MCDiscovery -----------------------------
(* Instances of Discovery for TLC: two printers of different providers. *)
EXTENDS Discovery, TLC

CONSTANTS a, b, pa, pb

OwnerAB == pa :> a @@ pb :> b

Symmetry == Permutations(Callers)
=============================================================================
