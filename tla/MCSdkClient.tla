----------------------------- MODULE MCSdkClient -----------------------------
(* Instances of SdkClient for TLC. *)
EXTENDS SdkClient, TLC

\* Prints, cancels and sockets are each interchangeable.
Symmetry ==
  Permutations(Prints) \cup Permutations(Requests \ Prints) \cup Permutations(Sockets)
=============================================================================
