------------------------------ MODULE MCRegistry ------------------------------
(* Registry for TLC: the sessions are interchangeable in the safety runs. *)
EXTENDS Registry, TLC

SessionSymmetry == Permutations(Connections) \cup Permutations(Rebuilders)
=============================================================================
