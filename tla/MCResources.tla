------------------------------ MODULE MCResources ------------------------------
(* Resources for TLC. *)
EXTENDS Resources, TLC

Symmetry == Permutations(Admins) \cup Permutations(Ids)
=============================================================================
