----------------------------- MODULE MCSpecAdmin -----------------------------
(* SpecAdmin for TLC. *)
EXTENDS SpecAdmin, TLC

Symmetry == Permutations(Admins) \cup Permutations(Specs)
=============================================================================
