----------------------------- MODULE MCToolCalls -----------------------------
(* ToolCalls for TLC. *)
EXTENDS ToolCalls, TLC

Symmetry == Permutations(Callers) \cup Permutations(Specs)
=============================================================================
