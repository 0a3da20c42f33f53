----------------------------- MODULE MCStatsStore -----------------------------
(* StatsStore for TLC. *)
EXTENDS StatsStore, TLC

Symmetry == Permutations(Handlers) \cup Permutations(Ops)
=============================================================================
