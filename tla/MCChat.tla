-------------------------------- MODULE MCChat --------------------------------
(* Chat for TLC. *)
EXTENDS Chat, TLC

Symmetry == Permutations(SessionIds)
=============================================================================
