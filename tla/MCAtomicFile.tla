----------------------------- MODULE MCAtomicFile -----------------------------
(* AtomicFile for TLC: two values of different length. *)
EXTENDS AtomicFile, TLC

CONSTANTS short, long

MCValues == {short, long}
MCSize == (short :> 1) @@ (long :> 2)
Symmetry == Permutations(Writers)
=============================================================================
