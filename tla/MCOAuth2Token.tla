---------------------------- MODULE MCOAuth2Token ----------------------------
(* OAuth2Token for TLC. *)
EXTENDS OAuth2Token, TLC

Symmetry == Permutations(Callers)
=============================================================================
