----------------------------- MODULE MCSSESession -----------------------------
(* SSESession for TLC, one session and one request. *)
EXTENDS SSESession
=============================================================================
