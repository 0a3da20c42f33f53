------------------------------- MODULE MCWebUI -------------------------------
(***************************************************************************)
(* MCWebUI: instance of WebUI for TLC: two operations, two values of a     *)
(* setting, two changes of a spec or a list, two MCP clients.              *)
(***************************************************************************)
EXTENDS WebUI
=============================================================================
