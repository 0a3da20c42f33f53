-------------------------------- MODULE WebUI --------------------------------
(***************************************************************************)
(* WebUI: the pages of the administration and the MCP client of the chat   *)
(* page in one browser (ui/src/router.tsx).                                *)
(*                                                                         *)
(* The pages have nothing in common: each has a query of its own in the    *)
(* cache, and only the chat page makes MCP clients.  So a behaviour is one *)
(* of one page.  The switches and the settings of a spec are two views of  *)
(* one page; what one of them changes is to the other a change by others.  *)
(***************************************************************************)
EXTENDS SpecPage, ListPages, McpClient

VARIABLE page   \* "chat", "lists", "switches" or "settings"

webVars == <<page, queryVars, detailVars, listVars, clientVars>>

WebInit ==
  /\ page \in {"chat", "lists", "switches", "settings"}
  /\ DetailInit /\ ListInit /\ ClientInit
  /\ page # "lists" => kind = "specs"
  /\ page # "chat" => choice = CHOOSE c \in Choices : TRUE

WebNext ==
  /\ page' = page
  /\ \/ page = "chat" /\ ClientNext /\ UNCHANGED <<queryVars, detailVars, listVars>>
     \/ page = "lists" /\ ListNext /\ UNCHANGED <<detailVars, clientVars>>
     \/ page = "switches" /\ SwitchesNext /\ UNCHANGED <<listVars, clientVars>>
     \/ page = "settings" /\ SettingsNext /\ UNCHANGED <<listVars, clientVars>>

WebSpec == WebInit /\ [][WebNext]_webVars /\ ClientFairness

=============================================================================
