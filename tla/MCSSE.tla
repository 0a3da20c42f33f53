-------------------------------- MODULE MCSSE --------------------------------
(***************************************************************************)
(* MCSSE: the two views of HandleSSE that have liveness, for TLC: the      *)
(* stream of responses, which is SSESession, and the feed of changes,      *)
(* which is Registry.  No state belongs to both (a notification is to the  *)
(* stream one more write), so a behaviour is one of either: of the stream, *)
(* or of the feed when the streams are over and nothing in them is fair.   *)
(***************************************************************************)
EXTENDS SSESession, Registry

VARIABLE view   \* "stream" or "feed"

StreamsOver ==
  /\ phase = [s \in Sessions |-> "done"]
  /\ registered = {} /\ gauge = 0
  /\ reqDone = [s \in Sessions |-> TRUE] /\ ctxDone = reqDone /\ closed = reqDone
  /\ outCh = [s \in Sessions |-> <<>>] /\ writing = [s \in Sessions |-> None]
  /\ delivered = {}
  /\ at = [m \in Requests |-> "idle"] /\ sess = [m \in Requests |-> CHOOSE s \in Sessions : TRUE]

\* The sessions are alike: some request is for the first.
BothInit ==
  /\ FeedInit
  /\ \/ view = "stream" /\ Init
     \/ view = "feed" /\ StreamsOver
  /\ sess[CHOOSE m \in Requests : TRUE] = CHOOSE s \in Sessions : TRUE

BothNext ==
  /\ view' = view
  /\ \/ view = "stream" /\ Next /\ UNCHANGED feedVars
     \/ view = "feed" /\ FeedNext /\ UNCHANGED vars

BothSpec == BothInit /\ [][BothNext]_<<view, vars, feedVars>> /\ Fairness /\ FeedFairness
==============================================================================
