------------------------------ MODULE SSESession ------------------------------
(***************************************************************************)
(* An SSE session (mcp/sse.go): the HandleSSE goroutine that owns the      *)
(* stream, and the HandleMessage goroutines of the requests the client     *)
(* posts, which hand their responses over through the bounded channel      *)
(* outCh and answer the POST themselves.                                   *)
(*                                                                         *)
(* Go's select is modelled as the runtime has it.  On entry the ready      *)
(* cases are those of a channel with room, a closed channel (whose send    *)
(* panics) and a done context, and any ready case may be taken; when there *)
(* is none the goroutine parks and the first event for it decides.         *)
(* The order in which several parked senders are served is left open.      *)
(* A panic in a handler is recovered by net/http, which breaks off that    *)
(* one request.  The registry's side of the loop is in module Registry.    *)
(***************************************************************************)
EXTENDS Integers, Sequences, FiniteSets

CONSTANTS
  Sessions,   \* the SSE connections
  Requests,   \* the posted messages, each to one session
  Capacity,   \* of outCh, 64 in the code
  None, Beat  \* what a session is writing: nothing; a heartbeat or notification

ASSUME CapacityAssumption == Capacity \in Nat \ {0}
ASSUME SessionsAssumption == IsFiniteSet(Sessions)
ASSUME NoneAssumption == None \notin Requests /\ Beat \notin Requests /\ None # Beat

VARIABLES
  phase,      \* Sessions -> where HandleSSE is
  registered, \* the keys of SSEServer.sessions
  gauge,      \* telemetry.ActiveSessions
  reqDone,    \* Sessions -> the request's context is done: the client is gone
  ctxDone,    \* Sessions -> session.ctx is done
  outCh,      \* Sessions -> the buffer of the channel
  closed,     \* Sessions -> outCh is closed
  writing,    \* Sessions -> what the loop is writing to the connection
  delivered,  \* the requests whose response was written to the connection
  at,         \* Requests -> where HandleMessage is, or how it answered
  sess        \* Requests -> its session

vars == <<phase, registered, gauge, reqDone, ctxDone, outCh, closed, writing,
          delivered, at, sess>>
streamVars == <<phase, registered, gauge, reqDone, ctxDone, closed, writing, delivered>>

Opening == {"new", "stored", "counted"}
Closing == {"returned", "deleted", "uncounted", "cancelled", "closed"}
Phases == Opening \cup {"loop"} \cup Closing \cup {"done"}

Answers == {"accepted", "notification", "dropped", "gone", "notfound", "badrequest",
            "servererror", "aborted"}
Places == {"idle", "found", "decoded", "handled", "parked"} \cup Answers

\* The client learns the session's id, and can post to it, from the endpoint event.
Announced(s) == phase[s] \notin Opening

ParkedAt(s) == {m \in Requests : at[m] = "parked" /\ sess[m] = s}

\* What an event of session s does to the senders parked on it.
WakeAll(s, answer) == [m \in Requests |-> IF m \in ParkedAt(s) THEN answer ELSE at[m]]

Init ==
  /\ phase = [s \in Sessions |-> "new"]
  /\ registered = {}
  /\ gauge = 0
  /\ reqDone = [s \in Sessions |-> FALSE]
  /\ ctxDone = [s \in Sessions |-> FALSE]
  /\ outCh = [s \in Sessions |-> <<>>]
  /\ closed = [s \in Sessions |-> FALSE]
  /\ writing = [s \in Sessions |-> None]
  /\ delivered = {}
  /\ at = [m \in Requests |-> "idle"]
  /\ sess \in [Requests -> Sessions]

-----------------------------------------------------------------------------
(* HandleSSE. *)

Goto(s, from, to) == phase[s] = from /\ phase' = [phase EXCEPT ![s] = to]

StoreSession(s) ==
  /\ Goto(s, "new", "stored")
  /\ registered' = registered \cup {s}
  /\ UNCHANGED <<gauge, reqDone, ctxDone, outCh, closed, writing, delivered, at, sess>>

CountSession(s) ==
  /\ Goto(s, "stored", "counted")
  /\ gauge' = gauge + 1
  /\ UNCHANGED <<registered, reqDone, ctxDone, outCh, closed, writing, delivered, at, sess>>

\* The endpoint event is flushed, the session subscribes and enters its loop.
AnnounceEndpoint(s) ==
  /\ Goto(s, "counted", "loop")
  /\ UNCHANGED <<registered, gauge, reqDone, ctxDone, outCh, closed, writing, delivered, at, sess>>

\* Mutant of TakeResponse: the parked sender returns, its response is not queued.
TakeResponseLosesSender(s) ==
  /\ phase[s] = "loop"
  /\ writing[s] = None
  /\ outCh[s] # <<>>
  /\ writing' = [writing EXCEPT ![s] = Head(outCh[s])]
  /\ outCh' = [outCh EXCEPT ![s] = Tail(@)]
  /\ at' = WakeAll(s, "accepted")
  /\ UNCHANGED <<phase, registered, gauge, reqDone, ctxDone, closed, delivered, sess>>

\* The loop takes a response.  A sender parked on the full channel gets the
\* slot that became free, and its select returns.
TakeResponse(s) ==
  /\ phase[s] = "loop"
  /\ writing[s] = None
  /\ outCh[s] # <<>>
  /\ writing' = [writing EXCEPT ![s] = Head(outCh[s])]
  /\ \/ /\ ParkedAt(s) = {}
        /\ outCh' = [outCh EXCEPT ![s] = Tail(@)]
        /\ at' = at
     \/ \E m \in ParkedAt(s) :
          /\ outCh' = [outCh EXCEPT ![s] = Append(Tail(@), m)]
          /\ at' = [at EXCEPT ![m] = "accepted"]
  /\ UNCHANGED <<phase, registered, gauge, reqDone, ctxDone, closed, delivered, sess>>

\* The heartbeat ticker or the registry's channel fires.
StartBeat(s) ==
  /\ phase[s] = "loop"
  /\ writing[s] = None
  /\ writing' = [writing EXCEPT ![s] = Beat]
  /\ UNCHANGED <<phase, registered, gauge, reqDone, ctxDone, outCh, closed, delivered, at, sess>>

\* Mutant of FinishWrite: a write to a client that is gone never returns.
FinishWriteNeedsClient(s) ==
  /\ writing[s] # None
  /\ ~reqDone[s]
  /\ writing' = [writing EXCEPT ![s] = None]
  /\ delivered' = IF writing[s] # Beat THEN delivered \cup {writing[s]} ELSE delivered
  /\ UNCHANGED <<phase, registered, gauge, reqDone, ctxDone, outCh, closed, at, sess>>

\* The write returns.  There is no write deadline: it can take as long as the
\* client does not read.  Its error, after a disconnect, is ignored.
FinishWrite(s) ==
  /\ writing[s] # None
  /\ writing' = [writing EXCEPT ![s] = None]
  /\ delivered' = IF writing[s] # Beat /\ ~reqDone[s]
                  THEN delivered \cup {writing[s]} ELSE delivered
  /\ UNCHANGED <<phase, registered, gauge, reqDone, ctxDone, outCh, closed, at, sess>>

\* The client disconnects: net/http cancels the request's context ...
Disconnect(s) ==
  /\ phase[s] \notin {"new", "done"}
  /\ ~reqDone[s]
  /\ reqDone' = [reqDone EXCEPT ![s] = TRUE]
  /\ UNCHANGED <<phase, registered, gauge, ctxDone, outCh, closed, writing, delivered, at, sess>>

\* ... and that cancels the context derived from it, which wakes the senders.
PropagateCancel(s) ==
  /\ reqDone[s]
  /\ ~ctxDone[s]
  /\ ctxDone' = [ctxDone EXCEPT ![s] = TRUE]
  /\ at' = WakeAll(s, "gone")
  /\ UNCHANGED <<phase, registered, gauge, reqDone, outCh, closed, writing, delivered, sess>>

\* The loop sees either context done and returns; Unsubscribe runs first.
ReturnFromLoop(s) ==
  /\ Goto(s, "loop", "returned")
  /\ writing[s] = None
  /\ reqDone[s] \/ ctxDone[s]
  /\ UNCHANGED <<registered, gauge, reqDone, ctxDone, outCh, closed, writing, delivered, at, sess>>

\* Mutant of DeleteSession: the session stays in the map.
DeleteSessionMissing(s) ==
  /\ Goto(s, "returned", "deleted")
  /\ UNCHANGED <<registered, gauge, reqDone, ctxDone, outCh, closed, writing, delivered, at, sess>>

DeleteSession(s) ==
  /\ Goto(s, "returned", "deleted")
  /\ registered' = registered \ {s}
  /\ UNCHANGED <<gauge, reqDone, ctxDone, outCh, closed, writing, delivered, at, sess>>

UncountSession(s) ==
  /\ Goto(s, "deleted", "uncounted")
  /\ gauge' = gauge - 1
  /\ UNCHANGED <<registered, reqDone, ctxDone, outCh, closed, writing, delivered, at, sess>>

\* Mutant of Cancel: only the request's context ends the session.
CancelMissing(s) ==
  /\ Goto(s, "uncounted", "cancelled")
  /\ UNCHANGED <<registered, gauge, reqDone, ctxDone, outCh, closed, writing, delivered, at, sess>>

Cancel(s) ==
  /\ Goto(s, "uncounted", "cancelled")
  /\ ctxDone' = [ctxDone EXCEPT ![s] = TRUE]
  /\ at' = WakeAll(s, "gone")
  /\ UNCHANGED <<registered, gauge, reqDone, outCh, closed, writing, delivered, sess>>

\* close(outCh) makes every sender still parked on it panic.
CloseOutCh(s) ==
  /\ Goto(s, "cancelled", "closed")
  /\ closed' = [closed EXCEPT ![s] = TRUE]
  /\ at' = WakeAll(s, "aborted")
  /\ UNCHANGED <<registered, gauge, reqDone, ctxDone, outCh, writing, delivered, sess>>

Drain(s) ==
  /\ Goto(s, "closed", "done")
  /\ outCh' = [outCh EXCEPT ![s] = <<>>]
  /\ UNCHANGED <<registered, gauge, reqDone, ctxDone, closed, writing, delivered, at, sess>>

-----------------------------------------------------------------------------
(* HandleMessage. *)

Move(m, from, to) == at[m] = from /\ at' = [at EXCEPT ![m] = to]

LookUp(m) ==
  /\ Announced(sess[m])
  /\ Move(m, "idle", IF sess[m] \in registered THEN "found" ELSE "notfound")
  /\ UNCHANGED <<streamVars, outCh, sess>>

\* The body is read and decoded, with the session in hand.  The server sets no
\* read timeout (serve.go:149-152): the body takes as long as the client likes.
Decode(m) ==
  /\ Move(m, "found", "decoded") \/ Move(m, "found", "badrequest")
  /\ UNCHANGED <<streamVars, outCh, sess>>

\* Handle returns, after an upstream call of any length: nothing, for a
\* notification; or a response, which can fail to be marshalled.
Handle(m) ==
  /\ \/ Move(m, "decoded", "notification")
     \/ Move(m, "decoded", "servererror")
     \/ Move(m, "decoded", "handled")
  /\ UNCHANGED <<streamVars, outCh, sess>>

HasRoom(s) == Len(outCh[s]) < Capacity

\* The select of HandleMessage finds a case ready ...
SelectSend(m) ==
  /\ Move(m, "handled", "accepted")
  /\ ~closed[sess[m]]
  /\ HasRoom(sess[m])
  /\ outCh' = [outCh EXCEPT ![sess[m]] = Append(@, m)]
  /\ UNCHANGED <<streamVars, sess>>

SelectDone(m) ==
  /\ Move(m, "handled", "gone")
  /\ ctxDone[sess[m]]
  /\ UNCHANGED <<streamVars, outCh, sess>>

SelectClosed(m) ==
  /\ Move(m, "handled", "aborted")
  /\ closed[sess[m]]
  /\ UNCHANGED <<streamVars, outCh, sess>>

\* ... or none, and waits for at most 200 ms.
Park(m) ==
  /\ Move(m, "handled", "parked")
  /\ ~closed[sess[m]]
  /\ ~HasRoom(sess[m])
  /\ ~ctxDone[sess[m]]
  /\ UNCHANGED <<streamVars, outCh, sess>>

\* Mutant of Timeout: the select has no timer.
TimeoutNever(m) ==
  /\ FALSE
  /\ UNCHANGED vars

\* The timer fires: the response is dropped, and the POST answered with 202.
Timeout(m) ==
  /\ Move(m, "parked", "dropped")
  /\ UNCHANGED <<streamVars, outCh, sess>>

-----------------------------------------------------------------------------
\* Every session has ended and every request was answered.
Terminated ==
  /\ \A s \in Sessions : phase[s] = "done"
  /\ \A m \in Requests : at[m] \in Answers
  /\ UNCHANGED vars

SessionStep(s) ==
  \/ StoreSession(s) \/ CountSession(s) \/ AnnounceEndpoint(s)
  \/ TakeResponse(s) \/ StartBeat(s) \/ FinishWrite(s)
  \/ Disconnect(s) \/ PropagateCancel(s)
  \/ ReturnFromLoop(s) \/ DeleteSession(s) \/ UncountSession(s)
  \/ Cancel(s) \/ CloseOutCh(s) \/ Drain(s)

RequestStep(m) ==
  \/ LookUp(m) \/ Decode(m) \/ Handle(m)
  \/ SelectSend(m) \/ SelectDone(m) \/ SelectClosed(m) \/ Park(m) \/ Timeout(m)

Next ==
  \/ \E s \in Sessions : SessionStep(s)
  \/ \E m \in Requests : RequestStep(m)
  \/ Terminated

Spec == Init /\ [][Next]_vars

\* A goroutine that can go on does; upstream calls end (the proxy's client has
\* a timeout); the timer fires.  Nothing makes a client read its stream or send
\* the body it announced: FinishWrite is fair only once the client is gone, and
\* Decode is not fair.
Fairness ==
  /\ \A s \in Sessions :
       /\ WF_vars(PropagateCancel(s))
       /\ WF_vars(reqDone[s] /\ FinishWrite(s))
       /\ SF_vars(ReturnFromLoop(s))
       /\ WF_vars(StoreSession(s) \/ CountSession(s) \/ AnnounceEndpoint(s))
       /\ WF_vars(DeleteSession(s) \/ UncountSession(s) \/ Cancel(s)
                    \/ CloseOutCh(s) \/ Drain(s))
  /\ \A m \in Requests :
       WF_vars(Handle(m) \/ SelectSend(m) \/ SelectDone(m) \/ SelectClosed(m)
                 \/ Park(m) \/ Timeout(m))

FairSpec == Spec /\ Fairness

-----------------------------------------------------------------------------
TypeOK ==
  /\ phase \in [Sessions -> Phases]
  /\ registered \subseteq Sessions
  /\ gauge \in Int
  /\ reqDone \in [Sessions -> BOOLEAN]
  /\ ctxDone \in [Sessions -> BOOLEAN]
  /\ outCh \in [Sessions -> Seq(Requests)]
  /\ \A s \in Sessions : Len(outCh[s]) <= Capacity
  /\ closed \in [Sessions -> BOOLEAN]
  /\ writing \in [Sessions -> Requests \cup {None, Beat}]
  /\ delivered \subseteq Requests
  /\ at \in [Requests -> Places]
  /\ sess \in [Requests -> Sessions]

\* The session map never leads a request to a session whose channel is closed:
\* only a request that looked its session up earlier can meet a closed channel
\* (the order of the deferred calls, sse.go:55-64).
RegisteredIsOpen == \A s \in registered : ~closed[s]

\* "any goroutine blocked on HandleMessage writing to this channel is unblocked
\* and can return" (sse.go:59): cancel() comes before close(outCh), so no
\* sender that waits on the full channel is made to panic by its closing.
ParkedNeverAborted ==
  [][\A m \in Requests : at[m] = "parked" => at'[m] # "aborted"]_vars

Queued(s) == {outCh[s][i] : i \in 1 .. Len(outCh[s])}

\* While the client stays connected, a response that was accepted is written
\* to its stream, or waits in the channel or in the loop's hands; the channel
\* changing hands under backpressure loses none.
AcceptedIsKept ==
  \A m \in Requests :
    at[m] = "accepted" /\ ~reqDone[sess[m]] =>
      \/ m \in Queued(sess[m])
      \/ writing[sess[m]] = m
      \/ m \in delivered

\* A posted request whose body has arrived is answered, even if the client never
\* reads from its stream and its session's channel stays full (sse.go:138-148).
RequestsAnswered ==
  \A m \in Requests : at[m] = "decoded" ~> at[m] \in Answers

\* A disconnected session is torn down to the end.
SessionsEnd ==
  \A s \in Sessions : reqDone[s] ~> phase[s] = "done"

\* The teardown lets every HandleMessage goroutine return (sse.go:59): none of
\* them panics.
NeverAborted == \A m \in Requests : at[m] # "aborted"

=============================================================================
