------------------------------ MODULE McpClient ------------------------------
(***************************************************************************)
(* McpClient: the MCP client of the chat page (ui/src/lib/mcp-client.ts)   *)
(* and how the page makes and drops clients (ui/src/pages/Chat.tsx).       *)
(*                                                                         *)
(* The page keeps one client, for the transport and the credentials that   *)
(* the user has chosen.  A client for SSE has an EventSource, which the    *)
(* browser connects again when the connection breaks; the server then      *)
(* announces another session.  Requests are posted to the session last     *)
(* announced, and answered on its stream if that is still the one that is  *)
(* open; any of them may be lost.  A request over HTTP has its own answer. *)
(*                                                                         *)
(* A send that is under way when the page is left goes on with its client. *)
(* The page is opened again at once: in between only such sends do a thing. *)
(***************************************************************************)
EXTENDS Naturals, FiniteSets

CONSTANTS
  Choices,      \* transport and credentials
  Sse,          \* those with the transport sse
  NoChoice,     \* of a client that is not made yet
  MaxClients,   \* bound on the number of clients
  MaxRequests,  \* bound on the number of requests, those to initialize included
  MaxConnects   \* bound on the number of sessions of a client

ASSUME McpClientAssumption ==
  /\ Sse \subseteq Choices /\ NoChoice \notin Choices
  /\ MaxClients \in Nat /\ MaxRequests \in Nat /\ MaxConnects \in Nat

VARIABLES
  choice,     \* what the user has chosen
  ref,        \* mcpClientRef, 0 for null
  send,       \* the page's send: "none", "creating" its client, or "using" it
  using,      \* its client, or 0
  left,       \* clients of sends that go on without their page
  strayed,    \* clients that the page has lost sight of (history)
  made,       \* the choice for which a client was made
  promise,    \* of its creation: "none", "pending", "resolved" or "rejected"
  es,         \* its EventSource: "none", "connecting", "open" or "closed"
  session,    \* the number of its last session, 0 for none; also in messageUrl
  request,    \* the requests
  counter     \* msgIdCounter

pageVars == <<choice, ref, send, using, left, strayed>>
connVars == <<made, promise, es, session>>
clientVars == <<pageVars, connVars, request, counter>>

Clients == 1 .. MaxClients
Requests == 1 .. MaxRequests
NoRequest == [client |-> 0, id |-> 0, phase |-> "none", due |-> FALSE, to |-> 0, got |-> 0]

IsSse(c) == made[c] \in Sse
PendingOf(c) == {q \in Requests : request[q].client = c /\ request[q].phase = "pending"}

-----------------------------------------------------------------------------
(* Requests. *)

\* Mutant of NextId: the first number that is not in use.
FreeId(c) == CHOOSE n \in 1 .. MaxRequests : n \notin {request[q].id : q \in PendingOf(c)}

NextId(c) == counter

\* A message is posted.  Before the first session there is no one to post it to.
Post(c, phase) ==
  \E q \in Requests :
    /\ request[q].phase = "none" /\ \A p \in 1 .. q - 1 : request[p].phase # "none"
    /\ request' = [request EXCEPT ![q] =
         [client |-> c, id |-> NextId(c), phase |-> phase, to |-> session'[c], got |-> 0,
          due |-> IsSse(c) => session'[c] # 0]]
    /\ counter' = counter + 1

\* sendRequest, or postMCP, for the page's send or one without a page.
Request(c) ==
  /\ promise[c] = "resolved"
  /\ (send = "using" /\ using = c) \/ c \in left
  /\ UNCHANGED session /\ Post(c, "pending")
  /\ UNCHANGED <<pageVars, made, promise, es>>

\* Mutant of Timeout: only a connection that is open has a timer.
TimeoutWhenOpen(q) ==
  /\ request[q].phase = "pending" /\ IsSse(request[q].client)
  /\ es[request[q].client] = "open"
  /\ request' = [request EXCEPT ![q].phase = "failed"]
  /\ UNCHANGED <<pageVars, connVars, counter>>

\* 30 seconds are over.
Timeout(q) ==
  /\ request[q].phase = "pending" /\ IsSse(request[q].client)
  /\ request' = [request EXCEPT ![q].phase = "failed"]
  /\ UNCHANGED <<pageVars, connVars, counter>>

\* postMCP has its answer, or fails.
HttpEnds(q) ==
  /\ request[q].phase = "pending" /\ ~IsSse(request[q].client)
  /\ \E outcome \in {"answered", "failed"} :
       request' = [request EXCEPT ![q].phase = outcome, ![q].due = FALSE,
                                  ![q].got = IF outcome = "answered" THEN q ELSE 0]
  /\ UNCHANGED <<pageVars, connVars, counter>>

-----------------------------------------------------------------------------
(* Connections. *)

\* The creation of c has succeeded: getMCPClient goes on, if its page is there.
Resolve(c) ==
  /\ promise' = [promise EXCEPT ![c] = "resolved"]
  /\ IF send = "creating" /\ using = c THEN ref' = c /\ send' = "using" ELSE UNCHANGED <<ref, send>>

\* The server announces a session, which is initialized.
Endpoint(c) ==
  /\ es[c] = "connecting" /\ session[c] < MaxConnects
  /\ es' = [es EXCEPT ![c] = "open"]
  /\ session' = [session EXCEPT ![c] = @ + 1]
  /\ Post(c, "initialize")
  /\ UNCHANGED <<pageVars, made, promise>>

\* The answer to q arrives on the stream, with an error or without.  Whichever request
\* has its id is settled.  The answer to initialize also makes the client.
Message(q) ==
  LET c == request[q].client
      its == {p \in PendingOf(c) : request[p].id = request[q].id} IN
  /\ request[q].due /\ es[c] = "open" /\ request[q].to = session[c]
  /\ \E outcome \in {"answered", "failed"} :
       /\ request' = [p \in Requests |->
            LET r == IF p \in its THEN [request[p] EXCEPT !.phase = outcome, !.got = q]
                     ELSE request[p]
            IN IF p = q THEN [r EXCEPT !.due = FALSE] ELSE r]
       /\ IF request[q].phase = "initialize" /\ outcome = "answered" /\ promise[c] = "pending"
          THEN Resolve(c) ELSE UNCHANGED <<promise, ref, send>>
  /\ UNCHANGED <<choice, using, left, strayed, made, es, session, counter>>

\* The two seconds after which the client is made without an answer.
DelayOver(c) ==
  /\ promise[c] = "pending"
  /\ Resolve(c)
  /\ UNCHANGED <<choice, using, left, strayed, made, es, session, request, counter>>

\* onerror.  The browser connects again, or gives up.  A creation under way is rejected
\* and its send fails; nothing closes the EventSource.
ConnectionBreaks(c) ==
  /\ es[c] \in {"connecting", "open"}
  /\ \E e \in {"connecting", "closed"} : es' = [es EXCEPT ![c] = e]
  /\ IF promise[c] # "pending" THEN UNCHANGED <<promise, send, using, strayed>>
     ELSE /\ promise' = [promise EXCEPT ![c] = "rejected"]
          /\ strayed' = strayed \cup {c}
          /\ IF send = "creating" /\ using = c THEN send' = "none" /\ using' = 0
             ELSE UNCHANGED <<send, using>>
  /\ UNCHANGED <<choice, ref, left, made, session, request, counter>>

-----------------------------------------------------------------------------
(* The page. *)

\* handleSend with getMCPClient, up to its await.
HandleSend ==
  /\ send = "none"
  /\ IF ref # 0
     THEN /\ send' = "using" /\ using' = ref
          /\ UNCHANGED <<ref, connVars>>
     ELSE \E c \in Clients :
          /\ made[c] = NoChoice /\ \A d \in 1 .. c - 1 : made[d] # NoChoice
          /\ made' = [made EXCEPT ![c] = choice]
          /\ using' = c
          /\ IF choice \in Sse
             THEN /\ es' = [es EXCEPT ![c] = "connecting"]
                  /\ promise' = [promise EXCEPT ![c] = "pending"]
                  /\ send' = "creating" /\ UNCHANGED ref
             ELSE /\ promise' = [promise EXCEPT ![c] = "resolved"]
                  /\ send' = "using" /\ ref' = c /\ UNCHANGED es
          /\ UNCHANGED session
  /\ UNCHANGED <<choice, left, strayed, request, counter>>

\* The send has its answer, or one of its requests has failed.
EndSend ==
  /\ send = "using"
  /\ \/ PendingOf(using) = {}
     \/ \E q \in Requests : request[q].client = using /\ request[q].phase = "failed"
  /\ send' = "none" /\ using' = 0
  /\ UNCHANGED <<choice, ref, left, strayed, connVars, request, counter>>

\* What the user chooses drops the page's client, but not one that is being made.
Creating == IF send = "creating" THEN {using} ELSE {}

\* Mutant of Choose: the client is dropped without disconnect.
ChooseOnly ==
  /\ \E new \in Choices \ {choice} : choice' = new
  /\ ref' = 0
  /\ strayed' = strayed \cup Creating
  /\ UNCHANGED <<send, using, left, connVars, request, counter>>

\* disconnect, and the page forgets its client.
Drop ==
  /\ es' = [c \in Clients |-> IF c = ref /\ IsSse(c) THEN "closed" ELSE es[c]]
  /\ ref' = 0

Choose ==
  /\ \E new \in Choices \ {choice} : choice' = new
  /\ Drop
  /\ strayed' = strayed \cup Creating
  /\ UNCHANGED <<send, using, left, made, promise, session, request, counter>>

\* The user turns to a new conversation.
NewChat ==
  /\ ref # 0 /\ Drop
  /\ UNCHANGED <<choice, send, using, left, strayed, made, promise, session, request, counter>>

\* The user leaves the page and comes back, to what was chosen when it was last saved.
\* Nothing is disconnected.
LeavePage ==
  /\ choice' \in Choices
  /\ ref' = 0
  /\ strayed' = strayed \cup Creating \cup ({ref} \ {0})
  /\ left' = left \cup ({using} \ {0})
  /\ send' = "none" /\ using' = 0
  /\ UNCHANGED <<connVars, request, counter>>

ClientInit ==
  /\ choice \in Choices
  /\ ref = 0 /\ send = "none" /\ using = 0 /\ left = {} /\ strayed = {}
  /\ made = [c \in Clients |-> NoChoice]
  /\ promise = [c \in Clients |-> "none"]
  /\ es = [c \in Clients |-> "none"]
  /\ session = [c \in Clients |-> 0]
  /\ request = [q \in Requests |-> NoRequest]
  /\ counter = 1

ClientStep(c) == Request(c) \/ Endpoint(c) \/ DelayOver(c) \/ ConnectionBreaks(c)
RequestStep(q) == Message(q) \/ Timeout(q) \/ HttpEnds(q)

ClientNext ==
  \/ HandleSend \/ EndSend \/ Choose \/ NewChat \/ LeavePage
  \/ \E c \in Clients : ClientStep(c)
  \/ \E q \in Requests : RequestStep(q)

\* The browser's timers run out, and its requests over HTTP end.
ClientFairness ==
  /\ \A c \in Clients : WF_clientVars(DelayOver(c))
  /\ \A q \in Requests : WF_clientVars(Timeout(q)) /\ WF_clientVars(HttpEnds(q))

ClientSpec == ClientInit /\ [][ClientNext]_clientVars /\ ClientFairness

-----------------------------------------------------------------------------
RequestType ==
  [client : {0} \cup Clients, id : Nat, due : BOOLEAN, to : Nat, got : {0} \cup Requests,
   phase : {"none", "initialize", "pending", "answered", "failed"}]

\* The type invariant of the client and its page.
ClientTypeOK ==
  /\ choice \in Choices
  /\ ref \in {0} \cup Clients /\ using \in {0} \cup Clients
  /\ send \in {"none", "creating", "using"} /\ (send = "none" <=> using = 0)
  /\ left \subseteq Clients /\ strayed \subseteq Clients
  /\ made \in [Clients -> Choices \cup {NoChoice}]
  /\ promise \in [Clients -> {"none", "pending", "resolved", "rejected"}]
  /\ es \in [Clients -> {"none", "connecting", "open", "closed"}]
  /\ session \in [Clients -> Nat]
  /\ request \in [Requests -> RequestType]
  /\ counter \in Nat

\* A request is settled by the answer to it and by no other, although answers come in
\* any order, after the request was given up, or after the connection was made anew.
OwnAnswer == \A q \in Requests : request[q].got \in {0, q}

\* The page has one connection, made for what is chosen now, and uses it or is making
\* it.  Others are those that it has lost sight of: it was left, it was told that the
\* creation had failed, or the choice was changed before the creation ended.
InUse ==
  /\ \A c \in Clients \ strayed : es[c] \in {"connecting", "open"} =>
       made[c] = choice /\ (c = ref \/ (send = "creating" /\ using = c))
  /\ ref # 0 /\ ref \notin strayed => made[ref] = choice

\* Every request and every creation of a client comes to an end, also when the
\* connection is closed under it or the server says nothing: again and again, and in
\* the end for good since only so many are begun, none is under way.
RequestsSettle ==
  []<>(/\ \A q \in Requests : request[q].phase # "pending"
       /\ \A c \in Clients : promise[c] # "pending")

=============================================================================
