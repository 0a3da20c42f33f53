--------------------------------- MODULE Chat ---------------------------------
(***************************************************************************)
(* Chat: the conversations of the chat page (ui/src/pages/Chat.tsx) and    *)
(* their storage in the browser (ui/src/lib/chat-storage.ts).              *)
(*                                                                         *)
(* handleSend is an asynchronous function: it asks the model, calls tools, *)
(* asks again, and meanwhile the user may turn to other conversations,     *)
(* delete them, or leave the page.  It works on what it saw when it was    *)
(* called, and writes to what the page shows and to the storage.  Leaving  *)
(* the page within the UI leaves it running without a page; a reload of    *)
(* the browser's tab ends it.                                              *)
(*                                                                         *)
(* A message's content is the number of the send that wrote it.  The MCP   *)
(* client, resources, titles and settings are left out: an await ends with *)
(* an answer or an exception.                                              *)
(***************************************************************************)
EXTENDS Naturals, Sequences, FiniteSets, Functions

CONSTANTS
  SessionIds,   \* what crypto.randomUUID returns
  NoSession,
  MaxSends,     \* bound on the number of sends
  MaxCalls,     \* bound on the number of tool calls in a send
  MaxMounts,    \* bound on how often the page is opened
  MaxSessions   \* MAX_SESSIONS, the number of sessions kept

ASSUME NoSessionAssumption == NoSession \notin SessionIds
ASSUME BoundsAssumption ==
  MaxSends \in Nat /\ MaxCalls \in Nat /\ MaxMounts \in Nat \ {0} /\ MaxSessions \in Nat \ {0}

VARIABLES
  store,      \* localStorage: the sessions, last updated first
  sessions,   \* the page's copy of them
  active,     \* activeSessionId, or NoSession
  messages,   \* the messages shown
  loading,    \* whether a send of this page is under way
  mount,      \* number of the page's present instance
  idRef,      \* instances -> the last message id given out
  phase,      \* sends -> what it awaits, or how it ended
  home,       \* sends -> the session it is for
  page,       \* sends -> the instance it runs in
  base,       \* sends -> the messages it was called with
  current,    \* sends -> currentMsgs
  calls,      \* sends -> the number of tools called
  strayed,    \* what the user turned to while a send of the page ran (history)
  shared,     \* sessions whose page was left while a send for it ran (history)
  mixed       \* sessions in which the user sent while the page showed messages of
              \* another (history)

vars == <<store, sessions, active, messages, loading, mount, idRef, phase, home, page, base,
          current, calls, strayed, shared, mixed>>

Sends == 1 .. MaxSends
Running == {n \in Sends : phase[n] \in {"prepare", "answer", "tool"}}

-----------------------------------------------------------------------------
(* Messages and storage. *)

Message(id, role, n) == [id |-> id, role |-> role, said |-> n, streaming |-> FALSE]
Streaming(id, n) == [Message(id, "assistant", n) EXCEPT !.streaming = TRUE]

\* updateMessage: whatever message has the id takes the content.
Updated(msgs, id, n) ==
  [i \in DOMAIN msgs |->
     IF msgs[i].id = id THEN [msgs[i] EXCEPT !.said = n, !.streaming = FALSE] ELSE msgs[i]]

\* filter: the elements of q at the indices to keep, in their order.
Rank(keep, i) == Cardinality({j \in keep : j <= i})
Nth(keep, n) == CHOOSE i \in keep : Rank(keep, i) = n
Filtered(q, keep) == [n \in 1 .. Cardinality(keep) |-> q[Nth(keep, n)]]

IsStored(st, s) == \E i \in DOMAIN st : st[i].id = s
Without(st, s) == Filtered(st, {i \in DOMAIN st : st[i].id # s})
NotStreaming(msgs) == Filtered(msgs, {i \in DOMAIN msgs : ~msgs[i].streaming})

\* Mutant of Trimmed: everything is kept.
NotTrimmed(st) == st

Trimmed(st) == IF Len(st) > MaxSessions THEN SubSeq(st, 1, MaxSessions) ELSE st

\* saveSession: the session becomes the one updated last.
WithSession(st, e) == Trimmed(<<e>> \o Without(st, e.id))

\* saveCurrentSession, which leaves alone what is not stored any more.
Saved(st, s, msgs) ==
  IF IsStored(st, s)
  THEN WithSession(st, [id |-> s, messages |-> NotStreaming(msgs)])
  ELSE st

-----------------------------------------------------------------------------
(* What the user does. *)

\* handleSend up to its first await: a session is created if none is active, and
\* the user's message shown and stored.
Send(n) ==
  LET said == Append(messages, Message(idRef[mount] + 1, "user", n)) IN
  /\ phase[n] = "none" /\ \A k \in 1 .. n - 1 : phase[k] # "none"
  /\ ~loading
  /\ \E s \in SessionIds :
       /\ IF active = NoSession THEN \A k \in Sends : home[k] # s ELSE s = active
       /\ active' = s
       /\ home' = [home EXCEPT ![n] = s]
       /\ store' = Saved(IF active = NoSession
                         THEN WithSession(store, [id |-> s, messages |-> <<>>]) ELSE store,
                         s, said)
       /\ strayed' = IF active = NoSession /\ NoSession \in strayed
                     THEN strayed \cup {s} ELSE strayed
       /\ mixed' = IF \E k \in DOMAIN messages : home[messages[k].said] # s
                   THEN mixed \cup {s} ELSE mixed
  /\ sessions' = IF active = NoSession \/ IsStored(store, active) THEN store' ELSE sessions
  /\ messages' = said
  /\ loading' = TRUE
  /\ idRef' = [idRef EXCEPT ![mount] = @ + 1]
  /\ phase' = [phase EXCEPT ![n] = "prepare"]
  /\ page' = [page EXCEPT ![n] = mount]
  /\ base' = [base EXCEPT ![n] = messages]
  /\ current' = [current EXCEPT ![n] = said]
  /\ UNCHANGED <<mount, calls, shared>>

\* The page turns to session s, or to none, showing msgs.
TurnTo(s, msgs) ==
  /\ active' = s
  /\ messages' = msgs
  /\ strayed' = IF \E n \in Running : page[n] = mount THEN strayed \cup {s}
                ELSE strayed \ {NoSession}
  /\ UNCHANGED <<loading, mount, idRef, phase, home, page, base, current, calls, shared,
                 mixed>>

NewChat == TurnTo(NoSession, <<>>) /\ UNCHANGED <<store, sessions>>

\* handleSelectSession shows the page's copy of the session.
SelectSession ==
  /\ \E i \in DOMAIN sessions :
       sessions[i].id # active /\ TurnTo(sessions[i].id, sessions[i].messages)
  /\ UNCHANGED <<store, sessions>>

\* handleDeleteSession; the page turns to another session if it showed this one.
DeleteSession ==
  \E i \in DOMAIN sessions :
    LET s == sessions[i].id IN
    /\ store' = Without(store, s)
    /\ sessions' = store'
    /\ IF s # active THEN UNCHANGED <<active, messages, loading, mount, idRef, phase, home, page,
                                      base, current, calls, strayed, shared, mixed>>
       ELSE IF store' = <<>> THEN TurnTo(NoSession, <<>>)
       ELSE TurnTo(store'[1].id, store'[1].messages)

\* updateTitle: the session becomes the one updated last.
Rename ==
  /\ \E i \in DOMAIN store : store[i].id = active /\ store' = WithSession(store, store[i])
  /\ sessions' = store'
  /\ UNCHANGED <<active, messages, loading, mount, idRef, phase, home, page, base, current,
                 calls, strayed, shared, mixed>>

\* The page is opened again.  It shows the session updated last and counts
\* message ids from the start.
Open ==
  /\ mount < MaxMounts
  /\ mount' = mount + 1
  /\ sessions' = store
  /\ active' = IF store = <<>> THEN NoSession ELSE store[1].id
  /\ messages' = IF store = <<>> THEN <<>> ELSE store[1].messages
  /\ loading' = FALSE
  /\ strayed' = strayed \ {NoSession}
  /\ UNCHANGED <<store, idRef, home, page, mixed>>

\* The user goes to another page of the UI and returns: sends go on without a page.
Return ==
  /\ Open
  /\ shared' = shared \cup {home[n] : n \in Running}
  /\ UNCHANGED <<phase, base, current, calls>>

\* The browser's tab is reloaded: sends end.
Reload ==
  /\ Open
  /\ phase' = [n \in Sends |-> IF n \in Running THEN "killed" ELSE phase[n]]
  /\ base' = [n \in Sends |-> <<>>]
  /\ current' = [n \in Sends |-> <<>>]
  /\ calls' = [n \in Sends |-> 0]
  /\ UNCHANGED shared

-----------------------------------------------------------------------------
(* handleSend from its first await on. *)

Shown(n) == page[n] = mount

\* setMessages has an effect if the page is still there.
Show(n, msgs) == messages' = IF Shown(n) THEN msgs ELSE messages

\* Mutant of Store: without sidOverride, under the session that the send's page has
\* turned to meanwhile.
StoreUnderActive(n, msgs) ==
  LET sid == IF Shown(n) THEN active ELSE home[n] IN
  /\ store' = Saved(store, sid, msgs)
  /\ sessions' = IF Shown(n) /\ IsStored(store, sid) THEN store' ELSE sessions

\* saveCurrentSession(msgs, currentSessionId).
Store(n, msgs) ==
  /\ store' = Saved(store, home[n], msgs)
  /\ sessions' = IF Shown(n) /\ IsStored(store, home[n]) THEN store' ELSE sessions

LastId(n) == idRef[page[n]]
Await(n, to) == phase' = [phase EXCEPT ![n] = to]

\* The function returns.
End(n, how) ==
  /\ Await(n, how)
  /\ loading' = (loading /\ ~Shown(n))
  /\ base' = [base EXCEPT ![n] = <<>>]
  /\ current' = [current EXCEPT ![n] = <<>>]
  /\ calls' = [calls EXCEPT ![n] = 0]

\* Mutant of Ask: with the messages from before the send.
AskFromBase(n, msgs, id) ==
  LET asked == Append(base[n], Streaming(id, n)) IN
  /\ Await(n, "answer")
  /\ current' = [current EXCEPT ![n] = asked]
  /\ Show(n, asked)

\* The model is asked, after msgs, and a message made ready for its answer.
Ask(n, msgs, id) ==
  LET asked == Append(msgs, Streaming(id, n)) IN
  /\ Await(n, "answer")
  /\ current' = [current EXCEPT ![n] = asked]
  /\ Show(n, asked)

\* A tool is called, and the call shown after msgs.
Call(n, msgs, id) ==
  LET called == Append(msgs, Message(id, "tool_call", n)) IN
  /\ calls[n] < MaxCalls
  /\ calls' = [calls EXCEPT ![n] = @ + 1]
  /\ Await(n, "tool")
  /\ current' = [current EXCEPT ![n] = called]
  /\ Show(n, called)

\* The tools and resources are there.
Prepared(n) ==
  /\ phase[n] = "prepare"
  /\ Ask(n, current[n], LastId(n) + 1)
  /\ idRef' = [idRef EXCEPT ![page[n]] = @ + 1]
  /\ UNCHANGED <<store, sessions, active, loading, mount, home, page, base, calls, strayed,
                 shared, mixed>>

\* The model's stream ends with an answer ...
Answered(n) ==
  /\ phase[n] = "answer"
  /\ Store(n, Updated(current[n], LastId(n), n))
  /\ Show(n, Updated(messages, LastId(n), n))
  /\ End(n, "done")
  /\ UNCHANGED <<active, mount, idRef, home, page, strayed, shared, mixed>>

\* ... or with calls of tools.
AskedForTool(n) ==
  /\ phase[n] = "answer"
  /\ Call(n, Updated(current[n], LastId(n), n), LastId(n) + 1)
  /\ idRef' = [idRef EXCEPT ![page[n]] = @ + 1]
  /\ UNCHANGED <<store, sessions, active, loading, mount, home, page, base, strayed, shared,
                 mixed>>

\* A tool has answered, or its error is the answer: the next one is called, or the
\* conversation stored and the model asked again.
ToolAnswered(n) ==
  /\ phase[n] = "tool"
  /\ LET msgs == Append(current[n], Message(LastId(n) + 1, "tool_result", n)) IN
     \/ Call(n, msgs, LastId(n) + 2) /\ UNCHANGED <<store, sessions>>
     \/ Store(n, msgs) /\ Ask(n, msgs, LastId(n) + 2) /\ UNCHANGED calls
  /\ idRef' = [idRef EXCEPT ![page[n]] = @ + 2]
  /\ UNCHANGED <<active, loading, mount, home, page, base, strayed, shared, mixed>>

\* An exception: an error message takes the place of all that the send has added.
Failed(n) ==
  /\ phase[n] \in {"prepare", "answer"}
  /\ LET msgs == Append(base[n], Message(LastId(n) + 1, "assistant", n)) IN
     Show(n, msgs) /\ Store(n, msgs)
  /\ idRef' = [idRef EXCEPT ![page[n]] = @ + 1]
  /\ End(n, "failed")
  /\ UNCHANGED <<active, mount, home, page, strayed, shared, mixed>>

-----------------------------------------------------------------------------
Init ==
  /\ store = <<>> /\ sessions = <<>>
  /\ active = NoSession
  /\ messages = <<>>
  /\ loading = FALSE
  /\ mount = 1
  /\ idRef = [i \in 1 .. MaxMounts |-> 0]
  /\ phase = [n \in Sends |-> "none"]
  /\ home = [n \in Sends |-> NoSession]
  /\ page = [n \in Sends |-> 1]
  /\ base = [n \in Sends |-> <<>>]
  /\ current = [n \in Sends |-> <<>>]
  /\ calls = [n \in Sends |-> 0]
  /\ strayed = {} /\ shared = {} /\ mixed = {}

SendStep(n) == Prepared(n) \/ Answered(n) \/ AskedForTool(n) \/ ToolAnswered(n) \/ Failed(n)

Next ==
  \/ \E n \in Sends : Send(n) \/ SendStep(n)
  \/ NewChat \/ SelectSession \/ DeleteSession \/ Rename
  \/ Return \/ Reload

Spec == Init /\ [][Next]_vars

-----------------------------------------------------------------------------
IsMessage(m) ==
  /\ m.id \in Nat \ {0}
  /\ m.role \in {"user", "assistant", "tool_call", "tool_result"}
  /\ m.said \in Sends
  /\ m.streaming \in BOOLEAN

IsSession(e) ==
  /\ e.id \in SessionIds
  /\ \A i \in DOMAIN e.messages : IsMessage(e.messages[i]) /\ ~e.messages[i].streaming

IsStore(st) ==
  /\ Len(st) <= MaxSessions
  /\ \A i \in DOMAIN st : IsSession(st[i]) /\ \A j \in 1 .. i - 1 : st[j].id # st[i].id

TypeOK ==
  /\ IsStore(store) /\ IsStore(sessions)
  /\ active \in SessionIds \cup {NoSession}
  /\ \A i \in DOMAIN messages : IsMessage(messages[i])
  /\ loading \in BOOLEAN
  /\ mount \in 1 .. MaxMounts
  /\ idRef \in [1 .. MaxMounts -> Nat]
  /\ phase \in [Sends -> {"none", "prepare", "answer", "tool", "done", "failed", "killed"}]
  /\ home \in [Sends -> SessionIds \cup {NoSession}]
  /\ page \in [Sends -> 1 .. MaxMounts]
  /\ \A n \in Sends : \A i \in DOMAIN current[n] : IsMessage(current[n][i])
  /\ calls \in [Sends -> 0 .. MaxCalls]
  /\ strayed \subseteq SessionIds \cup {NoSession}
  /\ shared \subseteq SessionIds
  /\ mixed \subseteq SessionIds

\* What a send stores it stores in the conversation in which it was begun, wherever the
\* user has turned on its page or has gone meanwhile: a conversation holds messages of
\* its own sends only, through selections, deletions, reloads and sends that outlive
\* their page.  Excepted is a conversation in which the user has sent while the page
\* showed messages of another, which handleSend takes for its own.
AnswersStayHome ==
  \A i \in DOMAIN store :
    store[i].id \notin mixed =>
      \A k \in DOMAIN store[i].messages : home[store[i].messages[k].said] = store[i].id

Retaken(id, msgs) == \E i, j \in DOMAIN msgs : i # j /\ msgs[i].id = id /\ msgs[j].id = id

\* No save of a conversation forgets what was stored of it: neither later sends,
\* nor answers that come after the user has left, nor the page opened again.  Not
\* so what a failed send has added; a message whose id a later one has been given
\* again; what the user turned to during a send; and where a send ran on without
\* its page.
KeepsEarlier ==
  [][\A i \in DOMAIN store, j \in DOMAIN store' :
       LET old == store[i].messages
           new == store'[j].messages
       IN store[i].id = store'[j].id /\ store[i].id \notin strayed \cup shared =>
            \A m \in Range(old) :
              m \in Range(new) \/ phase'[m.said] = "failed" \/ Retaken(m.id, new)]_vars

=============================================================================
