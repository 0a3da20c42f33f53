------------------------------- MODULE Registry -------------------------------
(***************************************************************************)
(* The tool registry's change feed: registry/registry.go together with the *)
(* part of HandleSSE (mcp/sse.go) that subscribes to it.                   *)
(*                                                                         *)
(* RebuildAll replaces the tool map under the lock, keeps the header of    *)
(* the subscriber slice, and sends one token to every element of it AFTER  *)
(* the unlock.  Unsubscribe removes an element by shifting the rest of the *)
(* slice down in the same backing array.  The model therefore has Go's     *)
(* slices: headers (array, length) over arrays that several headers share. *)
(*                                                                         *)
(* The tool map is abstracted to its version, the number of rebuilds.      *)
(* A session subscribes once in its life, so a session names its channel.  *)
(***************************************************************************)
EXTENDS Integers, Sequences, FiniteSets

CONSTANTS
  Connections,  \* the SSE connections made in the life of the process
  Rebuilders,   \* the goroutines that call RebuildAll (admin requests, start-up)
  MaxRebuilds,  \* bound on the number of rebuilds
  NoSession,    \* an empty slot of a backing array; the lock when it is free
  Readers       \* the clients that read their stream and ask for the tools when told to

ASSUME ConnectionsAssumption == IsFiniteSet(Connections) /\ NoSession \notin Connections
ASSUME MaxRebuildsAssumption == MaxRebuilds \in Nat
ASSUME ReadersAssumption == Readers \subseteq Connections

VARIABLES
  version,      \* r.tools: the number of the rebuild that installed it
  subscribers,  \* r.subscribers: a slice header
  heap,         \* the backing arrays, each a sequence of slots
  mu,           \* r.mu: the session whose Unsubscribe holds it, or NoSession
  todo,         \* the slots that Unsubscribe has still to overwrite
  shifted,      \* what it writes there: the array as it was loaded
  notifying,    \* Rebuilders -> the loop of notifySubscribers: slice and position
  token,        \* Connections -> the content of the channel of capacity one
  conn,         \* Connections -> where HandleSSE is
  telling,      \* Connections -> what its loop is writing to the client
  heard,        \* Connections -> list_changed written to the client, tools/list not yet called
  known,        \* Connections -> the version the client's last tools/list returned
  since,        \* Connections -> the version when the session subscribed (history)
  disturbed     \* sessions shifted under a running notification loop (history)

sliceVars == <<subscribers, heap, mu, todo, shifted>>
feedVars == <<version, subscribers, heap, mu, todo, shifted, notifying, token,
              conn, telling, heard, known, since, disturbed>>

Never == -1     \* a client that has not called tools/list

-----------------------------------------------------------------------------
(* Slices. *)

NilSlice == [arr |-> 0, len |-> 0]

CapOf(slice) == IF slice.arr = 0 THEN 0 ELSE Len(heap[slice.arr])

Elem(slice, i) == heap[slice.arr][i]

\* append beyond the capacity: a new array of twice the size holds a copy.
Grown(slice, s) ==
  [i \in 1 .. (IF slice.len = 0 THEN 1 ELSE 2 * slice.len) |->
     IF i <= slice.len THEN Elem(slice, i)
     ELSE IF i = slice.len + 1 THEN s ELSE NoSession]

Idle == [slice |-> NilSlice, next |-> 1]

\* The loop of a notifier after the element at its position.
Advanced(n) ==
  IF n.next = n.slice.len THEN Idle ELSE [n EXCEPT !.next = @ + 1]

\* A running loop has yet to visit slot i of array a.
WillRead(r, a, i) ==
  /\ notifying[r].slice.arr = a
  /\ notifying[r].next <= i
  /\ i <= notifying[r].slice.len

-----------------------------------------------------------------------------
FeedInit ==
  /\ version = 0
  /\ subscribers = NilSlice
  /\ heap = <<>>
  /\ mu = NoSession
  /\ todo = {}
  /\ shifted = <<>>
  /\ notifying = [r \in Rebuilders |-> Idle]
  /\ token = [s \in Connections |-> 0]
  /\ conn = [s \in Connections |-> "idle"]
  /\ telling = [s \in Connections |-> "nothing"]
  /\ heard = [s \in Connections |-> FALSE]
  /\ known = [s \in Connections |-> Never]
  /\ since = [s \in Connections |-> 0]
  /\ disturbed = {}

\* HandleSSE up to the flush of the endpoint event: from here the client may
\* post requests.
Announce(s) ==
  /\ conn[s] = "idle"
  /\ conn' = [conn EXCEPT ![s] = "announced"]
  /\ UNCHANGED <<version, sliceVars, notifying, token, telling, heard, known, since, disturbed>>

\* Registry.Subscribe, called after the endpoint event was flushed.
Subscribe(s) ==
  /\ conn[s] = "announced"
  /\ mu = NoSession
  /\ \/ /\ subscribers.len < CapOf(subscribers)
        /\ heap' = [heap EXCEPT ![subscribers.arr][subscribers.len + 1] = s]
        /\ subscribers' = [subscribers EXCEPT !.len = @ + 1]
     \/ /\ subscribers.len = CapOf(subscribers)
        /\ heap' = Append(heap, Grown(subscribers, s))
        /\ subscribers' = [arr |-> Len(heap) + 1, len |-> subscribers.len + 1]
  /\ conn' = [conn EXCEPT ![s] = "loop"]
  /\ since' = [since EXCEPT ![s] = version]
  /\ UNCHANGED <<version, mu, todo, shifted, notifying, token, telling, heard, known, disturbed>>

\* The connection's context is done: HandleSSE returns from its loop and the
\* deferred calls begin, Unsubscribe first of those that matter here.
Leave(s) ==
  /\ conn[s] = "loop"
  /\ telling[s] = "nothing"
  /\ conn' = [conn EXCEPT ![s] = "leaving"]
  /\ UNCHANGED <<version, sliceVars, notifying, token, telling, heard, known, since, disturbed>>

\* Mutant of UnsubscribeFind: the tail is taken one element too late.
UnsubscribeFindLate(s) ==
  \E i \in 1 .. subscribers.len :
    /\ conn[s] = "leaving"
    /\ mu = NoSession
    /\ Elem(subscribers, i) = s
    /\ mu' = s
    /\ todo' = i + 1 .. subscribers.len - 1
    /\ shifted' = Tail(heap[subscribers.arr])
    /\ UNCHANGED <<version, subscribers, heap, notifying, token, conn, telling, heard, known,
                   since, disturbed>>

\* Registry.Unsubscribe takes the lock, finds the channel at slot i and loads
\* the elements behind it; append(subs[:i], subs[i+1:]...) will store them one
\* slot lower, in the array that running notification loops read unlocked.
UnsubscribeFind(s) ==
  \E i \in 1 .. subscribers.len :
    /\ conn[s] = "leaving"
    /\ mu = NoSession
    /\ Elem(subscribers, i) = s
    /\ \A j \in 1 .. i - 1 : Elem(subscribers, j) # s
    /\ mu' = s
    /\ todo' = i .. subscribers.len - 1
    /\ shifted' = Tail(heap[subscribers.arr])
    /\ disturbed' = disturbed \cup
         {Elem(subscribers, j) : j \in {k \in i + 1 .. subscribers.len :
            \E r \in Rebuilders : WillRead(r, subscribers.arr, k)}}
    /\ UNCHANGED <<version, subscribers, heap, notifying, token, conn, telling, heard,
                   known, since>>

\* One store of the move.  Nothing orders the stores for a reader that does
\* not hold the lock, so any slot may be next.
UnsubscribeShift(s) ==
  /\ mu = s
  /\ \E i \in todo :
       /\ heap' = [heap EXCEPT ![subscribers.arr][i] = shifted[i]]
       /\ todo' = todo \ {i}
  /\ UNCHANGED <<version, subscribers, mu, shifted, notifying, token, conn, telling, heard, known,
                 since, disturbed>>

\* The shorter header is assigned and the lock released.  The old last slot
\* keeps its value.
UnsubscribeDone(s) ==
  /\ mu = s
  /\ todo = {}
  /\ subscribers' = [subscribers EXCEPT !.len = @ - 1]
  /\ mu' = NoSession
  /\ shifted' = <<>>
  /\ conn' = [conn EXCEPT ![s] = "gone"]
  /\ UNCHANGED <<version, heap, todo, notifying, token, telling, heard, known, since, disturbed>>

\* RebuildAll up to the unlock: the map is replaced and the header kept.
\* RebuildResources takes the same steps for the resources.
RebuildAll(r) ==
  /\ notifying[r] = Idle
  /\ mu = NoSession
  /\ version < MaxRebuilds
  /\ version' = version + 1
  /\ notifying' = [notifying EXCEPT ![r] =
       IF subscribers.len = 0 THEN Idle ELSE [slice |-> subscribers, next |-> 1]]
  /\ UNCHANGED <<sliceVars, token, conn, telling, heard, known, since, disturbed>>

\* Mutants of NotifyOne: a channel without capacity limit; a loop that returns at
\* the first full channel.
NotifyOneUncapped(r) ==
  LET n == notifying[r] IN
  /\ n.next <= n.slice.len
  /\ token' = [token EXCEPT ![Elem(n.slice, n.next)] = @ + 1]
  /\ notifying' = [notifying EXCEPT ![r] = Advanced(n)]
  /\ UNCHANGED <<version, sliceVars, conn, telling, heard, known, since, disturbed>>

NotifyOneStopsAtFull(r) ==
  LET n == notifying[r] IN
  /\ n.next <= n.slice.len
  /\ token' = [token EXCEPT ![Elem(n.slice, n.next)] = 1]
  /\ notifying' = [notifying EXCEPT ![r] =
       IF token[Elem(n.slice, n.next)] = 1 THEN Idle ELSE Advanced(n)]
  /\ UNCHANGED <<version, sliceVars, conn, telling, heard, known, since, disturbed>>

\* A third: a send without the default case, which waits for room.
NotifyOneWaits(r) ==
  LET n == notifying[r] IN
  /\ n.next <= n.slice.len
  /\ \/ /\ token[Elem(n.slice, n.next)] = 0
        /\ token' = [token EXCEPT ![Elem(n.slice, n.next)] = 1]
        /\ notifying' = [notifying EXCEPT ![r] = Advanced(n)]
     \/ /\ token[Elem(n.slice, n.next)] = 1
        /\ UNCHANGED <<token, notifying>>
  /\ UNCHANGED <<version, sliceVars, conn, telling, heard, known, since, disturbed>>

\* One iteration of notifySubscribers, without the lock: the element is read
\* now, and the send is skipped when the channel holds a token already.
NotifyOne(r) ==
  LET n == notifying[r] IN
  /\ n.next <= n.slice.len
  /\ token' = [token EXCEPT ![Elem(n.slice, n.next)] = 1]
  /\ notifying' = [notifying EXCEPT ![r] = Advanced(n)]
  /\ UNCHANGED <<version, sliceVars, conn, telling, heard, known, since, disturbed>>

\* The select of HandleSSE takes a case, and its loop begins to write: tools/list_changed
\* for the token, or something else, a response or a heartbeat.  (The latter only to
\* clients that may not read it: to one that reads, such a write ends, and is left out.)
BeginTelling(s, what) ==
  /\ conn[s] = "loop"
  /\ telling[s] = "nothing"
  /\ \/ what = "changed" /\ token[s] = 1 /\ token' = [token EXCEPT ![s] = 0]
     \/ what = "other" /\ s \notin Readers /\ token' = token
  /\ telling' = [telling EXCEPT ![s] = what]
  /\ UNCHANGED <<version, sliceVars, notifying, conn, heard, known, since, disturbed>>

\* The write returns and the loop goes on.  There is no write deadline: the write
\* takes as long as the client does not read.
FinishTelling(s) ==
  /\ telling[s] # "nothing"
  /\ telling' = [telling EXCEPT ![s] = "nothing"]
  /\ heard' = [heard EXCEPT ![s] = @ \/ telling[s] = "changed"]
  /\ UNCHANGED <<version, sliceVars, notifying, token, conn, known, since, disturbed>>

\* A tools/list request of the client, answered from Registry.List (RLock).
ListTools(s) ==
  /\ conn[s] \in {"announced", "loop"}
  /\ mu = NoSession
  /\ known' = [known EXCEPT ![s] = version]
  /\ heard' = [heard EXCEPT ![s] = FALSE]
  /\ disturbed' = disturbed \ {s}
  /\ UNCHANGED <<version, sliceVars, notifying, token, conn, telling, since>>

\* The bounds are used up: every session has come and gone.
FeedTerminated ==
  /\ version = MaxRebuilds
  /\ \A s \in Connections : conn[s] = "gone"
  /\ \A r \in Rebuilders : notifying[r] = Idle
  /\ UNCHANGED feedVars

FeedNext ==
  \/ \E s \in Connections :
       \/ Announce(s) \/ Subscribe(s) \/ Leave(s)
       \/ UnsubscribeFind(s) \/ UnsubscribeShift(s) \/ UnsubscribeDone(s)
       \/ \E what \in {"changed", "other"} : BeginTelling(s, what)
       \/ FinishTelling(s) \/ ListTools(s)
  \/ \E r \in Rebuilders : RebuildAll(r) \/ NotifyOne(r)
  \/ FeedTerminated

\* Goroutines that can run do run; select picks at random among what is ready,
\* so a token that stays in the channel is taken once the loop is not writing.
\* A write ends, and a client asks for the tools, only where the client does its
\* part: nothing makes one read.
FeedFairness ==
  /\ \A r \in Rebuilders : WF_feedVars(NotifyOne(r))
  /\ \A s \in Connections :
       /\ WF_feedVars(Subscribe(s))
       /\ WF_feedVars(BeginTelling(s, "changed"))
       /\ WF_feedVars(UnsubscribeShift(s) \/ UnsubscribeDone(s))
  /\ \A s \in Readers :
       /\ WF_feedVars(FinishTelling(s))
       /\ WF_feedVars(heard[s] /\ ListTools(s))

FeedSpec == FeedInit /\ [][FeedNext]_feedVars
FeedFairSpec == FeedSpec /\ FeedFairness

-----------------------------------------------------------------------------
Slots == Connections \cup {NoSession}
SliceType == [arr : 0 .. Len(heap), len : 0 .. Cardinality(Connections)]

FeedTypeOK ==
  /\ version \in 0 .. MaxRebuilds
  /\ heap \in Seq(Seq(Slots))
  /\ subscribers \in SliceType
  /\ mu \in Slots
  /\ todo \subseteq 1 .. subscribers.len
  /\ shifted \in Seq(Slots)
  /\ notifying \in [Rebuilders -> [slice : SliceType, next : Nat \ {0}]]
  /\ token \in [Connections -> {0, 1}]
  /\ conn \in [Connections -> {"idle", "announced", "loop", "leaving", "gone"}]
  /\ telling \in [Connections -> {"nothing", "other", "changed"}]
  /\ heard \in [Connections -> BOOLEAN]
  /\ known \in [Connections -> {Never} \cup 0 .. version]
  /\ since \in [Connections -> 0 .. version]
  /\ disturbed \subseteq Connections

\* The sessions that have subscribed and not unsubscribed.
Subscribed == {s \in Connections : conn[s] \in {"loop", "leaving"}}

\* Whenever the lock is free, the slice holds the channel of every subscribed
\* session once and nothing else: neither the in-place removal nor an append
\* over a stale tail loses or duplicates a subscriber (registry.go:53-70).
SubscribersExact ==
  mu = NoSession =>
    /\ subscribers.len = Cardinality(Subscribed)
    /\ {Elem(subscribers, i) : i \in 1 .. subscribers.len} = Subscribed

\* The client of a subscribed session is behind a rebuild made since it
\* subscribed.
Behind(s) ==
  /\ conn[s] = "loop"
  /\ known[s] # Never
  /\ known[s] < version
  /\ since[s] < version

\* The news has left the notification loops: it is in the channel, being written
\* or at the client.
Sent(s) == token[s] = 1 \/ telling[s] = "changed" \/ heard[s]

\* The news is still under way: sent, or in a slot that a running notification
\* loop has yet to read.
UnderWay(s) ==
  \/ Sent(s)
  \/ \E r \in Rebuilders : \E i \in 1 .. notifying[r].slice.len :
       WillRead(r, notifying[r].slice.arr, i) /\ Elem(notifying[r].slice, i) = s

\* A client that is behind will be told, unless an Unsubscribe of a session
\* ahead of it moved its channel while a notification loop was still to read
\* it: the loop reads the shared array without the lock (registry.go:64-79).
BehindIsUnderWay ==
  \A s \in Connections \ disturbed : Behind(s) => UnderWay(s)

\* A client that reads its stream and is behind a rebuild made since it
\* subscribed catches up or leaves, unless an Unsubscribe moved its channel under a
\* loop; although two rebuilds notify at the same time, a full channel drops a
\* notification, and another client never reads, so that its loop hangs in a write
\* and its channel stays full (registry/registry.go:72-79).
CatchesUp ==
  \A s \in Readers :
    Behind(s) ~> (known[s] = version \/ conn[s] # "loop" \/ s \in disturbed)

=============================================================================
