------------------------------ MODULE ToolCalls ------------------------------
(***************************************************************************)
(* tools/call (mcp/handlers.go): look the tool up in the registry, get the *)
(* authenticator of its spec, build the upstream request, send it, map the *)
(* response, count the call.                                               *)
(*                                                                         *)
(* Authenticators are built from the spec's auth file on first use and     *)
(* cached for good; AuthMu, a sync.RWMutex, guards the cache and is taken  *)
(* for reading first and for writing on a miss.  Meanwhile the operator    *)
(* changes auth files and admins disable, enable and delete specs.         *)
(*                                                                         *)
(* An authenticator is the configuration it was built from.  Each spec has *)
(* one tool.  What Apply, the upstream and MapResponse do is left open:    *)
(* they succeed or fail.                                                   *)
(***************************************************************************)
EXTENDS Integers, FiniteSets

CONSTANTS
  Callers,    \* the goroutines that handle tools/call
  Specs,
  Configs,    \* contents of auth files ...
  Malformed,  \* ... of which NewAuthenticator makes no authenticator
  Absent,     \* no file; no cache entry; no authenticator
  NoOne, NoTool,
  MaxCalls,   \* bound on the number of calls
  MaxEdits    \* bound on the changes by the operator and admins

ASSUME ConfigsAssumption == Malformed \subseteq Configs /\ Absent \notin Configs
ASSUME CallersAssumption == IsFiniteSet(Callers)
ASSUME NamesAssumption == NoOne \notin Callers /\ NoTool \notin Specs
ASSUME BoundsAssumption == MaxCalls \in Nat /\ MaxEdits \in Nat

VARIABLES
  served,     \* the specs whose tool is in the registry
  deleted,    \* the specs that were deleted
  authFile,   \* Specs -> the content of the auth file, or Absent
  cache,      \* Authenticators: Specs -> the authenticator, or Absent
  readers,    \* the callers that hold AuthMu for reading
  writer,     \* the caller that holds it for writing, or waits for the readers
  pc,         \* Callers -> the next step of the handler
  tool,       \* Callers -> the spec of the tool it has looked up
  auth,       \* Callers -> the authenticator, Absent for nil
  stats,      \* Specs -> the counts of the store
  metric,     \* Specs -> mcp_gateway_tool_calls_total
  calls,      \* Specs -> the number of calls that found their tool (history)
  edits,      \* number of changes so far
  built,      \* Specs -> the number of authenticators made and cached (history)
  missing     \* Callers -> no usable auth file at some time of its call (history)

world == <<served, deleted, authFile, edits>>
counters == <<stats, metric, calls>>
lock == <<readers, writer>>
vars == <<served, deleted, authFile, cache, readers, writer, pc, tool, auth, stats, metric,
          calls, edits, built, missing>>

-----------------------------------------------------------------------------
Usable(cfg) == cfg \in Configs \ Malformed

Init ==
  /\ served = Specs
  /\ deleted = {}
  /\ authFile \in [Specs -> Configs \cup {Absent}]
  /\ cache = [s \in Specs |-> Absent]
  /\ readers = {}
  /\ writer = NoOne
  /\ pc = [c \in Callers |-> "idle"]
  /\ tool = [c \in Callers |-> NoTool]
  /\ auth = [c \in Callers |-> Absent]
  /\ stats = [s \in Specs |-> [calls |-> 0, errors |-> 0]]
  /\ metric = [s \in Specs |-> 0]
  /\ calls = [s \in Specs |-> 0]
  /\ edits = 0
  /\ built = [s \in Specs |-> 0]
  /\ missing = [c \in Callers |-> FALSE]

InCall == {c \in Callers : pc[c] # "idle"}
Goto(c, from, to) == pc[c] = from /\ pc' = [pc EXCEPT ![c] = to]

\* Registry.Get; a call whose tool is not found is answered with an error and
\* changes nothing.
Find(c) ==
  /\ Goto(c, "idle", "rlock")
  /\ \E s \in served :
       /\ calls[s] < MaxCalls
       /\ calls' = [calls EXCEPT ![s] = @ + 1]
       /\ tool' = [tool EXCEPT ![c] = s]
       /\ missing' = [missing EXCEPT ![c] = ~Usable(authFile[s])]
  /\ UNCHANGED <<world, cache, lock, auth, stats, metric, built>>

-----------------------------------------------------------------------------
(* getAuthenticator. *)

\* AuthMu.RLock: blocked while a writer holds the lock or waits for it.
RLock(c) ==
  /\ Goto(c, "rlock", "look")
  /\ writer = NoOne
  /\ readers' = readers \cup {c}
  /\ UNCHANGED <<world, cache, writer, tool, auth, counters, built, missing>>

\* Mutant of Look: the lock is not released on a hit.
LookKeepsLock(c) ==
  /\ pc[c] = "look"
  /\ auth' = [auth EXCEPT ![c] = cache[tool[c]]]
  /\ pc' = [pc EXCEPT ![c] = IF auth'[c] = Absent THEN "lock" ELSE "build"]
  /\ readers' = IF cache[tool[c]] = Absent THEN readers \ {c} ELSE readers
  /\ UNCHANGED <<world, cache, writer, tool, counters, built, missing>>

\* Read the cache and unlock.
Look(c) ==
  /\ pc[c] = "look"
  /\ auth' = [auth EXCEPT ![c] = cache[tool[c]]]
  /\ pc' = [pc EXCEPT ![c] = IF auth'[c] = Absent THEN "lock" ELSE "build"]
  /\ readers' = readers \ {c}
  /\ UNCHANGED <<world, cache, writer, tool, counters, built, missing>>

\* AuthMu.Lock: first among the writers, then wait for the readers.
ClaimLock(c) ==
  /\ Goto(c, "lock", "locking")
  /\ writer = NoOne
  /\ writer' = c
  /\ UNCHANGED <<world, cache, readers, tool, auth, counters, built, missing>>

Lock(c) ==
  /\ Goto(c, "locking", "recheck")
  /\ readers = {}
  /\ UNCHANGED <<world, cache, lock, tool, auth, counters, built, missing>>

\* Mutants of Recheck: the cache is not read again; what it holds is not
\* returned.
RecheckMissing(c) ==
  /\ Goto(c, "recheck", "read_auth")
  /\ UNCHANGED <<world, cache, lock, tool, auth, counters, built, missing>>

RecheckForgets(c) ==
  /\ pc[c] = "recheck"
  /\ pc' = [pc EXCEPT ![c] = IF cache[tool[c]] # Absent THEN "build" ELSE "read_auth"]
  /\ writer' = IF cache[tool[c]] # Absent THEN NoOne ELSE writer
  /\ UNCHANGED <<world, cache, readers, tool, auth, counters, built, missing>>

\* Somebody else may have built the authenticator in the meantime.
Recheck(c) ==
  \/ /\ Goto(c, "recheck", "build")
     /\ cache[tool[c]] # Absent
     /\ auth' = [auth EXCEPT ![c] = cache[tool[c]]]
     /\ writer' = NoOne
     /\ UNCHANGED <<world, cache, readers, tool, counters, built, missing>>
  \/ /\ Goto(c, "recheck", "read_auth")
     /\ cache[tool[c]] = Absent
     /\ UNCHANGED <<world, cache, lock, tool, auth, counters, built, missing>>

\* Store.GetAuth and NewAuthenticator; nothing is cached when one fails.
ReadAuth(c) ==
  /\ Goto(c, "read_auth", "build")
  /\ writer' = NoOne
  /\ LET cfg == authFile[tool[c]] IN
       \/ /\ Usable(cfg)
          /\ cache' = [cache EXCEPT ![tool[c]] = cfg]
          /\ auth' = [auth EXCEPT ![c] = cfg]
          /\ built' = [built EXCEPT ![tool[c]] = @ + 1]
       \/ /\ ~Usable(cfg)
          /\ UNCHANGED <<cache, auth, built>>
  /\ UNCHANGED <<world, readers, tool, counters, missing>>

-----------------------------------------------------------------------------
(* The upstream call. *)

Count(s, isError) ==
  stats' = [stats EXCEPT ![s] = [calls |-> @.calls + 1,
                                 errors |-> @.errors + (IF isError THEN 1 ELSE 0)]]

Answer(c, from) ==
  /\ Goto(c, from, "idle")
  /\ tool' = [tool EXCEPT ![c] = NoTool]
  /\ auth' = [auth EXCEPT ![c] = Absent]
  /\ missing' = [missing EXCEPT ![c] = FALSE]
  /\ UNCHANGED <<world, cache, lock, calls, built>>

\* proxy.Build, which applies the authenticator.
Build(c) ==
  /\ Goto(c, "build", "send")
  /\ UNCHANGED <<world, cache, lock, tool, auth, counters, built, missing>>

\* Mutant of BuildFails: the failed call is not counted.
BuildFailsUncounted(c) ==
  /\ Answer(c, "build")
  /\ UNCHANGED <<stats, metric>>

BuildFails(c) ==
  /\ Answer(c, "build")
  /\ Count(tool[c], TRUE)
  /\ UNCHANGED metric

\* DoMTLS returns an error; the client's timeout is one.
SendFails(c) ==
  /\ Answer(c, "send")
  /\ Count(tool[c], TRUE)
  /\ UNCHANGED metric

\* The upstream has responded: an error when the body cannot be read or the
\* status is 400 or more.
Respond(c) ==
  /\ Answer(c, "send")
  /\ \E isError \in BOOLEAN : Count(tool[c], isError)
  /\ metric' = [metric EXCEPT ![tool[c]] = @ + 1]

-----------------------------------------------------------------------------
(* What others do meanwhile. *)

Edit ==
  /\ edits < MaxEdits
  /\ edits' = edits + 1
  /\ missing' = [c \in Callers |-> missing[c] \/ (c \in InCall /\ ~Usable(authFile'[tool[c]]))]
  /\ UNCHANGED <<cache, lock, pc, tool, auth, counters, built>>

\* The operator writes an auth file.
EditAuth ==
  /\ \E s \in Specs \ deleted, cfg \in Configs : authFile' = [authFile EXCEPT ![s] = cfg]
  /\ Edit
  /\ UNCHANGED <<served, deleted>>

\* The spec's only operation is disabled or enabled.
Toggle ==
  /\ \E s \in Specs \ deleted :
       served' = IF s \in served THEN served \ {s} ELSE served \cup {s}
  /\ UNCHANGED <<deleted, authFile>>
  /\ Edit

\* DeleteAuth of specsHandler.Delete; the rebuild follows.
DeleteSpec ==
  /\ \E s \in Specs \ deleted :
       /\ deleted' = deleted \cup {s}
       /\ authFile' = [authFile EXCEPT ![s] = Absent]
  /\ Edit
  /\ UNCHANGED served

RebuildWithout ==
  /\ \E s \in deleted \cap served : served' = served \ {s}
  /\ UNCHANGED <<deleted, authFile, edits, cache, lock, pc, tool, auth, counters, built,
                 missing>>

Step(c) ==
  \/ Look(c) \/ Lock(c) \/ Recheck(c) \/ ReadAuth(c)
  \/ Build(c) \/ BuildFails(c) \/ SendFails(c) \/ Respond(c)

\* The bound on calls is used up.
Terminated ==
  /\ InCall = {}
  /\ \A s \in served : calls[s] = MaxCalls
  /\ UNCHANGED vars

Next ==
  \/ \E c \in Callers : Find(c) \/ RLock(c) \/ ClaimLock(c) \/ Step(c)
  \/ EditAuth \/ Toggle \/ DeleteSpec \/ RebuildWithout
  \/ Terminated

Spec == Init /\ [][Next]_vars

\* A goroutine that waits for a Go mutex gets it in the end, and the upstream
\* client has a timeout.
FairSpec ==
  /\ Spec
  /\ \A c \in Callers : WF_vars(Step(c)) /\ SF_vars(RLock(c)) /\ SF_vars(ClaimLock(c))

-----------------------------------------------------------------------------
Steps == {"idle", "rlock", "look", "lock", "locking", "recheck", "read_auth", "build", "send"}

TypeOK ==
  /\ served \subseteq Specs
  /\ deleted \subseteq Specs
  /\ authFile \in [Specs -> Configs \cup {Absent}]
  /\ cache \in [Specs -> (Configs \ Malformed) \cup {Absent}]
  /\ readers \subseteq Callers
  /\ writer \in Callers \cup {NoOne}
  /\ pc \in [Callers -> Steps]
  /\ tool \in [Callers -> Specs \cup {NoTool}]
  /\ auth \in [Callers -> (Configs \ Malformed) \cup {Absent}]
  /\ stats \in [Specs -> [calls : Nat, errors : Nat]]
  /\ metric \in [Specs -> Nat]
  /\ calls \in [Specs -> 0 .. MaxCalls]
  /\ edits \in 0 .. MaxEdits
  /\ built \in [Specs -> Nat]
  /\ missing \in [Callers -> BOOLEAN]

\* However many first calls race, one authenticator is made for a spec, so all
\* its calls share one OAuth2 token.
OneAuthenticator == \A s \in Specs : built[s] <= 1

\* A call goes upstream without its spec's credentials only if there was no
\* usable auth file at some time during the call: an earlier failure to read
\* the file is not remembered.
BareOnlyWithoutFile ==
  \A c \in Callers : pc[c] \in {"build", "send"} /\ auth[c] = Absent => missing[c]

\* Every call that found its tool is counted once, on success and on each error
\* path, and at most once in the metric.
CountedOnce ==
  \A s \in Specs :
    /\ stats[s].calls + Cardinality({c \in InCall : tool[c] = s}) = calls[s]
    /\ metric[s] <= stats[s].calls

\* No order of lock operations leaves a call unanswered.
CallsAnswered == \A c \in Callers : pc[c] # "idle" ~> pc[c] = "idle"

=============================================================================
