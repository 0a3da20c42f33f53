------------------------------- MODULE Resources -------------------------------
(***************************************************************************)
(* Resources: the admin API's requests for them (admin/resources.go) on    *)
(* the JSON store (store/jsonstore.go), the resource list of the registry  *)
(* and the requests that read content, resources/read of MCP clients       *)
(* (mcp/handlers.go) and GetContent of the admin API.                      *)
(*                                                                         *)
(* A file or text resource is a record and a content file, which different *)
(* steps write, read and remove; a resource of type upstream has a record  *)
(* only.  Every change, and every change of a spec, ends with a rebuild    *)
(* that reads all records and installs them; it leaves out what it cannot  *)
(* read and gives up when it cannot list them, and the request is answered *)
(* all the same.  Requests run concurrently, and the process may be killed *)
(* between any two steps.                                                  *)
(*                                                                         *)
(* The fields that an update can set are one field here.  A save of a      *)
(* record is one step: module AtomicFile has its steps.                    *)
(***************************************************************************)
EXTENDS Naturals, FiniteSets

CONSTANTS
  Admins,       \* the goroutines that serve admin requests
  Readers,      \* the goroutines that read content
  Ids,          \* identifiers; a fresh one is taken by every resource
  MaxRequests,  \* bound on the number of admin requests
  MaxCrashes,   \* bound on the number of kills
  Absent,       \* no such file; no promise
  Gone,         \* the promise of an answered Delete
  NoId

Records == [stored : BOOLEAN, field : {0, 1}]

ASSUME MarkersAssumption ==
  NoId \notin Ids /\ Absent # Gone /\ Absent \notin Records /\ Gone \notin Records
ASSUME BoundsAssumption == MaxRequests \in Nat /\ MaxCrashes \in Nat

VARIABLES
  record,     \* Ids -> resources/<id>.json, or Absent
  content,    \* Ids -> the content file: "none", "partial" or "whole"
  served,     \* Ids -> the record in the registry, or Absent
  pc,         \* Admins -> the next step of the handler
  request,    \* Admins -> what the request is
  target,     \* Admins -> the resource it is about, or NoId
  newRec,     \* Admins -> the record that the handler saves
  todo,       \* Admins -> the resources the rebuild has still to read
  read,       \* Admins -> the records the rebuild has read
  reading,    \* Readers -> the resource whose content file is about to be read
  used,       \* the identifiers already given out
  requests,   \* number of requests so far
  crashes,    \* number of kills so far
  promised,   \* Ids -> the record the answered requests amount to, or Gone (history)
  contested,  \* resources that two requests worked on at once (history)
  doomed,     \* resources whose removal has begun (history)
  leaked,     \* resources whose creation failed or was cut off, or whose content
              \* file could not be removed (history)
  missed      \* Admins -> the resources that its rebuild could not read (history)

locals == <<pc, request, target, newRec, todo, read>>
history == <<promised, contested, doomed, leaked, missed>>
vars == <<record, content, served, pc, request, target, newRec, todo, read, reading, used,
          requests, crashes, promised, contested, doomed, leaked, missed>>

-----------------------------------------------------------------------------
\* Update sets the fields that the body has.
Patched(rec, value) == [rec EXCEPT !.field = value]

InProgress == {r \in Admins : pc[r] # "idle"}
WorkingOn(id) == {r \in InProgress : target[r] = id}

Nothing == [id \in Ids |-> Absent]

Init ==
  /\ record = Nothing
  /\ content = [id \in Ids |-> "none"]
  /\ served = Nothing
  /\ pc = [r \in Admins |-> "idle"]
  /\ request = [r \in Admins |-> "none"]
  /\ target = [r \in Admins |-> NoId]
  /\ newRec = [r \in Admins |-> Absent]
  /\ todo = [r \in Admins |-> {}]
  /\ read = [r \in Admins |-> Nothing]
  /\ reading = [c \in Readers |-> NoId]
  /\ used = {}
  /\ requests = 0
  /\ crashes = 0
  /\ promised = Nothing
  /\ contested = {}
  /\ doomed = {}
  /\ leaked = {}
  /\ missed = [r \in Admins |-> {}]

-----------------------------------------------------------------------------
(* Requests. *)

Goto(r, from, to) == pc[r] = from /\ pc' = [pc EXCEPT ![r] = to]

\* A request is accepted with its first read of the store done.
Begin(r, req, id, rec, to) ==
  /\ Goto(r, "idle", to)
  /\ requests < MaxRequests
  /\ requests' = requests + 1
  /\ request' = [request EXCEPT ![r] = req]
  /\ target' = [target EXCEPT ![r] = id]
  /\ newRec' = [newRec EXCEPT ![r] = rec]
  /\ contested' = IF id = NoId \/ WorkingOn(id) = {} THEN contested ELSE contested \cup {id}
  /\ UNCHANGED <<record, content, served, todo, read, reading, crashes, promised, doomed,
                 leaked, missed>>

\* Create of a file or text, whose content comes first, or of type upstream.
Create(r) ==
  \E id \in Ids \ used, isStored \in BOOLEAN :
    /\ used' = used \cup {id}
    /\ Begin(r, "create", id, [stored |-> isStored, field |-> 0],
             IF isStored THEN "open_content" ELSE "save")

\* Update reads the record and sets fields; 404 without it.
Update(r) ==
  \E id \in Ids, value \in {0, 1} :
    /\ record[id] # Absent
    /\ Begin(r, "update", id, Patched(record[id], value), "save")
    /\ UNCHANGED used

Delete(r) ==
  \E id \in Ids :
    /\ record[id] # Absent
    /\ Begin(r, "delete", id, Absent, "reread")
    /\ UNCHANGED used

\* A request about a spec: it ends with a rebuild of the resources, too.
ChangeSpec(r) ==
  /\ Begin(r, "spec", NoId, Absent, "list")
  /\ UNCHANGED used

\* The handler returns.
Return(r) ==
  /\ pc' = [pc EXCEPT ![r] = "idle"]
  /\ request' = [request EXCEPT ![r] = "none"]
  /\ target' = [target EXCEPT ![r] = NoId]
  /\ newRec' = [newRec EXCEPT ![r] = Absent]
  /\ todo' = [todo EXCEPT ![r] = {}]
  /\ read' = [read EXCEPT ![r] = Nothing]
  /\ missed' = [missed EXCEPT ![r] = {}]

\* Content or record cannot be written, or the record not be read again or not be
\* removed: an error is answered, nothing is undone and nothing rebuilt.
Fail(r) ==
  /\ pc[r] \in {"open_content", "write_content", "save", "reread", "remove_record"}
  /\ Return(r)
  /\ promised' = IF request[r] = "update" THEN promised
                 ELSE [promised EXCEPT ![target[r]] = Absent]
  /\ leaked' = IF request[r] = "create" THEN leaked \cup {target[r]} ELSE leaked
  /\ UNCHANGED <<record, content, served, reading, used, requests, crashes, contested, doomed>>

\* Mutant of OpenContent: the record is saved before the content is written.
OpenContentOnly(r) ==
  /\ Goto(r, "open_content", "save")
  /\ content' = [content EXCEPT ![target[r]] = "partial"]
  /\ UNCHANGED <<record, served, request, target, newRec, todo, read, reading, used, requests,
                 crashes, history>>

\* The content file is created in the resource's own directory ...
OpenContent(r) ==
  /\ Goto(r, "open_content", "write_content")
  /\ content' = [content EXCEPT ![target[r]] = "partial"]
  /\ UNCHANGED <<record, served, request, target, newRec, todo, read, reading, used, requests,
                 crashes, history>>

\* ... and filled.
WriteContent(r) ==
  /\ Goto(r, "write_content", "save")
  /\ content' = [content EXCEPT ![target[r]] = "whole"]
  /\ UNCHANGED <<record, served, request, target, newRec, todo, read, reading, used, requests,
                 crashes, history>>

\* SaveResource of Create and Update.
Save(r) ==
  /\ Goto(r, "save", "list")
  /\ record' = [record EXCEPT ![target[r]] = newRec[r]]
  /\ UNCHANGED <<content, served, request, target, newRec, todo, read, reading, used, requests,
                 crashes, history>>

\* Mutant of Reread: the content file is not removed.
RereadRecordOnly(r) ==
  /\ pc[r] = "reread" /\ record[target[r]] # Absent
  /\ Goto(r, "reread", "remove_record")
  /\ UNCHANGED <<record, content, served, request, target, newRec, todo, read, reading, used,
                 requests, crashes, history>>

\* DeleteResource reads the record again, to see whether there is a content file.
Reread(r) ==
  /\ pc[r] = "reread" /\ record[target[r]] # Absent
  /\ Goto(r, "reread", IF record[target[r]].stored THEN "remove_content" ELSE "remove_record")
  /\ UNCHANGED <<record, content, served, request, target, newRec, todo, read, reading, used,
                 requests, crashes, history>>

\* It ignores an error in removing the content file and its directory ...
RemoveContent(r) ==
  /\ Goto(r, "remove_content", "remove_record")
  /\ doomed' = doomed \cup {target[r]}
  /\ \/ content' = [content EXCEPT ![target[r]] = "none"] /\ leaked' = leaked
     \/ content' = content /\ leaked' = leaked \cup {target[r]}
  /\ UNCHANGED <<record, served, request, target, newRec, todo, read, reading, used, requests,
                 crashes, promised, contested, missed>>

\* Mutant of RemoveRecord: its error is ignored as well.
RemoveRecordUnchecked(r) ==
  /\ Goto(r, "remove_record", "list")
  /\ record' \in {record, [record EXCEPT ![target[r]] = Absent]}
  /\ UNCHANGED <<content, served, request, target, newRec, todo, read, reading, used, requests,
                 crashes, history>>

\* ... and removes the record.
RemoveRecord(r) ==
  /\ Goto(r, "remove_record", "list")
  /\ record[target[r]] # Absent
  /\ record' = [record EXCEPT ![target[r]] = Absent]
  /\ UNCHANGED <<content, served, request, target, newRec, todo, read, reading, used, requests,
                 crashes, history>>

-----------------------------------------------------------------------------
(* rebuildResources, called by the handler before it answers. *)

\* Mutant of ListResources: the registry's list is rebuilt from itself.
ListResourcesServed(r) ==
  /\ Goto(r, "list", "read")
  /\ todo' = [todo EXCEPT ![r] = {id \in Ids : served[id] # Absent}]
  /\ UNCHANGED <<record, content, served, request, target, newRec, read, reading, used,
                 requests, crashes, history>>

\* ListResources reads the directory ...
ListResources(r) ==
  /\ Goto(r, "list", "read")
  /\ todo' = [todo EXCEPT ![r] = {id \in Ids : record[id] # Absent}]
  /\ UNCHANGED <<record, content, served, request, target, newRec, read, reading, used,
                 requests, crashes, history>>

\* The request is answered with the record that was saved, or as done.
Answer(r) ==
  /\ promised' = IF target[r] = NoId THEN promised
                 ELSE [promised EXCEPT ![target[r]] =
                         IF request[r] = "delete" THEN Gone ELSE newRec[r]]
  /\ Return(r)
  /\ UNCHANGED <<record, content, reading, used, requests, crashes, contested, doomed, leaked>>

\* ... or cannot: the rebuild gives up, and the old list is served on.
ListFails(r) ==
  /\ pc[r] = "list"
  /\ served' = served
  /\ Answer(r)

\* Each record listed is read; one that has gone meanwhile, or that cannot be
\* read, is skipped.
ReadRecord(r) ==
  /\ pc[r] = "read"
  /\ \E id \in todo[r] :
       /\ \/ read' = [read EXCEPT ![r][id] = record[id]] /\ missed' = missed
          \/ read' = read /\ missed' = [missed EXCEPT ![r] = @ \cup {id}]
       /\ todo' = [todo EXCEPT ![r] = @ \ {id}]
  /\ UNCHANGED <<record, content, served, pc, request, target, newRec, reading, used, requests,
                 crashes, promised, contested, doomed, leaked>>

\* Registry.RebuildResources replaces the list.
Install(r) ==
  /\ pc[r] = "read"
  /\ todo[r] = {}
  /\ served' = read[r]
  /\ Answer(r)

-----------------------------------------------------------------------------
(* Reading. *)

HasContent(rec) == rec # Absent /\ rec.stored

\* resources/read takes the record from the registry, GetContent from the store.
\* What is not found or has no content file is answered without more ado.
LookUp(c) ==
  /\ reading[c] = NoId
  /\ \E id \in Ids :
       /\ HasContent(served[id]) \/ HasContent(record[id])
       /\ reading' = [reading EXCEPT ![c] = id]
  /\ UNCHANGED <<record, content, served, locals, used, requests, crashes, history>>

\* The content file is read, and the request answered with it or an error.
ReadContent(c) ==
  /\ reading[c] # NoId
  /\ reading' = [reading EXCEPT ![c] = NoId]
  /\ UNCHANGED <<record, content, served, locals, used, requests, crashes, history>>

-----------------------------------------------------------------------------
\* The process is killed and started again; it rebuilds before it serves, without
\* what it cannot read, and without all of it when it cannot list it.
CrashAndRestart ==
  /\ crashes < MaxCrashes
  /\ crashes' = crashes + 1
  /\ promised' = [id \in Ids |-> IF WorkingOn(id) # {} THEN Absent ELSE promised[id]]
  /\ leaked' = leaked \cup {target[r] : r \in {q \in InProgress : request[q] = "create"}}
  /\ \E unreadable \in SUBSET Ids :
       served' = [id \in Ids |-> IF id \in unreadable THEN Absent ELSE record[id]]
  /\ pc' = [r \in Admins |-> "idle"]
  /\ request' = [r \in Admins |-> "none"]
  /\ target' = [r \in Admins |-> NoId]
  /\ newRec' = [r \in Admins |-> Absent]
  /\ todo' = [r \in Admins |-> {}]
  /\ read' = [r \in Admins |-> Nothing]
  /\ reading' = [c \in Readers |-> NoId]
  /\ missed' = [r \in Admins |-> {}]
  /\ UNCHANGED <<record, content, used, requests, contested, doomed>>

\* The bound on requests is used up and all of them are answered.
Terminated ==
  /\ requests = MaxRequests
  /\ InProgress = {}
  /\ UNCHANGED vars

HandlerStep(r) ==
  \/ Fail(r) \/ OpenContent(r) \/ WriteContent(r) \/ Save(r)
  \/ Reread(r) \/ RemoveContent(r) \/ RemoveRecord(r)
  \/ ListResources(r) \/ ListFails(r) \/ ReadRecord(r) \/ Install(r)

Next ==
  \/ \E r \in Admins :
       Create(r) \/ Update(r) \/ Delete(r) \/ ChangeSpec(r) \/ HandlerStep(r)
  \/ \E c \in Readers : LookUp(c) \/ ReadContent(c)
  \/ CrashAndRestart
  \/ Terminated

Spec == Init /\ [][Next]_vars

-----------------------------------------------------------------------------
Steps == {"idle", "open_content", "write_content", "save", "reread", "remove_content",
          "remove_record", "list", "read"}
Stored == [Ids -> Records \cup {Absent}]

TypeOK ==
  /\ record \in Stored
  /\ content \in [Ids -> {"none", "partial", "whole"}]
  /\ served \in Stored
  /\ pc \in [Admins -> Steps]
  /\ request \in [Admins -> {"none", "create", "update", "delete", "spec"}]
  /\ target \in [Admins -> Ids \cup {NoId}]
  /\ newRec \in [Admins -> Records \cup {Absent}]
  /\ todo \in [Admins -> SUBSET Ids]
  /\ read \in [Admins -> Stored]
  /\ reading \in [Readers -> Ids \cup {NoId}]
  /\ used \subseteq Ids
  /\ requests \in 0 .. MaxRequests
  /\ crashes \in 0 .. MaxCrashes
  /\ promised \in [Ids -> Records \cup {Absent, Gone}]
  /\ contested \subseteq Ids
  /\ doomed \subseteq Ids
  /\ leaked \subseteq Ids
  /\ missed \in [Admins -> SUBSET Ids]

\* Whoever has looked a resource up, in the registry or in the store, finds its
\* whole content in the file, unless a Delete of it has begun: not after a
\* creation that failed half way, an update, a rebuild or a restart.
ReadsFindContent ==
  \A c \in Readers :
    reading[c] # NoId /\ reading[c] \notin doomed => content[reading[c]] = "whole"

\* A content file belongs to a record or to a creation that is under way: only
\* what failed or was killed leaves files that nobody refers to.
ContentHasOwner ==
  \A id \in Ids \ leaked :
    content[id] # "none"
      => record[id] # Absent \/ \E r \in WorkingOn(id) : request[r] = "create"

\* Across failures and restarts a resource is what the last answer about it said:
\* the record in the answer, or removed with its content, as long as no two
\* requests worked on it at once.
AnswersHold ==
  \A id \in Ids \ contested :
    WorkingOn(id) = {} /\ promised[id] # Absent =>
      IF promised[id] = Gone
      THEN record[id] = Absent /\ (content[id] = "none" \/ id \in leaked)
      ELSE record[id] = promised[id]

\* A request's own rebuild installs what the request has made of its resource,
\* however many rebuilds run at the same time, unless that rebuild cannot read it
\* (a rebuild that cannot list the records installs nothing).
OwnChangeInstalled ==
  \A r \in Admins :
    pc[r] = "read" /\ todo[r] = {} /\ target[r] \in Ids \ (contested \cup missed[r])
      => read[r][target[r]] = record[target[r]]

=============================================================================
