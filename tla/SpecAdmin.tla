------------------------------ MODULE SpecAdmin ------------------------------
(***************************************************************************)
(* The admin API's spec requests (admin/specs.go, admin/operations.go) on  *)
(* the JSON store (store/jsonstore.go) and the registry they rebuild.      *)
(*                                                                         *)
(* A spec is two files, its record and its operations, read and written    *)
(* one at a time without any lock across them; every request that changes  *)
(* one ends with a rebuild that reads all files again, one by one, and     *)
(* installs what it read.  Requests run concurrently.  The process may be  *)
(* killed between any two steps, and rebuilds in the same way when it is   *)
(* started.  A rebuild leaves out what it cannot read, and gives up when   *)
(* it cannot list the specs; the request is answered all the same.         *)
(*                                                                         *)
(* A record is its patchable fields, an operations file the operations     *)
(* that are enabled; the spec document in a record never changes and is    *)
(* left out, and tools of different specs have different names here.       *)
(* writeJSONAtomic is one step: module AtomicFile has its steps.           *)
(***************************************************************************)
EXTENDS Naturals, FiniteSets

CONSTANTS
  Admins,       \* the goroutines that serve admin requests
  Specs,        \* spec identifiers; a fresh one is taken by every upload
  Ops,          \* the operations of a spec document
  Fields,       \* the patchable fields of a spec record
  MaxRequests,  \* bound on the number of requests
  MaxCrashes,   \* bound on the number of kills
  ReadsFail,    \* whether a file or directory of the store can be unreadable
  Absent,       \* no such file; no promise
  NoSpec        \* an idle admin's spec

ASSUME AdminsAssumption == IsFiniteSet(Admins) /\ Admins # {}
ASSUME AbsentAssumption == Absent \notin Specs /\ NoSpec \notin Specs /\ Absent # NoSpec
ASSUME BoundsAssumption == MaxRequests \in Nat /\ MaxCrashes \in Nat
ASSUME ReadsFailAssumption == ReadsFail \in BOOLEAN

VARIABLES
  specFile,   \* Specs -> the record, or Absent
  opsFile,    \* Specs -> the enabled operations, or Absent
  authFile,   \* the specs that have an auth file (put there by the operator)
  registry,   \* Specs -> the spec's tools in the registry
  pc,         \* Admins -> the next step of the handler
  target,     \* Admins -> the spec the request is about
  newRec,     \* Admins -> the record the handler is about to write
  newOps,     \* Admins -> the operations the handler is about to write
  change,     \* Admins -> the change the request asks for
  todo,       \* Admins -> the specs the rebuild has still to read
  read,       \* Admins -> the records the rebuild has read
  built,      \* Admins -> the tools the rebuild has collected
  requests,   \* number of requests so far
  crashes,    \* number of kills so far
  used,       \* the spec identifiers already given out
  promised,   \* Specs -> the files the answered requests amount to (history)
  spoiled,    \* specs that two requests worked on at once, or of which a file
              \* could not be removed (history)
  unsure,     \* Admins -> the specs that its rebuild may have wrong: another request
              \* was at work on them since it began, or a file could not be read (history)
  lapsed      \* the specs that the last rebuild installed was unsure of, and those whose
              \* request could not rebuild (history)

files == <<specFile, opsFile, authFile>>
newFiles == <<newRec, newOps>>
rebuildVars == <<todo, read, built>>
history == <<promised, spoiled, unsure, lapsed>>
vars == <<specFile, opsFile, authFile, registry, pc, target, newRec, newOps, change, todo,
          read, built, requests, crashes, used, promised, spoiled, unsure, lapsed>>

-----------------------------------------------------------------------------
Records == [Fields -> {0, 1}]

Default == [f \in Fields |-> 0]

NoTools == [rec |-> Default, ops |-> {}]

\* The tools a rebuild makes of a record and its enabled operations.
Tools(rec, enabled) ==
  IF rec = Absent \/ enabled = Absent \/ enabled = {} THEN NoTools
  ELSE [rec |-> rec, ops |-> enabled]

StoredTools(s) == Tools(specFile[s], opsFile[s])

\* What a request asks for: Update sets a field, Toggle an operation's flag.
Upload == [kind |-> "create"]
Removal == [kind |-> "delete"]
Patches == [kind : {"update"}, field : Fields, value : {0, 1}]
Switches == [kind : {"toggle"}, op : Ops, value : BOOLEAN]
NoChange == [kind |-> "none"]
Startup == [kind |-> "start"]

\* Mutant of Patched: a field set to its zero value is left out of the record.
PatchedOmitting(rec, c) ==
  IF c.value = 0 THEN [f \in Fields \ {c.field} |-> rec[f]]
  ELSE [rec EXCEPT ![c.field] = c.value]

Patched(rec, c) == [rec EXCEPT ![c.field] = c.value]

Switched(enabled, c) == IF c.value THEN enabled \cup {c.op} ELSE enabled \ {c.op}

Gone == [rec |-> Absent, ops |-> Absent]

ASSUME ContentsAssumption == Absent # Gone

\* The promise for a spec once the request for change c has succeeded.
Fulfilled(p, c) ==
  CASE c.kind = "create" -> [rec |-> Default, ops |-> Ops]
    [] c.kind = "delete" -> Gone
    [] c.kind = "update" -> IF p = Absent \/ p = Gone THEN Absent
                            ELSE [p EXCEPT !.rec = Patched(@, c)]
    [] c.kind = "toggle" -> IF p = Absent \/ p = Gone THEN Absent
                            ELSE [p EXCEPT !.ops = Switched(@, c)]

\* The process has been started and rebuilds: it does not serve requests yet.
Starting == \E r \in Admins : change[r] = Startup

InProgress == {r \in Admins : pc[r] # "idle"}
WorkingOn(s) == {r \in InProgress : target[r] = s}

Init ==
  /\ specFile = [s \in Specs |-> Absent]
  /\ opsFile = [s \in Specs |-> Absent]
  /\ authFile = {}
  /\ registry = [s \in Specs |-> NoTools]
  /\ pc = [r \in Admins |-> "idle"]
  /\ target = [r \in Admins |-> NoSpec]
  /\ newRec = [r \in Admins |-> Absent]
  /\ newOps = [r \in Admins |-> Absent]
  /\ change = [r \in Admins |-> NoChange]
  /\ todo = [r \in Admins |-> {}]
  /\ read = [r \in Admins |-> [s \in Specs |-> Absent]]
  /\ built = [r \in Admins |-> [s \in Specs |-> NoTools]]
  /\ requests = 0
  /\ crashes = 0
  /\ used = {}
  /\ promised = [s \in Specs |-> Absent]
  /\ spoiled = {}
  /\ unsure = [r \in Admins |-> {}]
  /\ lapsed = {}

-----------------------------------------------------------------------------
(* Requests. *)

Reading == {"read_specs", "read_ops"}

Goto(r, from, to) == pc[r] = from /\ pc' = [pc EXCEPT ![r] = to]

\* A request for spec s is accepted with its first read of the store done.
Begin(r, s, c, rec, to) ==
  /\ Goto(r, "idle", to)
  /\ ~Starting
  /\ requests < MaxRequests
  /\ requests' = requests + 1
  /\ target' = [target EXCEPT ![r] = s]
  /\ change' = [change EXCEPT ![r] = c]
  /\ newRec' = [newRec EXCEPT ![r] = rec]
  /\ spoiled' = IF WorkingOn(s) = {} THEN spoiled ELSE spoiled \cup {s}
  /\ unsure' = [q \in Admins |-> IF pc[q] \in Reading THEN unsure[q] \cup {s} ELSE unsure[q]]
  /\ UNCHANGED <<files, registry, newOps, rebuildVars, crashes, promised, lapsed>>

\* Create: the document was parsed and its operations extracted, all enabled.
Create(r) ==
  \E s \in Specs \ used :
    /\ used' = used \cup {s}
    /\ Begin(r, s, Upload, Default, "save_spec")

\* Update reads the record and sets the fields of the body; 404 without it.
Update(r) ==
  \E s \in Specs, c \in Patches :
    /\ specFile[s] # Absent
    /\ Begin(r, s, c, Patched(specFile[s], c), "save_spec")
    /\ UNCHANGED used

Delete(r) ==
  \E s \in Specs :
    /\ specFile[s] # Absent
    /\ Begin(r, s, Removal, Absent, "delete_spec")
    /\ UNCHANGED used

\* UpdateOperation reads the operations to find the one to set; 404 without.
Toggle(r) ==
  \E s \in Specs, c \in Switches :
    /\ opsFile[s] # Absent
    /\ Begin(r, s, c, Absent, "reread_ops")
    /\ UNCHANGED used

\* The file that Update, Delete or UpdateOperation reads first is not there or
\* cannot be read: 404, and nothing is changed or rebuilt.
NotFound(r) ==
  /\ pc[r] = "idle"
  /\ ~Starting
  /\ requests < MaxRequests
  /\ requests' = requests + 1
  /\ UNCHANGED <<files, registry, pc, target, newFiles, change, rebuildVars, crashes, used,
                 history>>

\* The handler returns; the rebuild's locals are forgotten.
Return(r) ==
  /\ pc' = [pc EXCEPT ![r] = "idle"]
  /\ target' = [target EXCEPT ![r] = NoSpec]
  /\ newRec' = [newRec EXCEPT ![r] = Absent]
  /\ newOps' = [newOps EXCEPT ![r] = Absent]
  /\ change' = [change EXCEPT ![r] = NoChange]
  /\ todo' = [todo EXCEPT ![r] = {}]
  /\ read' = [read EXCEPT ![r] = [s \in Specs |-> Absent]]
  /\ built' = [built EXCEPT ![r] = [s \in Specs |-> NoTools]]

\* A save fails, or the operations to update are gone or cannot be read: 500,
\* and no rebuild.
Fail(r) ==
  /\ pc[r] \in {"save_spec", "save_ops", "reread_ops"}
  /\ Return(r)
  /\ promised' = IF change[r].kind = "create"
                 THEN [promised EXCEPT ![target[r]] = Absent] ELSE promised
  /\ UNCHANGED <<files, registry, requests, crashes, used, spoiled, unsure, lapsed>>

SaveSpec(r) ==
  /\ Goto(r, "save_spec", IF change[r].kind = "create" THEN "save_ops" ELSE "list")
  /\ specFile' = [specFile EXCEPT ![target[r]] = newRec[r]]
  /\ newRec' = [newRec EXCEPT ![r] = Absent]
  /\ newOps' = [newOps EXCEPT ![r] = IF change[r].kind = "create" THEN Ops ELSE Absent]
  /\ UNCHANGED <<opsFile, authFile, registry, target, change, rebuildVars, requests,
                 crashes, used, history>>

\* store.UpdateOperation reads the operations again and replaces the one.
RereadOps(r) ==
  /\ Goto(r, "reread_ops", "save_ops")
  /\ opsFile[target[r]] # Absent
  /\ newOps' = [newOps EXCEPT ![r] = Switched(opsFile[target[r]], change[r])]
  /\ UNCHANGED <<files, registry, target, newRec, change, rebuildVars, requests, crashes, used,
                 history>>

SaveOps(r) ==
  /\ Goto(r, "save_ops", "list")
  /\ opsFile' = [opsFile EXCEPT ![target[r]] = newOps[r]]
  /\ newOps' = [newOps EXCEPT ![r] = Absent]
  /\ UNCHANGED <<specFile, authFile, registry, target, newRec, change, rebuildVars,
                 requests, crashes, used, history>>

\* Delete ignores the errors of its three removals.
DeleteSpec(r) ==
  /\ Goto(r, "delete_spec", "delete_ops")
  /\ \/ specFile' = [specFile EXCEPT ![target[r]] = Absent] /\ spoiled' = spoiled
     \/ specFile' = specFile /\ spoiled' = spoiled \cup {target[r]}
  /\ UNCHANGED <<opsFile, authFile, registry, target, newFiles, change, rebuildVars, requests,
                 crashes, used, promised, unsure, lapsed>>

\* Mutant of DeleteOps: only the record is removed.
DeleteOpsMissing(r) ==
  /\ Goto(r, "delete_ops", "delete_auth")
  /\ UNCHANGED <<files, registry, target, newFiles, change, rebuildVars, requests,
                 crashes, used, history>>

DeleteOps(r) ==
  /\ Goto(r, "delete_ops", "delete_auth")
  /\ \/ opsFile' = [opsFile EXCEPT ![target[r]] = Absent] /\ spoiled' = spoiled
     \/ opsFile' = opsFile /\ spoiled' = spoiled \cup {target[r]}
  /\ UNCHANGED <<specFile, authFile, registry, target, newFiles, change, rebuildVars, requests,
                 crashes, used, promised, unsure, lapsed>>

DeleteAuth(r) ==
  /\ Goto(r, "delete_auth", "list")
  /\ \/ authFile' = authFile \ {target[r]} /\ spoiled' = spoiled
     \/ authFile' = authFile /\ spoiled' = spoiled \cup {target[r]}
  /\ UNCHANGED <<specFile, opsFile, registry, target, newFiles, change, rebuildVars, requests,
                 crashes, used, promised, unsure, lapsed>>

-----------------------------------------------------------------------------
(* RebuildRegistryFromStore, called by the handler before it answers, and at start. *)

\* ListSpecs: the directory is read ...
ListSpecs(r) ==
  /\ Goto(r, "list", "read_specs")
  /\ todo' = [todo EXCEPT ![r] = {s \in Specs : specFile[s] # Absent}]
  /\ unsure' = [unsure EXCEPT ![r] = {target[q] : q \in InProgress \ {r}}]
  /\ UNCHANGED <<files, registry, target, newFiles, change, read, built, requests, crashes,
                 used, promised, spoiled, lapsed>>

\* The request is answered as done, whatever has become of its rebuild.
Answer(r) ==
  /\ promised' = [s \in Specs |->
       IF s = target[r] THEN Fulfilled(promised[s], change[r]) ELSE promised[s]]
  /\ Return(r)

\* ... or cannot be: the rebuild gives up, and the old tools stay in the registry.
ListFails(r) ==
  /\ ReadsFail
  /\ pc[r] = "list"
  /\ lapsed' = lapsed \cup (Specs \cap {target[r]})
  /\ Answer(r)
  /\ UNCHANGED <<files, registry, requests, crashes, used, spoiled, unsure>>

\* Each file listed is read; one that has gone meanwhile, or that cannot be
\* read, is skipped.
ReadSpec(r) ==
  /\ pc[r] = "read_specs"
  /\ \/ \E s \in todo[r] :
          /\ \/ read' = [read EXCEPT ![r][s] = specFile[s]] /\ unsure' = unsure
             \/ /\ ReadsFail
                /\ read' = read
                /\ unsure' = [unsure EXCEPT ![r] = @ \cup {s}]
          /\ todo' = [todo EXCEPT ![r] = @ \ {s}]
          /\ pc' = pc
     \/ /\ todo[r] = {}
        /\ todo' = [todo EXCEPT ![r] = {s \in Specs : read[r][s] # Absent}]
        /\ pc' = [pc EXCEPT ![r] = "read_ops"]
        /\ UNCHANGED <<read, unsure>>
  /\ UNCHANGED <<files, registry, target, newFiles, change, built, requests, crashes, used,
                 promised, spoiled, lapsed>>

\* Mutant of ReadOps: disabled operations are not filtered out.
ReadOpsUnfiltered(r) ==
  /\ pc[r] = "read_ops"
  /\ \E s \in todo[r] :
       /\ built' = [built EXCEPT ![r][s] = Tools(read[r][s], Ops)]
       /\ todo' = [todo EXCEPT ![r] = @ \ {s}]
  /\ UNCHANGED <<files, registry, pc, target, newFiles, change, read, requests, crashes,
                 used, history>>

\* The operations of each spec that was read; without them it has no tools.
ReadOps(r) ==
  /\ pc[r] = "read_ops"
  /\ \E s \in todo[r] :
       /\ \/ /\ built' = [built EXCEPT ![r][s] = Tools(read[r][s], opsFile[s])]
             /\ unsure' = unsure
          \/ /\ ReadsFail
             /\ built' = built
             /\ unsure' = [unsure EXCEPT ![r] = @ \cup {s}]
       /\ todo' = [todo EXCEPT ![r] = @ \ {s}]
  /\ UNCHANGED <<files, registry, pc, target, newFiles, change, read, requests, crashes, used,
                 promised, spoiled, lapsed>>

\* Mutant of Install: the new tools are added to the old map.
InstallMerging(r) ==
  /\ pc[r] = "read_ops"
  /\ todo[r] = {}
  /\ registry' = [s \in Specs |-> IF built[r][s] = NoTools THEN registry[s] ELSE built[r][s]]
  /\ lapsed' = unsure[r]
  /\ Answer(r)
  /\ UNCHANGED <<files, requests, crashes, used, spoiled, unsure>>

\* Registry.RebuildAll replaces the tools.  The rebuild of the resources follows,
\* which module Resources has, and the request is answered.
Install(r) ==
  /\ pc[r] = "read_ops"
  /\ todo[r] = {}
  /\ registry' = built[r]
  /\ lapsed' = unsure[r]
  /\ Answer(r)
  /\ UNCHANGED <<files, requests, crashes, used, spoiled, unsure>>

-----------------------------------------------------------------------------
\* The operator puts an auth file for a spec into the data directory.
PlaceAuth(s) ==
  /\ specFile[s] # Absent
  /\ s \notin authFile
  /\ authFile' = authFile \cup {s}
  /\ UNCHANGED <<specFile, opsFile, registry, pc, target, newFiles, change, rebuildVars,
                 requests, crashes, used, history>>

\* The process is killed: unanswered requests are promised nothing, the files
\* stay as they are.  It starts again with an empty registry, and the goroutine
\* that starts it, r, rebuilds before it serves requests.
CrashAndRestart(r) ==
  /\ crashes < MaxCrashes
  /\ crashes' = crashes + 1
  /\ promised' = [s \in Specs |-> IF WorkingOn(s) # {} THEN Absent ELSE promised[s]]
  /\ registry' = [s \in Specs |-> NoTools]
  /\ pc' = [q \in Admins |-> IF q = r THEN "list" ELSE "idle"]
  /\ target' = [q \in Admins |-> NoSpec]
  /\ newRec' = [q \in Admins |-> Absent]
  /\ newOps' = [q \in Admins |-> Absent]
  /\ change' = [q \in Admins |-> IF q = r THEN Startup ELSE NoChange]
  /\ todo' = [q \in Admins |-> {}]
  /\ read' = [q \in Admins |-> [s \in Specs |-> Absent]]
  /\ built' = [q \in Admins |-> [s \in Specs |-> NoTools]]
  /\ unsure' = [q \in Admins |-> {}]
  /\ lapsed' = Specs
  /\ UNCHANGED <<files, requests, used, spoiled>>

\* The bound on requests is used up and all of them are answered.
Terminated ==
  /\ requests = MaxRequests
  /\ InProgress = {}
  /\ UNCHANGED vars

HandlerStep(r) ==
  \/ Fail(r) \/ SaveSpec(r) \/ RereadOps(r) \/ SaveOps(r)
  \/ DeleteSpec(r) \/ DeleteOps(r) \/ DeleteAuth(r)
  \/ ListSpecs(r) \/ ListFails(r) \/ ReadSpec(r) \/ ReadOps(r) \/ Install(r)

Next ==
  \/ \E r \in Admins :
       \/ Create(r) \/ Update(r) \/ Delete(r) \/ Toggle(r) \/ NotFound(r)
       \/ HandlerStep(r) \/ CrashAndRestart(r)
  \/ \E s \in Specs : PlaceAuth(s)
  \/ Terminated

Spec == Init /\ [][Next]_vars

-----------------------------------------------------------------------------
Steps == {"idle", "save_spec", "save_ops", "reread_ops", "delete_spec", "delete_ops",
          "delete_auth", "list", "read_specs", "read_ops"}
ToolSets == [rec : Records, ops : SUBSET Ops]
SpecContents == Records \cup {Absent}
OpsContents == (SUBSET Ops) \cup {Absent}

TypeOK ==
  /\ specFile \in [Specs -> SpecContents]
  /\ opsFile \in [Specs -> OpsContents]
  /\ authFile \subseteq Specs
  /\ registry \in [Specs -> ToolSets]
  /\ pc \in [Admins -> Steps]
  /\ target \in [Admins -> Specs \cup {NoSpec}]
  /\ newRec \in [Admins -> SpecContents]
  /\ newOps \in [Admins -> OpsContents]
  /\ change \in [Admins -> {Upload, Removal, NoChange, Startup} \cup Patches \cup Switches]
  /\ todo \in [Admins -> SUBSET Specs]
  /\ read \in [Admins -> [Specs -> SpecContents]]
  /\ built \in [Admins -> [Specs -> ToolSets]]
  /\ requests \in 0 .. MaxRequests
  /\ crashes \in 0 .. MaxCrashes
  /\ used \subseteq Specs
  /\ promised \in [Specs -> [rec : SpecContents, ops : OpsContents] \cup {Absent}]
  /\ spoiled \subseteq Specs
  /\ unsure \in [Admins -> SUBSET Specs]
  /\ lapsed \subseteq Specs

\* Across failures and restarts, and whatever is done to other specs meanwhile,
\* the files of a spec are what its answered requests amount to, as long as no
\* two requests worked on that spec at once and no removal failed.
PromisesKept ==
  \A s \in Specs \ spoiled :
    WorkingOn(s) = {} /\ promised[s] # Absent
      => specFile[s] = promised[s].rec /\ opsFile[s] = promised[s].ops

\* When no request is at work the registry serves, of each spec, exactly the
\* enabled operations that are stored, through failing saves, restarts and
\* requests for other specs at the same time.  Excepted are only the specs that
\* the last rebuild installed could not read or read while another request was at
\* work on them, and a change whose own rebuild could not list the specs: they
\* stay as they were until a later rebuild (admin/specs.go:243-291).
RegistryFollowsStore ==
  InProgress = {} => \A s \in Specs \ lapsed : registry[s] = StoredTools(s)

\* A request's own rebuild never installs tools of its spec that are older
\* than what the request wrote, however many rebuilds run at the same time,
\* unless its files cannot be read or another request is at work on the same spec.
OwnWriteInstalled ==
  \A r \in Admins :
    pc[r] = "read_ops" /\ todo[r] = {} /\ target[r] \in Specs \ unsure[r]
      => built[r][target[r]] = StoredTools(target[r])

\* "Delete spec -> removes its tools from registry" (PLAN.md:285): once all
\* requests are answered, no tool of a deleted spec is served.
DeletedToolsGone ==
  \A s \in Specs \ spoiled : InProgress = {} /\ promised[s] = Gone => registry[s] = NoTools

=============================================================================
