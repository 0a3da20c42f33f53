---------------------------- MODULE SpecAdminProofs ----------------------------
(***************************************************************************)
(* Proofs about SpecAdmin: the invariant IInv, of which follow the types   *)
(* and the properties the runs check, and what remains true of the         *)
(* property that a run refutes.                                            *)
(*                                                                         *)
(* A request is followed by what it knows of its spec when nobody else has *)
(* worked on it (OnTheWay), its rebuild by what it has read (UpToDate).  A *)
(* spec that nobody works on has the files its promise says (IdleAgrees),  *)
(* and what is served is stored or about to be replaced (ServedOrDue).     *)
(*                                                                         *)
(* The steps are taken in three groups, each with a lemma for what all of  *)
(* its steps leave alone: BeginKeeps for the requests, OnwardKeeps for the *)
(* steps of a handler, ReturnKeeps for the answers.                        *)
(***************************************************************************)
EXTENDS SpecAdmin, TLAPS

Promises == [rec : Records, ops : SUBSET Ops]
Changes == {Upload, Removal} \cup Patches \cup Switches

\* Where a handler is when it rebuilds, and when it has written something or removed
\* it, so that what is served is about to be replaced.
Rebuilding == {"list", "read_specs", "read_ops"}
Written == {"delete_ops", "delete_auth"} \cup Rebuilding

\* The request of an admin at work is of the kind that comes to where it is; the goroutine
\* that starts the process only rebuilds.
Shaped ==
  \A r \in InProgress :
    /\ \/ change[r] \in Changes /\ target[r] \in used
       \/ change[r] = Startup /\ target[r] = NoSpec /\ pc[r] \in Rebuilding
    /\ pc[r] = "save_spec" => change[r] \in {Upload} \cup Patches
    /\ pc[r] = "save_ops" => change[r] \in {Upload} \cup Switches
    /\ pc[r] = "reread_ops" => change[r] \in Switches
    /\ pc[r] \in {"delete_spec", "delete_ops", "delete_auth"} => change[r] = Removal

\* No request is served while the process starts.
StartsAlone == \A r \in Admins : change[r] = Startup => InProgress = {r}

\* An identifier that was not given out has no files and no promise.
UnusedIsNew ==
  \A s \in Specs \ used : specFile[s] = Absent /\ opsFile[s] = Absent /\ promised[s] = Absent

PromiseShape == \A s \in Specs : promised[s] \in Promises \cup {Absent, Gone}

\* Nobody is at work on a spec besides another unless it is spoiled.
Sole ==
  \A q, r \in InProgress : target[q] = target[r] /\ target[r] \in Specs \ spoiled => q = r

\* While a spec is being created it has no operations, and nobody else is about to
\* write some.
Creates(r) == change[r] = Upload /\ pc[r] \in {"save_spec", "save_ops"}

CreatedHasNoOps ==
  \A r \in InProgress : Creates(r) =>
    /\ opsFile[target[r]] = Absent
    /\ \A q \in InProgress \ {r} :
         target[q] = target[r] => change[q] \in {Removal} \cup Patches

\* The files of s are as in p.
Agree(s, p) == p # Absent => specFile[s] = p.rec /\ opsFile[s] = p.ops

IdleAgrees == \A s \in Specs \ spoiled : WorkingOn(s) = {} => Agree(s, promised[s])

\* What an undisturbed request finds and has done.
OnTheWay(r, s) ==
  CASE pc[r] = "save_spec" ->
         IF change[r] = Upload THEN newRec[r] = Default
         ELSE /\ Agree(s, promised[s]) /\ specFile[s] # Absent
              /\ newRec[r] = Patched(specFile[s], change[r])
    [] pc[r] = "save_ops" ->
         IF change[r] = Upload THEN newOps[r] = Ops /\ specFile[s] = Default
         ELSE /\ Agree(s, promised[s]) /\ opsFile[s] # Absent
              /\ newOps[r] = Switched(opsFile[s], change[r])
    [] pc[r] = "reread_ops" -> Agree(s, promised[s])
    [] pc[r] = "delete_spec" -> TRUE
    [] pc[r] = "delete_ops" -> specFile[s] = Absent
    [] pc[r] = "delete_auth" -> specFile[s] = Absent /\ opsFile[s] = Absent
    [] OTHER -> Agree(s, Fulfilled(promised[s], change[r]))

RequestsOnTheWay ==
  \A r \in InProgress : target[r] \in Specs \ spoiled => OnTheWay(r, target[r])

\* What the rebuild of r has read and made of spec s is what is stored.
UpToDate(r, s) ==
  /\ pc[r] = "read_specs" /\ s \notin todo[r] => read[r][s] = specFile[s]
  /\ pc[r] = "read_ops" => read[r][s] = specFile[s]
  /\ pc[r] = "read_ops" /\ s \notin todo[r] => built[r][s] = StoredTools(s)

\* Nothing is read before the rebuild reads it.
ReadsLater ==
  \A r \in Admins, s \in Specs :
    /\ pc[r] \notin {"read_specs", "read_ops"} => read[r][s] = Absent
    /\ pc[r] = "read_specs" /\ s \in todo[r] => read[r][s] = Absent
    /\ pc[r] # "read_ops" => built[r][s] = NoTools

\* A spec that a rebuild is sure of is up to date in it, and nobody else is at work on it.
SureIsUpToDate ==
  \A r \in InProgress, s \in Specs :
    pc[r] \in Reading /\ s \notin unsure[r] => UpToDate(r, s) /\ WorkingOn(s) \subseteq {r}

\* What is served is stored, or is about to be replaced.
ServedOrDue ==
  \A s \in Specs \ lapsed :
    registry[s] = StoredTools(s) \/ \E r \in WorkingOn(s) : pc[r] \in Written

\* The inductive invariant.
IInv ==
  /\ TypeOK /\ Shaped /\ StartsAlone /\ UnusedIsNew /\ PromiseShape /\ Sole
  /\ CreatedHasNoOps /\ IdleAgrees /\ RequestsOnTheWay /\ ReadsLater /\ SureIsUpToDate
  /\ ServedOrDue

-----------------------------------------------------------------------------
(* Types. *)

LEMMA ToolsType ==
  ASSUME NEW rec \in SpecContents, NEW enabled \in OpsContents
  PROVE  Tools(rec, enabled) \in ToolSets
<1>1. NoTools \in ToolSets
  BY DEF NoTools, Default, ToolSets, Records
<1> QED
  BY <1>1 DEF Tools, SpecContents, OpsContents, ToolSets

LEMMA PatchedType ==
  ASSUME NEW rec \in Records, NEW c \in Patches
  PROVE  Patched(rec, c) \in Records
BY DEF Patched, Records, Patches

LEMMA SwitchedType ==
  ASSUME NEW enabled \in SUBSET Ops, NEW c \in Switches
  PROVE  Switched(enabled, c) \in SUBSET Ops
BY DEF Switched, Switches

\* The kinds of the changes tell them apart.
LEMMA Kinds ==
  /\ Upload.kind = "create" /\ Removal.kind = "delete" /\ NoChange.kind = "none"
  /\ Startup.kind = "start"
  /\ \A c \in Patches : c.kind = "update" /\ c.field \in Fields /\ c.value \in {0, 1}
  /\ \A c \in Switches : c.kind = "toggle" /\ c.op \in Ops /\ c.value \in BOOLEAN
BY DEF Upload, Removal, NoChange, Startup, Patches, Switches

LEMMA FulfilledShape ==
  ASSUME NEW p \in Promises \cup {Absent, Gone},
         NEW c \in {Upload, Removal} \cup Patches \cup Switches
  PROVE  Fulfilled(p, c) \in Promises \cup {Absent, Gone}
<1>1. CASE c = Upload
  BY <1>1, Kinds DEF Fulfilled, Promises, Default, Records
<1>2. CASE c = Removal
  BY <1>2, Kinds DEF Fulfilled
<1>3. CASE c \in Patches
  <2>1. CASE p \in Promises
    <3>1. p.rec \in Records /\ p.ops \in SUBSET Ops
      BY <2>1 DEF Promises
    <3>2. Patched(p.rec, c) \in Records
      BY <1>3, <3>1, PatchedType
    <3>3. [p EXCEPT !.rec = Patched(@, c)] \in Promises
      BY <2>1, <3>1, <3>2 DEF Promises
    <3> QED
      BY <1>3, <3>3, Kinds DEF Fulfilled
  <2>2. CASE p \in {Absent, Gone}
    BY <1>3, <2>2, Kinds DEF Fulfilled
  <2> QED
    BY <2>1, <2>2
<1>4. CASE c \in Switches
  <2>1. CASE p \in Promises
    <3>1. p.rec \in Records /\ p.ops \in SUBSET Ops
      BY <2>1 DEF Promises
    <3>2. Switched(p.ops, c) \in SUBSET Ops
      BY <1>4, <3>1, SwitchedType
    <3>3. [p EXCEPT !.ops = Switched(@, c)] \in Promises
      BY <2>1, <3>1, <3>2 DEF Promises
    <3> QED
      BY <1>4, <3>3, Kinds DEF Fulfilled
  <2>2. CASE p \in {Absent, Gone}
    BY <1>4, <2>2, Kinds DEF Fulfilled
  <2> QED
    BY <2>1, <2>2
<1> QED
  BY <1>1, <1>2, <1>3, <1>4

LEMMA PromisesTyped ==
  Promises \cup {Absent, Gone} \subseteq [rec : SpecContents, ops : OpsContents] \cup {Absent}
BY DEF Promises, Gone, SpecContents, OpsContents

LEMMA InitType == Init => TypeOK
<1> SUFFICES ASSUME Init PROVE TypeOK
  OBVIOUS
<1>1. NoTools \in ToolSets
  BY DEF NoTools, Default, ToolSets, Records
<1>2. /\ specFile \in [Specs -> SpecContents] /\ opsFile \in [Specs -> OpsContents]
      /\ newRec \in [Admins -> SpecContents] /\ newOps \in [Admins -> OpsContents]
      /\ read \in [Admins -> [Specs -> SpecContents]]
      /\ promised \in [Specs -> [rec : SpecContents, ops : OpsContents] \cup {Absent}]
  BY DEF Init, SpecContents, OpsContents
<1>3. registry \in [Specs -> ToolSets] /\ built \in [Admins -> [Specs -> ToolSets]]
  BY <1>1 DEF Init
<1>4. pc \in [Admins -> Steps]
  BY DEF Init, Steps
<1>5. change \in [Admins -> {Upload, Removal, NoChange, Startup} \cup Patches \cup Switches]
  BY DEF Init
<1>6. requests \in 0 .. MaxRequests /\ crashes \in 0 .. MaxCrashes
  BY BoundsAssumption DEF Init
<1> QED
  BY <1>2, <1>3, <1>4, <1>5, <1>6 DEF Init, TypeOK

\* An accepted request keeps the types.
LEMMA BeginType ==
  ASSUME TypeOK, NEW r \in Admins, NEW s \in Specs,
         NEW c \in {Upload, Removal, NoChange, Startup} \cup Patches \cup Switches,
         NEW rec \in SpecContents, NEW to \in Steps, Begin(r, s, c, rec, to), used' \subseteq Specs
  PROVE  TypeOK'
<1>1. /\ pc' \in [Admins -> Steps] /\ target' \in [Admins -> Specs \cup {NoSpec}]
      /\ newRec' \in [Admins -> SpecContents]
      /\ change' \in [Admins -> {Upload, Removal, NoChange, Startup} \cup Patches \cup Switches]
  BY DEF TypeOK, Begin, Goto
<1>2. requests' \in 0 .. MaxRequests /\ spoiled' \subseteq Specs
      /\ unsure' \in [Admins -> SUBSET Specs]
  BY BoundsAssumption DEF TypeOK, Begin
<1> QED
  BY <1>1, <1>2 DEF TypeOK, Begin, files, rebuildVars

LEMMA ReturnType ==
  ASSUME TypeOK, NEW r \in Admins, Return(r)
  PROVE  /\ pc' \in [Admins -> Steps]
         /\ target' \in [Admins -> Specs \cup {NoSpec}]
         /\ newRec' \in [Admins -> SpecContents]
         /\ newOps' \in [Admins -> OpsContents]
         /\ change' \in [Admins -> {Upload, Removal, NoChange, Startup} \cup Patches \cup Switches]
         /\ todo' \in [Admins -> SUBSET Specs]
         /\ read' \in [Admins -> [Specs -> SpecContents]]
         /\ built' \in [Admins -> [Specs -> ToolSets]]
<1>1. [s \in Specs |-> NoTools] \in [Specs -> ToolSets]
  BY DEF NoTools, Default, ToolSets, Records
<1>2. [s \in Specs |-> Absent] \in [Specs -> SpecContents]
  BY DEF SpecContents
<1>3. pc' \in [Admins -> Steps] /\ target' \in [Admins -> Specs \cup {NoSpec}]
  BY DEF TypeOK, Return, Steps
<1>4. newRec' \in [Admins -> SpecContents] /\ newOps' \in [Admins -> OpsContents]
  BY DEF TypeOK, Return, SpecContents, OpsContents
<1>5. change' \in [Admins -> {Upload, Removal, NoChange, Startup} \cup Patches \cup Switches]
  BY DEF TypeOK, Return
<1>6. todo' \in [Admins -> SUBSET Specs]
  BY DEF TypeOK, Return
<1>7. read' \in [Admins -> [Specs -> SpecContents]]
  BY <1>2 DEF TypeOK, Return
<1>8. built' \in [Admins -> [Specs -> ToolSets]]
  BY <1>1 DEF TypeOK, Return
<1> QED
  BY <1>3, <1>4, <1>5, <1>6, <1>7, <1>8

\* The target of a request, and who is at work besides a rebuild.
LEMMA TargetsType ==
  ASSUME TypeOK, Shaped, StartsAlone, NEW r \in Admins
  PROVE  /\ pc[r] \notin {"idle"} \cup Rebuilding => target[r] \in Specs
         /\ r \in InProgress /\ target[r] \in Specs => change[r] \in Changes
         /\ r \in InProgress => {target[q] : q \in InProgress \ {r}} \subseteq Specs
<1>1. ASSUME NEW q \in InProgress, target[q] \notin Specs PROVE InProgress = {q}
  BY <1>1 DEF Shaped, StartsAlone, TypeOK, InProgress
<1>2. AbsentAssumption
  BY AbsentAssumption
<1> QED
  BY <1>1, <1>2 DEF Shaped, TypeOK, InProgress

\* An answered request keeps the types.
LEMMA AnswerType ==
  ASSUME TypeOK, Shaped, StartsAlone, PromiseShape, NEW r \in InProgress, Answer(r)
  PROVE  promised' \in [Specs -> [rec : SpecContents, ops : OpsContents] \cup {Absent}]
<1>1. ASSUME NEW s \in Specs
      PROVE  (IF s = target[r] THEN Fulfilled(promised[s], change[r]) ELSE promised[s])
               \in [rec : SpecContents, ops : OpsContents] \cup {Absent}
  <2>1. CASE s = target[r]
    <3>1. change[r] \in {Upload, Removal} \cup Patches \cup Switches
      BY <2>1, TargetsType DEF InProgress, Changes
    <3> QED
      BY <2>1, <3>1, FulfilledShape, PromisesTyped DEF PromiseShape
  <2>2. CASE s # target[r]
    BY <2>2 DEF TypeOK
  <2> QED
    BY <2>1, <2>2
<1> QED
  BY <1>1 DEF Answer

\* A file that cannot be read makes a rebuild unsure of a spec.
LEMMA UnsureType ==
  ASSUME TypeOK, NEW r \in Admins,
         unsure' = unsure \/ \E s \in todo[r] : unsure' = [unsure EXCEPT ![r] = @ \cup {s}]
  PROVE  unsure' \in [Admins -> SUBSET Specs]
<1>1. CASE unsure' = unsure
  BY <1>1 DEF TypeOK
<1>2. CASE \E s \in todo[r] : unsure' = [unsure EXCEPT ![r] = @ \cup {s}]
  <2>1. PICK s \in todo[r] : unsure' = [unsure EXCEPT ![r] = @ \cup {s}]
    BY <1>2
  <2>2. s \in Specs
    BY DEF TypeOK
  <2> QED
    BY <2>1, <2>2 DEF TypeOK
<1> QED
  BY <1>1, <1>2

LEMMA StepType == ASSUME TypeOK, Shaped, StartsAlone, PromiseShape, [Next]_vars PROVE TypeOK'
<1> USE DEF files, newFiles, rebuildVars, history
<1>1. ASSUME NEW r \in Admins, Create(r) PROVE TypeOK'
  <2>1. PICK s \in Specs \ used :
          used' = used \cup {s} /\ Begin(r, s, Upload, Default, "save_spec")
    BY <1>1 DEF Create
  <2>2. Default \in SpecContents /\ "save_spec" \in Steps /\ used' \subseteq Specs
    BY <2>1 DEF Default, SpecContents, Records, Steps, TypeOK
  <2> QED
    BY <2>1, <2>2, BeginType
<1>2. ASSUME NEW r \in Admins, Update(r) PROVE TypeOK'
  <2>1. PICK s \in Specs, c \in Patches :
          /\ specFile[s] # Absent /\ used' = used
          /\ Begin(r, s, c, Patched(specFile[s], c), "save_spec")
    BY <1>2 DEF Update
  <2>2. specFile[s] \in Records
    BY <2>1 DEF TypeOK, SpecContents
  <2>3. Patched(specFile[s], c) \in SpecContents /\ "save_spec" \in Steps /\ used' \subseteq Specs
    BY <2>1, <2>2, PatchedType DEF SpecContents, Steps, TypeOK
  <2> QED
    BY <2>1, <2>3, BeginType
<1>3. ASSUME NEW r \in Admins, Delete(r) PROVE TypeOK'
  <2>1. PICK s \in Specs : Begin(r, s, Removal, Absent, "delete_spec") /\ used' = used
    BY <1>3 DEF Delete
  <2>2. Absent \in SpecContents /\ "delete_spec" \in Steps /\ used' \subseteq Specs
    BY <2>1 DEF SpecContents, Steps, TypeOK
  <2> QED
    BY <2>1, <2>2, BeginType
<1>4. ASSUME NEW r \in Admins, Toggle(r) PROVE TypeOK'
  <2>1. PICK s \in Specs, c \in Switches : Begin(r, s, c, Absent, "reread_ops") /\ used' = used
    BY <1>4 DEF Toggle
  <2>2. Absent \in SpecContents /\ "reread_ops" \in Steps /\ used' \subseteq Specs
    BY <2>1 DEF SpecContents, Steps, TypeOK
  <2> QED
    BY <2>1, <2>2, BeginType
<1>5. ASSUME NEW r \in Admins, NotFound(r) PROVE TypeOK'
  <2>1. requests' \in 0 .. MaxRequests
    BY <1>5, BoundsAssumption DEF TypeOK, NotFound
  <2> QED
    BY <1>5, <2>1 DEF TypeOK, NotFound
<1>6. ASSUME NEW r \in Admins, pc[r] \notin {"idle"} \cup Rebuilding PROVE target[r] \in Specs
  BY <1>6, TargetsType
<1>7. ASSUME NEW r \in Admins, Fail(r) PROVE TypeOK'
  <2>1. promised' \in [Specs -> [rec : SpecContents, ops : OpsContents] \cup {Absent}]
    BY <1>7 DEF TypeOK, Fail
  <2> QED
    BY <1>7, <2>1, ReturnType DEF TypeOK, Fail
<1>8. ASSUME NEW r \in Admins, SaveSpec(r) PROVE TypeOK'
  <2>1. pc' \in [Admins -> Steps]
    BY <1>8 DEF TypeOK, SaveSpec, Goto, Steps
  <2>2. specFile' \in [Specs -> SpecContents] /\ newRec' \in [Admins -> SpecContents]
    BY <1>8 DEF TypeOK, SaveSpec, SpecContents
  <2>3. newOps' \in [Admins -> OpsContents]
    BY <1>8 DEF TypeOK, SaveSpec, OpsContents
  <2> QED
    BY <1>8, <2>1, <2>2, <2>3 DEF TypeOK, SaveSpec
<1>9. ASSUME NEW r \in Admins, RereadOps(r) PROVE TypeOK'
  <2>1. pc' \in [Admins -> Steps]
    BY <1>9 DEF TypeOK, RereadOps, Goto, Steps
  <2>2. target[r] \in Specs /\ change[r] \in Switches
    BY <1>6, <1>9 DEF RereadOps, Goto, Shaped, InProgress, Rebuilding
  <2>3. opsFile[target[r]] \in SUBSET Ops
    BY <1>9, <2>2 DEF TypeOK, RereadOps, OpsContents
  <2>4. Switched(opsFile[target[r]], change[r]) \in OpsContents
    BY <2>2, <2>3, SwitchedType DEF OpsContents
  <2>5. newOps' \in [Admins -> OpsContents]
    BY <1>9, <2>4 DEF TypeOK, RereadOps
  <2> QED
    BY <1>9, <2>1, <2>5 DEF TypeOK, RereadOps
<1>10. ASSUME NEW r \in Admins, SaveOps(r) PROVE TypeOK'
  <2>1. pc' \in [Admins -> Steps]
    BY <1>10 DEF TypeOK, SaveOps, Goto, Steps
  <2>2. opsFile' \in [Specs -> OpsContents] /\ newOps' \in [Admins -> OpsContents]
    BY <1>10 DEF TypeOK, SaveOps, OpsContents
  <2> QED
    BY <1>10, <2>1, <2>2 DEF TypeOK, SaveOps
<1>11. ASSUME NEW r \in Admins, DeleteSpec(r) \/ DeleteOps(r) \/ DeleteAuth(r) PROVE TypeOK'
  <2>1. target[r] \in Specs
    BY <1>6, <1>11 DEF DeleteSpec, DeleteOps, DeleteAuth, Goto, Rebuilding
  <2>2. pc' \in [Admins -> Steps] /\ spoiled' \subseteq Specs /\ authFile' \subseteq Specs
    BY <1>11, <2>1 DEF TypeOK, DeleteSpec, DeleteOps, DeleteAuth, Goto, Steps
  <2>3. specFile' \in [Specs -> SpecContents]
    BY <1>11 DEF TypeOK, DeleteSpec, DeleteOps, DeleteAuth, SpecContents
  <2>4. opsFile' \in [Specs -> OpsContents]
    BY <1>11 DEF TypeOK, DeleteSpec, DeleteOps, DeleteAuth, OpsContents
  <2> QED
    BY <1>11, <2>2, <2>3, <2>4 DEF TypeOK, DeleteSpec, DeleteOps, DeleteAuth
<1>12. ASSUME NEW r \in Admins, ListSpecs(r) PROVE TypeOK'
  <2>0. {target[q] : q \in InProgress \ {r}} \subseteq Specs
    BY <1>12, TargetsType DEF ListSpecs, Goto, InProgress
  <2>1. pc' \in [Admins -> Steps] /\ unsure' \in [Admins -> SUBSET Specs]
    BY <1>12, <2>0 DEF TypeOK, ListSpecs, Goto, Steps
  <2>2. todo' \in [Admins -> SUBSET Specs]
    BY <1>12 DEF TypeOK, ListSpecs
  <2> QED
    BY <1>12, <2>1, <2>2 DEF TypeOK, ListSpecs
<1>13. ASSUME NEW r \in Admins, ReadSpec(r) PROVE TypeOK'
  <2>1. pc' \in [Admins -> Steps]
    BY <1>13 DEF TypeOK, ReadSpec, Steps
  <2>2. todo' \in [Admins -> SUBSET Specs]
    <3>1. \/ \E s \in todo[r] : todo' = [todo EXCEPT ![r] = @ \ {s}]
          \/ todo' = [todo EXCEPT ![r] = {s \in Specs : read[r][s] # Absent}]
      BY <1>13 DEF ReadSpec
    <3>2. CASE \E s \in todo[r] : todo' = [todo EXCEPT ![r] = @ \ {s}]
      <4>1. PICK s \in todo[r] : todo' = [todo EXCEPT ![r] = @ \ {s}]
        BY <3>2
      <4> QED
        BY <4>1 DEF TypeOK
    <3>3. CASE todo' = [todo EXCEPT ![r] = {s \in Specs : read[r][s] # Absent}]
      BY <3>3 DEF TypeOK
    <3> QED
      BY <3>1, <3>2, <3>3
  <2>3. read' \in [Admins -> [Specs -> SpecContents]]
    <3>1. CASE read' = read
      BY <3>1 DEF TypeOK
    <3>2. CASE \E s \in todo[r] : read' = [read EXCEPT ![r][s] = specFile[s]]
      <4>1. PICK s \in todo[r] : read' = [read EXCEPT ![r][s] = specFile[s]]
        BY <3>2
      <4>2. s \in Specs /\ specFile[s] \in SpecContents
        BY <4>1 DEF TypeOK
      <4> QED
        BY <4>1, <4>2 DEF TypeOK
    <3> QED
      BY <1>13, <3>1, <3>2 DEF ReadSpec
  <2>4. unsure' \in [Admins -> SUBSET Specs]
    <3>1. unsure' = unsure \/ \E s \in todo[r] : unsure' = [unsure EXCEPT ![r] = @ \cup {s}]
      BY <1>13 DEF ReadSpec
    <3> QED
      BY <3>1, UnsureType
  <2> QED
    BY <1>13, <2>1, <2>2, <2>3, <2>4 DEF TypeOK, ReadSpec
<1>14. ASSUME NEW r \in Admins, ReadOps(r) PROVE TypeOK'
  <2>1. PICK s \in todo[r] :
          /\ \/ built' = [built EXCEPT ![r][s] = Tools(read[r][s], opsFile[s])] /\ unsure' = unsure
             \/ built' = built /\ unsure' = [unsure EXCEPT ![r] = @ \cup {s}]
          /\ todo' = [todo EXCEPT ![r] = @ \ {s}]
    BY <1>14 DEF ReadOps
  <2>2. s \in Specs
    BY <2>1 DEF TypeOK
  <2>3. Tools(read[r][s], opsFile[s]) \in ToolSets
    BY <2>2, ToolsType DEF TypeOK
  <2>4. todo' \in [Admins -> SUBSET Specs]
    BY <2>1, <2>2 DEF TypeOK
  <2>5. unsure' \in [Admins -> SUBSET Specs]
    BY <2>1, UnsureType
  <2>6. built' \in [Admins -> [Specs -> ToolSets]]
    <3>1. CASE built' = built
      BY <3>1 DEF TypeOK
    <3>2. CASE built' = [built EXCEPT ![r][s] = Tools(read[r][s], opsFile[s])]
      BY <2>2, <2>3, <3>2 DEF TypeOK
    <3> QED
      BY <2>1, <3>1, <3>2
  <2> QED
    BY <1>14, <2>4, <2>5, <2>6 DEF TypeOK, ReadOps
<1>15. ASSUME NEW r \in Admins, Install(r) \/ ListFails(r) PROVE TypeOK'
  <2>1. r \in InProgress /\ Answer(r) /\ Return(r)
    BY <1>15 DEF Install, ListFails, Answer, InProgress
  <2>2. promised' \in [Specs -> [rec : SpecContents, ops : OpsContents] \cup {Absent}]
    BY <2>1, AnswerType
  <2>3. registry' \in [Specs -> ToolSets] /\ lapsed' \subseteq Specs
    BY <1>15 DEF TypeOK, Install, ListFails
  <2> QED
    BY <1>15, <2>1, <2>2, <2>3, ReturnType DEF TypeOK, Install, ListFails
<1>16. ASSUME NEW s \in Specs, PlaceAuth(s) PROVE TypeOK'
  BY <1>16 DEF TypeOK, PlaceAuth
<1>17. ASSUME NEW r \in Admins, CrashAndRestart(r) PROVE TypeOK'
  <2>1. promised' \in [Specs -> [rec : SpecContents, ops : OpsContents] \cup {Absent}]
    BY <1>17 DEF TypeOK, CrashAndRestart
  <2>2. NoTools \in ToolSets
    BY DEF NoTools, Default, ToolSets, Records
  <2>3. registry' \in [Specs -> ToolSets] /\ built' \in [Admins -> [Specs -> ToolSets]]
    BY <1>17, <2>2 DEF CrashAndRestart
  <2>4. /\ pc' \in [Admins -> Steps] /\ target' \in [Admins -> Specs \cup {NoSpec}]
        /\ todo' \in [Admins -> SUBSET Specs] /\ unsure' \in [Admins -> SUBSET Specs]
        /\ lapsed' \subseteq Specs
    BY <1>17 DEF CrashAndRestart, Steps
  <2>5. change' \in [Admins -> {Upload, Removal, NoChange, Startup} \cup Patches \cup Switches]
    BY <1>17 DEF CrashAndRestart
  <2>6. /\ newRec' \in [Admins -> SpecContents] /\ newOps' \in [Admins -> OpsContents]
        /\ read' \in [Admins -> [Specs -> SpecContents]]
    BY <1>17 DEF CrashAndRestart, SpecContents, OpsContents
  <2>7. crashes' \in 0 .. MaxCrashes
    BY <1>17, BoundsAssumption DEF CrashAndRestart, TypeOK
  <2> QED
    BY <1>17, <2>1, <2>3, <2>4, <2>5, <2>6, <2>7 DEF TypeOK, CrashAndRestart
<1>18. CASE UNCHANGED vars
  BY <1>18 DEF TypeOK, vars
<1> QED
  BY <1>1, <1>2, <1>3, <1>4, <1>5, <1>7, <1>8, <1>9, <1>10, <1>11, <1>12, <1>13, <1>14, <1>15,
     <1>16, <1>17, <1>18 DEF Next, HandlerStep, Terminated

-----------------------------------------------------------------------------
(* What the steps have in common. *)

\* Admin q's locals.
SameLocals(q) ==
  /\ pc'[q] = pc[q] /\ target'[q] = target[q] /\ change'[q] = change[q]
  /\ newRec'[q] = newRec[q] /\ newOps'[q] = newOps[q]
  /\ todo'[q] = todo[q] /\ read'[q] = read[q] /\ built'[q] = built[q]

SameFiles(s) == specFile'[s] = specFile[s] /\ opsFile'[s] = opsFile[s]

\* Accepting a request changes nothing but the admin's locals.
Begun(r, s, c, rec, to) ==
  /\ pc[r] = "idle" /\ pc'[r] = to /\ target'[r] = s /\ change'[r] = c /\ newRec'[r] = rec
  /\ todo'[r] = todo[r] /\ read'[r] = read[r] /\ built'[r] = built[r]
  /\ \A q \in Admins \ {r} : SameLocals(q)
  /\ InProgress' = InProgress \cup {r} /\ r \notin InProgress
  /\ UNCHANGED <<specFile, opsFile, registry, promised, lapsed>>
  /\ spoiled \subseteq spoiled' /\ (s \notin spoiled' => WorkingOn(s) = {})
  /\ \A q \in Admins : pc[q] \in Reading => unsure'[q] = unsure[q] \cup {s}
  /\ \A q \in Admins : change[q] # Startup

LEMMA BeginFacts ==
  ASSUME TypeOK, NEW r \in Admins, NEW s \in Specs, NEW c \in Changes,
         NEW rec \in SpecContents, NEW to \in Steps \ {"idle"}, Begin(r, s, c, rec, to)
  PROVE  Begun(r, s, c, rec, to)
<1>1. /\ pc[r] = "idle" /\ pc'[r] = to /\ target'[r] = s /\ change'[r] = c /\ newRec'[r] = rec
      /\ todo'[r] = todo[r] /\ read'[r] = read[r] /\ built'[r] = built[r]
  BY DEF TypeOK, Begin, Goto, rebuildVars
<1>2. \A q \in Admins \ {r} : SameLocals(q)
  BY DEF TypeOK, Begin, Goto, rebuildVars, SameLocals
<1>3. InProgress' = InProgress \cup {r} /\ r \notin InProgress
  BY <1>1, <1>2 DEF InProgress, SameLocals
<1>4. \A q \in Admins : change[q] # Startup
  BY DEF Begin, Starting
<1> QED
  BY <1>1, <1>2, <1>3, <1>4 DEF Begin, Begun, files

\* A handler that returns forgets its locals.
LEMMA ReturnFacts ==
  ASSUME TypeOK, NEW r \in Admins, Return(r), pc[r] # "idle"
  PROVE  /\ pc'[r] = "idle" /\ change'[r] = NoChange
         /\ read'[r] = [s \in Specs |-> Absent] /\ built'[r] = [s \in Specs |-> NoTools]
         /\ \A q \in Admins \ {r} : SameLocals(q)
         /\ InProgress' = InProgress \ {r}
<1>1. /\ pc'[r] = "idle" /\ change'[r] = NoChange
      /\ read'[r] = [s \in Specs |-> Absent] /\ built'[r] = [s \in Specs |-> NoTools]
  BY DEF TypeOK, Return
<1>2. \A q \in Admins \ {r} : SameLocals(q)
  BY DEF TypeOK, Return, SameLocals
<1> QED
  BY <1>1, <1>2 DEF InProgress, SameLocals

\* A step of a handler that does not return.
Onward(r) ==
  \/ SaveSpec(r) \/ RereadOps(r) \/ SaveOps(r) \/ DeleteSpec(r) \/ DeleteOps(r) \/ DeleteAuth(r)
  \/ ListSpecs(r) \/ ReadSpec(r) \/ ReadOps(r)

\* It changes its own locals and the files of its own spec.
LEMMA OnwardFacts ==
  ASSUME TypeOK, Shaped, NEW r \in Admins, Onward(r)
  PROVE  /\ pc[r] # "idle" /\ pc'[r] # "idle" /\ target'[r] = target[r] /\ change'[r] = change[r]
         /\ target[r] \in Specs \cup {NoSpec}
         /\ \A q \in Admins \ {r} : SameLocals(q)
         /\ InProgress' = InProgress /\ r \in InProgress
         /\ \A s \in Specs \ {target[r]} : SameFiles(s)
         /\ UNCHANGED <<registry, promised, used, lapsed>> /\ spoiled \subseteq spoiled'
<1> USE DEF files, newFiles, rebuildVars, history
<1>1. pc[r] # "idle" /\ pc'[r] # "idle" /\ target'[r] = target[r] /\ change'[r] = change[r]
  BY DEF TypeOK, Onward, SaveSpec, RereadOps, SaveOps, DeleteSpec, DeleteOps, DeleteAuth,
         ListSpecs, ReadSpec, ReadOps, Goto
<1>2. target[r] \in Specs \cup {NoSpec} /\ r \in InProgress
  BY <1>1 DEF TypeOK, InProgress
<1>3. ASSUME NEW q \in Admins \ {r} PROVE SameLocals(q)
  <2>1. CASE SaveSpec(r) \/ RereadOps(r) \/ SaveOps(r)
    BY <2>1 DEF TypeOK, SaveSpec, RereadOps, SaveOps, Goto, SameLocals
  <2>2. CASE DeleteSpec(r) \/ DeleteOps(r) \/ DeleteAuth(r)
    BY <2>2 DEF TypeOK, DeleteSpec, DeleteOps, DeleteAuth, Goto, SameLocals
  <2>3. CASE ListSpecs(r) \/ ReadSpec(r) \/ ReadOps(r)
    BY <2>3 DEF TypeOK, ListSpecs, ReadSpec, ReadOps, Goto, SameLocals
  <2> QED
    BY <2>1, <2>2, <2>3 DEF Onward
<1>4. InProgress' = InProgress
  BY <1>1, <1>3 DEF InProgress, SameLocals
<1>5. ASSUME NEW s \in Specs \ {target[r]} PROVE SameFiles(s)
  BY DEF TypeOK, Onward, SaveSpec, RereadOps, SaveOps, DeleteSpec, DeleteOps, DeleteAuth,
         ListSpecs, ReadSpec, ReadOps, SameFiles
<1>6. UNCHANGED <<registry, promised, used, lapsed>> /\ spoiled \subseteq spoiled'
  BY DEF Onward, SaveSpec, RereadOps, SaveOps, DeleteSpec, DeleteOps, DeleteAuth,
         ListSpecs, ReadSpec, ReadOps
<1> QED
  BY <1>1, <1>2, <1>3, <1>4, <1>5, <1>6

\* What is known of a request stays while neither it nor the spec's files change.
LEMMA OnTheWayStays ==
  ASSUME NEW q, NEW s, OnTheWay(q, s), SameLocals(q), SameFiles(s), promised'[s] = promised[s]
  PROVE  OnTheWay(q, s)'
BY DEF OnTheWay, Agree, SameLocals, SameFiles

LEMMA UpToDateStays ==
  ASSUME NEW q, NEW s, UpToDate(q, s), SameLocals(q), SameFiles(s)
  PROVE  UpToDate(q, s)'
BY DEF UpToDate, StoredTools, SameLocals, SameFiles

-----------------------------------------------------------------------------
(* Requests. *)

\* The invariant but for the types.
Facts ==
  /\ Shaped /\ StartsAlone /\ UnusedIsNew /\ PromiseShape /\ Sole /\ CreatedHasNoOps
  /\ IdleAgrees /\ RequestsOnTheWay /\ ReadsLater /\ SureIsUpToDate /\ ServedOrDue

\* A request of a kind that the code accepts, for a spec that it has found as it must be.
LEMMA BeginKeeps ==
  ASSUME TypeOK, Facts, NEW r \in Admins, NEW s \in Specs, NEW c \in Changes,
         NEW rec \in SpecContents, NEW to \in {"save_spec", "delete_spec", "reread_ops"},
         Begin(r, s, c, rec, to),
         used \subseteq used', s \in used',
         \/ to = "save_spec" /\ c \in {Upload} \cup Patches
         \/ to = "delete_spec" /\ c = Removal
         \/ to = "reread_ops" /\ c \in Switches,
         c = Upload => s \notin used,
         c \in Switches => opsFile[s] # Absent,
         s \notin spoiled' => OnTheWay(r, s)'
  PROVE  Facts'
<1>1. /\ pc[r] = "idle" /\ pc'[r] = to /\ target'[r] = s /\ change'[r] = c /\ newRec'[r] = rec
      /\ todo'[r] = todo[r] /\ read'[r] = read[r] /\ built'[r] = built[r]
      /\ \A q \in Admins \ {r} : SameLocals(q)
      /\ InProgress' = InProgress \cup {r} /\ r \notin InProgress
      /\ UNCHANGED <<specFile, opsFile, registry, promised, lapsed>>
      /\ spoiled \subseteq spoiled' /\ (s \notin spoiled' => WorkingOn(s) = {})
      /\ \A q \in Admins : pc[q] \in Reading => unsure'[q] = unsure[q] \cup {s}
      /\ \A q \in Admins : change[q] # Startup
  <2>1. to \in Steps \ {"idle"}
    BY DEF Steps
  <2>2. Begun(r, s, c, rec, to)
    BY <2>1, BeginFacts
  <2> QED
    BY <2>2 DEF Begun
<1>2. \A q \in InProgress : q \in Admins \ {r} /\ SameLocals(q) /\ q \in InProgress'
  BY <1>1 DEF InProgress
<1>3. \A t \in Specs : SameFiles(t) /\ promised'[t] = promised[t]
  BY <1>1 DEF SameFiles
<1>4. Shaped' /\ StartsAlone'
  <2>1. Startup \notin Changes
    BY Kinds DEF Changes
  <2>2. ASSUME NEW q \in InProgress'
        PROVE  /\ change'[q] \in Changes /\ target'[q] \in used'
               /\ pc'[q] = "save_spec" => change'[q] \in {Upload} \cup Patches
               /\ pc'[q] = "save_ops" => change'[q] \in {Upload} \cup Switches
               /\ pc'[q] = "reread_ops" => change'[q] \in Switches
               /\ pc'[q] \in {"delete_spec", "delete_ops", "delete_auth"} => change'[q] = Removal
    <3>1. CASE q = r
      BY <1>1, <3>1
    <3>2. CASE q \in InProgress
      BY <1>1, <1>2, <2>1, <3>2 DEF Facts, Shaped, SameLocals
    <3> QED
      BY <1>1, <3>1, <3>2
  <2>3. \A q \in Admins : change'[q] # Startup
    BY <1>1, <2>1 DEF SameLocals
  <2> QED
    BY <2>2, <2>3 DEF Shaped, StartsAlone
<1>5. UnusedIsNew'
  BY <1>1 DEF Facts, UnusedIsNew
<1>6. PromiseShape'
  BY <1>1 DEF Facts, PromiseShape
<1>7. Sole'
  <2>1. ASSUME NEW p \in InProgress', NEW q \in InProgress', target'[p] = target'[q],
               target'[q] \in Specs \ spoiled'
        PROVE  p = q
    <3>1. CASE p \in InProgress /\ q \in InProgress
      BY <1>1, <1>2, <2>1, <3>1 DEF Facts, Sole, SameLocals
    <3>2. CASE p = r /\ q \in InProgress
      BY <1>1, <1>2, <2>1, <3>2 DEF WorkingOn, SameLocals
    <3>3. CASE q = r /\ p \in InProgress
      BY <1>1, <1>2, <2>1, <3>3 DEF WorkingOn, SameLocals
    <3> QED
      BY <1>1, <3>1, <3>2, <3>3
  <2> QED
    BY <2>1 DEF Sole
<1>8. CreatedHasNoOps'
  <2>1. ASSUME NEW p \in InProgress', change'[p] = Upload, pc'[p] \in {"save_spec", "save_ops"}
        PROVE  /\ opsFile'[target'[p]] = Absent
               /\ \A q \in InProgress' \ {p} :
                    target'[q] = target'[p] => change'[q] \in {Removal} \cup Patches
    <3>1. CASE p = r
      <4>1. s \notin used /\ target'[r] = s
        BY <1>1, <2>1, <3>1
      <4>2. \A q \in InProgress : target'[q] # s
        BY <1>1, <1>2, <4>1, AbsentAssumption DEF Facts, Shaped, SameLocals
      <4> QED
        BY <1>1, <3>1, <4>1, <4>2 DEF Facts, UnusedIsNew
    <3>2. CASE p \in InProgress
      <4>1. change[p] = Upload /\ pc[p] \in {"save_spec", "save_ops"} /\ target'[p] = target[p]
            /\ target[p] \in used
        BY <1>2, <2>1, <3>2, Kinds DEF SameLocals, Facts, Shaped
      <4>2. /\ opsFile[target[p]] = Absent
            /\ \A q \in InProgress \ {p} :
                 target[q] = target[p] => change[q] \in {Removal} \cup Patches
        BY <3>2, <4>1 DEF Facts, CreatedHasNoOps, Creates
      <4>3. target'[r] = target[p] => c \in {Removal} \cup Patches
        BY <1>1, <4>1, <4>2
      <4> QED
        BY <1>1, <1>2, <4>1, <4>2, <4>3 DEF SameLocals
    <3> QED
      BY <1>1, <3>1, <3>2
  <2> QED
    BY <2>1 DEF CreatedHasNoOps, Creates
<1>9. IdleAgrees'
  <2>1. ASSUME NEW t \in Specs \ spoiled', WorkingOn(t)' = {} PROVE Agree(t, promised[t])'
    <3>1. WorkingOn(t) = {}
      BY <1>2, <2>1 DEF WorkingOn, SameLocals
    <3>2. Agree(t, promised[t])
      BY <1>1, <3>1 DEF Facts, IdleAgrees
    <3> QED
      BY <1>1, <3>2 DEF Agree
  <2> QED
    BY <2>1 DEF IdleAgrees
<1>10. \A q \in InProgress, t \in Specs :
         target'[q] = t /\ t \notin spoiled' => target[q] = t /\ t \notin spoiled
  BY <1>1, <1>2 DEF SameLocals
<1>11. \A q \in InProgress : target[q] \in Specs
  BY <1>1, <1>2 DEF TypeOK, Facts, Shaped
<1>12. RequestsOnTheWay'
  <2>1. ASSUME NEW q \in InProgress', NEW t \in Specs, target'[q] = t, t \notin spoiled'
        PROVE  OnTheWay(q, t)'
    <3>1. CASE q = r
      BY <1>1, <2>1, <3>1
    <3>2. CASE q \in InProgress
      <4>1. OnTheWay(q, t)
        BY <1>10, <2>1, <3>2 DEF Facts, RequestsOnTheWay
      <4> QED
        BY <1>2, <1>3, <3>2, <4>1, OnTheWayStays
    <3> QED
      BY <1>1, <3>1, <3>2
  <2>2. \A q \in InProgress' : target'[q] \in Specs
    BY <1>1, <1>2, <1>11 DEF SameLocals
  <2> QED
    BY <2>1, <2>2 DEF RequestsOnTheWay
<1>13. ReadsLater'
  <2>1. ASSUME NEW q \in Admins, NEW t \in Specs
        PROVE  /\ pc'[q] \notin {"read_specs", "read_ops"} => read'[q][t] = Absent
               /\ pc'[q] = "read_specs" /\ t \in todo'[q] => read'[q][t] = Absent
               /\ pc'[q] # "read_ops" => built'[q][t] = NoTools
    BY <1>1 DEF Facts, ReadsLater, SameLocals
  <2> QED
    BY <2>1 DEF ReadsLater
<1>14. SureIsUpToDate'
  <2>1. ASSUME NEW q \in InProgress', NEW t \in Specs, pc'[q] \in Reading, t \notin unsure'[q]
        PROVE  UpToDate(q, t)' /\ WorkingOn(t)' \subseteq {q}
    <3>1. q \in InProgress /\ q \in Admins \ {r}
      BY <1>1, <1>2, <2>1 DEF Reading
    <3>2. SameLocals(q)
      BY <1>2, <3>1
    <3>3. t \notin unsure[q] /\ t # s /\ pc[q] \in Reading
      BY <1>1, <2>1, <3>1, <3>2 DEF SameLocals
    <3>4. UpToDate(q, t) /\ WorkingOn(t) \subseteq {q}
      BY <3>1, <3>3 DEF Facts, SureIsUpToDate
    <3>5. WorkingOn(t)' \subseteq WorkingOn(t)
      BY <1>1, <1>2, <3>3 DEF WorkingOn, SameLocals
    <3> QED
      BY <1>3, <3>2, <3>4, <3>5, UpToDateStays
  <2> QED
    BY <2>1 DEF SureIsUpToDate
<1>16. ServedOrDue'
  <2>1. ASSUME NEW t \in Specs \ lapsed
        PROVE  registry'[t] = StoredTools(t)' \/ \E q \in WorkingOn(t)' : pc'[q] \in Written
    <3>1. StoredTools(t)' = StoredTools(t) /\ registry'[t] = registry[t]
      BY <1>1 DEF StoredTools
    <3>2. CASE registry[t] = StoredTools(t)
      BY <3>1, <3>2
    <3>3. CASE \E q \in WorkingOn(t) : pc[q] \in Written
      BY <1>2, <3>3 DEF WorkingOn, SameLocals
    <3> QED
      BY <2>1, <3>2, <3>3 DEF Facts, ServedOrDue
  <2> QED
    BY <1>1, <2>1 DEF ServedOrDue
<1> QED
  BY <1>4, <1>5, <1>6, <1>7, <1>8, <1>9, <1>12, <1>13, <1>14, <1>16 DEF Facts

LEMMA CreateKeeps == ASSUME TypeOK, Facts, NEW r \in Admins, Create(r) PROVE Facts'
<1>1. PICK s \in Specs \ used : used' = used \cup {s} /\ Begin(r, s, Upload, Default, "save_spec")
  BY DEF Create
<1>2. Upload \in Changes /\ Default \in SpecContents /\ "save_spec" \in Steps \ {"idle"}
  BY DEF Changes, Default, SpecContents, Records, Steps
<1>3. Upload \notin Switches
  BY Kinds
<1>4. OnTheWay(r, s)'
  <2>1. Begun(r, s, Upload, Default, "save_spec")
    BY <1>1, <1>2, BeginFacts
  <2> QED
    BY <2>1 DEF Begun, OnTheWay
<1> QED
  BY <1>1, <1>2, <1>3, <1>4, BeginKeeps

LEMMA UpdateKeeps == ASSUME TypeOK, Facts, NEW r \in Admins, Update(r) PROVE Facts'
<1>1. PICK s \in Specs, c \in Patches :
        specFile[s] # Absent /\ Begin(r, s, c, Patched(specFile[s], c), "save_spec") /\ used' = used
  BY DEF Update
<1>2. s \in used
  BY <1>1 DEF Facts, UnusedIsNew
<1>3. c # Upload /\ c \notin Switches /\ c \in Changes /\ "save_spec" \in Steps \ {"idle"}
  BY Kinds DEF Changes, Steps
<1>4. Patched(specFile[s], c) \in SpecContents
  BY <1>1, PatchedType DEF TypeOK, SpecContents
<1>5. ASSUME s \notin spoiled' PROVE OnTheWay(r, s)'
  <2>0. Begun(r, s, c, Patched(specFile[s], c), "save_spec")
    BY <1>1, <1>3, <1>4, BeginFacts
  <2>1. /\ pc'[r] = "save_spec" /\ change'[r] = c /\ newRec'[r] = Patched(specFile[s], c)
        /\ UNCHANGED <<specFile, opsFile, promised>> /\ s \notin spoiled /\ WorkingOn(s) = {}
    BY <1>5, <2>0 DEF Begun
  <2>2. Agree(s, promised[s])
    BY <2>1 DEF Facts, IdleAgrees
  <2> QED
    BY <1>1, <1>3, <2>1, <2>2 DEF OnTheWay, Agree
<1> QED
  BY <1>1, <1>2, <1>3, <1>4, <1>5, BeginKeeps

LEMMA DeleteKeeps == ASSUME TypeOK, Facts, NEW r \in Admins, Delete(r) PROVE Facts'
<1>1. PICK s \in Specs :
        specFile[s] # Absent /\ Begin(r, s, Removal, Absent, "delete_spec") /\ used' = used
  BY DEF Delete
<1>2. s \in used
  BY <1>1 DEF Facts, UnusedIsNew
<1>3. Removal # Upload /\ Removal \notin Switches
  BY Kinds
<1>4. Removal \in Changes /\ Absent \in SpecContents /\ "delete_spec" \in Steps \ {"idle"}
  BY DEF Changes, SpecContents, Steps
<1>5. OnTheWay(r, s)'
  <2>1. Begun(r, s, Removal, Absent, "delete_spec")
    BY <1>1, <1>4, BeginFacts
  <2> QED
    BY <2>1 DEF Begun, OnTheWay
<1> QED
  BY <1>1, <1>2, <1>3, <1>4, <1>5, BeginKeeps

LEMMA ToggleKeeps == ASSUME TypeOK, Facts, NEW r \in Admins, Toggle(r) PROVE Facts'
<1>1. PICK s \in Specs, c \in Switches :
        opsFile[s] # Absent /\ Begin(r, s, c, Absent, "reread_ops") /\ used' = used
  BY DEF Toggle
<1>2. s \in used
  BY <1>1 DEF Facts, UnusedIsNew
<1>3. c # Upload
  BY Kinds
<1>4. c \in Changes /\ Absent \in SpecContents /\ "reread_ops" \in Steps \ {"idle"}
  BY DEF Changes, SpecContents, Steps
<1>5. ASSUME s \notin spoiled' PROVE OnTheWay(r, s)'
  <2>0. Begun(r, s, c, Absent, "reread_ops")
    BY <1>1, <1>4, BeginFacts
  <2>1. /\ pc'[r] = "reread_ops" /\ UNCHANGED <<specFile, opsFile, promised>>
        /\ s \notin spoiled /\ WorkingOn(s) = {}
    BY <1>5, <2>0 DEF Begun
  <2>2. Agree(s, promised[s])
    BY <2>1 DEF Facts, IdleAgrees
  <2> QED
    BY <2>1, <2>2 DEF OnTheWay, Agree
<1> QED
  BY <1>1, <1>2, <1>3, <1>4, <1>5, BeginKeeps

-----------------------------------------------------------------------------
(* The steps of a handler. *)

\* What a step of r has to see to itself, s being its spec.
OwnPart(r, s) ==
  /\ \/ pc'[r] = "save_ops" /\ change[r] \in {Upload} \cup Switches
     \/ pc'[r] \in {"delete_ops", "delete_auth"} /\ change[r] = Removal
     \/ pc'[r] \in Rebuilding
  /\ s \in Specs \/ pc'[r] \in Rebuilding
  /\ \/ opsFile'[s] \in {opsFile[s], Absent}
     \/ \A q \in InProgress : target[q] = s => ~Creates(q)'
  /\ pc'[r] = "save_ops" /\ change[r] = Upload => pc[r] = "save_spec"
  /\ s \in Specs \ spoiled' => OnTheWay(r, s)'
  /\ \A t \in Specs :
       /\ pc'[r] \notin {"read_specs", "read_ops"} => read'[r][t] = Absent
       /\ pc'[r] = "read_specs" /\ t \in todo'[r] => read'[r][t] = Absent
       /\ pc'[r] # "read_ops" => built'[r][t] = NoTools
  /\ \A q \in Admins \ {r} : unsure'[q] = unsure[q]
  /\ \A t \in Specs : pc'[r] \in Reading /\ t \notin unsure'[r]
       => UpToDate(r, t)' /\ WorkingOn(t) \subseteq {r}
  /\ StoredTools(s)' = StoredTools(s) \/ pc'[r] \in Written
  /\ pc[r] \in Written => pc'[r] \in Written

\* The rest of the invariant holds as r's step concerns nobody else.
LEMMA OnwardKeeps ==
  ASSUME TypeOK, Facts, NEW r \in Admins, Onward(r), NEW s \in Specs \cup {NoSpec},
         target[r] = s, OwnPart(r, s)
  PROVE  Facts'
<1>1. /\ pc[r] # "idle" /\ pc'[r] # "idle" /\ target'[r] = target[r] /\ change'[r] = change[r]
      /\ target[r] \in Specs \cup {NoSpec}
      /\ \A q \in Admins \ {r} : SameLocals(q)
      /\ InProgress' = InProgress /\ r \in InProgress
      /\ \A t \in Specs \ {target[r]} : SameFiles(t)
      /\ UNCHANGED <<registry, promised, used, lapsed>> /\ spoiled \subseteq spoiled'
  BY OnwardFacts DEF Facts
<1>2. \A q \in InProgress : target'[q] = target[q] /\ change'[q] = change[q]
  BY <1>1 DEF SameLocals, InProgress
<1>3. \A t \in Specs : WorkingOn(t)' = WorkingOn(t)
  BY <1>1, <1>2 DEF WorkingOn
<1>4. Shaped' /\ StartsAlone'
  <2>1. \/ change[r] \in Changes /\ target[r] \in used
        \/ change[r] = Startup /\ target[r] = NoSpec
    BY <1>1 DEF Facts, Shaped
  <2>2. ASSUME NEW q \in InProgress
        PROVE  /\ \/ change'[q] \in Changes /\ target'[q] \in used'
                  \/ change'[q] = Startup /\ target'[q] = NoSpec /\ pc'[q] \in Rebuilding
               /\ pc'[q] = "save_spec" => change'[q] \in {Upload} \cup Patches
               /\ pc'[q] = "save_ops" => change'[q] \in {Upload} \cup Switches
               /\ pc'[q] = "reread_ops" => change'[q] \in Switches
               /\ pc'[q] \in {"delete_spec", "delete_ops", "delete_auth"} => change'[q] = Removal
    <3>1. CASE q = r
      BY <1>1, <2>1, <3>1, AbsentAssumption DEF Rebuilding, OwnPart
    <3>2. CASE q # r
      BY <1>1, <3>2 DEF Facts, Shaped, SameLocals, InProgress
    <3> QED
      BY <3>1, <3>2
  <2>3. \A q \in Admins : change'[q] = change[q]
    BY <1>1 DEF SameLocals
  <2> QED
    BY <1>1, <2>2, <2>3 DEF Facts, Shaped, StartsAlone
<1>5. UnusedIsNew'
  <2>1. target[r] \in used \/ target[r] \notin Specs
    BY <1>1, AbsentAssumption DEF Facts, Shaped
  <2> QED
    BY <1>1, <2>1 DEF Facts, UnusedIsNew, SameFiles
<1>6. PromiseShape'
  BY <1>1 DEF Facts, PromiseShape
<1>7. Sole'
  BY <1>1, <1>2 DEF Facts, Sole
<1>8. CreatedHasNoOps'
  <2>1. ASSUME NEW p \in InProgress, Creates(p)'
        PROVE  /\ opsFile'[target'[p]] = Absent
               /\ \A q \in InProgress \ {p} :
                    target'[q] = target'[p] => change'[q] \in {Removal} \cup Patches
    <3>1. Creates(p)
      <4>1. CASE p = r
        BY <1>1, <2>1, <4>1 DEF Creates, Rebuilding, OwnPart
      <4>2. CASE p # r
        BY <1>1, <2>1, <4>2 DEF Creates, SameLocals, InProgress
      <4> QED
        BY <4>1, <4>2
    <3>2. /\ opsFile[target[p]] = Absent
          /\ \A q \in InProgress \ {p} :
               target[q] = target[p] => change[q] \in {Removal} \cup Patches
      BY <3>1 DEF Facts, CreatedHasNoOps
    <3>3. target[p] \in Specs
      BY <3>1, Kinds DEF Facts, Shaped, Creates, TypeOK
    <3>4. opsFile'[target[p]] = Absent
      BY <1>1, <1>2, <2>1, <3>2, <3>3 DEF SameFiles, OwnPart
    <3> QED
      BY <1>2, <3>2, <3>4
  <2> QED
    BY <1>1, <2>1 DEF CreatedHasNoOps
<1>9. IdleAgrees'
  <2>1. ASSUME NEW t \in Specs \ spoiled', WorkingOn(t)' = {} PROVE Agree(t, promised[t])'
    <3>1. WorkingOn(t) = {} /\ t \notin spoiled /\ t # target[r]
      BY <1>1, <1>3, <2>1 DEF WorkingOn
    <3>2. Agree(t, promised[t])
      BY <3>1 DEF Facts, IdleAgrees
    <3> QED
      BY <1>1, <3>1, <3>2 DEF Agree, SameFiles
  <2> QED
    BY <2>1 DEF IdleAgrees
<1>10. ASSUME NEW q \in InProgress, NEW t \in Specs, target'[q] = t, t \notin spoiled'
       PROVE  OnTheWay(q, t)'
  <2>1. CASE q = r
    BY <1>1, <1>10, <2>1 DEF OwnPart
  <2>2. CASE q # r
    <3>1. target[q] = t /\ t \notin spoiled /\ t # target[r]
      BY <1>1, <1>2, <1>10, <2>2 DEF Facts, Sole
    <3>2. SameLocals(q) /\ SameFiles(t) /\ promised'[t] = promised[t]
      BY <1>1, <2>2, <3>1 DEF InProgress
    <3>3. OnTheWay(q, t)
      BY <3>1 DEF Facts, RequestsOnTheWay
    <3> QED
      BY <3>2, <3>3, OnTheWayStays
  <2> QED
    BY <2>1, <2>2
<1>11. RequestsOnTheWay'
  BY <1>1, <1>2, <1>10 DEF RequestsOnTheWay
<1>12. ReadsLater'
  <2>1. ASSUME NEW q \in Admins, NEW t \in Specs
        PROVE  /\ pc'[q] \notin {"read_specs", "read_ops"} => read'[q][t] = Absent
               /\ pc'[q] = "read_specs" /\ t \in todo'[q] => read'[q][t] = Absent
               /\ pc'[q] # "read_ops" => built'[q][t] = NoTools
    <3>1. CASE q = r
      BY <3>1 DEF OwnPart
    <3>2. CASE q # r
      BY <1>1, <3>2 DEF Facts, ReadsLater, SameLocals
    <3> QED
      BY <3>1, <3>2
  <2> QED
    BY <2>1 DEF ReadsLater
<1>13. SureIsUpToDate'
  <2>1. ASSUME NEW q \in InProgress, NEW t \in Specs, pc'[q] \in Reading, t \notin unsure'[q]
        PROVE  UpToDate(q, t)' /\ WorkingOn(t)' \subseteq {q}
    <3>1. CASE q = r
      BY <1>3, <2>1, <3>1 DEF OwnPart
    <3>2. CASE q # r
      <4>1. SameLocals(q) /\ pc[q] \in Reading /\ t \notin unsure[q]
        BY <1>1, <2>1, <3>2 DEF SameLocals, InProgress, OwnPart
      <4>2. UpToDate(q, t) /\ WorkingOn(t) \subseteq {q}
        BY <2>1, <4>1 DEF Facts, SureIsUpToDate
      <4>3. t # target[r]
        BY <1>1, <3>2, <4>2 DEF WorkingOn
      <4> QED
        BY <1>1, <1>3, <4>1, <4>2, <4>3, UpToDateStays
    <3> QED
      BY <3>1, <3>2
  <2> QED
    BY <1>1, <2>1 DEF SureIsUpToDate
<1>14. ServedOrDue'
  <2>1. ASSUME NEW t \in Specs \ lapsed
        PROVE  registry'[t] = StoredTools(t)' \/ \E q \in WorkingOn(t)' : pc'[q] \in Written
    <3>1. CASE StoredTools(t)' = StoredTools(t)
      <4>1. CASE registry[t] = StoredTools(t)
        BY <1>1, <3>1, <4>1
      <4>2. CASE \E q \in WorkingOn(t) : pc[q] \in Written
        <5>1. PICK q \in WorkingOn(t) : pc[q] \in Written
          BY <4>2
        <5>2. pc'[q] \in Written
          BY <1>1, <5>1 DEF SameLocals, WorkingOn, InProgress, OwnPart
        <5> QED
          BY <1>3, <5>1, <5>2
      <4> QED
        BY <2>1, <4>1, <4>2 DEF Facts, ServedOrDue
    <3>2. CASE t = target[r] /\ pc'[r] \in Written
      <4>1. r \in WorkingOn(t)
        BY <1>1, <3>2 DEF WorkingOn
      <4> QED
        BY <1>3, <3>2, <4>1
    <3>3. CASE t # target[r]
      <4>1. specFile'[t] = specFile[t] /\ opsFile'[t] = opsFile[t]
        BY <1>1, <3>3 DEF SameFiles
      <4>2. StoredTools(t)' = StoredTools(t)
        BY <4>1 DEF StoredTools
      <4> QED
        BY <3>1, <4>2
    <3>4. CASE t = target[r]
      <4>1. StoredTools(t)' = StoredTools(t) \/ pc'[r] \in Written
        BY <3>4 DEF OwnPart
      <4> QED
        BY <3>1, <3>2, <3>4, <4>1
    <3> QED
      BY <3>3, <3>4
  <2> QED
    BY <1>1, <2>1 DEF ServedOrDue
<1> QED
  BY <1>4, <1>5, <1>6, <1>7, <1>8, <1>9, <1>11, <1>12, <1>13, <1>14 DEF Facts

\* A read record keeps what was read up to date, and so do the operations read.
LEMMA ReadingStays ==
  ASSUME TypeOK, Facts, NEW r \in Admins, NEW s \in Specs, ReadSpec(r) \/ ReadOps(r),
         s \notin unsure'[r], UpToDate(r, s)
  PROVE  UpToDate(r, s)'
<1>1. specFile' = specFile /\ opsFile' = opsFile
  BY DEF ReadSpec, ReadOps, files
<1>2. CASE ReadSpec(r)
  <2>1. CASE \E t \in todo[r] :
               /\ \/ read' = [read EXCEPT ![r][t] = specFile[t]]
                  \/ read' = read /\ unsure' = [unsure EXCEPT ![r] = @ \cup {t}]
               /\ todo' = [todo EXCEPT ![r] = @ \ {t}]
               /\ pc' = pc
    <3>1. PICK t \in todo[r] :
               /\ \/ read' = [read EXCEPT ![r][t] = specFile[t]]
                  \/ read' = read /\ unsure' = [unsure EXCEPT ![r] = @ \cup {t}]
               /\ todo' = [todo EXCEPT ![r] = @ \ {t}]
               /\ pc' = pc
      BY <2>1
    <3>2. /\ read'[r][s] = IF s = t THEN specFile[s] ELSE read[r][s]
          /\ todo'[r] = todo[r] \ {t} /\ pc'[r] = "read_specs" /\ pc[r] = "read_specs"
      BY <1>2, <3>1 DEF TypeOK, ReadSpec
    <3> QED
      BY <1>1, <3>2 DEF UpToDate
  <2>2. CASE /\ todo[r] = {}
             /\ todo' = [todo EXCEPT ![r] = {t \in Specs : read[r][t] # Absent}]
             /\ pc' = [pc EXCEPT ![r] = "read_ops"]
             /\ read' = read
    <3>1. /\ pc'[r] = "read_ops" /\ read'[r][s] = read[r][s] /\ built'[r][s] = NoTools
          /\ s \notin todo'[r] => read[r][s] = Absent
      BY <1>2, <2>2 DEF TypeOK, ReadSpec, Facts, ReadsLater
    <3>2. read[r][s] = specFile[s]
      BY <1>2, <2>2 DEF UpToDate, ReadSpec
    <3>3. s \notin todo'[r] => StoredTools(s)' = NoTools
      BY <1>1, <3>1, <3>2 DEF StoredTools, Tools
    <3> QED
      BY <1>1, <3>1, <3>2, <3>3 DEF UpToDate
  <2> QED
    BY <1>2, <2>1, <2>2 DEF ReadSpec
<1>3. CASE ReadOps(r)
  <2>1. PICK t \in todo[r] :
          /\ \/ built' = [built EXCEPT ![r][t] = Tools(read[r][t], opsFile[t])]
             \/ built' = built /\ unsure' = [unsure EXCEPT ![r] = @ \cup {t}]
          /\ todo' = [todo EXCEPT ![r] = @ \ {t}]
    BY <1>3 DEF ReadOps
  <2>2. /\ pc[r] = "read_ops" /\ pc' = pc /\ read' = read
        /\ todo'[r] = todo[r] \ {t}
    BY <1>3, <2>1 DEF TypeOK, ReadOps
  <2>3. built'[r][s] = IF s = t THEN Tools(read[r][s], opsFile[s]) ELSE built[r][s]
    BY <2>1 DEF TypeOK
  <2>4. StoredTools(s)' = StoredTools(s)
    BY <1>1 DEF StoredTools
  <2> QED
    BY <1>1, <2>2, <2>3, <2>4 DEF UpToDate, StoredTools
<1> QED
  BY <1>2, <1>3

\* What the invariant says of an admin at work.
LEMMA Targets ==
  ASSUME TypeOK, Facts, NEW r \in Admins, pc[r] # "idle"
  PROVE  /\ r \in InProgress /\ target[r] \in Specs \cup {NoSpec}
         /\ pc[r] \notin Rebuilding => target[r] \in Specs
         /\ target[r] \in Specs => change[r] \in Changes
         /\ pc[r] = "save_spec" => change[r] \in {Upload} \cup Patches
         /\ pc[r] = "save_ops" => change[r] \in {Upload} \cup Switches
         /\ pc[r] = "reread_ops" => change[r] \in Switches
         /\ pc[r] \in {"delete_spec", "delete_ops", "delete_auth"} => change[r] = Removal
         /\ target[r] \in Specs \ spoiled => OnTheWay(r, target[r])
         /\ pc[r] \notin {"read_specs", "read_ops"} =>
              \A t \in Specs : read[r][t] = Absent /\ built[r][t] = NoTools
<1>1. r \in InProgress
  BY DEF InProgress
<1>2. /\ target[r] \in Specs \cup {NoSpec}
      /\ pc[r] \notin Rebuilding => target[r] \in Specs
      /\ target[r] \in Specs => change[r] \in Changes
  BY <1>1, AbsentAssumption DEF TypeOK, Facts, Shaped
<1> QED
  BY <1>1, <1>2 DEF Facts, Shaped, RequestsOnTheWay, ReadsLater

\* What a handler does before its rebuild: the rebuild's locals stay.
LEMMA BeforeRebuild ==
  ASSUME TypeOK, Facts, NEW r \in Admins, NEW s \in Specs, target[r] = s,
         pc[r] \notin {"idle", "read_specs", "read_ops"}, pc'[r] \notin {"read_specs", "read_ops"},
         read' = read, built' = built, unsure' = unsure,
         \/ pc'[r] = "save_ops" /\ change[r] \in {Upload} \cup Switches
         \/ pc'[r] \in {"delete_ops", "delete_auth"} /\ change[r] = Removal
         \/ pc'[r] \in Rebuilding,
         \/ opsFile'[s] \in {opsFile[s], Absent}
         \/ \A q \in InProgress : target[q] = s => ~Creates(q)',
         pc'[r] = "save_ops" /\ change[r] = Upload => pc[r] = "save_spec",
         s \notin spoiled' => OnTheWay(r, s)',
         StoredTools(s)' = StoredTools(s) \/ pc'[r] \in Written,
         pc[r] \in Written => pc'[r] \in Written
  PROVE  OwnPart(r, s)
<1>1. \A t \in Specs : read'[r][t] = Absent /\ built'[r][t] = NoTools
  BY Targets
<1> QED
  BY <1>1 DEF OwnPart, Reading

LEMMA SaveSpecKeeps == ASSUME TypeOK, Facts, NEW r \in Admins, SaveSpec(r) PROVE Facts'
<1>1. PICK s \in Specs : s = target[r]
  BY Targets DEF SaveSpec, Goto, Rebuilding
<1>2. /\ pc[r] = "save_spec" /\ change[r] \in {Upload} \cup Patches
      /\ s \notin spoiled => OnTheWay(r, s)
  BY <1>1, Targets DEF SaveSpec, Goto
<1>3. /\ read' = read /\ built' = built /\ unsure' = unsure /\ opsFile' = opsFile
      /\ change' = change /\ promised' = promised /\ spoiled' = spoiled
      /\ specFile'[s] = newRec[r]
  BY <1>1 DEF SaveSpec, rebuildVars, history, TypeOK
<1>4. CASE change[r] = Upload
  <2>1. pc'[r] = "save_ops" /\ newOps'[r] = Ops
    BY <1>4, Kinds DEF SaveSpec, Goto, TypeOK
  <2>2. opsFile[s] = Absent
    BY <1>1, <1>2, <1>4 DEF Facts, CreatedHasNoOps, Creates, InProgress
  <2>3. StoredTools(s)' = StoredTools(s)
    BY <1>3, <2>2 DEF StoredTools, Tools
  <2>4. s \notin spoiled' => OnTheWay(r, s)'
    BY <1>2, <1>3, <1>4, <2>1 DEF OnTheWay
  <2>5. OwnPart(r, s)
    BY <1>1, <1>2, <1>3, <1>4, <2>1, <2>3, <2>4, BeforeRebuild DEF Written, Rebuilding
  <2> QED
    BY <1>1, <2>5, OnwardKeeps DEF Onward
<1>5. CASE change[r] \in Patches
  <2>1. pc'[r] = "list" /\ change[r] # Upload
    BY <1>5, Kinds DEF SaveSpec, Goto, TypeOK
  <2>2. ASSUME s \notin spoiled' PROVE Agree(s, Fulfilled(promised[s], change[r]))'
    <3>1. /\ Agree(s, promised[s]) /\ specFile[s] # Absent
          /\ newRec[r] = Patched(specFile[s], change[r])
      BY <1>2, <1>3, <2>1, <2>2 DEF OnTheWay
    <3>2. CASE promised[s] \in {Absent, Gone}
      BY <1>3, <1>5, <3>2, Kinds DEF Agree, Fulfilled
    <3>3. CASE promised[s] \in Promises /\ promised[s] \notin {Absent, Gone}
      <4>1. Fulfilled(promised[s], change[r]) = [promised[s] EXCEPT !.rec = Patched(@, change[r])]
        BY <1>5, <3>3, Kinds DEF Fulfilled
      <4>2. specFile[s] = promised[s].rec /\ opsFile[s] = promised[s].ops
        BY <3>1, <3>3 DEF Agree
      <4>3. /\ Fulfilled(promised[s], change[r]).rec = Patched(promised[s].rec, change[r])
            /\ Fulfilled(promised[s], change[r]).ops = promised[s].ops
        BY <3>3, <4>1 DEF Promises
      <4> QED
        BY <1>1, <1>3, <3>1, <4>2, <4>3 DEF Agree
    <3> QED
      BY <3>2, <3>3 DEF Facts, PromiseShape
  <2>3. s \notin spoiled' => OnTheWay(r, s)'
    BY <2>1, <2>2 DEF OnTheWay
  <2>4. OwnPart(r, s)
    BY <1>1, <1>2, <1>3, <2>1, <2>3, BeforeRebuild DEF Written, Rebuilding
  <2> QED
    BY <1>1, <2>4, OnwardKeeps DEF Onward
<1> QED
  BY <1>2, <1>4, <1>5

LEMMA RereadOpsKeeps == ASSUME TypeOK, Facts, NEW r \in Admins, RereadOps(r) PROVE Facts'
<1>1. PICK s \in Specs : s = target[r]
  BY Targets DEF RereadOps, Goto, Rebuilding
<1>2. /\ pc[r] = "reread_ops" /\ change[r] \in Switches /\ change[r] # Upload
      /\ s \notin spoiled => OnTheWay(r, s)
  BY <1>1, Targets, Kinds DEF RereadOps, Goto
<1>3. /\ read' = read /\ built' = built /\ unsure' = unsure /\ opsFile' = opsFile
      /\ specFile' = specFile /\ change' = change /\ promised' = promised /\ spoiled' = spoiled
      /\ pc'[r] = "save_ops" /\ opsFile[s] # Absent
      /\ newOps'[r] = Switched(opsFile[s], change[r])
  BY <1>1 DEF RereadOps, Goto, files, rebuildVars, history, TypeOK
<1>4. StoredTools(s)' = StoredTools(s)
  BY <1>3 DEF StoredTools
<1>5. s \notin spoiled' => OnTheWay(r, s)'
  BY <1>2, <1>3 DEF OnTheWay, Agree
<1>6. OwnPart(r, s)
  BY <1>1, <1>2, <1>3, <1>4, <1>5, BeforeRebuild DEF Written, Rebuilding
<1> QED
  BY <1>1, <1>6, OnwardKeeps DEF Onward

LEMMA SaveOpsKeeps == ASSUME TypeOK, Facts, NEW r \in Admins, SaveOps(r) PROVE Facts'
<1>1. PICK s \in Specs : s = target[r]
  BY Targets DEF SaveOps, Goto, Rebuilding
<1>2. /\ pc[r] = "save_ops" /\ change[r] \in {Upload} \cup Switches /\ r \in InProgress
      /\ s \notin spoiled => OnTheWay(r, s)
  BY <1>1, Targets DEF SaveOps, Goto
<1>3. /\ read' = read /\ built' = built /\ unsure' = unsure /\ specFile' = specFile
      /\ change' = change /\ promised' = promised /\ spoiled' = spoiled
      /\ pc'[r] = "list" /\ opsFile'[s] = newOps[r]
  BY <1>1 DEF SaveOps, Goto, rebuildVars, history, TypeOK
<1>4. \A q \in Admins \ {r} : pc'[q] = pc[q]
  BY DEF SaveOps, Goto, TypeOK
<1>5. ASSUME NEW q \in InProgress, target[q] = s, Creates(q)' PROVE FALSE
  <2>1. q # r
    BY <1>3, <1>5 DEF Creates
  <2>2. Creates(q)
    BY <1>3, <1>4, <1>5, <2>1 DEF Creates, InProgress
  <2>3. change[r] \in {Removal} \cup Patches
    BY <1>1, <1>2, <1>5, <2>1, <2>2 DEF Facts, CreatedHasNoOps
  <2> QED
    BY <1>2, <2>3, Kinds
<1>6. ASSUME s \notin spoiled' PROVE Agree(s, Fulfilled(promised[s], change[r]))'
  <2>1. CASE change[r] = Upload
    <3>1. specFile[s] = Default /\ newOps[r] = Ops
      BY <1>2, <1>3, <1>6, <2>1 DEF OnTheWay
    <3>2. Fulfilled(promised[s], change[r]) = [rec |-> Default, ops |-> Ops]
      BY <2>1, Kinds DEF Fulfilled
    <3> QED
      BY <1>3, <3>1, <3>2 DEF Agree
  <2>2. CASE change[r] \in Switches
    <3>1. /\ Agree(s, promised[s]) /\ opsFile[s] # Absent
          /\ newOps[r] = Switched(opsFile[s], change[r])
      BY <1>2, <1>3, <1>6, <2>2, Kinds DEF OnTheWay
    <3>2. CASE promised[s] \in {Absent, Gone}
      BY <1>3, <2>2, <3>2, Kinds DEF Agree, Fulfilled
    <3>3. CASE promised[s] \in Promises /\ promised[s] \notin {Absent, Gone}
      <4>1. Fulfilled(promised[s], change[r]) = [promised[s] EXCEPT !.ops = Switched(@, change[r])]
        BY <2>2, <3>3, Kinds DEF Fulfilled
      <4>2. specFile[s] = promised[s].rec /\ opsFile[s] = promised[s].ops
        BY <3>1, <3>3 DEF Agree
      <4>3. /\ Fulfilled(promised[s], change[r]).rec = promised[s].rec
            /\ Fulfilled(promised[s], change[r]).ops = Switched(promised[s].ops, change[r])
        BY <3>3, <4>1 DEF Promises
      <4> QED
        BY <1>1, <1>3, <3>1, <4>2, <4>3 DEF Agree
    <3> QED
      BY <3>2, <3>3 DEF Facts, PromiseShape
  <2> QED
    BY <1>2, <2>1, <2>2
<1>7. s \notin spoiled' => OnTheWay(r, s)'
  BY <1>3, <1>6 DEF OnTheWay
<1>8. OwnPart(r, s)
  BY <1>1, <1>2, <1>3, <1>5, <1>7, BeforeRebuild DEF Written, Rebuilding
<1> QED
  BY <1>1, <1>8, OnwardKeeps DEF Onward

LEMMA DeleteStepsKeep ==
  ASSUME TypeOK, Facts, NEW r \in Admins, DeleteSpec(r) \/ DeleteOps(r) \/ DeleteAuth(r)
  PROVE  Facts'
<1>1. PICK s \in Specs : s = target[r]
  BY Targets DEF DeleteSpec, DeleteOps, DeleteAuth, Goto, Rebuilding
<1>2. /\ pc[r] \in {"delete_spec", "delete_ops", "delete_auth"} /\ change[r] = Removal
      /\ s \notin spoiled => OnTheWay(r, s)
  BY <1>1, Targets DEF DeleteSpec, DeleteOps, DeleteAuth, Goto
<1>3. /\ read' = read /\ built' = built /\ unsure' = unsure
      /\ change' = change /\ promised' = promised /\ spoiled \subseteq spoiled'
      /\ specFile'[s] \in {specFile[s], Absent} /\ opsFile'[s] \in {opsFile[s], Absent}
      /\ pc'[r] \in {"delete_ops", "delete_auth", "list"}
  BY <1>1 DEF DeleteSpec, DeleteOps, DeleteAuth, Goto, rebuildVars, TypeOK
<1>4. ASSUME s \notin spoiled' PROVE OnTheWay(r, s)'
  <2>1. s \notin spoiled
    BY <1>3, <1>4
  <2>2. CASE DeleteSpec(r)
    <3>1. pc'[r] = "delete_ops" /\ specFile'[s] = Absent
      BY <1>1, <1>4, <2>2 DEF DeleteSpec, Goto, TypeOK
    <3> QED
      BY <3>1 DEF OnTheWay
  <2>3. CASE DeleteOps(r)
    <3>1. /\ pc'[r] = "delete_auth" /\ pc[r] = "delete_ops"
          /\ opsFile'[s] = Absent /\ specFile' = specFile
      BY <1>1, <1>4, <2>3 DEF DeleteOps, Goto, TypeOK
    <3> QED
      BY <1>2, <2>1, <3>1 DEF OnTheWay
  <2>4. CASE DeleteAuth(r)
    <3>1. /\ pc'[r] = "list" /\ opsFile' = opsFile /\ specFile' = specFile /\ pc[r] = "delete_auth"
      BY <1>1, <1>4, <2>4 DEF DeleteAuth, Goto, TypeOK
    <3>2. specFile[s] = Absent /\ opsFile[s] = Absent
      BY <1>2, <2>1, <3>1 DEF OnTheWay
    <3>3. Fulfilled(promised[s], Removal) = Gone
      BY Kinds DEF Fulfilled
    <3>4. Agree(s, Fulfilled(promised[s], change[r]))'
      BY <1>2, <1>3, <3>1, <3>2, <3>3 DEF Agree, Gone
    <3> QED
      BY <3>1, <3>4 DEF OnTheWay
  <2> QED
    BY <2>2, <2>3, <2>4
<1>5. OwnPart(r, s)
  BY <1>1, <1>2, <1>3, <1>4, BeforeRebuild DEF Written, Rebuilding
<1> QED
  BY <1>1, <1>5, OnwardKeeps DEF Onward

-----------------------------------------------------------------------------
(* The rebuild. *)

LEMMA ListKeeps == ASSUME TypeOK, Facts, NEW r \in Admins, ListSpecs(r) PROVE Facts'
<1>1. PICK s \in Specs \cup {NoSpec} : s = target[r]
  BY Targets DEF ListSpecs, Goto
<1>2. /\ pc[r] = "list" /\ r \in InProgress
      /\ s \in Specs \ spoiled => OnTheWay(r, s)
      /\ \A t \in Specs : read[r][t] = Absent /\ built[r][t] = NoTools
  BY <1>1, Targets DEF ListSpecs, Goto
<1>3. /\ read' = read /\ built' = built /\ specFile' = specFile /\ opsFile' = opsFile
      /\ change' = change /\ promised' = promised /\ spoiled' = spoiled
      /\ pc'[r] = "read_specs" /\ todo'[r] = {t \in Specs : specFile[t] # Absent}
      /\ \A q \in Admins \ {r} : unsure'[q] = unsure[q]
      /\ unsure'[r] = {target[q] : q \in InProgress \ {r}}
  BY <1>1 DEF ListSpecs, Goto, files, TypeOK
<1>4. \A t \in Specs : UpToDate(r, t)'
  BY <1>2, <1>3 DEF UpToDate
<1>5. \A t \in Specs \ unsure'[r] : WorkingOn(t) \subseteq {r}
  BY <1>3 DEF WorkingOn
<1>6. ASSUME s \in Specs \ spoiled' PROVE OnTheWay(r, s)'
  <2>1. Agree(s, Fulfilled(promised[s], change[r]))
    BY <1>2, <1>3, <1>6 DEF OnTheWay
  <2>2. Agree(s, Fulfilled(promised[s], change[r]))'
    BY <1>3, <2>1 DEF Agree
  <2> QED
    BY <1>3, <2>2 DEF OnTheWay
<1>7. StoredTools(s)' = StoredTools(s)
  BY <1>3 DEF StoredTools
<1>8. OwnPart(r, s)
  BY <1>2, <1>3, <1>4, <1>5, <1>6, <1>7 DEF OwnPart, Rebuilding, Written, Reading
<1> QED
  BY <1>1, <1>8, OnwardKeeps DEF Onward

LEMMA ReadKeeps ==
  ASSUME TypeOK, Facts, NEW r \in Admins, ReadSpec(r) \/ ReadOps(r)
  PROVE  Facts'
<1>1. PICK s \in Specs \cup {NoSpec} : s = target[r]
  BY Targets DEF ReadSpec, ReadOps
<1>2. /\ pc[r] \in {"read_specs", "read_ops"} /\ r \in InProgress
      /\ s \in Specs \ spoiled => OnTheWay(r, s)
  BY <1>1, Targets DEF ReadSpec, ReadOps
<1>3. /\ specFile' = specFile /\ opsFile' = opsFile
      /\ change' = change /\ promised' = promised /\ spoiled' = spoiled
      /\ pc'[r] \in {"read_specs", "read_ops"}
  BY DEF ReadSpec, ReadOps, files, history, TypeOK
<1>4. ASSUME NEW t \in Specs, t \notin unsure'[r]
      PROVE  UpToDate(r, t)' /\ WorkingOn(t) \subseteq {r}
  <2>1. UpToDate(r, t) /\ WorkingOn(t) \subseteq {r}
    BY <1>2, <1>4 DEF Facts, SureIsUpToDate, ReadSpec, ReadOps, TypeOK, Reading
  <2> QED
    BY <1>4, <2>1, ReadingStays
<1>5. s \in Specs \ spoiled' => OnTheWay(r, s)'
  BY <1>2, <1>3 DEF OnTheWay, Agree
<1>6. \A q \in Admins \ {r} : unsure'[q] = unsure[q]
  BY DEF ReadSpec, ReadOps, TypeOK
<1>7. ASSUME NEW t \in Specs
      PROVE  /\ pc'[r] = "read_specs" /\ t \in todo'[r] => read'[r][t] = Absent
             /\ pc'[r] # "read_ops" => built'[r][t] = NoTools
  <2>1. CASE pc'[r] = "read_ops"
    BY <2>1
  <2>2. CASE pc'[r] = "read_specs"
    <3>1. PICK u \in todo[r] :
            /\ read' = [read EXCEPT ![r][u] = specFile[u]] \/ read' = read
            /\ todo' = [todo EXCEPT ![r] = @ \ {u}]
            /\ pc[r] = "read_specs" /\ built' = built
      BY <2>2 DEF ReadSpec, ReadOps, TypeOK
    <3>2. /\ todo'[r] = todo[r] \ {u} /\ (t # u => read'[r][t] = read[r][t])
          /\ built'[r][t] = built[r][t]
      BY <3>1 DEF TypeOK
    <3>3. /\ t \in todo[r] => read[r][t] = Absent
          /\ built[r][t] = NoTools
      BY <3>1 DEF Facts, ReadsLater
    <3> QED
      BY <3>2, <3>3
  <2> QED
    BY <1>3, <2>1, <2>2
<1>8. StoredTools(s)' = StoredTools(s)
  BY <1>3 DEF StoredTools
<1>9. OwnPart(r, s)
  BY <1>2, <1>3, <1>4, <1>5, <1>6, <1>7, <1>8 DEF OwnPart, Rebuilding, Written, Reading
<1> QED
  BY <1>1, <1>9, OnwardKeeps DEF Onward

-----------------------------------------------------------------------------
(* The end of a request. *)

\* A request has returned; what it leaves of its spec is as promised, and what is served
\* is stored, or was about to be replaced.
LEMMA ReturnKeeps ==
  ASSUME TypeOK, Facts, NEW r \in Admins, NEW s \in Specs \cup {NoSpec}, target[r] = s,
         pc[r] # "idle", Return(r),
         UNCHANGED <<specFile, opsFile, used, spoiled, unsure>>,
         \A t \in Specs \ {s} : promised'[t] = promised[t],
         s \in Specs => promised'[s] \in Promises \cup {Absent, Gone},
         s \in Specs \ spoiled => Agree(s, promised[s])',
         ServedOrDue'
  PROVE  Facts'
<1>1. /\ pc'[r] = "idle" /\ change'[r] = NoChange
      /\ read'[r] = [t \in Specs |-> Absent] /\ built'[r] = [t \in Specs |-> NoTools]
      /\ \A q \in Admins \ {r} : SameLocals(q)
      /\ InProgress' = InProgress \ {r}
  BY ReturnFacts
<1>2. \A q \in InProgress' : q \in InProgress /\ q \in Admins \ {r} /\ SameLocals(q)
  BY <1>1 DEF InProgress
<1>3. (s \in Specs => s \in used) /\ r \in InProgress
  BY AbsentAssumption DEF Facts, Shaped, InProgress
<1>4. Shaped' /\ StartsAlone'
  <2>1. Shaped'
    BY <1>1, <1>2 DEF Facts, Shaped, SameLocals
  <2>2. ASSUME NEW q \in Admins, change'[q] = Startup PROVE FALSE
    <3>1. q # r
      BY <1>1, <2>2, Kinds
    <3>2. InProgress = {q}
      BY <1>1, <2>2, <3>1 DEF Facts, StartsAlone, SameLocals
    <3> QED
      BY <1>3, <3>1, <3>2
  <2> QED
    BY <2>1, <2>2 DEF StartsAlone
<1>5. UnusedIsNew' /\ PromiseShape'
  BY <1>3 DEF Facts, UnusedIsNew, PromiseShape
<1>6. Sole'
  BY <1>1, <1>2 DEF Facts, Sole, SameLocals
<1>7. CreatedHasNoOps'
  <2>1. ASSUME NEW p \in InProgress', Creates(p)'
        PROVE  /\ opsFile'[target'[p]] = Absent
               /\ \A q \in InProgress' \ {p} :
                    target'[q] = target'[p] => change'[q] \in {Removal} \cup Patches
    <3>1. Creates(p) /\ p \in InProgress
      BY <1>2, <2>1 DEF Creates, SameLocals
    <3>2. /\ opsFile[target[p]] = Absent
          /\ \A q \in InProgress \ {p} :
               target[q] = target[p] => change[q] \in {Removal} \cup Patches
      BY <3>1 DEF Facts, CreatedHasNoOps
    <3> QED
      BY <1>2, <3>2 DEF SameLocals
  <2> QED
    BY <2>1 DEF CreatedHasNoOps
<1>8. IdleAgrees'
  <2>1. ASSUME NEW t \in Specs \ spoiled', WorkingOn(t)' = {} PROVE Agree(t, promised[t])'
    <3>1. CASE t = s
      BY <2>1, <3>1
    <3>2. CASE t # s
      <4>1. WorkingOn(t) = {}
        BY <1>1, <2>1, <3>2 DEF WorkingOn, SameLocals, InProgress
      <4>2. Agree(t, promised[t]) /\ promised'[t] = promised[t]
        BY <2>1, <3>2, <4>1 DEF Facts, IdleAgrees
      <4> QED
        BY <4>2 DEF Agree
    <3> QED
      BY <3>1, <3>2
  <2> QED
    BY <2>1 DEF IdleAgrees
<1>9. ASSUME NEW q \in InProgress', NEW t \in Specs, target'[q] = t, t \notin spoiled'
      PROVE  OnTheWay(q, t)'
  <2>1. target[q] = t /\ t \notin spoiled /\ t # s
    BY <1>2, <1>3, <1>9 DEF SameLocals, Facts, Sole
  <2>2. OnTheWay(q, t)
    BY <1>2, <2>1 DEF Facts, RequestsOnTheWay
  <2>3. SameLocals(q) /\ SameFiles(t) /\ promised'[t] = promised[t]
    BY <1>2, <2>1 DEF SameFiles
  <2> QED
    BY <2>2, <2>3, OnTheWayStays
<1>10. RequestsOnTheWay'
  BY <1>9 DEF RequestsOnTheWay
<1>11. ReadsLater'
  <2>1. ASSUME NEW q \in Admins, NEW t \in Specs
        PROVE  /\ pc'[q] \notin {"read_specs", "read_ops"} => read'[q][t] = Absent
               /\ pc'[q] = "read_specs" /\ t \in todo'[q] => read'[q][t] = Absent
               /\ pc'[q] # "read_ops" => built'[q][t] = NoTools
    <3>1. CASE q = r
      BY <1>1, <3>1
    <3>2. CASE q # r
      BY <1>1, <3>2 DEF Facts, ReadsLater, SameLocals
    <3> QED
      BY <3>1, <3>2
  <2> QED
    BY <2>1 DEF ReadsLater
<1>12. SureIsUpToDate'
  <2>1. ASSUME NEW q \in InProgress', NEW t \in Specs, pc'[q] \in Reading, t \notin unsure'[q]
        PROVE  UpToDate(q, t)' /\ WorkingOn(t)' \subseteq {q}
    <3>1. q \in InProgress /\ SameLocals(q)
      BY <1>2
    <3>2. UpToDate(q, t) /\ WorkingOn(t) \subseteq {q}
      BY <2>1, <3>1 DEF Facts, SureIsUpToDate, SameLocals
    <3>3. WorkingOn(t)' \subseteq WorkingOn(t) /\ SameFiles(t)
      BY <1>2 DEF WorkingOn, SameLocals, SameFiles
    <3> QED
      BY <3>1, <3>2, <3>3, UpToDateStays
  <2> QED
    BY <2>1 DEF SureIsUpToDate
<1> QED
  BY <1>4, <1>5, <1>6, <1>7, <1>8, <1>10, <1>11, <1>12 DEF Facts

LEMMA FailKeeps == ASSUME TypeOK, Facts, NEW r \in Admins, Fail(r) PROVE Facts'
<1>1. PICK s \in Specs : s = target[r]
  BY Targets DEF Fail, Rebuilding
<1>2. /\ pc[r] \in {"save_spec", "save_ops", "reread_ops"} /\ Return(r)
      /\ UNCHANGED <<specFile, opsFile, used, spoiled, unsure, registry, lapsed>>
      /\ change[r] \in {Upload} \cup Patches \cup Switches
      /\ s \notin spoiled => OnTheWay(r, s)
  BY <1>1, Targets DEF Fail, files
<1>3. promised[s] \in Promises \cup {Absent, Gone}
  BY DEF Facts, PromiseShape
<1>4. /\ promised'[s] \in {promised[s], Absent}
      /\ \A t \in Specs \ {s} : promised'[t] = promised[t]
  BY <1>1 DEF Fail, TypeOK
<1>5. ASSUME s \notin spoiled PROVE Agree(s, promised[s])'
  <2>1. CASE change[r] = Upload
    <3>1. promised'[s] = Absent
      BY <1>1, <2>1, Kinds DEF Fail, TypeOK
    <3> QED
      BY <3>1 DEF Agree
  <2>2. CASE change[r] \in Patches \cup Switches
    <3>1. promised' = promised /\ change[r] # Upload
      BY <2>2, Kinds DEF Fail
    <3>2. OnTheWay(r, s)
      BY <1>2, <1>5
    <3>3. Agree(s, promised[s])
      BY <1>2, <3>1, <3>2 DEF OnTheWay
    <3> QED
      BY <1>2, <3>1, <3>3 DEF Agree
  <2> QED
    BY <1>2, <2>1, <2>2
<1>6. ServedOrDue'
  <2>1. \A q \in InProgress : q = r \/ (SameLocals(q) /\ q \in InProgress')
    BY <1>2, ReturnFacts DEF InProgress
  <2>2. ASSUME NEW t \in Specs \ lapsed
        PROVE  registry'[t] = StoredTools(t)' \/ \E q \in WorkingOn(t)' : pc'[q] \in Written
    <3>1. CASE registry[t] = StoredTools(t)
      BY <1>2, <3>1 DEF StoredTools
    <3>2. CASE \E q \in WorkingOn(t) : pc[q] \in Written
      <4>1. PICK q \in WorkingOn(t) : pc[q] \in Written
        BY <3>2
      <4>2. SameLocals(q) /\ q \in InProgress'
        BY <1>2, <2>1, <4>1 DEF WorkingOn, Written, Rebuilding
      <4> QED
        BY <4>1, <4>2 DEF WorkingOn, SameLocals
    <3> QED
      BY <2>2, <3>1, <3>2 DEF Facts, ServedOrDue
  <2> QED
    BY <1>2, <2>2 DEF ServedOrDue
<1> QED
  BY <1>1, <1>2, <1>3, <1>4, <1>5, <1>6, ReturnKeeps

\* An answered request leaves its spec as it had to.
LEMMA AnswerFacts ==
  ASSUME TypeOK, Facts, NEW r \in Admins, pc[r] \in Rebuilding, Answer(r),
         UNCHANGED <<specFile, opsFile>>
  PROVE  /\ \A t \in Specs \ {target[r]} : promised'[t] = promised[t]
         /\ target[r] \in Specs => promised'[target[r]] \in Promises \cup {Absent, Gone}
         /\ target[r] \in Specs \ spoiled => Agree(target[r], promised'[target[r]])
<1>1. r \in InProgress /\ (target[r] \in Specs => change[r] \in Changes)
  BY Targets DEF Rebuilding
<1>2. ASSUME target[r] \in Specs
      PROVE  promised'[target[r]] = Fulfilled(promised[target[r]], change[r])
  BY <1>2 DEF Answer
<1>3. ASSUME target[r] \in Specs PROVE promised'[target[r]] \in Promises \cup {Absent, Gone}
  BY <1>1, <1>2, <1>3, FulfilledShape DEF Facts, PromiseShape, Changes
<1>4. ASSUME target[r] \in Specs \ spoiled PROVE Agree(target[r], promised'[target[r]])
  <2>1. OnTheWay(r, target[r])
    BY <1>1, <1>4, Targets DEF Rebuilding
  <2>2. Agree(target[r], Fulfilled(promised[target[r]], change[r]))
    BY <2>1 DEF OnTheWay, Rebuilding
  <2> QED
    BY <1>2, <1>4, <2>2
<1> QED
  BY <1>3, <1>4 DEF Answer

LEMMA InstallKeeps == ASSUME TypeOK, Facts, NEW r \in Admins, Install(r) PROVE Facts'
<1>1. PICK s \in Specs \cup {NoSpec} : s = target[r]
  BY Targets DEF Install
<1>2. /\ pc[r] = "read_ops" /\ todo[r] = {} /\ Return(r) /\ registry' = built[r]
      /\ UNCHANGED <<specFile, opsFile, used, spoiled, unsure>> /\ lapsed' = unsure[r]
      /\ r \in InProgress /\ Answer(r)
  BY Targets DEF Install, Answer, files
<1>3. /\ \A t \in Specs \ {s} : promised'[t] = promised[t]
      /\ s \in Specs => promised'[s] \in Promises \cup {Absent, Gone}
      /\ s \in Specs \ spoiled => Agree(s, promised[s])'
  BY <1>1, <1>2, AnswerFacts DEF Rebuilding, Agree
<1>4. ServedOrDue'
  <2>1. ASSUME NEW t \in Specs \ lapsed' PROVE registry'[t] = StoredTools(t)'
    <3>1. UpToDate(r, t)
      BY <1>2, <2>1 DEF Facts, SureIsUpToDate, Reading
    <3>2. built[r][t] = StoredTools(t)
      BY <1>2, <3>1 DEF UpToDate
    <3> QED
      BY <1>2, <3>2 DEF StoredTools
  <2> QED
    BY <2>1 DEF ServedOrDue
<1> QED
  BY <1>1, <1>2, <1>3, <1>4, ReturnKeeps

\* A rebuild that gives up changes nothing that is served.
LEMMA ListFailsKeeps == ASSUME TypeOK, Facts, NEW r \in Admins, ListFails(r) PROVE Facts'
<1>1. PICK s \in Specs \cup {NoSpec} : s = target[r]
  BY Targets DEF ListFails
<1>2. /\ pc[r] = "list" /\ Return(r) /\ lapsed' = lapsed \cup (Specs \cap {s})
      /\ UNCHANGED <<specFile, opsFile, used, spoiled, unsure, registry>>
      /\ r \in InProgress /\ Answer(r)
  BY <1>1, Targets DEF ListFails, Answer, files
<1>3. /\ \A t \in Specs \ {s} : promised'[t] = promised[t]
      /\ s \in Specs => promised'[s] \in Promises \cup {Absent, Gone}
      /\ s \in Specs \ spoiled => Agree(s, promised[s])'
  BY <1>1, <1>2, AnswerFacts DEF Rebuilding, Agree
<1>4. ServedOrDue'
  <2>1. \A q \in InProgress : q = r \/ (SameLocals(q) /\ q \in InProgress')
    BY <1>2, ReturnFacts DEF InProgress
  <2>2. ASSUME NEW t \in Specs \ lapsed'
        PROVE  registry'[t] = StoredTools(t)' \/ \E q \in WorkingOn(t)' : pc'[q] \in Written
    <3>1. t \notin lapsed /\ t # s /\ registry'[t] = registry[t] /\ StoredTools(t)' = StoredTools(t)
      BY <1>2, <2>2 DEF StoredTools
    <3>2. CASE registry[t] = StoredTools(t)
      BY <3>1, <3>2
    <3>3. CASE \E q \in WorkingOn(t) : pc[q] \in Written
      <4>1. PICK q \in WorkingOn(t) : pc[q] \in Written
        BY <3>3
      <4>2. SameLocals(q) /\ q \in InProgress'
        BY <1>1, <2>1, <3>1, <4>1 DEF WorkingOn
      <4> QED
        BY <4>1, <4>2 DEF WorkingOn, SameLocals
    <3> QED
      BY <2>2, <3>1, <3>2, <3>3 DEF Facts, ServedOrDue
  <2> QED
    BY <2>2 DEF ServedOrDue
<1> QED
  BY <1>1, <1>2, <1>3, <1>4, ReturnKeeps

\* A kill between any two steps: the next start serves nothing yet and rebuilds.
LEMMA CrashKeeps == ASSUME TypeOK, Facts, NEW r \in Admins, CrashAndRestart(r) PROVE Facts'
<1>1. /\ UNCHANGED <<specFile, opsFile, used, spoiled>>
      /\ \A q \in Admins : pc'[q] = IF q = r THEN "list" ELSE "idle"
      /\ \A q \in Admins : change'[q] = IF q = r THEN Startup ELSE NoChange
      /\ \A q \in Admins : target'[q] = NoSpec
      /\ \A s \in Specs : promised'[s] = IF WorkingOn(s) # {} THEN Absent ELSE promised[s]
      /\ \A q \in Admins, s \in Specs : read'[q][s] = Absent /\ built'[q][s] = NoTools
      /\ lapsed' = Specs
  BY DEF CrashAndRestart, files
<1>2. InProgress' = {r}
  BY <1>1 DEF InProgress
<1>3. Shaped' /\ StartsAlone'
  BY <1>1, <1>2, Kinds DEF Shaped, StartsAlone, Rebuilding
<1>4. Sole' /\ CreatedHasNoOps' /\ SureIsUpToDate'
  BY <1>1, <1>2 DEF Sole, CreatedHasNoOps, Creates, SureIsUpToDate, Reading
<1>5. RequestsOnTheWay'
  BY <1>1, <1>2, AbsentAssumption DEF RequestsOnTheWay
<1>6. UnusedIsNew' /\ PromiseShape'
  BY <1>1 DEF Facts, UnusedIsNew, PromiseShape
<1>7. IdleAgrees'
  <2>1. ASSUME NEW s \in Specs \ spoiled PROVE Agree(s, promised[s])'
    <3>1. CASE WorkingOn(s) = {}
      BY <1>1, <3>1 DEF Facts, IdleAgrees, Agree
    <3>2. CASE WorkingOn(s) # {}
      BY <1>1, <3>2 DEF Agree
    <3> QED
      BY <3>1, <3>2
  <2> QED
    BY <1>1, <2>1 DEF IdleAgrees
<1>8. ReadsLater' /\ ServedOrDue'
  BY <1>1 DEF ReadsLater, ServedOrDue
<1> QED
  BY <1>3, <1>4, <1>5, <1>6, <1>7, <1>8 DEF Facts

\* A 404, an auth file put in place, and stuttering concern nothing of the invariant.
LEMMA OthersKeep ==
  ASSUME Facts,
         UNCHANGED <<specFile, opsFile, registry, pc, target, newFiles, change, rebuildVars, used,
                     history>>
  PROVE  Facts'
<1> USE DEF newFiles, rebuildVars, history
<1>1. /\ InProgress' = InProgress /\ \A s \in Specs : WorkingOn(s)' = WorkingOn(s)
      /\ \A s \in Specs : StoredTools(s)' = StoredTools(s)
  BY DEF InProgress, WorkingOn, StoredTools
<1>2. Shaped' /\ StartsAlone' /\ UnusedIsNew' /\ PromiseShape' /\ Sole' /\ ReadsLater'
  BY <1>1 DEF Facts, Shaped, StartsAlone, UnusedIsNew, PromiseShape, Sole, ReadsLater
<1>3. CreatedHasNoOps'
  BY <1>1 DEF Facts, CreatedHasNoOps, Creates
<1>4. IdleAgrees' /\ RequestsOnTheWay'
  BY <1>1 DEF Facts, IdleAgrees, RequestsOnTheWay, OnTheWay, Agree
<1>5. SureIsUpToDate'
  BY <1>1 DEF Facts, SureIsUpToDate, UpToDate, StoredTools
<1>6. ServedOrDue'
  BY <1>1 DEF Facts, ServedOrDue
<1> QED
  BY <1>2, <1>3, <1>4, <1>5, <1>6 DEF Facts

-----------------------------------------------------------------------------
(* The theorems. *)

LEMMA InitFacts == Init => Facts
<1> SUFFICES ASSUME Init PROVE Facts
  OBVIOUS
<1>1. InProgress = {}
  BY DEF Init, InProgress
<1>2. Shaped /\ Sole /\ CreatedHasNoOps /\ RequestsOnTheWay /\ SureIsUpToDate /\ StartsAlone
  <2>1. StartsAlone
    BY Kinds DEF Init, StartsAlone
  <2> QED
    BY <1>1, <2>1 DEF Shaped, Sole, CreatedHasNoOps, RequestsOnTheWay, SureIsUpToDate
<1>3. UnusedIsNew /\ PromiseShape /\ IdleAgrees /\ ReadsLater
  BY DEF Init, UnusedIsNew, PromiseShape, IdleAgrees, Agree, ReadsLater
<1>4. ServedOrDue
  BY DEF Init, ServedOrDue, StoredTools, Tools
<1> QED
  BY <1>2, <1>3, <1>4 DEF Facts

LEMMA StepFacts == ASSUME TypeOK, Facts, [Next]_vars PROVE Facts'
<1>1. ASSUME NEW r \in Admins, Create(r) \/ Update(r) \/ Delete(r) \/ Toggle(r) PROVE Facts'
  BY <1>1, CreateKeeps, UpdateKeeps, DeleteKeeps, ToggleKeeps
<1>2. ASSUME NEW r \in Admins, NotFound(r) PROVE Facts'
  BY <1>2, OthersKeep DEF NotFound, files
<1>3. ASSUME NEW r \in Admins, HandlerStep(r) PROVE Facts'
  <2>1. CASE Fail(r) \/ SaveSpec(r) \/ RereadOps(r) \/ SaveOps(r)
    BY <2>1, FailKeeps, SaveSpecKeeps, RereadOpsKeeps, SaveOpsKeeps
  <2>2. CASE DeleteSpec(r) \/ DeleteOps(r) \/ DeleteAuth(r)
    BY <2>2, DeleteStepsKeep
  <2>3. CASE ListSpecs(r) \/ ListFails(r) \/ ReadSpec(r) \/ ReadOps(r) \/ Install(r)
    BY <2>3, ListKeeps, ListFailsKeeps, ReadKeeps, InstallKeeps
  <2> QED
    BY <1>3, <2>1, <2>2, <2>3 DEF HandlerStep
<1>4. ASSUME NEW s \in Specs, PlaceAuth(s) PROVE Facts'
  BY <1>4, OthersKeep DEF PlaceAuth
<1>5. ASSUME NEW r \in Admins, CrashAndRestart(r) PROVE Facts'
  BY <1>5, CrashKeeps
<1>6. CASE UNCHANGED vars
  BY <1>6, OthersKeep DEF vars, newFiles, rebuildVars, history
<1> QED
  BY <1>1, <1>2, <1>3, <1>4, <1>5, <1>6 DEF Next, Terminated

\* The invariant is inductive: it holds initially, and every step keeps it.
THEOREM Inductive == Spec => []IInv
<1>1. Init => IInv
  BY InitType, InitFacts DEF IInv, Facts
<1>2. IInv /\ [Next]_vars => IInv'
  <2> SUFFICES ASSUME IInv, [Next]_vars PROVE IInv'
    OBVIOUS
  <2>1. TypeOK /\ Facts /\ Shaped /\ StartsAlone /\ PromiseShape
    BY DEF IInv, Facts
  <2>2. TypeOK'
    BY <2>1, StepType
  <2>3. Facts'
    BY <2>1, StepFacts
  <2> QED
    BY <2>2, <2>3 DEF IInv, Facts
<1> QED
  BY <1>1, <1>2, PTL DEF Spec

\* Every variable keeps its type: no handler ever writes or installs anything
\* but a record, a set of operations or the tools of both.
THEOREM TypeCorrect == Spec => []TypeOK
BY Inductive, PTL DEF IInv

\* The files of a spec are what its answered requests amount to, whatever the
\* requests to other specs do meanwhile, whichever request fails halfway and
\* wherever the process is killed.
THEOREM AnsweredIsStored == Spec => []PromisesKept
<1>1. IInv => PromisesKept
  BY DEF IInv, IdleAgrees, Agree, PromisesKept
<1> QED
  BY <1>1, Inductive, PTL

\* Once nothing is at work, what is served of a spec is what is stored, unless the last
\* rebuild installed could not read its files or read them while another request was at
\* work on it, or the request that changed it could not list the specs for its rebuild.
THEOREM ServedIsStored == Spec => []RegistryFollowsStore
<1>1. IInv => RegistryFollowsStore
  BY DEF IInv, ServedOrDue, WorkingOn, RegistryFollowsStore
<1> QED
  BY <1>1, Inductive, PTL

\* The tools that a request's own rebuild installs for its spec are of the files as the
\* request left them, unless they cannot be read or another request is at work on them.
THEOREM OwnRebuildIsCurrent == Spec => []OwnWriteInstalled
<1>1. IInv => OwnWriteInstalled
  BY DEF IInv, SureIsUpToDate, UpToDate, InProgress, Reading, OwnWriteInstalled
<1> QED
  BY <1>1, Inductive, PTL

\* What remains of DeletedToolsGone, which a run refutes: the specs of which the last
\* rebuild installed was sure, and whose requests could rebuild.
DeletedToolsGoneSurely ==
  \A s \in Specs \ (spoiled \cup lapsed) :
    InProgress = {} /\ promised[s] = Gone => registry[s] = NoTools

\* The tools of a deleted spec are gone once all requests are answered, unless the last
\* rebuild installed read the spec's files while another request was at work on it, or
\* could not, or the Delete could not list the specs (admin/specs.go:242-291).
THEOREM DeletedToolsAreGone == Spec => []DeletedToolsGoneSurely
<1>1. ASSUME IInv, NEW s \in Specs \ (spoiled \cup lapsed), InProgress = {}, promised[s] = Gone
      PROVE  registry[s] = NoTools
  <2>1. registry[s] = StoredTools(s) /\ Agree(s, promised[s])
    BY <1>1 DEF IInv, ServedOrDue, IdleAgrees, WorkingOn
  <2>2. specFile[s] = Absent
    BY <1>1, <2>1, ContentsAssumption DEF Agree, Gone
  <2> QED
    BY <2>1, <2>2 DEF StoredTools, Tools
<1>2. IInv => DeletedToolsGoneSurely
  BY <1>1 DEF DeletedToolsGoneSurely
<1> QED
  BY <1>2, Inductive, PTL

=============================================================================
