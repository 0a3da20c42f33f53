---------------------------- MODULE ResourcesProofs ----------------------------
(***************************************************************************)
(* Proofs about Resources for any admins, readers, identifiers and bounds: *)
(* readers find content, only failed or killed requests leave content      *)
(* without a record, and answered requests are what is stored and served.  *)
(* The first invariant says what a handler knows at each step              *)
(* (Places); that nobody has heard of an identifier before it is given out *)
(* (UnusedUnknown) nor, but for its creator, before its record is saved    *)
(* (NewUnknown); and that a record is accompanied by its content wherever  *)
(* it is kept (AllBacked), so that a removal of content has to be on the   *)
(* list of those that readers do not count on.  The second rests on it: a  *)
(* resource that no two requests worked on at once is what its last answer *)
(* said, but for what the one request at work on it has done (AInv).       *)
(***************************************************************************)
EXTENDS Resources, TLAPS

Early == {"open_content", "write_content", "save"}
Creating(r) == request[r] = "create" /\ pc[r] \in Early

Places ==
  \A r \in Admins :
    /\ pc[r] = "idle" => target[r] = NoId /\ request[r] = "none"
    /\ pc[r] \in {"open_content", "write_content"}
         => request[r] = "create" /\ newRec[r] \in Records /\ newRec[r].stored
    /\ pc[r] = "save" => request[r] \in {"create", "update"} /\ newRec[r] \in Records
    /\ pc[r] \in {"reread", "remove_content", "remove_record"} => request[r] = "delete"
    /\ request[r] \in {"create", "update", "delete"} => target[r] \in Ids

Unknown(id) ==
  /\ record[id] = Absent
  /\ served[id] = Absent
  /\ \A r \in Admins : read[r][id] = Absent
  /\ \A c \in Readers : reading[c] # id
  /\ id \notin doomed

UnusedUnknown ==
  \A id \in Ids \ used :
    Unknown(id) /\ content[id] = "none" /\ \A r \in Admins : target[r] # id

NewUnknown ==
  \A r \in Admins : Creating(r) =>
    Unknown(target[r]) /\ \A q \in Admins \ {r} : target[q] # target[r]

Backed(id, rec) ==
  rec # Absent =>
    IF rec.stored THEN id \in doomed \/ content[id] = "whole" ELSE content[id] = "none"

AllBacked ==
  /\ \A id \in Ids : Backed(id, record[id]) /\ Backed(id, served[id])
  /\ \A r \in Admins, id \in Ids : Backed(id, read[r][id])
  /\ \A r \in Admins : pc[r] = "save" => Backed(target[r], newRec[r])

RemovedOrLeaked ==
  \A r \in Admins :
    pc[r] = "remove_record" => content[target[r]] = "none" \/ target[r] \in leaked

Owned ==
  \A id \in Ids \ leaked :
    content[id] # "none"
      => record[id] # Absent \/ \E r \in Admins : Creating(r) /\ target[r] = id

IInv ==
  /\ TypeOK
  /\ Places
  /\ UnusedUnknown
  /\ NewUnknown
  /\ AllBacked
  /\ RemovedOrLeaked
  /\ Owned
  /\ ReadsFindContent

-----------------------------------------------------------------------------
LEMMA RecordFields ==
  \A rec \in Records : rec.stored \in BOOLEAN
BY DEF Records

LEMMA PatchedType ==
  ASSUME NEW rec \in Records, NEW value \in {0, 1}
  PROVE  Patched(rec, value) \in Records /\ Patched(rec, value).stored = rec.stored
BY DEF Patched, Records

LEMMA NewRecordType ==
  ASSUME NEW isStored \in BOOLEAN
  PROVE  /\ [stored |-> isStored, field |-> 0] \in Records
         /\ [stored |-> isStored, field |-> 0].stored = isStored
BY DEF Records

LEMMA TypeInit == Init => TypeOK
BY BoundsAssumption DEF Init, TypeOK, Stored, Nothing, Steps

LEMMA BeginType ==
  ASSUME TypeOK, NEW r \in Admins, NEW req \in {"create", "update", "delete", "spec"},
         NEW id \in Ids \cup {NoId}, NEW rec \in Records \cup {Absent}, NEW to \in Steps,
         Begin(r, req, id, rec, to), used' \subseteq Ids
  PROVE  TypeOK'
<1>1. requests' \in 0 .. MaxRequests
  BY BoundsAssumption DEF Begin, TypeOK
<1>2. contested' \subseteq Ids
  BY DEF Begin, TypeOK
<1> QED
  BY <1>1, <1>2 DEF Begin, Goto, TypeOK

LEMMA TypeStep == TypeOK /\ Places /\ [Next]_vars => TypeOK'
<1> SUFFICES ASSUME TypeOK, Places, [Next]_vars PROVE TypeOK'
  OBVIOUS
<1>1. ASSUME NEW r \in Admins, Create(r) PROVE TypeOK'
  <2>1. PICK id \in Ids \ used, isStored \in BOOLEAN :
          /\ used' = used \cup {id}
          /\ Begin(r, "create", id, [stored |-> isStored, field |-> 0],
                   IF isStored THEN "open_content" ELSE "save")
    BY <1>1 DEF Create
  <2>2. used' \subseteq Ids
    BY <2>1 DEF TypeOK
  <2>3. (IF isStored THEN "open_content" ELSE "save") \in Steps
    BY DEF Steps
  <2> QED
    BY <2>1, <2>2, <2>3, NewRecordType, BeginType
<1>2. ASSUME NEW r \in Admins, Update(r) PROVE TypeOK'
  <2>1. PICK id \in Ids, value \in {0, 1} :
          /\ record[id] # Absent /\ used' = used
          /\ Begin(r, "update", id, Patched(record[id], value), "save")
    BY <1>2 DEF Update
  <2>2. Patched(record[id], value) \in Records
    BY <2>1, PatchedType DEF TypeOK, Stored
  <2>3. used' \subseteq Ids /\ "save" \in Steps
    BY <2>1 DEF TypeOK, Steps
  <2> QED
    BY <2>1, <2>2, <2>3, BeginType
<1>3. ASSUME NEW r \in Admins, Delete(r) PROVE TypeOK'
  <2>1. PICK id \in Ids : Begin(r, "delete", id, Absent, "reread") /\ used' = used
    BY <1>3 DEF Delete
  <2>2. used' \subseteq Ids /\ "reread" \in Steps
    BY <2>1 DEF TypeOK, Steps
  <2> QED
    BY <2>1, <2>2, BeginType
<1>4. ASSUME NEW r \in Admins, ChangeSpec(r) PROVE TypeOK'
  <2>1. used' \subseteq Ids /\ "list" \in Steps
    BY <1>4 DEF ChangeSpec, TypeOK, Steps
  <2> QED
    BY <1>4, <2>1, BeginType DEF ChangeSpec
<1>5. ASSUME NEW r \in Admins, Return(r)
      PROVE  /\ pc' \in [Admins -> Steps]
             /\ request' \in [Admins -> {"none", "create", "update", "delete", "spec"}]
             /\ target' \in [Admins -> Ids \cup {NoId}]
             /\ newRec' \in [Admins -> Records \cup {Absent}]
             /\ todo' \in [Admins -> SUBSET Ids]
             /\ read' \in [Admins -> Stored]
             /\ missed' \in [Admins -> SUBSET Ids]
  <2>1. Nothing \in Stored /\ "idle" \in Steps
    BY DEF Nothing, Stored, Steps
  <2> QED
    BY <1>5, <2>1 DEF Return, TypeOK
<1>6. ASSUME NEW r \in Admins, Fail(r) PROVE TypeOK'
  <2>1. leaked' \subseteq Ids /\ promised' \in [Ids -> Records \cup {Absent, Gone}]
    BY <1>6 DEF Fail, Places, TypeOK
  <2> QED
    BY <1>5, <1>6, <2>1 DEF Fail, TypeOK
<1>7. ASSUME NEW r \in Admins, OpenContent(r) \/ WriteContent(r) PROVE TypeOK'
  BY <1>7 DEF OpenContent, WriteContent, Goto, history, TypeOK, Steps
<1>8. ASSUME NEW r \in Admins, Save(r) PROVE TypeOK'
  BY <1>8 DEF Save, Goto, history, TypeOK, Steps, Stored
<1>9. ASSUME NEW r \in Admins, Reread(r) \/ RemoveContent(r) PROVE TypeOK'
  BY <1>9 DEF Reread, RemoveContent, Goto, history, Places, TypeOK, Steps
<1>10. ASSUME NEW r \in Admins, RemoveRecord(r) PROVE TypeOK'
  BY <1>10 DEF RemoveRecord, Goto, history, TypeOK, Steps, Stored
<1>11. ASSUME NEW r \in Admins, ListResources(r) PROVE TypeOK'
  BY <1>11 DEF ListResources, Goto, history, TypeOK, Steps
<1>12. ASSUME NEW r \in Admins, ReadRecord(r) PROVE TypeOK'
  <2>1. PICK id \in todo[r] :
          /\ \/ read' = [read EXCEPT ![r][id] = record[id]] /\ missed' = missed
             \/ read' = read /\ missed' = [missed EXCEPT ![r] = @ \cup {id}]
          /\ todo' = [todo EXCEPT ![r] = @ \ {id}]
    BY <1>12 DEF ReadRecord
  <2>2. id \in Ids
    BY <2>1 DEF TypeOK
  <2>3. read' \in [Admins -> Stored]
    <3>1. read \in [Admins -> Stored] /\ record[id] \in Records \cup {Absent}
      BY <2>2 DEF TypeOK, Stored
    <3>2. CASE read' = [read EXCEPT ![r][id] = record[id]]
      BY <2>2, <3>1, <3>2 DEF Stored
    <3>3. CASE read' = read
      BY <3>1, <3>3
    <3> QED
      BY <2>1, <3>2, <3>3
  <2>4. missed' \in [Admins -> SUBSET Ids] /\ todo' \in [Admins -> SUBSET Ids]
    BY <2>1, <2>2 DEF TypeOK
  <2> QED
    BY <1>12, <2>3, <2>4 DEF ReadRecord, TypeOK
<1>13. ASSUME NEW r \in Admins, Install(r) \/ ListFails(r) PROVE TypeOK'
  <2>1. Answer(r) /\ served' \in Stored
    BY <1>13 DEF Install, ListFails, TypeOK
  <2>2. promised' \in [Ids -> Records \cup {Absent, Gone}]
    BY <2>1 DEF Answer, TypeOK
  <2> QED
    BY <1>5, <2>1, <2>2 DEF Answer, TypeOK
<1>14. ASSUME NEW c \in Readers, LookUp(c) \/ ReadContent(c) PROVE TypeOK'
  BY <1>14 DEF LookUp, ReadContent, locals, history, TypeOK
<1>15. CASE CrashAndRestart
  <2>1. crashes' \in 0 .. MaxCrashes
    BY <1>15, BoundsAssumption DEF CrashAndRestart, TypeOK
  <2>2. leaked' \subseteq Ids /\ promised' \in [Ids -> Records \cup {Absent, Gone}]
    BY <1>15 DEF CrashAndRestart, InProgress, Places, TypeOK
  <2>3. Nothing \in Stored /\ "idle" \in Steps
    BY DEF Nothing, Stored, Steps
  <2>4. served' \in Stored
    BY <1>15 DEF CrashAndRestart, TypeOK, Stored
  <2> QED
    BY <1>15, <2>1, <2>2, <2>3, <2>4 DEF CrashAndRestart, TypeOK
<1>16. CASE UNCHANGED vars
  BY <1>16 DEF vars, TypeOK
<1> QED
  BY <1>1, <1>2, <1>3, <1>4, <1>6, <1>7, <1>8, <1>9, <1>10, <1>11, <1>12, <1>13, <1>14,
     <1>15, <1>16 DEF Next, HandlerStep, Terminated

-----------------------------------------------------------------------------
LEMMA InductiveInit == Init => IInv
<1> SUFFICES ASSUME Init PROVE IInv
  OBVIOUS
<1>1. TypeOK
  BY TypeInit
<1>2. UnusedUnknown /\ AllBacked
  BY MarkersAssumption DEF Init, Nothing, UnusedUnknown, Unknown, AllBacked, Backed
<1>3. Places /\ NewUnknown /\ RemovedOrLeaked /\ Owned
  BY DEF Init, Places, NewUnknown, Creating, Early, RemovedOrLeaked, Owned
<1>4. ReadsFindContent
  BY DEF Init, ReadsFindContent
<1> QED
  BY <1>1, <1>2, <1>3, <1>4 DEF IInv

\* What a request does on its acceptance, apart from its place.
LEMMA BeginStep ==
  ASSUME IInv, NEW r \in Admins, NEW req \in {"create", "update", "delete", "spec"},
         NEW id \in Ids \cup {NoId}, NEW rec, NEW to, Begin(r, req, id, rec, to)
  PROVE  /\ pc[r] = "idle" /\ pc' = [pc EXCEPT ![r] = to]
         /\ request' = [request EXCEPT ![r] = req]
         /\ target' = [target EXCEPT ![r] = id]
         /\ newRec' = [newRec EXCEPT ![r] = rec]
         /\ UNCHANGED <<record, content, served, read, reading, doomed, leaked>>
         /\ ReadsFindContent'
         /\ Owned'
<1>1. /\ pc[r] = "idle" /\ pc' = [pc EXCEPT ![r] = to]
      /\ request' = [request EXCEPT ![r] = req]
      /\ target' = [target EXCEPT ![r] = id]
      /\ newRec' = [newRec EXCEPT ![r] = rec]
      /\ UNCHANGED <<record, content, served, read, reading, doomed, leaked>>
  BY DEF Begin, Goto
<1>2. ReadsFindContent'
  BY <1>1 DEF IInv, ReadsFindContent
<1>3. \A q \in Admins : Creating(q) => Creating(q)' /\ target'[q] = target[q]
  BY <1>1 DEF Creating, Early, IInv, TypeOK
<1>4. Owned'
  BY <1>1, <1>3 DEF IInv, Owned
<1> QED
  BY <1>1, <1>2, <1>4

LEMMA CreateStep ==
  ASSUME IInv, NEW r \in Admins, Create(r)
  PROVE  /\ Places' /\ UnusedUnknown' /\ NewUnknown' /\ AllBacked' /\ RemovedOrLeaked'
         /\ Owned' /\ ReadsFindContent'
<1>1. PICK id \in Ids \ used, isStored \in BOOLEAN :
        /\ used' = used \cup {id}
        /\ Begin(r, "create", id, [stored |-> isStored, field |-> 0],
                 IF isStored THEN "open_content" ELSE "save")
  BY DEF Create
<1> DEFINE rec == [stored |-> isStored, field |-> 0]
           to == IF isStored THEN "open_content" ELSE "save"
<1>2. /\ pc[r] = "idle" /\ pc' = [pc EXCEPT ![r] = to]
      /\ request' = [request EXCEPT ![r] = "create"]
      /\ target' = [target EXCEPT ![r] = id]
      /\ newRec' = [newRec EXCEPT ![r] = rec]
      /\ UNCHANGED <<record, content, served, read, reading, doomed, leaked>>
      /\ ReadsFindContent'
      /\ Owned'
  BY <1>1, BeginStep
<1>3. rec \in Records /\ rec.stored = isStored
  BY NewRecordType
<1>4. /\ to \in {"open_content", "save"}
      /\ to = "open_content" => isStored
      /\ to = "save" => ~isStored
  OBVIOUS
<1> HIDE DEF rec, to
<1>5. Unknown(id) /\ content[id] = "none" /\ \A q \in Admins : target[q] # id
  BY DEF IInv, UnusedUnknown
<1>6. Places'
  BY <1>2, <1>3, <1>4 DEF IInv, Places, TypeOK
<1>7. \A i \in Ids : Unknown(i) => Unknown(i)'
  BY <1>2 DEF Unknown
<1>8. UnusedUnknown'
  BY <1>1, <1>2, <1>5, <1>7 DEF IInv, UnusedUnknown, TypeOK
<1>9. NewUnknown'
  <2> SUFFICES ASSUME NEW q \in Admins, Creating(q)'
               PROVE  Unknown(target[q])' /\ \A p \in Admins \ {q} : target'[p] # target'[q]
    BY DEF NewUnknown
  <2>1. CASE q = r
    BY <1>2, <1>5, <1>7, <2>1 DEF IInv, TypeOK, Unknown
  <2>2. CASE q # r
    <3>1. Creating(q) /\ target'[q] = target[q]
      BY <1>2, <2>2 DEF Creating, IInv, TypeOK
    <3>2. target[q] # id
      BY <1>5
    <3> QED
      BY <1>2, <2>2, <3>1, <3>2 DEF IInv, TypeOK, NewUnknown, Unknown
  <2> QED
    BY <2>1, <2>2
<1>10. AllBacked'
  BY <1>2, <1>3, <1>4, <1>5 DEF IInv, TypeOK, AllBacked, Backed
<1>11. RemovedOrLeaked'
  BY <1>2, <1>4 DEF IInv, TypeOK, RemovedOrLeaked
<1> QED
  BY <1>2, <1>6, <1>8, <1>9, <1>10, <1>11

LEMMA NoNewStep ==
  ASSUME IInv, NEW r \in Admins, Update(r) \/ Delete(r) \/ ChangeSpec(r)
  PROVE  /\ Places' /\ UnusedUnknown' /\ NewUnknown' /\ AllBacked' /\ RemovedOrLeaked'
         /\ Owned' /\ ReadsFindContent'
<1>1. PICK req \in {"update", "delete", "spec"}, id \in Ids \cup {NoId},
           rec \in Records \cup {Absent}, to \in {"save", "reread", "list"} :
        /\ used' = used
        /\ Begin(r, req, id, rec, to)
        /\ id \in Ids => record[id] # Absent
        /\ req # "spec" => id \in Ids
        /\ to = "save" => req = "update" /\ rec \in Records /\ rec.stored = record[id].stored
        /\ to = "reread" => req = "delete"
  <2>1. CASE Update(r)
    BY <2>1, PatchedType DEF Update, IInv, TypeOK, Stored
  <2>2. CASE Delete(r)
    BY <2>2 DEF Delete
  <2>3. CASE ChangeSpec(r)
    BY <2>3, MarkersAssumption DEF ChangeSpec
  <2> QED
    BY <2>1, <2>2, <2>3
<1>2. /\ pc[r] = "idle" /\ pc' = [pc EXCEPT ![r] = to]
      /\ request' = [request EXCEPT ![r] = req]
      /\ target' = [target EXCEPT ![r] = id]
      /\ newRec' = [newRec EXCEPT ![r] = rec]
      /\ UNCHANGED <<record, content, served, read, reading, doomed, leaked>>
      /\ ReadsFindContent'
      /\ Owned'
  BY <1>1, BeginStep
<1>3. Places'
  BY <1>1, <1>2 DEF IInv, Places, TypeOK
<1>4. UnusedUnknown'
  <2> SUFFICES ASSUME NEW i \in Ids \ used
               PROVE  Unknown(i)' /\ content'[i] = "none" /\ \A q \in Admins : target'[q] # i
    BY <1>1 DEF UnusedUnknown
  <2>1. Unknown(i) /\ content[i] = "none" /\ \A q \in Admins : target[q] # i
    BY DEF IInv, UnusedUnknown
  <2>2. i # id
    BY <1>1, <2>1 DEF Unknown
  <2> QED
    BY <1>2, <2>1, <2>2 DEF Unknown, IInv, TypeOK
<1>5. NewUnknown'
  <2> SUFFICES ASSUME NEW q \in Admins, Creating(q)'
               PROVE  Unknown(target[q])' /\ \A p \in Admins \ {q} : target'[p] # target'[q]
    BY DEF NewUnknown
  <2>1. q # r /\ Creating(q) /\ target'[q] = target[q]
    BY <1>1, <1>2 DEF Creating, IInv, TypeOK
  <2>2. Unknown(target[q]) /\ \A p \in Admins \ {q} : target[p] # target[q]
    BY <2>1 DEF IInv, NewUnknown
  <2>3. target[q] \in Ids
    BY <2>1 DEF IInv, Places, Creating
  <2>4. target[q] # id
    BY <1>1, <2>2, <2>3 DEF Unknown
  <2> QED
    BY <1>2, <2>1, <2>2, <2>4 DEF Unknown, IInv, TypeOK
<1>6. AllBacked'
  BY <1>1, <1>2 DEF IInv, TypeOK, AllBacked, Backed
<1>7. RemovedOrLeaked'
  BY <1>1, <1>2 DEF IInv, TypeOK, RemovedOrLeaked
<1> QED
  BY <1>2, <1>3, <1>4, <1>5, <1>6, <1>7

\* The end of a request that touches nothing but the registry and history.
LEMMA ReturnStep ==
  ASSUME IInv, NEW r \in Admins, pc[r] # "idle", Return(r),
         UNCHANGED <<record, content, reading, used, doomed>>,
         served' = served \/ served' = read[r],
         leaked \subseteq leaked',
         Creating(r) => target[r] \in leaked'
  PROVE  /\ Places' /\ UnusedUnknown' /\ NewUnknown' /\ AllBacked' /\ RemovedOrLeaked'
         /\ Owned' /\ ReadsFindContent'
<1>1. /\ pc' = [pc EXCEPT ![r] = "idle"]
      /\ request' = [request EXCEPT ![r] = "none"]
      /\ target' = [target EXCEPT ![r] = NoId]
      /\ newRec' = [newRec EXCEPT ![r] = Absent]
      /\ read' = [read EXCEPT ![r] = Nothing]
  BY DEF Return
<1>2. \A id \in Ids : Unknown(id) => Unknown(id)'
  BY <1>1 DEF Unknown, Nothing, IInv, TypeOK, Stored
<1>3. Places'
  BY <1>1 DEF IInv, Places, TypeOK
<1>4. UnusedUnknown'
  BY <1>1, <1>2, MarkersAssumption DEF IInv, UnusedUnknown, TypeOK
<1>5. NewUnknown'
  <2> SUFFICES ASSUME NEW q \in Admins, Creating(q)'
               PROVE  Unknown(target[q])' /\ \A p \in Admins \ {q} : target'[p] # target'[q]
    BY DEF NewUnknown
  <2>1. q # r /\ Creating(q) /\ target'[q] = target[q]
    BY <1>1 DEF Creating, Early, IInv, TypeOK
  <2>2. Unknown(target[q]) /\ \A p \in Admins \ {q} : target[p] # target[q]
    BY <2>1 DEF IInv, NewUnknown
  <2>3. target[q] \in Ids
    BY <2>1 DEF IInv, Places, Creating
  <2>4. Unknown(target[q])'
    BY <1>1, <2>1, <2>2, <2>3 DEF Unknown, Nothing, IInv, TypeOK
  <2> QED
    BY <1>1, <2>1, <2>2, <2>3, <2>4, MarkersAssumption DEF IInv, TypeOK
<1>6. AllBacked'
  <2>1. \A id \in Ids : Backed(id, record[id])' /\ Backed(id, served[id])'
    BY DEF IInv, AllBacked, Backed
  <2>2. \A q \in Admins, id \in Ids : Backed(id, read[q][id])'
    BY <1>1 DEF IInv, AllBacked, Backed, Nothing, TypeOK
  <2>3. \A q \in Admins : pc'[q] = "save" => Backed(target[q], newRec[q])'
    BY <1>1 DEF IInv, AllBacked, Backed, TypeOK
  <2> QED
    BY <2>1, <2>2, <2>3 DEF AllBacked
<1>7. RemovedOrLeaked'
  BY <1>1 DEF IInv, RemovedOrLeaked, TypeOK
<1>8. Owned'
  <2> SUFFICES ASSUME NEW id \in Ids \ leaked', content[id] # "none", record[id] = Absent
               PROVE  \E q \in Admins : Creating(q)' /\ target'[q] = id
    BY DEF Owned
  <2>1. PICK q \in Admins : Creating(q) /\ target[q] = id
    BY DEF IInv, Owned
  <2>2. q # r
    BY <2>1
  <2> QED
    BY <1>1, <2>1, <2>2 DEF Creating, IInv, TypeOK
<1>9. ReadsFindContent'
  BY DEF IInv, ReadsFindContent
<1> QED
  BY <1>3, <1>4, <1>5, <1>6, <1>7, <1>8, <1>9

\* The steps that a creation takes alone: they touch what nobody knows yet.
LEMMA ContentStep ==
  ASSUME IInv, NEW r \in Admins, OpenContent(r) \/ WriteContent(r)
  PROVE  /\ Places' /\ UnusedUnknown' /\ NewUnknown' /\ AllBacked' /\ RemovedOrLeaked'
         /\ Owned' /\ ReadsFindContent'
<1>1. PICK to \in {"write_content", "save"}, file \in {"partial", "whole"} :
        /\ pc[r] \in {"open_content", "write_content"}
        /\ pc' = [pc EXCEPT ![r] = to]
        /\ content' = [content EXCEPT ![target[r]] = file]
        /\ to = "save" => file = "whole"
        /\ UNCHANGED <<record, served, request, target, newRec, read, reading, used, doomed,
                       leaked>>
  BY DEF OpenContent, WriteContent, Goto, history
<1>2. Creating(r) /\ target[r] \in Ids /\ newRec[r].stored /\ newRec[r] \in Records
  BY <1>1 DEF Creating, Early, IInv, Places
<1>3. Unknown(target[r]) /\ \A q \in Admins \ {r} : target[q] # target[r]
  BY <1>2 DEF IInv, NewUnknown
<1>4. \A id \in Ids : Unknown(id) => Unknown(id)'
  BY <1>1 DEF Unknown
<1>5. \A id \in Ids \ {target[r]} : content'[id] = content[id]
  BY <1>1 DEF IInv, TypeOK
<1>6. content'[target[r]] \in {"partial", "whole"}
      /\ (pc'[r] = "save" => content'[target[r]] = "whole")
  BY <1>1, <1>2 DEF IInv, TypeOK
<1>7. \A q \in Admins : Creating(q)' <=> Creating(q)
  BY <1>1, <1>2 DEF Creating, Early, IInv, TypeOK
<1>8. Places'
  BY <1>1, <1>2 DEF IInv, Places, TypeOK, Creating
<1>9. UnusedUnknown'
  <2>1. target[r] \in used
    BY <1>2 DEF IInv, UnusedUnknown
  <2> QED
    BY <1>1, <1>4, <1>5, <2>1 DEF IInv, UnusedUnknown
<1>10. NewUnknown'
  BY <1>1, <1>4, <1>7 DEF IInv, NewUnknown, Places, Creating
<1>11. AllBacked'
  <2>1. \A id \in Ids, rec \in Records \cup {Absent} :
          id # target[r] /\ Backed(id, rec) => Backed(id, rec)'
    BY <1>1, <1>5 DEF Backed
  <2>2. \A id \in Ids : Backed(id, record[id])' /\ Backed(id, served[id])'
    BY <1>1, <1>3, <1>5 DEF IInv, AllBacked, Backed, Unknown
  <2>3. \A q \in Admins, id \in Ids : Backed(id, read[q][id])'
    BY <1>1, <1>3, <1>5 DEF IInv, AllBacked, Backed, Unknown
  <2>4. \A q \in Admins : pc'[q] = "save" => Backed(target[q], newRec[q])'
    <3> SUFFICES ASSUME NEW q \in Admins, pc'[q] = "save"
                 PROVE  Backed(target[q], newRec[q])'
      OBVIOUS
    <3>1. CASE q = r
      BY <1>1, <1>2, <1>6, <3>1 DEF Backed
    <3>2. CASE q # r
      <4>1. pc[q] = "save" /\ target[q] \in Ids /\ target[q] # target[r]
        BY <1>1, <1>3, <3>2 DEF IInv, Places, TypeOK
      <4> QED
        BY <1>1, <1>5, <4>1 DEF IInv, AllBacked, Backed
    <3> QED
      BY <3>1, <3>2
  <2> QED
    BY <2>2, <2>3, <2>4 DEF AllBacked
<1>12. RemovedOrLeaked'
  <2> SUFFICES ASSUME NEW q \in Admins, pc'[q] = "remove_record"
               PROVE  content'[target[q]] = "none" \/ target[q] \in leaked
    BY <1>1 DEF RemovedOrLeaked
  <2>1. q # r /\ pc[q] = "remove_record"
    BY <1>1 DEF IInv, TypeOK
  <2>2. target[q] \in Ids \ {target[r]}
    BY <1>3, <2>1 DEF IInv, Places
  <2> QED
    BY <1>5, <2>1, <2>2 DEF IInv, RemovedOrLeaked
<1>13. Owned'
  <2> SUFFICES ASSUME NEW id \in Ids \ leaked, content'[id] # "none", record[id] = Absent
               PROVE  \E q \in Admins : Creating(q)' /\ target[q] = id
    BY <1>1 DEF Owned
  <2>1. CASE id = target[r]
    BY <1>2, <1>7, <2>1
  <2>2. CASE id # target[r]
    BY <1>5, <1>7, <2>2 DEF IInv, Owned
  <2> QED
    BY <2>1, <2>2
<1>14. ReadsFindContent'
  BY <1>1, <1>3, <1>5 DEF IInv, ReadsFindContent, Unknown, TypeOK
<1> QED
  BY <1>8, <1>9, <1>10, <1>11, <1>12, <1>13, <1>14

LEMMA SaveStep ==
  ASSUME IInv, NEW r \in Admins, Save(r)
  PROVE  /\ Places' /\ UnusedUnknown' /\ NewUnknown' /\ AllBacked' /\ RemovedOrLeaked'
         /\ Owned' /\ ReadsFindContent'
<1>1. /\ pc[r] = "save" /\ pc' = [pc EXCEPT ![r] = "list"]
      /\ record' = [record EXCEPT ![target[r]] = newRec[r]]
      /\ UNCHANGED <<content, served, request, target, newRec, read, reading, used, doomed,
                     leaked>>
  BY DEF Save, Goto, history
<1>2. target[r] \in Ids /\ newRec[r] \in Records /\ Backed(target[r], newRec[r])
  BY <1>1 DEF IInv, Places, AllBacked
<1>3. \A id \in Ids \ {target[r]} : record'[id] = record[id] /\ (Unknown(id) => Unknown(id)')
  BY <1>1 DEF IInv, TypeOK, Unknown
<1>4. record'[target[r]] = newRec[r]
  BY <1>1, <1>2 DEF IInv, TypeOK, Stored
<1>5. Places'
  BY <1>1 DEF IInv, Places, TypeOK
<1>6. UnusedUnknown'
  BY <1>1, <1>3 DEF IInv, UnusedUnknown
<1>7. NewUnknown'
  <2> SUFFICES ASSUME NEW q \in Admins, Creating(q)'
               PROVE  Unknown(target[q])' /\ \A p \in Admins \ {q} : target[p] # target[q]
    BY <1>1 DEF NewUnknown
  <2>1. q # r /\ Creating(q)
    BY <1>1 DEF Creating, Early, IInv, TypeOK
  <2>2. target[q] \in Ids \ {target[r]}
    BY <2>1 DEF IInv, NewUnknown, Places, Creating
  <2> QED
    BY <1>1, <1>3, <2>1, <2>2 DEF IInv, NewUnknown
<1>8. AllBacked'
  BY <1>1, <1>2, <1>3, <1>4 DEF IInv, TypeOK, AllBacked, Backed
<1>9. RemovedOrLeaked'
  BY <1>1 DEF IInv, TypeOK, RemovedOrLeaked
<1>10. Owned'
  <2> SUFFICES ASSUME NEW id \in Ids \ leaked, content[id] # "none"
               PROVE  record'[id] # Absent \/ \E q \in Admins : Creating(q)' /\ target[q] = id
    BY <1>1 DEF Owned
  <2>1. CASE id = target[r]
    <3>1. newRec[r] # Absent
      BY <1>2, MarkersAssumption
    <3> QED
      BY <1>4, <2>1, <3>1
  <2>2. CASE id # target[r]
    <3>1. CASE record[id] # Absent
      BY <1>3, <2>2, <3>1
    <3>2. CASE record[id] = Absent
      <4>1. PICK q \in Admins : Creating(q) /\ target[q] = id
        BY <3>2 DEF IInv, Owned
      <4>2. Creating(q)'
        BY <1>1, <2>2, <4>1 DEF Creating, IInv, TypeOK
      <4> QED
        BY <4>1, <4>2
    <3> QED
      BY <3>1, <3>2
  <2> QED
    BY <2>1, <2>2
<1>11. ReadsFindContent'
  BY <1>1 DEF IInv, ReadsFindContent
<1> QED
  BY <1>5, <1>6, <1>7, <1>8, <1>9, <1>10, <1>11

LEMMA RemovalStep ==
  ASSUME IInv, NEW r \in Admins, Reread(r) \/ RemoveContent(r) \/ RemoveRecord(r)
  PROVE  /\ Places' /\ UnusedUnknown' /\ NewUnknown' /\ AllBacked' /\ RemovedOrLeaked'
         /\ Owned' /\ ReadsFindContent'
<1>1. /\ pc[r] \in {"reread", "remove_content", "remove_record"}
      /\ UNCHANGED <<served, request, target, newRec, read, reading, used>>
      /\ \/ /\ pc' = [pc EXCEPT ![r] = "remove_content"]
            /\ UNCHANGED <<record, content, doomed, leaked>>
         \/ /\ pc' = [pc EXCEPT ![r] = "remove_record"]
            /\ record[target[r]] # Absent /\ ~record[target[r]].stored
            /\ UNCHANGED <<record, content, doomed, leaked>>
         \/ /\ pc' = [pc EXCEPT ![r] = "remove_record"]
            /\ record' = record
            /\ doomed' = doomed \cup {target[r]}
            /\ \/ content' = [content EXCEPT ![target[r]] = "none"] /\ leaked' = leaked
               \/ content' = content /\ leaked' = leaked \cup {target[r]}
         \/ /\ pc[r] = "remove_record" /\ pc' = [pc EXCEPT ![r] = "list"]
            /\ record' = [record EXCEPT ![target[r]] = Absent]
            /\ UNCHANGED <<content, doomed, leaked>>
  <2>1. CASE Reread(r)
    BY <2>1 DEF Reread, Goto, history
  <2>2. CASE RemoveContent(r)
    BY <2>2 DEF RemoveContent, Goto
  <2>3. CASE RemoveRecord(r)
    BY <2>3 DEF RemoveRecord, Goto, history
  <2> QED
    BY <2>1, <2>2, <2>3
<1>2. request[r] = "delete" /\ target[r] \in Ids
  BY <1>1 DEF IInv, Places
<1>3. \A q \in Admins : Creating(q)' <=> Creating(q)
  BY <1>1, <1>2 DEF Creating, Early, IInv, TypeOK
<1>4. \A q \in Admins : Creating(q) => target[q] \in Ids \ {target[r]}
  BY <1>1, <1>2 DEF IInv, NewUnknown, Places, Creating
<1>5. \A id \in Ids \ {target[r]} : Unknown(id) => Unknown(id)'
  <2> SUFFICES ASSUME NEW id \in Ids \ {target[r]}, Unknown(id) PROVE Unknown(id)'
    OBVIOUS
  <2>1. record'[id] = record[id]
    BY <1>1, <1>2 DEF IInv, TypeOK, Stored
  <2>2. id \notin doomed'
    BY <1>1 DEF Unknown
  <2> QED
    BY <1>1, <2>1, <2>2 DEF Unknown
<1>6. Places'
  BY <1>1, <1>2 DEF IInv, Places, TypeOK
<1>7. UnusedUnknown'
  BY <1>1, <1>2, <1>5 DEF IInv, UnusedUnknown, TypeOK
<1>8. NewUnknown'
  BY <1>1, <1>3, <1>4, <1>5 DEF IInv, NewUnknown
<1>9. \A rec : \A id \in Ids : Backed(id, rec) => Backed(id, rec)'
  BY <1>1, <1>2 DEF Backed, IInv, TypeOK
<1>10. AllBacked'
  <2>1. \A id \in Ids : Backed(id, record[id])' /\ Backed(id, served[id])'
    <3> TAKE id \in Ids
    <3>1. Backed(id, record'[id])
      BY <1>1, <1>2 DEF IInv, TypeOK, Stored, AllBacked, Backed
    <3> QED
      BY <1>1, <1>9, <3>1 DEF IInv, AllBacked, Backed
  <2>2. \A q \in Admins, id \in Ids : Backed(id, read[q][id])'
    BY <1>1, <1>9 DEF IInv, AllBacked, Backed
  <2>3. \A q \in Admins : pc'[q] = "save" => Backed(target[q], newRec[q])'
    <3> SUFFICES ASSUME NEW q \in Admins, pc'[q] = "save"
                 PROVE  Backed(target[q], newRec[q])'
      OBVIOUS
    <3>1. pc[q] = "save" /\ target[q] \in Ids
      BY <1>1 DEF IInv, TypeOK, Places
    <3> QED
      BY <1>1, <1>9, <3>1 DEF IInv, AllBacked, Backed
  <2> QED
    BY <2>1, <2>2, <2>3 DEF AllBacked
<1>11. RemovedOrLeaked'
  <2> SUFFICES ASSUME NEW q \in Admins, pc'[q] = "remove_record"
               PROVE  content'[target[q]] = "none" \/ target[q] \in leaked'
    BY <1>1 DEF RemovedOrLeaked
  <2>1. CASE pc[q] = "remove_record"
    <3>1. target[q] \in Ids /\ (content[target[q]] = "none" \/ target[q] \in leaked)
      BY <2>1 DEF IInv, RemovedOrLeaked, Places
    <3> QED
      BY <1>1, <1>2, <3>1 DEF IInv, TypeOK
  <2>2. CASE pc[q] # "remove_record"
    <3>1. q = r
      BY <1>1, <2>2 DEF IInv, TypeOK
    <3> QED
      BY <1>1, <1>2, <2>2, <3>1 DEF IInv, TypeOK, AllBacked, Backed
  <2> QED
    BY <2>1, <2>2
<1>12. Owned'
  <2> SUFFICES ASSUME NEW id \in Ids \ leaked', content'[id] # "none", record'[id] = Absent
               PROVE  \E q \in Admins : Creating(q)' /\ target[q] = id
    BY <1>1 DEF Owned
  <2>1. id \notin leaked /\ content[id] # "none"
    BY <1>1, <1>2 DEF IInv, TypeOK
  <2>2. record[id] = Absent
    <3>1. CASE id = target[r] /\ pc[r] = "remove_record"
      BY <2>1, <3>1 DEF IInv, RemovedOrLeaked
    <3>2. CASE id = target[r] /\ pc[r] # "remove_record"
      BY <1>1, <3>2
    <3>3. CASE id # target[r]
      BY <1>1, <1>2, <3>3 DEF IInv, TypeOK, Stored
    <3> QED
      BY <3>1, <3>2, <3>3
  <2> QED
    BY <1>3, <2>1, <2>2 DEF IInv, Owned
<1>13. ReadsFindContent'
  BY <1>1, <1>2 DEF IInv, TypeOK, ReadsFindContent
<1> QED
  BY <1>6, <1>7, <1>8, <1>10, <1>11, <1>12, <1>13

LEMMA RebuildStep ==
  ASSUME IInv, NEW r \in Admins, ListResources(r) \/ ReadRecord(r)
  PROVE  /\ Places' /\ UnusedUnknown' /\ NewUnknown' /\ AllBacked' /\ RemovedOrLeaked'
         /\ Owned' /\ ReadsFindContent'
<1>1. /\ pc[r] \in {"list", "read"}
      /\ pc' = pc \/ pc' = [pc EXCEPT ![r] = "read"]
      /\ read' = read \/ \E id \in Ids : read' = [read EXCEPT ![r][id] = record[id]]
      /\ UNCHANGED <<record, content, served, request, target, newRec, reading, used, doomed,
                     leaked>>
  BY DEF ListResources, ReadRecord, Goto, history, IInv, TypeOK
<1>2. \A q \in Admins, id \in Ids : read'[q][id] \in {read[q][id], record[id]}
  BY <1>1 DEF IInv, TypeOK, Stored
<1>3. \A q \in Admins : Creating(q)' <=> Creating(q)
  BY <1>1 DEF Creating, Early, IInv, TypeOK
<1>4. \A id \in Ids : Unknown(id) => Unknown(id)'
  BY <1>1, <1>2 DEF Unknown
<1>5. Places'
  BY <1>1 DEF IInv, Places, TypeOK
<1>6. UnusedUnknown'
  BY <1>1, <1>4 DEF IInv, UnusedUnknown
<1>7. NewUnknown'
  BY <1>1, <1>3, <1>4 DEF IInv, NewUnknown, Places, Creating
<1>8. AllBacked'
  BY <1>1, <1>2 DEF IInv, TypeOK, AllBacked, Backed
<1>9. RemovedOrLeaked'
  BY <1>1 DEF IInv, TypeOK, RemovedOrLeaked
<1>10. Owned'
  BY <1>1, <1>3 DEF IInv, Owned
<1>11. ReadsFindContent'
  BY <1>1 DEF IInv, ReadsFindContent
<1> QED
  BY <1>5, <1>6, <1>7, <1>8, <1>9, <1>10, <1>11

LEMMA ReaderStep ==
  ASSUME IInv, NEW c \in Readers, LookUp(c) \/ ReadContent(c)
  PROVE  /\ Places' /\ UnusedUnknown' /\ NewUnknown' /\ AllBacked' /\ RemovedOrLeaked'
         /\ Owned' /\ ReadsFindContent'
<1>1. PICK id \in Ids \cup {NoId} :
        /\ reading' = [reading EXCEPT ![c] = id]
        /\ id \in Ids => HasContent(served[id]) \/ HasContent(record[id])
        /\ UNCHANGED <<record, content, served, pc, request, target, newRec, read, used, doomed,
                       leaked>>
  BY MarkersAssumption DEF LookUp, ReadContent, locals, history
<1>2. \A i \in Ids : Unknown(i) => Unknown(i)'
  BY <1>1 DEF Unknown, HasContent, IInv, TypeOK
<1>3. UnusedUnknown'
  BY <1>1, <1>2 DEF IInv, UnusedUnknown
<1>4. NewUnknown'
  BY <1>1, <1>2 DEF IInv, NewUnknown, Places, Creating
<1>5. Places' /\ AllBacked' /\ RemovedOrLeaked' /\ Owned'
  BY <1>1 DEF IInv, Places, AllBacked, Backed, RemovedOrLeaked, Owned, Creating
<1>6. ReadsFindContent'
  <2>1. id \in Ids \ doomed => content[id] = "whole"
    BY <1>1 DEF IInv, AllBacked, Backed, HasContent
  <2> QED
    BY <1>1, <2>1 DEF IInv, TypeOK, ReadsFindContent
<1> QED
  BY <1>3, <1>4, <1>5, <1>6

LEMMA CrashStep ==
  ASSUME IInv, CrashAndRestart
  PROVE  /\ Places' /\ UnusedUnknown' /\ NewUnknown' /\ AllBacked' /\ RemovedOrLeaked'
         /\ Owned' /\ ReadsFindContent'
<1>1. /\ pc' = [r \in Admins |-> "idle"]
      /\ request' = [r \in Admins |-> "none"]
      /\ target' = [r \in Admins |-> NoId]
      /\ read' = [r \in Admins |-> Nothing]
      /\ reading' = [c \in Readers |-> NoId]
      /\ \A id \in Ids : served'[id] \in {record[id], Absent}
      /\ leaked' = leaked \cup {target[r] : r \in {q \in InProgress : request[q] = "create"}}
      /\ UNCHANGED <<record, content, used, doomed>>
  BY DEF CrashAndRestart, IInv, TypeOK, Stored
<1>2. UnusedUnknown'
  BY <1>1, MarkersAssumption DEF IInv, UnusedUnknown, Unknown, Nothing
<1>3. Places' /\ NewUnknown' /\ RemovedOrLeaked' /\ ReadsFindContent'
  BY <1>1 DEF Places, NewUnknown, Creating, Early, RemovedOrLeaked, ReadsFindContent
<1>4. AllBacked'
  BY <1>1 DEF IInv, AllBacked, Backed, Nothing
<1>5. Owned'
  <2> SUFFICES ASSUME NEW id \in Ids \ leaked', content[id] # "none"
               PROVE  record[id] # Absent
    BY <1>1 DEF Owned
  <2>1. \A r \in Admins : Creating(r) => target[r] \in leaked'
    BY <1>1 DEF Creating, Early, InProgress
  <2> QED
    BY <1>1, <2>1 DEF IInv, Owned
<1> QED
  BY <1>2, <1>3, <1>4, <1>5

LEMMA InductiveStep == IInv /\ [Next]_vars => IInv'
<1> SUFFICES ASSUME IInv, [Next]_vars PROVE IInv'
  OBVIOUS
<1>1. TypeOK'
  BY TypeStep DEF IInv
<1>2. ASSUME NEW r \in Admins, Create(r) PROVE IInv'
  BY <1>1, <1>2, CreateStep DEF IInv
<1>3. ASSUME NEW r \in Admins, Update(r) \/ Delete(r) \/ ChangeSpec(r) PROVE IInv'
  BY <1>1, <1>3, NoNewStep DEF IInv
<1>4. ASSUME NEW r \in Admins, Fail(r) PROVE IInv'
  <2>1. Creating(r) => target[r] \in leaked'
    BY <1>4 DEF Fail, Creating
  <2>2. pc[r] # "idle" /\ Return(r) /\ leaked \subseteq leaked'
        /\ UNCHANGED <<record, content, reading, used, doomed>> /\ served' = served
    BY <1>4 DEF Fail
  <2> QED
    BY <1>1, <2>1, <2>2, ReturnStep DEF IInv
<1>5. ASSUME NEW r \in Admins, OpenContent(r) \/ WriteContent(r) PROVE IInv'
  BY <1>1, <1>5, ContentStep DEF IInv
<1>6. ASSUME NEW r \in Admins, Save(r) PROVE IInv'
  BY <1>1, <1>6, SaveStep DEF IInv
<1>7. ASSUME NEW r \in Admins, Reread(r) \/ RemoveContent(r) \/ RemoveRecord(r) PROVE IInv'
  BY <1>1, <1>7, RemovalStep DEF IInv
<1>8. ASSUME NEW r \in Admins, ListResources(r) \/ ReadRecord(r) PROVE IInv'
  BY <1>1, <1>8, RebuildStep DEF IInv
<1>9. ASSUME NEW r \in Admins, Install(r) \/ ListFails(r) PROVE IInv'
  <2>1. ~Creating(r)
    BY <1>9 DEF Install, ListFails, Creating, Early
  <2>2. pc[r] # "idle" /\ Return(r) /\ leaked' = leaked
        /\ UNCHANGED <<record, content, reading, used, doomed>>
        /\ (served' = served \/ served' = read[r])
    BY <1>9 DEF Install, ListFails, Answer
  <2> QED
    BY <1>1, <2>1, <2>2, ReturnStep DEF IInv
<1>10. ASSUME NEW c \in Readers, LookUp(c) \/ ReadContent(c) PROVE IInv'
  BY <1>1, <1>10, ReaderStep DEF IInv
<1>11. CASE CrashAndRestart
  BY <1>1, <1>11, CrashStep DEF IInv
<1>12. CASE UNCHANGED vars
  BY <1>1, <1>12 DEF vars, IInv, Places, UnusedUnknown, NewUnknown, Unknown, AllBacked, Backed,
               RemovedOrLeaked, Owned, Creating, ReadsFindContent
<1> QED
  BY <1>2, <1>3, <1>4, <1>5, <1>6, <1>7, <1>8, <1>9, <1>10, <1>11, <1>12
     DEF Next, HandlerStep, Terminated

\* The inductive invariant holds in every behaviour; the theorems follow from it.
THEOREM Invariant == Spec => []IInv
<1> QED
  BY InductiveInit, InductiveStep, PTL DEF Spec

-----------------------------------------------------------------------------
\* The variables keep their types in every behaviour.
THEOREM TypeCorrect == Spec => []TypeOK
<1>1. IInv => TypeOK
  BY DEF IInv
<1> QED
  BY <1>1, Invariant, PTL

\* Whoever has looked a resource up, in the registry or in the store, finds its
\* whole content, unless a Delete has begun to remove it: for any number of
\* concurrent requests, rebuilds, failures and restarts.
THEOREM ContentFound == Spec => []ReadsFindContent
<1>1. IInv => ReadsFindContent
  BY DEF IInv
<1> QED
  BY <1>1, Invariant, PTL

\* Every content file belongs to a record or to a creation that is under way,
\* except what a failed or killed request has left.
THEOREM NoOrphans == Spec => []ContentHasOwner
<1>1. IInv => ContentHasOwner
  <2> SUFFICES ASSUME IInv, NEW id \in Ids \ leaked, content[id] # "none", record[id] = Absent
               PROVE  \E r \in WorkingOn(id) : request[r] = "create"
    BY DEF ContentHasOwner
  <2>1. PICK r \in Admins : Creating(r) /\ target[r] = id
    BY DEF IInv, Owned
  <2>2. r \in WorkingOn(id)
    BY <2>1 DEF WorkingOn, InProgress, Creating, Early
  <2> QED
    BY <2>1, <2>2 DEF Creating
<1> QED
  BY <1>1, Invariant, PTL

-----------------------------------------------------------------------------
(* What was answered. *)

\* Nobody is at work on a resource besides another unless it is contested.
Sole ==
  \A q, r \in InProgress : target[q] = target[r] /\ target[r] \in Ids \ contested => q = r

Removed(id) == record[id] = Absent /\ (content[id] = "none" \/ id \in leaked)

Holds(id) ==
  promised[id] # Absent => IF promised[id] = Gone THEN Removed(id) ELSE record[id] = promised[id]

IdleHolds == \A id \in Ids \ contested : WorkingOn(id) = {} => Holds(id)

\* What an undisturbed request finds and has done.
OnTheWay(r, id) ==
  /\ pc[r] = "save" /\ request[r] = "update" => Holds(id)
  /\ pc[r] \in {"list", "read"} =>
       IF request[r] = "delete" THEN Removed(id)
       ELSE newRec[r] \in Records /\ record[id] = newRec[r]

RequestsOnTheWay == \A r \in InProgress : target[r] \in Ids \ contested => OnTheWay(r, target[r])

\* Nothing is read before the rebuild reads it.
ReadsLater ==
  \A r \in Admins, id \in Ids : pc[r] # "read" \/ id \in todo[r] => read[r][id] = Absent

\* What a rebuild has read of its request's own resource is stored.
OwnRead(r, id) ==
  pc[r] = "read" /\ id \notin todo[r] \cup missed[r] => read[r][id] = record[id]

OwnIsRead == \A r \in InProgress : target[r] \in Ids \ contested => OwnRead(r, target[r])

\* The invariant of the answers, which rests on IInv.
AInv == Sole /\ IdleHolds /\ RequestsOnTheWay /\ ReadsLater /\ OwnIsRead

SameLocals(q) ==
  /\ pc'[q] = pc[q] /\ request'[q] = request[q] /\ target'[q] = target[q]
  /\ newRec'[q] = newRec[q] /\ todo'[q] = todo[q] /\ read'[q] = read[q]
  /\ missed'[q] = missed[q]

SameFiles(id) ==
  /\ record'[id] = record[id] /\ content'[id] = content[id] /\ promised'[id] = promised[id]
  /\ id \in leaked => id \in leaked'

\* What is known of a request stays while neither it nor the resource's files change.
LEMMA Stays ==
  ASSUME NEW q, NEW id, SameLocals(q), SameFiles(id)
  PROVE  /\ Holds(id) => Holds(id)'
         /\ OnTheWay(q, id) => OnTheWay(q, id)'
         /\ OwnRead(q, id) => OwnRead(q, id)'
BY DEF Holds, Removed, OnTheWay, OwnRead, SameLocals, SameFiles

\* Accepting a request changes nothing but the admin's locals.
Begun(r, req, id, rec, to) ==
  /\ pc[r] = "idle" /\ pc'[r] = to /\ request'[r] = req /\ target'[r] = id /\ newRec'[r] = rec
  /\ todo'[r] = todo[r] /\ read'[r] = read[r]
  /\ \A q \in Admins \ {r} : SameLocals(q)
  /\ \A i \in Ids : SameFiles(i)
  /\ InProgress' = InProgress \cup {r} /\ r \notin InProgress
  /\ contested \subseteq contested' /\ (id \in Ids \ contested' => WorkingOn(id) = {})

LEMMA BeginFacts ==
  ASSUME IInv, NEW r \in Admins, NEW req, NEW id \in Ids \cup {NoId}, NEW rec,
         NEW to \in Steps \ {"idle"}, Begin(r, req, id, rec, to)
  PROVE  Begun(r, req, id, rec, to)
<1>1. /\ pc[r] = "idle" /\ pc'[r] = to /\ request'[r] = req /\ target'[r] = id
      /\ newRec'[r] = rec /\ todo'[r] = todo[r] /\ read'[r] = read[r]
  BY DEF IInv, TypeOK, Begin, Goto
<1>2. \A q \in Admins \ {r} : SameLocals(q)
  BY DEF IInv, TypeOK, Begin, Goto, SameLocals
<1>3. \A i \in Ids : SameFiles(i)
  BY DEF Begin, SameFiles
<1>4. InProgress' = InProgress \cup {r} /\ r \notin InProgress
  BY <1>1, <1>2 DEF InProgress, SameLocals
<1>5. contested \subseteq contested' /\ (id \in Ids \ contested' => WorkingOn(id) = {})
  BY MarkersAssumption DEF Begin
<1> QED
  BY <1>1, <1>2, <1>3, <1>4, <1>5 DEF Begun

LEMMA BeginAnswers ==
  ASSUME IInv, AInv, NEW r \in Admins, NEW req, NEW id \in Ids \cup {NoId}, NEW rec,
         NEW to \in {"open_content", "save", "reread", "list"}, Begin(r, req, id, rec, to),
         to = "list" => id = NoId
  PROVE  AInv'
<1>1. /\ pc[r] = "idle" /\ pc'[r] = to /\ request'[r] = req /\ target'[r] = id
      /\ newRec'[r] = rec /\ todo'[r] = todo[r] /\ read'[r] = read[r]
      /\ \A q \in Admins \ {r} : SameLocals(q)
      /\ \A i \in Ids : SameFiles(i)
      /\ InProgress' = InProgress \cup {r} /\ r \notin InProgress
      /\ contested \subseteq contested' /\ (id \in Ids \ contested' => WorkingOn(id) = {})
  <2>1. to \in Steps \ {"idle"}
    BY DEF Steps
  <2>2. Begun(r, req, id, rec, to)
    BY <2>1, BeginFacts
  <2> QED
    BY <2>2 DEF Begun
<1>2. \A q \in InProgress : q \in Admins \ {r} /\ SameLocals(q) /\ q \in InProgress'
  BY <1>1 DEF InProgress
<1>3. Sole'
  <2>1. ASSUME NEW p \in InProgress', NEW q \in InProgress', target'[p] = target'[q],
               target'[q] \in Ids \ contested'
        PROVE  p = q
    <3>1. CASE p \in InProgress /\ q \in InProgress
      BY <1>1, <1>2, <2>1, <3>1 DEF AInv, Sole, SameLocals
    <3>2. CASE p = r /\ q \in InProgress
      BY <1>1, <1>2, <2>1, <3>2 DEF WorkingOn, SameLocals
    <3>3. CASE q = r /\ p \in InProgress
      BY <1>1, <1>2, <2>1, <3>3 DEF WorkingOn, SameLocals
    <3> QED
      BY <1>1, <2>1, <3>1, <3>2, <3>3
  <2> QED
    BY <2>1 DEF Sole
<1>4. IdleHolds'
  <2>1. ASSUME NEW i \in Ids \ contested', WorkingOn(i)' = {} PROVE Holds(i)'
    <3>1. WorkingOn(i) = {}
      BY <1>2, <2>1 DEF WorkingOn, SameLocals
    <3>2. Holds(i)
      BY <1>1, <3>1 DEF AInv, IdleHolds
    <3> QED
      BY <1>1, <3>2 DEF Holds, Removed, SameFiles
  <2> QED
    BY <2>1 DEF IdleHolds
<1>5. ASSUME NEW q \in InProgress', NEW i \in Ids \ contested', target'[q] = i
      PROVE  OnTheWay(q, i)' /\ OwnRead(q, i)'
  <2>1. CASE q = r
    <3>1. id = i /\ WorkingOn(i) = {} /\ i \notin contested
      BY <1>1, <1>5, <2>1
    <3>2. Holds(i)
      BY <3>1 DEF AInv, IdleHolds
    <3>3. Holds(i)'
      BY <1>1, <3>2 DEF Holds, Removed, SameFiles
    <3> QED
      BY <1>1, <2>1, <3>1, <3>3, MarkersAssumption DEF OnTheWay, OwnRead
  <2>2. CASE q \in InProgress
    <3>1. target[q] = i /\ i \notin contested
      BY <1>1, <1>2, <1>5, <2>2 DEF SameLocals
    <3>2. OnTheWay(q, i) /\ OwnRead(q, i)
      BY <2>2, <3>1 DEF AInv, RequestsOnTheWay, OwnIsRead
    <3> QED
      BY <1>1, <1>2, <2>2, <3>2, Stays
  <2> QED
    BY <1>1, <2>1, <2>2
<1>6. RequestsOnTheWay' /\ OwnIsRead'
  BY <1>5 DEF RequestsOnTheWay, OwnIsRead
<1>7. ReadsLater'
  <2>1. ASSUME NEW q \in Admins, NEW i \in Ids, pc'[q] # "read" \/ i \in todo'[q]
        PROVE  read'[q][i] = Absent
    BY <1>1, <2>1 DEF AInv, ReadsLater, SameLocals
  <2> QED
    BY <2>1 DEF ReadsLater
<1> QED
  BY <1>3, <1>4, <1>6, <1>7 DEF AInv

\* A step of a handler that does not return: it changes its own locals and the files of
\* its own resource.
Onward(r) ==
  \/ OpenContent(r) \/ WriteContent(r) \/ Save(r) \/ Reread(r) \/ RemoveContent(r)
  \/ RemoveRecord(r) \/ ListResources(r) \/ ReadRecord(r)

LEMMA OnwardFacts ==
  ASSUME IInv, NEW r \in Admins, Onward(r)
  PROVE  /\ pc[r] # "idle" /\ pc'[r] # "idle" /\ target'[r] = target[r]
         /\ request'[r] = request[r] /\ newRec'[r] = newRec[r] /\ promised' = promised
         /\ \A q \in Admins \ {r} : SameLocals(q)
         /\ InProgress' = InProgress /\ r \in InProgress
         /\ \A id \in Ids \ {target[r]} : SameFiles(id)
         /\ contested' = contested /\ leaked \subseteq leaked'
<1> USE DEF history
<1>1. /\ pc[r] # "idle" /\ pc'[r] # "idle" /\ target'[r] = target[r]
      /\ request'[r] = request[r] /\ newRec'[r] = newRec[r] /\ promised' = promised
      /\ contested' = contested /\ leaked \subseteq leaked'
  BY DEF IInv, TypeOK, Onward, OpenContent, WriteContent, Save, Reread, RemoveContent,
         RemoveRecord, ListResources, ReadRecord, Goto
<1>2. ASSUME NEW q \in Admins \ {r} PROVE SameLocals(q)
  BY DEF IInv, TypeOK, Onward, OpenContent, WriteContent, Save, Reread, RemoveContent,
         RemoveRecord, ListResources, ReadRecord, Goto, SameLocals
<1>3. InProgress' = InProgress /\ r \in InProgress
  BY <1>1, <1>2 DEF InProgress, SameLocals
<1>4. ASSUME NEW id \in Ids \ {target[r]} PROVE SameFiles(id)
  BY <1>1 DEF IInv, TypeOK, Stored, Onward, OpenContent, WriteContent, Save, Reread,
         RemoveContent, RemoveRecord, ListResources, ReadRecord, SameFiles
<1> QED
  BY <1>1, <1>2, <1>3, <1>4

LEMMA OnwardAnswers ==
  ASSUME IInv, AInv, NEW r \in Admins, Onward(r),
         \A id \in Ids \ contested : target[r] = id => OnTheWay(r, id)' /\ OwnRead(r, id)',
         \A id \in Ids : pc'[r] # "read" \/ id \in todo'[r] => read'[r][id] = Absent
  PROVE  AInv'
<1>1. /\ pc[r] # "idle" /\ pc'[r] # "idle" /\ target'[r] = target[r]
      /\ \A q \in Admins \ {r} : SameLocals(q)
      /\ InProgress' = InProgress /\ r \in InProgress
      /\ \A id \in Ids \ {target[r]} : SameFiles(id)
      /\ contested' = contested
  BY OnwardFacts
<1>2. \A q \in InProgress : target'[q] = target[q] /\ q \in Admins
  BY <1>1 DEF SameLocals, InProgress
<1>3. Sole'
  BY <1>1, <1>2 DEF AInv, Sole
<1>4. IdleHolds'
  <2>1. ASSUME NEW id \in Ids \ contested', WorkingOn(id)' = {} PROVE Holds(id)'
    <3>1. WorkingOn(id) = {} /\ id # target[r]
      BY <1>1, <1>2, <2>1 DEF WorkingOn
    <3>2. Holds(id) /\ SameFiles(id)
      BY <1>1, <3>1 DEF AInv, IdleHolds
    <3> QED
      BY <3>2 DEF Holds, Removed, SameFiles
  <2> QED
    BY <2>1 DEF IdleHolds
<1>5. ASSUME NEW q \in InProgress', NEW id \in Ids \ contested', target'[q] = id
      PROVE  OnTheWay(q, id)' /\ OwnRead(q, id)'
  <2>1. CASE q = r
    BY <1>1, <1>5, <2>1
  <2>2. CASE q # r
    <3>1. q \in InProgress /\ target[q] = id /\ id # target[r]
      BY <1>1, <1>2, <1>5, <2>2 DEF AInv, Sole
    <3>2. OnTheWay(q, id) /\ OwnRead(q, id)
      BY <1>1, <3>1 DEF AInv, RequestsOnTheWay, OwnIsRead
    <3>3. SameLocals(q) /\ SameFiles(id)
      BY <1>1, <1>2, <2>2, <3>1
    <3> QED
      BY <3>2, <3>3, Stays
  <2> QED
    BY <2>1, <2>2
<1>6. RequestsOnTheWay' /\ OwnIsRead'
  BY <1>5 DEF RequestsOnTheWay, OwnIsRead
<1>7. ReadsLater'
  <2>1. ASSUME NEW q \in Admins, NEW i \in Ids, pc'[q] # "read" \/ i \in todo'[q]
        PROVE  read'[q][i] = Absent
    BY <1>1, <2>1 DEF AInv, ReadsLater, SameLocals
  <2> QED
    BY <2>1 DEF ReadsLater
<1> QED
  BY <1>3, <1>4, <1>6, <1>7 DEF AInv

\* A handler that returns; what it leaves of its resource is as promised.
LEMMA ReturnAnswers ==
  ASSUME IInv, AInv, NEW r \in Admins, pc[r] # "idle", Return(r),
         UNCHANGED <<record, content, contested>>, leaked \subseteq leaked',
         \A id \in Ids : id # target[r] => promised'[id] = promised[id],
         \A id \in Ids \ contested : target[r] = id => Holds(id)'
  PROVE  AInv'
<1>1. /\ pc'[r] = "idle" /\ read'[r] = Nothing
      /\ \A q \in Admins \ {r} : SameLocals(q)
  BY DEF IInv, TypeOK, Return, SameLocals
<1>2. InProgress' = InProgress \ {r} /\ r \in InProgress
  BY <1>1 DEF InProgress, SameLocals
<1>3. \A q \in InProgress' : q \in InProgress /\ q \in Admins \ {r} /\ SameLocals(q)
  BY <1>1, <1>2 DEF InProgress
<1>4. \A id \in Ids : id # target[r] => SameFiles(id)
  BY DEF SameFiles
<1>5. Sole'
  BY <1>3 DEF AInv, Sole, SameLocals
<1>6. IdleHolds'
  <2>1. ASSUME NEW id \in Ids \ contested', WorkingOn(id)' = {} PROVE Holds(id)'
    <3>1. CASE id # target[r]
      <4>1. WorkingOn(id) = {}
        BY <1>1, <1>2, <2>1, <3>1 DEF WorkingOn, SameLocals, InProgress
      <4>2. Holds(id) /\ SameFiles(id)
        BY <1>4, <2>1, <3>1, <4>1 DEF AInv, IdleHolds
      <4> QED
        BY <4>2 DEF Holds, Removed, SameFiles
    <3> QED
      BY <2>1, <3>1
  <2> QED
    BY <2>1 DEF IdleHolds
<1>7. ASSUME NEW q \in InProgress', NEW id \in Ids \ contested', target'[q] = id
      PROVE  OnTheWay(q, id)' /\ OwnRead(q, id)'
  <2>1. q \in InProgress /\ target[q] = id /\ id # target[r]
    BY <1>2, <1>3, <1>7 DEF AInv, Sole, SameLocals
  <2>2. OnTheWay(q, id) /\ OwnRead(q, id)
    BY <1>7, <2>1 DEF AInv, RequestsOnTheWay, OwnIsRead
  <2> QED
    BY <1>3, <1>4, <2>1, <2>2, Stays
<1>8. RequestsOnTheWay' /\ OwnIsRead'
  BY <1>7 DEF RequestsOnTheWay, OwnIsRead
<1>9. ReadsLater'
  <2>1. ASSUME NEW q \in Admins, NEW i \in Ids, pc'[q] # "read" \/ i \in todo'[q]
        PROVE  read'[q][i] = Absent
    BY <1>1, <2>1 DEF AInv, ReadsLater, SameLocals, Nothing
  <2> QED
    BY <2>1 DEF ReadsLater
<1> QED
  BY <1>5, <1>6, <1>8, <1>9 DEF AInv

LEMMA RequestAnswers ==
  ASSUME IInv, AInv, NEW r \in Admins, Create(r) \/ Update(r) \/ Delete(r) \/ ChangeSpec(r)
  PROVE  AInv'
<1>1. CASE Create(r)
  <2>1. PICK id \in Ids \ used, isStored \in BOOLEAN :
          Begin(r, "create", id, [stored |-> isStored, field |-> 0],
                IF isStored THEN "open_content" ELSE "save")
    BY <1>1 DEF Create
  <2> QED
    BY <2>1, BeginAnswers
<1>2. CASE Update(r)
  <2>1. PICK id \in Ids, value \in {0, 1} :
          Begin(r, "update", id, Patched(record[id], value), "save")
    BY <1>2 DEF Update
  <2> QED
    BY <2>1, BeginAnswers
<1>3. CASE Delete(r)
  BY <1>3, BeginAnswers DEF Delete
<1>4. CASE ChangeSpec(r)
  BY <1>4, BeginAnswers DEF ChangeSpec
<1> QED
  BY <1>1, <1>2, <1>3, <1>4

LEMMA SaveAnswers ==
  ASSUME IInv, AInv, NEW r \in Admins,
         OpenContent(r) \/ WriteContent(r) \/ Save(r) \/ Reread(r) \/ RemoveContent(r)
           \/ RemoveRecord(r)
  PROVE  AInv'
<1> USE DEF history
<1>1. /\ pc[r] # "read" /\ pc'[r] # "read" /\ read' = read
  BY DEF IInv, TypeOK, OpenContent, WriteContent, Save, Reread, RemoveContent, RemoveRecord, Goto
<1>2. ASSUME NEW id \in Ids, target[r] = id PROVE OnTheWay(r, id)'
  <2>1. CASE OpenContent(r) \/ WriteContent(r)
    <3>1. pc'[r] \in {"write_content", "save"} /\ request'[r] = "create"
      BY <2>1 DEF OpenContent, WriteContent, Goto, IInv, TypeOK, Places
    <3> QED
      BY <3>1 DEF OnTheWay
  <2>2. CASE Save(r)
    <3>1. /\ pc'[r] = "list" /\ request'[r] # "delete" /\ newRec'[r] \in Records
          /\ record'[id] = newRec'[r]
      BY <1>2, <2>2 DEF Save, Goto, IInv, TypeOK, Stored, Places
    <3> QED
      BY <3>1 DEF OnTheWay
  <2>3. CASE Reread(r) \/ RemoveContent(r)
    <3>1. pc'[r] \in {"remove_content", "remove_record"}
      BY <2>3 DEF Reread, RemoveContent, Goto, IInv, TypeOK
    <3> QED
      BY <3>1 DEF OnTheWay
  <2>4. CASE RemoveRecord(r)
    <3>1. /\ pc[r] = "remove_record" /\ pc'[r] = "list" /\ request'[r] = "delete"
          /\ record'[id] = Absent /\ content' = content /\ leaked' = leaked
      BY <1>2, <2>4 DEF RemoveRecord, Goto, IInv, TypeOK, Stored, Places
    <3>2. content[id] = "none" \/ id \in leaked
      BY <1>2, <3>1 DEF IInv, RemovedOrLeaked
    <3> QED
      BY <3>1, <3>2 DEF OnTheWay, Removed
  <2> QED
    BY <2>1, <2>2, <2>3, <2>4
<1>3. \A id \in Ids : OwnRead(r, id)'
  BY <1>1 DEF OwnRead
<1>4. \A id \in Ids : read'[r][id] = Absent
  BY <1>1 DEF AInv, ReadsLater
<1> QED
  BY <1>2, <1>3, <1>4, OnwardAnswers DEF Onward

LEMMA ListAnswers ==
  ASSUME IInv, AInv, NEW r \in Admins, ListResources(r)
  PROVE  AInv'
<1>1. /\ pc[r] = "list" /\ pc'[r] = "read" /\ r \in InProgress
      /\ todo'[r] = {id \in Ids : record[id] # Absent}
      /\ UNCHANGED <<record, content, promised, request, newRec, read, leaked>>
  BY DEF ListResources, Goto, history, IInv, TypeOK, InProgress
<1>2. \A id \in Ids : read[r][id] = Absent
  BY <1>1 DEF AInv, ReadsLater
<1>3. ASSUME NEW id \in Ids \ contested, target[r] = id PROVE OnTheWay(r, id)' /\ OwnRead(r, id)'
  <2>1. OnTheWay(r, id)
    BY <1>1, <1>3 DEF AInv, RequestsOnTheWay
  <2>2. OnTheWay(r, id)'
    BY <1>1, <2>1 DEF OnTheWay, Removed
  <2> QED
    BY <1>1, <1>2, <2>2 DEF OwnRead
<1> QED
  BY <1>1, <1>2, <1>3, OnwardAnswers DEF Onward

LEMMA ReadAnswers ==
  ASSUME IInv, AInv, NEW r \in Admins, ReadRecord(r)
  PROVE  AInv'
<1>1. PICK i \in todo[r] :
        /\ \/ read' = [read EXCEPT ![r][i] = record[i]] /\ missed' = missed
           \/ read' = read /\ missed' = [missed EXCEPT ![r] = @ \cup {i}]
        /\ todo' = [todo EXCEPT ![r] = @ \ {i}]
  BY DEF ReadRecord
<1>2. /\ pc[r] = "read" /\ r \in InProgress /\ todo'[r] = todo[r] \ {i}
      /\ UNCHANGED <<pc, record, content, promised, request, newRec, leaked>>
  BY <1>1 DEF ReadRecord, IInv, TypeOK, InProgress
<1>3. \A id \in Ids \ {i} :
        read'[r][id] = read[r][id] /\ (id \notin missed'[r] => id \notin missed[r])
  BY <1>1 DEF IInv, TypeOK, Stored
<1>4. i \notin missed'[r] => read'[r][i] = record[i]
  BY <1>1 DEF IInv, TypeOK, Stored
<1>5. ASSUME NEW id \in Ids \ contested, target[r] = id PROVE OnTheWay(r, id)' /\ OwnRead(r, id)'
  <2>1. OnTheWay(r, id) /\ OwnRead(r, id)
    BY <1>2, <1>5 DEF AInv, RequestsOnTheWay, OwnIsRead
  <2>2. OnTheWay(r, id)'
    BY <1>2, <2>1 DEF OnTheWay, Removed
  <2>3. OwnRead(r, id)'
    BY <1>2, <1>3, <1>4, <2>1 DEF OwnRead
  <2> QED
    BY <2>2, <2>3
<1>6. ASSUME NEW id \in Ids, pc'[r] # "read" \/ id \in todo'[r] PROVE read'[r][id] = Absent
  BY <1>2, <1>3, <1>6 DEF AInv, ReadsLater
<1> QED
  BY <1>5, <1>6, OnwardAnswers DEF Onward

LEMMA FailAnswers ==
  ASSUME IInv, AInv, NEW r \in Admins, Fail(r)
  PROVE  AInv'
<1>1. /\ pc[r] \in {"open_content", "write_content", "save", "remove_record", "reread"}
      /\ Return(r) /\ leaked \subseteq leaked' /\ r \in InProgress
      /\ UNCHANGED <<record, content, contested>>
  BY DEF Fail, InProgress
<1>2. \A id \in Ids : id # target[r] => promised'[id] = promised[id]
  BY DEF Fail, IInv, TypeOK
<1>3. ASSUME NEW id \in Ids \ contested, target[r] = id PROVE Holds(id)'
  <2>1. CASE request[r] = "update"
    <3>1. promised' = promised /\ pc[r] = "save"
      BY <1>1, <2>1 DEF Fail, IInv, Places
    <3>2. Holds(id)
      BY <1>1, <1>3, <2>1, <3>1 DEF AInv, RequestsOnTheWay, OnTheWay
    <3> QED
      BY <1>1, <3>1, <3>2 DEF Holds, Removed
  <2>2. CASE request[r] # "update"
    <3>1. promised'[id] = Absent
      BY <1>3, <2>2 DEF Fail, IInv, TypeOK
    <3> QED
      BY <3>1 DEF Holds
  <2> QED
    BY <2>1, <2>2
<1> QED
  BY <1>1, <1>2, <1>3, ReturnAnswers

\* An answered request: the rebuild was installed, or it gave up.
LEMMA InstallAnswers ==
  ASSUME IInv, AInv, NEW r \in Admins, Install(r) \/ ListFails(r)
  PROVE  AInv'
<1>1. /\ pc[r] \in {"list", "read"} /\ Answer(r) /\ Return(r) /\ leaked' = leaked
      /\ r \in InProgress /\ UNCHANGED <<record, content, contested>>
  BY DEF Install, ListFails, Answer, InProgress
<1>2. \A id \in Ids : id # target[r] => promised'[id] = promised[id]
  BY <1>1 DEF Answer, IInv, TypeOK
<1>3. ASSUME NEW id \in Ids \ contested, target[r] = id PROVE Holds(id)'
  <2>1. promised'[id] = IF request[r] = "delete" THEN Gone ELSE newRec[r]
    BY <1>1, <1>3, MarkersAssumption DEF Answer, IInv, TypeOK
  <2>2. IF request[r] = "delete" THEN Removed(id)
        ELSE newRec[r] \in Records /\ record[id] = newRec[r]
    BY <1>1, <1>3 DEF AInv, RequestsOnTheWay, OnTheWay
  <2> QED
    BY <1>1, <2>1, <2>2, MarkersAssumption DEF Holds, Removed
<1> QED
  BY <1>1, <1>2, <1>3, ReturnAnswers

\* A kill: what was not answered is promised nothing.
LEMMA CrashAnswers == ASSUME IInv, AInv, CrashAndRestart PROVE AInv'
<1>1. /\ UNCHANGED <<record, content, contested>> /\ leaked \subseteq leaked'
      /\ \A id \in Ids : promised'[id] = IF WorkingOn(id) # {} THEN Absent ELSE promised[id]
      /\ \A r \in Admins : pc'[r] = "idle" /\ \A id \in Ids : read'[r][id] = Absent
  BY DEF CrashAndRestart, Nothing
<1>2. InProgress' = {}
  BY <1>1 DEF InProgress
<1>3. ASSUME NEW id \in Ids \ contested PROVE Holds(id)'
  <2>1. CASE WorkingOn(id) = {}
    <3>1. Holds(id)
      BY <1>3, <2>1 DEF AInv, IdleHolds
    <3> QED
      BY <1>1, <2>1, <3>1 DEF Holds, Removed
  <2>2. CASE WorkingOn(id) # {}
    BY <1>1, <2>2 DEF Holds
  <2> QED
    BY <2>1, <2>2
<1> QED
  BY <1>1, <1>2, <1>3 DEF AInv, Sole, IdleHolds, RequestsOnTheWay, ReadsLater, OwnIsRead

LEMMA AnswersStep == IInv /\ AInv /\ [Next]_vars => AInv'
<1> SUFFICES ASSUME IInv, AInv, [Next]_vars PROVE AInv'
  OBVIOUS
<1>1. ASSUME NEW r \in Admins, Create(r) \/ Update(r) \/ Delete(r) \/ ChangeSpec(r) PROVE AInv'
  BY <1>1, RequestAnswers
<1>2. ASSUME NEW r \in Admins, HandlerStep(r) PROVE AInv'
  BY <1>2, SaveAnswers, ListAnswers, ReadAnswers, FailAnswers, InstallAnswers DEF HandlerStep
<1>3. CASE UNCHANGED <<record, content, locals, history>>
  BY <1>3 DEF locals, history, AInv, Sole, IdleHolds, RequestsOnTheWay, ReadsLater, OwnIsRead,
              OnTheWay, OwnRead, Holds, Removed, InProgress, WorkingOn
<1>4. ASSUME NEW c \in Readers, LookUp(c) \/ ReadContent(c) PROVE AInv'
  BY <1>3, <1>4 DEF LookUp, ReadContent
<1>5. CASE CrashAndRestart
  BY <1>5, CrashAnswers
<1>6. CASE UNCHANGED vars
  BY <1>3, <1>6 DEF vars, locals, history
<1> QED
  BY <1>1, <1>2, <1>4, <1>5, <1>6 DEF Next, Terminated

\* What is stored and served of a resource is what was answered, in every behaviour.
THEOREM AnswersInvariant == Spec => []AInv
<1>1. Init => AInv
  BY DEF Init, AInv, Sole, IdleHolds, Holds, Nothing, RequestsOnTheWay, ReadsLater, OwnIsRead,
         InProgress
<1> QED
  BY <1>1, AnswersStep, Invariant, PTL DEF Spec

\* A resource that no two requests worked on at once is what the last answer about it
\* said, across failures, other requests and restarts.
THEOREM AnswersAreKept == Spec => []AnswersHold
<1>1. AInv => AnswersHold
  BY DEF AInv, IdleHolds, Holds, Removed, AnswersHold
<1> QED
  BY <1>1, AnswersInvariant, PTL

\* A request's own rebuild installs what the request made of its resource, unless the
\* rebuild cannot read it or another request worked on it.
THEOREM OwnChangesAreInstalled == Spec => []OwnChangeInstalled
<1>1. AInv => OwnChangeInstalled
  BY DEF AInv, OwnIsRead, OwnRead, InProgress, OwnChangeInstalled
<1> QED
  BY <1>1, AnswersInvariant, PTL

=============================================================================
