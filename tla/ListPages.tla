------------------------------ MODULE ListPages ------------------------------
(***************************************************************************)
(* ListPages: the pages that list the specs and the resources              *)
(* (ui/src/pages/Specs.tsx, Resources.tsx), each with a drawer to add one  *)
(* and a dialog to delete one.                                             *)
(*                                                                         *)
(* The drawer takes a file and fills empty fields from it.  For a spec the *)
(* file is read first, and the fields that were empty when it was picked   *)
(* are filled when that is done.  The drawer of the resources also has     *)
(* tabs for a text and for a URL, with fields of their own; one stands     *)
(* here for both.  A drawer that is closed keeps its fields; a page that   *)
(* is left loses them.  The drawer and the dialog cover the page.          *)
(*                                                                         *)
(* Of the fields there are the name and the source, what the record is     *)
(* made from: the file or the text.  The URL of a spec is filled as its    *)
(* name is.  A request that fails was not carried out, or carried out and  *)
(* its answer lost.                                                        *)
(***************************************************************************)
EXTENDS QueryCache, FiniteSets

CONSTANTS
  Files,       \* what the user may pick
  Untitled,    \* those of them with a spec that has no title
  Typed,       \* what the user may type
  None,        \* an empty field
  MaxAsked,    \* bound on the number of uploads, and on that of deletions, and on their sum
  MaxEdits     \* bound on how often the user types or picks

ASSUME ListPagesAssumption ==
  /\ Untitled \subseteq Files /\ Files \cap Typed = {} /\ None \notin Files \cup Typed
  /\ MaxAsked \in Nat /\ MaxEdits \in Nat

VARIABLES
  kind,      \* which page it is: "specs" or "resources"
  records,   \* the server's records, by the upload that made them
  drawer,    \* whether the drawer is open
  tab,       \* its tab
  field,     \* its fields, by tab: name and source
  reading,   \* the files being read, each with whether the name was empty when it was picked
  own,       \* the last name that the user typed while no file was being read, or None (history)
  edits,     \* how often the user has typed or picked
  add,       \* the uploads
  closing,   \* number of drawers to be closed when two seconds are over
  dialog,    \* the record whose deletion is to be confirmed, or NoRecord
  del        \* the deletions

drawerVars == <<drawer, tab, field, reading, own, edits, closing>>
listVars == <<kind, records, drawerVars, add, dialog, del>>

Tabs == {"file", "text"}
Numbers == 1 .. MaxAsked
NoRecord == MaxAsked + 1

Asked(phase) == [phase |-> phase, record |-> NoRecord, at |-> 0, mount |-> 0]
NoFields == [t \in Tabs |-> [name |-> None, source |-> None]]

Listing == [at |-> at, records |-> records]
Here(q) == mounted /\ q.mount = mount
MayAsk == Cardinality({k \in Numbers : add[k].phase # "none"})
        + Cardinality({d \in Numbers : del[d].phase # "none"}) < MaxAsked
Pending(req) == \E k \in DOMAIN req : req[k].phase \in {"sent", "made"} /\ Here(req[k])

-----------------------------------------------------------------------------
(* The drawer. *)

OpenDrawer ==
  /\ mounted /\ ~drawer /\ dialog = NoRecord /\ drawer' = TRUE
  /\ UNCHANGED <<kind, records, tab, field, reading, own, edits, closing, add, dialog, del, queryVars>>

CloseDrawer ==
  /\ drawer /\ drawer' = FALSE
  /\ UNCHANGED <<kind, records, tab, field, reading, own, edits, closing, add, dialog, del, queryVars>>

ChooseTab ==
  /\ drawer /\ kind = "resources"
  /\ \E t \in Tabs \ {tab} : tab' = t
  /\ UNCHANGED <<kind, records, drawer, field, reading, own, edits, closing, add, dialog, del, queryVars>>

\* The user fills the form, while there are requests left to be made.
Edit == drawer /\ MayAsk /\ edits < MaxEdits /\ edits' = edits + 1

TypeName ==
  /\ Edit
  /\ \E v \in Typed \cup {None} :
       /\ field[tab].name # v
       /\ field' = [field EXCEPT ![tab].name = v]
       /\ own' = IF tab # "file" THEN own ELSE IF reading = {} THEN v ELSE None
  /\ UNCHANGED <<kind, records, drawer, tab, reading, closing, add, dialog, del, queryVars>>

TypeSource ==
  /\ Edit /\ tab # "file"
  /\ \E v \in Typed \cup {None} :
       field[tab].source # v /\ field' = [field EXCEPT ![tab].source = v]
  /\ UNCHANGED <<kind, records, drawer, tab, reading, own, closing, add, dialog, del, queryVars>>

\* handleDrop, or a file from the input.  A resource is named after the file.
PickResource ==
  /\ Edit /\ kind = "resources" /\ tab = "file"
  /\ \E f \in Files :
       field' = [field EXCEPT !["file"] = [name |-> IF @.name = None THEN f ELSE @.name, source |-> f]]
  /\ UNCHANGED <<kind, records, drawer, tab, reading, own, closing, add, dialog, del, queryVars>>

\* applyFileMeta, which remembers the name of this moment.
PickSpec ==
  /\ Edit /\ kind = "specs"
  /\ \E f \in Files :
       /\ field' = [field EXCEPT !["file"].source = f]
       /\ reading' = reading \cup {[file |-> f, empty |-> field["file"].name = None]}
  /\ UNCHANGED <<kind, records, drawer, tab, own, closing, add, dialog, del, queryVars>>

\* extractSpecMeta: the title in the file, if it has one.
Title(f) == IF f \in Untitled THEN None ELSE f

\* Mutant of ReadDone: the title of the file always becomes the name.
ReadDoneAlways ==
  \E r \in reading :
    /\ reading' = reading \ {r}
    /\ field' = IF Title(r.file) # None THEN [field EXCEPT !["file"].name = Title(r.file)] ELSE field
    /\ UNCHANGED <<kind, records, drawer, tab, own, edits, closing, add, dialog, del, queryVars>>

\* reader.onload
ReadDone ==
  \E r \in reading :
    /\ reading' = reading \ {r}
    /\ field' = IF Title(r.file) # None /\ r.empty
                THEN [field EXCEPT !["file"].name = Title(r.file)] ELSE field
    /\ UNCHANGED <<kind, records, drawer, tab, own, edits, closing, add, dialog, del, queryVars>>

\* One upload of a page at a time.
Upload ==
  /\ drawer /\ ~Pending(add) /\ MayAsk
  /\ \E k \in Numbers :
       /\ add[k].phase = "none" /\ \A j \in 1 .. k - 1 : add[j].phase # "none"
       /\ add' = [add EXCEPT ![k] = [Asked("sent") EXCEPT !.record = k, !.mount = mount]]
  /\ UNCHANGED <<kind, records, drawerVars, dialog, del, queryVars>>

\* handleSubmit.  A spec needs a file, a resource a name and a source.
SubmitSpec == kind = "specs" /\ field["file"].source # None /\ Upload
SubmitResource ==
  kind = "resources" /\ field[tab].name # None /\ field[tab].source # None /\ Upload

ServerAdds(k) ==
  /\ add[k].phase = "sent"
  /\ records' = records \cup {k}
  /\ add' = [add EXCEPT ![k].phase = "made", ![k].at = at + 1]
  /\ ServerChanges
  /\ UNCHANGED <<kind, drawerVars, dialog, del>>

Learnt(k) ==
  /\ add[k].phase = "made"
  /\ add' = [add EXCEPT ![k] = Asked("over")]
  /\ LearnAndAsk(add[k].at)
  /\ UNCHANGED <<kind, records, tab, field, reading, own, edits, dialog, del>>

\* onSuccess.  The drawer of the specs says so and is closed two seconds later, that of
\* the resources at once.  Nothing is done to the drawer of a page that was left.
SpecAdded(k) ==
  /\ kind = "specs" /\ Learnt(k)
  /\ closing' = closing + (IF Here(add[k]) THEN 1 ELSE 0) /\ UNCHANGED drawer

ResourceAdded(k) ==
  /\ kind = "resources" /\ Learnt(k)
  /\ drawer' = (drawer /\ ~Here(add[k])) /\ UNCHANGED closing

AddFails(k) ==
  /\ add[k].phase \in {"sent", "made"}
  /\ add' = [add EXCEPT ![k] = Asked("over")]
  /\ UNCHANGED <<kind, records, drawerVars, dialog, del, queryVars>>

\* The two seconds are over.  The drawer is closed, be it that it was opened again.
ShownLongEnough ==
  /\ closing > 0 /\ closing' = closing - 1
  /\ drawer' = FALSE
  /\ UNCHANGED <<kind, records, tab, field, reading, own, edits, add, dialog, del, queryVars>>

-----------------------------------------------------------------------------
(* Deletion. *)

\* A click on the bin of a record that the page shows, or on Cancel.
AskDelete ==
  /\ mounted /\ data # NoData /\ dialog = NoRecord /\ ~drawer
  /\ dialog' \in data.records
  /\ UNCHANGED <<kind, records, drawerVars, add, del, queryVars>>

CancelDelete ==
  /\ dialog # NoRecord /\ dialog' = NoRecord
  /\ UNCHANGED <<kind, records, drawerVars, add, del, queryVars>>

ConfirmDelete ==
  /\ dialog # NoRecord /\ ~Pending(del) /\ MayAsk
  /\ \E d \in Numbers :
       /\ del[d].phase = "none" /\ \A j \in 1 .. d - 1 : del[j].phase # "none"
       /\ del' = [del EXCEPT ![d] = [Asked("sent") EXCEPT !.record = dialog, !.mount = mount]]
  /\ UNCHANGED <<kind, records, drawerVars, add, dialog, queryVars>>

ServerDeletes(d) ==
  /\ del[d].phase = "sent"
  /\ records' = records \ {del[d].record}
  /\ del' = [del EXCEPT ![d].phase = "made", ![d].at = at + 1]
  /\ ServerChanges
  /\ UNCHANGED <<kind, drawerVars, add, dialog>>

\* onSuccess.  The dialog is closed, be it that of another record by now.
Deleted(d) ==
  /\ del[d].phase = "made"
  /\ del' = [del EXCEPT ![d] = Asked("over")]
  /\ LearnAndAsk(del[d].at)
  /\ dialog' = IF Here(del[d]) THEN NoRecord ELSE dialog
  /\ UNCHANGED <<kind, records, drawerVars, add>>

DeleteFails(d) ==
  /\ del[d].phase \in {"sent", "made"}
  /\ del' = [del EXCEPT ![d] = Asked("over")]
  /\ UNCHANGED <<kind, records, drawerVars, add, dialog, queryVars>>

-----------------------------------------------------------------------------
(* The life of the page. *)

\* A page that is left loses what it had.
CloseList ==
  /\ Close
  /\ drawer' = FALSE /\ tab' = "file" /\ field' = NoFields
  /\ reading' = {} /\ own' = None /\ closing' = 0
  /\ dialog' = NoRecord
  /\ UNCHANGED <<kind, records, edits, add, del>>

FetchList == (Open \/ Receive \/ GiveUp \/ Refocus \/ Retry \/ Answer(Listing)) /\ UNCHANGED listVars

ListInit ==
  /\ QueryInit
  /\ kind \in {"specs", "resources"}
  /\ records = {}
  /\ drawer = FALSE /\ tab = "file" /\ field = NoFields
  /\ reading = {} /\ own = None /\ edits = 0 /\ closing = 0
  /\ add = [k \in Numbers |-> Asked("none")]
  /\ dialog = NoRecord
  /\ del = [d \in Numbers |-> Asked("none")]

AddStep(k) == ServerAdds(k) \/ SpecAdded(k) \/ ResourceAdded(k) \/ AddFails(k)
DeleteStep(d) == ServerDeletes(d) \/ Deleted(d) \/ DeleteFails(d)

ListNext ==
  \/ OpenDrawer \/ CloseDrawer \/ ChooseTab \/ TypeName \/ TypeSource \/ PickResource \/ PickSpec
  \/ ReadDone \/ SubmitSpec \/ SubmitResource \/ (\E k \in Numbers : AddStep(k)) \/ ShownLongEnough
  \/ AskDelete \/ CancelDelete \/ ConfirmDelete \/ \E d \in Numbers : DeleteStep(d)
  \/ CloseList \/ FetchList

ListSpec == ListInit /\ [][ListNext]_<<queryVars, listVars>>

-----------------------------------------------------------------------------
Listings == [at : Nat, records : SUBSET Numbers]
ASSUME ListingsAssumption == NoData \notin Listings
Names == Files \cup Typed \cup {None}
AskedType == [phase : {"none", "sent", "made", "over"}, record : 1 .. NoRecord, at : 0 .. at,
              mount : 0 .. mount]

\* The type invariant of the pages.
ListTypeOK ==
  /\ QueryTypeOK(Listings)
  /\ kind \in {"specs", "resources"} /\ records \subseteq Numbers
  /\ drawer \in BOOLEAN /\ tab \in Tabs
  /\ field \in [Tabs -> [name : Names, source : Names]]
  /\ reading \subseteq [file : Files, empty : BOOLEAN]
  /\ own \in Typed \cup {None} /\ edits \in Nat /\ closing \in Nat
  /\ add \in [Numbers -> AskedType] /\ del \in [Numbers -> AskedType]
  /\ dialog \in 1 .. NoRecord

\* What the user has typed as the name stays, whatever files are picked and read
\* afterwards, if no file was being read when it was typed: a file picked before
\* remembers that the name was empty.
NameIsUsers == own # None => field["file"].name = own

=============================================================================
