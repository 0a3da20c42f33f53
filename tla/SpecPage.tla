------------------------------- MODULE SpecPage -------------------------------
(***************************************************************************)
(* SpecPage: the page of one spec (ui/src/pages/SpecDetail.tsx), with the  *)
(* switches of its operations, singly and in bulk, and the form of its     *)
(* settings.                                                               *)
(*                                                                         *)
(* A row of switches is sent one PATCH after the other.  The server reads, *)
(* changes and writes back the whole file of operations for each of them   *)
(* without a lock (store/jsonstore.go:166), so switches that overlap may   *)
(* undo each other.  The form is filled from what the page shows and sends *)
(* all of its fields.  Others change the spec too.  A request that fails   *)
(* was not carried out, or carried out and its answer lost.                *)
(*                                                                         *)
(* Of the settings there are a name and a URL; the rest are like the URL   *)
(* without its check.  Search and tags are a choice of operations.         *)
(***************************************************************************)
EXTENDS QueryCache, FiniteSets

CONSTANTS
  NumOps,      \* the operations are numbered as the file has them
  Values,      \* what a setting may be
  Blank,       \* a field left empty
  MaxRows,     \* bound on the number of rows of switches
  MaxSaves,    \* bound on the number of saves
  MaxChanges   \* bound on rows, saves and changes by others together

ASSUME SpecPageAssumption ==
  /\ NumOps \in Nat /\ MaxRows \in Nat /\ MaxSaves \in Nat /\ MaxChanges \in Nat
  /\ Values # {} /\ Blank \notin Values

VARIABLES
  switches,   \* operations.json: which operations are enabled
  settings,   \* spec.json
  settled,    \* the number of its last change (history)
  row,        \* rows of switches: where each is, and what is left to do
  editing,    \* whether the form is open
  form,       \* its fields
  edited,     \* the fields that the user has changed (history)
  from,       \* the number of the copy with which it was filled (history)
  save,       \* the saves
  mine,       \* the save that the form awaits, or 0
  others      \* number of changes by others

specVars == <<switches, settings, settled>>
formVars == <<editing, form, edited, from>>
detailVars == <<specVars, row, formVars, save, mine, others>>

Ops == 1 .. NumOps
Rows == 1 .. MaxRows
Saves == 1 .. MaxSaves
Fields == {"name", "url"}
Empty == [f \in Fields |-> Blank]
FirstSettings == [f \in Fields |-> CHOOSE v \in Values : TRUE]
AllOff == [o \in Ops |-> FALSE]

NoRow == [phase |-> "none", enabled |-> FALSE, all |-> {}, todo |-> {}, copy |-> AllOff,
          alone |-> FALSE, at |-> 0]
NoSave == [phase |-> "none", payload |-> Empty, edited |-> {}, from |-> 0, at |-> 0]

Begun == Cardinality({r \in Rows : row[r].phase # "none"})
       + Cardinality({k \in Saves : save[k].phase # "none"}) + others

Content == [at |-> at, switches |-> switches, settings |-> settings]
Shown == mounted /\ data # NoData /\ ~failed
UnderWay(r) == row[r].phase \in {"sent", "read", "written"}

-----------------------------------------------------------------------------
(* Switches. *)

\* What a row is once others have changed a switch.
Disturbed(q) ==
  IF row[q].phase = "done" THEN [NoRow EXCEPT !.phase = "over"] ELSE [row[q] EXCEPT !.alone = FALSE]

\* A row of switches starts with the first.
Start(ops, enabled) ==
  \E r \in Rows :
    /\ Begun < MaxChanges
    /\ row[r].phase = "none" /\ \A q \in 1 .. r - 1 : row[q].phase # "none"
    /\ row' = [q \in Rows |->
                 IF q # r THEN Disturbed(q)
                 ELSE [NoRow EXCEPT !.phase = "sent", !.enabled = enabled, !.all = ops, !.todo = ops,
                                    !.alone = \A p \in Rows : ~UnderWay(p)]]
    /\ UNCHANGED <<specVars, formVars, save, mine, others, queryVars>>

\* A click on the switch of one operation asks for the opposite of what is shown.
Toggle == Shown /\ \E o \in Ops : Start({o}, ~data.switches[o])

\* handleBulkToggle, over the operations that the filter lets through.
BulkToggle == Shown /\ \E ops \in SUBSET Ops \ {{}}, enabled \in BOOLEAN : Start(ops, enabled)

First(ops) == CHOOSE o \in ops : \A p \in ops : o <= p

\* The server's UpdateOperation reads the file ...
ReadSwitches(r) ==
  /\ row[r].phase = "sent"
  /\ row' = [row EXCEPT ![r].phase = "read", ![r].copy = switches]
  /\ UNCHANGED <<specVars, formVars, save, mine, others, queryVars>>

\* ... and writes it with the one operation changed.
WriteSwitches(r) ==
  /\ row[r].phase = "read"
  /\ switches' = [row[r].copy EXCEPT ![First(row[r].todo)] = row[r].enabled]
  /\ ServerChanges
  /\ row' = [row EXCEPT ![r].phase = "written", ![r].copy = AllOff, ![r].at = at + 1]
  /\ UNCHANGED <<settings, settled, formVars, save, mine, others>>

RowEnds(r) ==
  row' = [row EXCEPT ![r] = IF row[r].alone THEN [@ EXCEPT !.phase = "done", !.todo = {},
                                                           !.at = 0]
                            ELSE [NoRow EXCEPT !.phase = "over"]]

\* Mutant of SwitchAnswered: the row is sent at once, so that the server has read
\* the file for the next switch before it has written it for the last.
SwitchAllSent(r) ==
  LET rest == row[r].todo \ {First(row[r].todo)} IN
  /\ row[r].phase = "written"
  /\ IF rest # {}
     THEN /\ row' = [row EXCEPT ![r].phase = "read", ![r].todo = rest, ![r].at = 0,
                  ![r].copy = [switches EXCEPT ![First(row[r].todo)] = ~row[r].enabled]]
          /\ LearnOnly(row[r].at)
     ELSE RowEnds(r) /\ LearnAndAsk(row[r].at)
  /\ UNCHANGED <<specVars, formVars, save, mine, others>>

\* The page is told.  The next switch is sent, or the query is invalidated.
SwitchAnswered(r) ==
  LET rest == row[r].todo \ {First(row[r].todo)} IN
  /\ row[r].phase = "written"
  /\ IF rest # {}
     THEN /\ row' = [row EXCEPT ![r].phase = "sent", ![r].todo = rest, ![r].at = 0]
          /\ LearnOnly(row[r].at)
     ELSE RowEnds(r) /\ LearnAndAsk(row[r].at)
  /\ UNCHANGED <<specVars, formVars, save, mine, others>>

\* A failure ends the row, and nothing is invalidated.
SwitchFails(r) ==
  /\ UnderWay(r)
  /\ row' = [row EXCEPT ![r] = [NoRow EXCEPT !.phase = "over"]]
  /\ UNCHANGED <<specVars, formVars, save, mine, others, queryVars>>

-----------------------------------------------------------------------------
(* The form of the settings. *)

\* Mutant of StartEdit: the form begins with what the page showed first.
StartEditAsFirst ==
  /\ Shown /\ ~editing /\ Begun < MaxChanges
  /\ editing' = TRUE
  /\ form' = FirstSettings
  /\ edited' = {} /\ from' = data.at
  /\ UNCHANGED <<specVars, row, save, mine, others, queryVars>>

\* The form is opened, while there are requests left to be made.
StartEdit ==
  /\ Shown /\ ~editing /\ Begun < MaxChanges
  /\ editing' = TRUE
  /\ form' = data.settings
  /\ edited' = {} /\ from' = data.at
  /\ UNCHANGED <<specVars, row, save, mine, others, queryVars>>

\* A field is changed at most once: how often does not matter.
Type ==
  /\ editing
  /\ \E f \in Fields \ edited, v \in Values \cup {Blank} :
       form[f] # v /\ form' = [form EXCEPT ![f] = v] /\ edited' = edited \cup {f}
  /\ UNCHANGED <<specVars, row, editing, from, save, mine, others, queryVars>>

\* What it had is not used again.
FormCloses == editing' = FALSE /\ form' = Empty /\ edited' = {} /\ from' = 0

CancelEdit ==
  /\ editing /\ FormCloses
  /\ UNCHANGED <<specVars, row, save, mine, others, queryVars>>

\* handleSave up to its await.  An empty name stands for the one shown.
HandleSave ==
  /\ editing /\ mine = 0 /\ Begun < MaxChanges
  /\ form["url"] # Blank
  /\ \E k \in Saves :
       /\ save[k].phase = "none" /\ \A j \in 1 .. k - 1 : save[j].phase # "none"
       /\ mine' = k
       /\ save' = [save EXCEPT ![k] =
            [phase |-> "sent", edited |-> edited, from |-> from, at |-> 0,
             payload |-> IF form["name"] = Blank
                         THEN [form EXCEPT !["name"] = data.settings["name"]] ELSE form]]
  /\ UNCHANGED <<specVars, row, formVars, others, queryVars>>

ServerSaves(k) ==
  /\ save[k].phase = "sent"
  /\ settings' = save[k].payload /\ settled' = at + 1
  /\ ServerChanges
  /\ save' = [save EXCEPT ![k] = [NoSave EXCEPT !.phase = "saved", !.at = at + 1]]
  /\ UNCHANGED <<switches, row, formVars, mine, others>>

SaveOver(k) ==
  /\ save' = [save EXCEPT ![k] = [NoSave EXCEPT !.phase = "over"]]
  /\ mine' = IF mine = k THEN 0 ELSE mine

\* The form is closed, be it one that the user has opened since.
SaveAnswered(k) ==
  /\ save[k].phase = "saved"
  /\ SaveOver(k)
  /\ LearnAndAsk(save[k].at)
  /\ IF mine = k THEN FormCloses ELSE UNCHANGED formVars
  /\ UNCHANGED <<specVars, row, others>>

SaveFails(k) ==
  /\ save[k].phase \in {"sent", "saved"}
  /\ SaveOver(k)
  /\ UNCHANGED <<specVars, row, formVars, others, queryVars>>

-----------------------------------------------------------------------------
(* Other administrators, and the life of the page. *)

OthersSwitch ==
  /\ Begun < MaxChanges
  /\ others' = others + 1
  /\ \E o \in Ops : switches' = [switches EXCEPT ![o] = ~@]
  /\ row' = [q \in Rows |-> Disturbed(q)]
  /\ ServerChanges
  /\ UNCHANGED <<settings, settled, formVars, save, mine>>

OthersSave ==
  /\ Begun < MaxChanges
  /\ others' = others + 1
  /\ \E f \in Fields, v \in Values : settings[f] # v /\ settings' = [settings EXCEPT ![f] = v]
  /\ settled' = at + 1
  /\ ServerChanges
  /\ UNCHANGED <<switches, row, formVars, save, mine>>

OpenDetail == Open /\ UNCHANGED detailVars

ReceiveDetail == Receive /\ UNCHANGED detailVars

\* What is not shown has no form: requests go on without it.
CloseDetail == Close /\ FormCloses /\ mine' = 0 /\ UNCHANGED <<specVars, row, save, others>>

GiveUpDetail == GiveUp /\ FormCloses /\ mine' = 0 /\ UNCHANGED <<specVars, row, save, others>>

FetchDetail == (Refocus \/ Retry \/ Answer(Content)) /\ UNCHANGED detailVars

DetailInit ==
  /\ QueryInit
  /\ switches = [o \in Ops |-> TRUE]
  /\ settings = FirstSettings
  /\ settled = 0
  /\ row = [r \in Rows |-> NoRow]
  /\ editing = FALSE /\ form = Empty /\ edited = {} /\ from = 0
  /\ save = [k \in Saves |-> NoSave]
  /\ mine = 0
  /\ others = 0

RowStep(r) == ReadSwitches(r) \/ WriteSwitches(r) \/ SwitchAnswered(r) \/ SwitchFails(r)
SaveStep(k) == ServerSaves(k) \/ SaveAnswered(k) \/ SaveFails(k)

LifeStep == OpenDetail \/ CloseDetail \/ ReceiveDetail \/ GiveUpDetail \/ FetchDetail
OthersStep == OthersSwitch \/ OthersSave

SwitchesNext == Toggle \/ BulkToggle \/ (\E r \in Rows : RowStep(r)) \/ OthersStep \/ LifeStep
SettingsNext ==
  \/ StartEdit \/ Type \/ CancelEdit \/ HandleSave \/ \E k \in Saves : SaveStep(k)
  \/ OthersStep \/ LifeStep

DetailNext == SwitchesNext \/ SettingsNext
DetailSpec == DetailInit /\ [][DetailNext]_<<queryVars, detailVars>>

-----------------------------------------------------------------------------
Settings == [Fields -> Values \cup {Blank}]
Details == [at : Nat, switches : [Ops -> BOOLEAN], settings : [Fields -> Values]]
ASSUME DetailsAssumption == NoData \notin Details
RowType == [phase : {"none", "sent", "read", "written", "done", "over"}, enabled : BOOLEAN,
            all : SUBSET Ops, todo : SUBSET Ops, copy : [Ops -> BOOLEAN], alone : BOOLEAN, at : 0 .. at]
SaveType == [phase : {"none", "sent", "saved", "over"}, payload : Settings, edited : SUBSET Fields,
             from : 0 .. at, at : 0 .. at]

\* The type invariant of the page.
DetailTypeOK ==
  /\ QueryTypeOK(Details)
  /\ switches \in [Ops -> BOOLEAN] /\ settings \in [Fields -> Values] /\ settled \in 0 .. at
  /\ row \in [Rows -> RowType]
  /\ editing \in BOOLEAN /\ form \in Settings /\ edited \subseteq Fields /\ from \in 0 .. at
  /\ save \in [Saves -> SaveType] /\ mine \in {0} \cup Saves /\ others \in Nat

\* A row of switches that was answered to its end has left every operation that was
\* shown when it was asked for as it was asked for, although the server's changes of
\* one file undo each other when they overlap: the page's own never do, since each
\* waits for the answer to the one before.  Another row, or somebody else's switch,
\* may overlap with it.
BulkReaches ==
  \A r \in Rows : row[r].phase = "done" => \A o \in row[r].all : switches[o] = row[r].enabled

\* A save changes no setting that the user has not touched, although it sends them
\* all and the page may have fetched many times since the form was filled, unless
\* the settings have changed since the copy was made that it was filled with.  That
\* may have been the user's own last save, if the page had not fetched it yet.
SaveKeepsOthers ==
  [][\A k \in Saves :
       save[k].phase = "sent" /\ save'[k].phase = "saved" /\ save[k].from >= settled =>
         \A f \in Fields \ save[k].edited : settings'[f] = settings[f]]_<<queryVars, detailVars>>

=============================================================================
