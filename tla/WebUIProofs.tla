----------------------------- MODULE WebUIProofs -----------------------------
(***************************************************************************)
(* WebUIProofs: what the pages of the administration show and send is what *)
(* it should be, the requests of the MCP client are settled by their own   *)
(* answers, and the chat page uses one connection, for any number of       *)
(* operations, records, values, choices, clients and requests; each for    *)
(* its page, and then for the UI with all of them.                         *)
(***************************************************************************)
EXTENDS WebUI, TLAPS

-----------------------------------------------------------------------------
(* The query. *)

\* What ShowsOwnChanges needs: unless the page has missed a change, a copy on its way is
\* recent enough, and a query at rest has a recent copy or will ask for one.
Fresh ==
  ~missed =>
    /\ fetching = "answered" => answer.at >= learned
    /\ fetching = "idle" => \/ failed
                            \/ data # NoData /\ data.at >= learned
                            \/ ~mounted /\ (invalid \/ data = NoData)

\* The steps of the query, with copies from Copies.
QueryStep(Copies) ==
  \/ Open \/ Close \/ Refocus \/ Receive \/ Retry \/ GiveUp \/ ServerChanges
  \/ \E c \in Copies : c.at = at /\ Answer(c)
  \/ \E n \in 0 .. at : LearnAndAsk(n) \/ LearnOnly(n)
  \/ UNCHANGED queryVars

\* The steps of the query keep its type.
LEMMA QueryType ==
  ASSUME NEW CONSTANT Copies, NoData \notin Copies, QueryTypeOK(Copies), QueryStep(Copies)
  PROVE  QueryTypeOK(Copies)'
<1>1. CASE Open
  <2>1. (fetching' = "asked" /\ answer' = NoData /\ missed' = FALSE) \/ UNCHANGED fetchVars
    BY <1>1 DEF Open, Ask
  <2>2. mount' = mount + 1 /\ mounted' = TRUE /\ UNCHANGED <<at, data, invalid, failed, learned>>
    BY <1>1 DEF Open
  <2>3. CASE UNCHANGED fetchVars
    BY <2>2, <2>3 DEF QueryTypeOK, fetchVars
  <2>4. CASE fetching' = "asked" /\ answer' = NoData /\ missed' = FALSE
    <3>1. at \in Nat /\ mount' \in Nat /\ learned \in 0 .. at
      BY <2>2 DEF QueryTypeOK
    <3>2. data \in Copies \cup {NoData} /\ invalid \in BOOLEAN /\ failed \in BOOLEAN
      BY DEF QueryTypeOK
    <3> QED
      BY <2>2, <2>4, <3>1, <3>2 DEF QueryTypeOK
  <2> QED
    BY <2>1, <2>3, <2>4
<1>7. CASE Close
  BY <1>7 DEF QueryTypeOK, Close, fetchVars
<1>8. CASE UNCHANGED queryVars
  BY <1>8 DEF QueryTypeOK, queryVars
<1>6. CASE Refocus \/ Retry \/ GiveUp
  BY <1>6 DEF QueryTypeOK, Refocus, Retry, GiveUp, Ask
<1>2. CASE Receive
  BY <1>2 DEF QueryTypeOK, Receive
<1>3. CASE ServerChanges
  BY <1>3 DEF QueryTypeOK, ServerChanges, fetchVars
<1>4. ASSUME NEW c \in Copies, Answer(c) PROVE QueryTypeOK(Copies)'
  BY <1>4 DEF QueryTypeOK, Answer
<1>5. ASSUME NEW n \in 0 .. at, LearnAndAsk(n) \/ LearnOnly(n) PROVE QueryTypeOK(Copies)'
  <2>1. learned' \in 0 .. at'
    BY <1>5 DEF QueryTypeOK, LearnAndAsk, LearnOnly, Learn
  <2> QED
    BY <1>5, <2>1 DEF QueryTypeOK, LearnAndAsk, LearnOnly, Invalidate, Ask
<1> QED
  BY <1>1, <1>2, <1>3, <1>4, <1>5, <1>6, <1>7, <1>8 DEF QueryStep

LEMMA QueryFresh ==
  ASSUME NEW CONSTANT Copies, NoData \notin Copies, QueryTypeOK(Copies), Fresh, QueryStep(Copies)
  PROVE  Fresh'
<1>1. CASE Open \/ Close \/ Refocus \/ Retry \/ GiveUp \/ UNCHANGED queryVars
  BY <1>1 DEF QueryTypeOK, Fresh, Open, Close, Refocus, Retry, GiveUp, Ask, fetchVars, queryVars
<1>2. CASE Receive
  BY <1>2 DEF QueryTypeOK, Fresh, Receive
<1>3. CASE ServerChanges
  BY <1>3 DEF Fresh, ServerChanges, fetchVars
<1>4. ASSUME NEW c \in Copies, c.at = at, Answer(c) PROVE Fresh'
  BY <1>4 DEF QueryTypeOK, Fresh, Answer
<1>5. ASSUME NEW n \in 0 .. at, LearnAndAsk(n) PROVE Fresh'
  BY <1>5 DEF QueryTypeOK, Fresh, LearnAndAsk, Invalidate, Ask
<1>6. ASSUME NEW n \in 0 .. at, LearnOnly(n) PROVE Fresh'
  BY <1>6 DEF Fresh, LearnOnly
<1> QED
  BY <1>1, <1>2, <1>3, <1>4, <1>5, <1>6 DEF QueryStep

\* Copies are of the past.
Past ==
  /\ data # NoData => data.at \in 0 .. at
  /\ answer # NoData => answer.at \in 0 .. at

LEMMA QueryPast ==
  ASSUME NEW CONSTANT Copies, NoData \notin Copies, QueryTypeOK(Copies), Past, QueryStep(Copies)
  PROVE  Past'
<1>1. CASE Open \/ Close \/ Refocus \/ Retry \/ GiveUp \/ UNCHANGED queryVars
  BY <1>1 DEF Past, Open, Close, Refocus, Retry, GiveUp, Ask, fetchVars, queryVars
<1>2. CASE Receive
  BY <1>2 DEF QueryTypeOK, Past, Receive
<1>3. CASE ServerChanges
  BY <1>3 DEF QueryTypeOK, Past, ServerChanges, fetchVars
<1>4. ASSUME NEW c \in Copies, c.at = at, Answer(c) PROVE Past'
  BY <1>4 DEF QueryTypeOK, Past, Answer
<1>5. ASSUME NEW n \in 0 .. at, LearnAndAsk(n) \/ LearnOnly(n) PROVE Past'
  BY <1>5 DEF Past, LearnAndAsk, LearnOnly, Invalidate, Ask
<1> QED
  BY <1>1, <1>2, <1>3, <1>4, <1>5 DEF QueryStep

LEMMA FreshShows == Fresh => ShowsOwnChanges
  BY DEF Fresh, ShowsOwnChanges

LEMMA QueryStart ==
  ASSUME NEW CONSTANT Copies, NoData \notin Copies, QueryInit
  PROVE  QueryTypeOK(Copies) /\ Fresh /\ Past
<1>1. QueryTypeOK(Copies)
  <2>1. at \in Nat /\ mount \in Nat /\ mounted \in BOOLEAN
    BY DEF QueryInit
  <2>2. /\ data \in Copies \cup {NoData} /\ answer \in Copies \cup {NoData}
    BY DEF QueryInit
  <2>3. fetching = "answered" <=> answer # NoData
    BY DEF QueryInit
  <2>4. learned \in 0 .. at
    BY DEF QueryInit
  <2> QED
    BY <2>1, <2>2, <2>3, <2>4 DEF QueryInit, QueryTypeOK
<1>2. Fresh
  BY DEF QueryInit, Fresh
<1>3. Past
  BY DEF QueryInit, Past
<1> QED
  BY <1>1, <1>2, <1>3

-----------------------------------------------------------------------------
(* The page of one spec. *)

\* The constants that rows and saves begin with.
LEMMA DetailConstants ==
  /\ FirstSettings \in [Fields -> Values] /\ Empty \in Settings
  /\ AllOff \in [Ops -> BOOLEAN]
  /\ \A s \in [Fields -> Values] : s \in Settings
<1>1. (CHOOSE v \in Values : TRUE) \in Values
  BY SpecPageAssumption
<1> QED
  BY <1>1 DEF FirstSettings, Empty, Settings, AllOff

\* Rows and saves with numbers of changes up to m.
RowOf(m) == [phase : {"none", "sent", "read", "written", "done", "over"}, enabled : BOOLEAN,
             all : SUBSET Ops, todo : SUBSET Ops, copy : [Ops -> BOOLEAN], alone : BOOLEAN,
             at : 0 .. m]
SaveOf(m) == [phase : {"none", "sent", "saved", "over"}, payload : Settings,
              edited : SUBSET Fields, from : 0 .. m, at : 0 .. m]

LEMMA LaterTypes ==
  ASSUME NEW m \in Nat, NEW n \in {m, m + 1}
  PROVE  /\ \A i \in 0 .. m : i \in 0 .. n
         /\ \A r \in RowOf(m) : r \in RowOf(n)
         /\ \A s \in SaveOf(m) : s \in SaveOf(n)
<1>1. \A i \in 0 .. m : i \in 0 .. n
  OBVIOUS
<1>2. ASSUME NEW r \in RowOf(m) PROVE r \in RowOf(n)
  BY <1>1 DEF RowOf
<1>3. ASSUME NEW s \in SaveOf(m) PROVE s \in SaveOf(n)
  BY <1>1 DEF SaveOf
<1> QED
  BY <1>1, <1>2, <1>3

\* A row after an update is a row.
LEMMA RowUpdates ==
  ASSUME NEW P, NEW B, NEW O, NEW C, NEW N,
         NEW r \in [phase : P, enabled : B, all : O, todo : O, copy : C, alone : B, at : N],
         NEW p \in P, NEW e \in B, NEW a \in B, NEW o \in O, NEW c \in C, NEW n \in N
  PROVE  LET Row == [phase : P, enabled : B, all : O, todo : O, copy : C, alone : B, at : N] IN
         /\ [r EXCEPT !.alone = a] \in Row
         /\ [r EXCEPT !.phase = p] \in Row
         /\ [r EXCEPT !.phase = p, !.todo = o, !.at = n] \in Row
         /\ [r EXCEPT !.phase = p, !.copy = c] \in Row
         /\ [r EXCEPT !.phase = p, !.copy = c, !.at = n] \in Row
         /\ [r EXCEPT !.phase = p, !.enabled = e, !.all = o, !.todo = o, !.alone = a] \in Row
  OBVIOUS

\* What becomes of a row.
LEMMA RowTypes ==
  ASSUME NEW m \in Nat
  PROVE  /\ NoRow \in RowOf(m)
         /\ \A r \in RowOf(m) :
              /\ [r EXCEPT !.alone = FALSE] \in RowOf(m)
              /\ [r EXCEPT !.phase = "over"] \in RowOf(m)
              /\ [r EXCEPT !.phase = "done", !.todo = {}, !.at = 0] \in RowOf(m)
         /\ \A r \in RowOf(m), c \in [Ops -> BOOLEAN] :
              /\ [r EXCEPT !.phase = "read", !.copy = c] \in RowOf(m)
              /\ [r EXCEPT !.phase = "written", !.copy = c, !.at = m] \in RowOf(m)
         /\ \A r \in RowOf(m), ops \in SUBSET Ops :
              [r EXCEPT !.phase = "sent", !.todo = ops, !.at = 0] \in RowOf(m)
         /\ \A r \in RowOf(m), ops \in SUBSET Ops, e, a \in BOOLEAN :
              [r EXCEPT !.phase = "sent", !.enabled = e, !.all = ops, !.todo = ops,
                        !.alone = a] \in RowOf(m)
<1> DEFINE P == {"none", "sent", "read", "written", "done", "over"}
           O == SUBSET Ops
           C == [Ops -> BOOLEAN]
           N == 0 .. m
           R == RowOf(m)
<1>1. NoRow \in RowOf(m)
  BY DetailConstants DEF NoRow, RowOf
<1>2. R = [phase : P, enabled : BOOLEAN, all : O, todo : O, copy : C, alone : BOOLEAN, at : N]
  BY DEF RowOf
<1>3. {} \in O /\ 0 \in N /\ m \in N /\ FALSE \in BOOLEAN /\ AllOff \in C
  BY DetailConstants
<1>4. "over" \in P /\ "done" \in P /\ "read" \in P /\ "written" \in P /\ "sent" \in P
  OBVIOUS
<1> HIDE DEF P, O, C, N, R
<1>5. \A r \in R :
        /\ [r EXCEPT !.alone = FALSE] \in R
        /\ [r EXCEPT !.phase = "over"] \in R
        /\ [r EXCEPT !.phase = "done", !.todo = {}, !.at = 0] \in R
  BY <1>2, <1>3, <1>4, RowUpdates
<1>6. \A r \in R, c \in C :
        /\ [r EXCEPT !.phase = "read", !.copy = c] \in R
        /\ [r EXCEPT !.phase = "written", !.copy = c, !.at = m] \in R
  BY <1>2, <1>3, <1>4, RowUpdates
<1>7. \A r \in R, ops \in O :
        [r EXCEPT !.phase = "sent", !.todo = ops, !.at = 0] \in R
  BY <1>2, <1>3, <1>4, RowUpdates
<1>8. \A r \in R, ops \in O, e, a \in BOOLEAN :
        [r EXCEPT !.phase = "sent", !.enabled = e, !.all = ops, !.todo = ops,
                  !.alone = a] \in R
  BY <1>2, <1>3, <1>4, RowUpdates
<1> QED
  BY <1>1, <1>5, <1>6, <1>7, <1>8 DEF O, C, R

\* A save after an update is a save.
LEMMA SaveUpdates ==
  ASSUME NEW P, NEW S, NEW E, NEW N,
         NEW r \in [phase : P, payload : S, edited : E, from : N, at : N],
         NEW p \in P, NEW n \in N
  PROVE  [r EXCEPT !.phase = p, !.at = n] \in [phase : P, payload : S, edited : E, from : N, at : N]
  OBVIOUS

\* What becomes of a save.
LEMMA SaveTypes ==
  ASSUME NEW m \in Nat
  PROVE  /\ NoSave \in SaveOf(m)
         /\ \A n \in 0 .. m : [NoSave EXCEPT !.phase = "saved", !.at = n] \in SaveOf(m)
         /\ [NoSave EXCEPT !.phase = "over"] \in SaveOf(m)
         /\ \A e \in SUBSET Fields, f \in 0 .. m, p \in Settings :
              [phase |-> "sent", edited |-> e, from |-> f, at |-> 0, payload |-> p] \in SaveOf(m)
<1>1. Empty \in Settings
  BY DetailConstants
<1>2. NoSave \in SaveOf(m)
  BY <1>1 DEF NoSave, SaveOf
<1>3. ASSUME NEW n \in 0 .. m PROVE [NoSave EXCEPT !.phase = "saved", !.at = n] \in SaveOf(m)
  <2> DEFINE P == {"none", "sent", "saved", "over"}
             E == SUBSET Fields
             N == 0 .. m
             T == SaveOf(m)
  <2>1. T = [phase : P, payload : Settings, edited : E, from : N, at : N]
    BY DEF SaveOf
  <2>2. NoSave \in T /\ "saved" \in P /\ n \in N
    BY <1>2
  <2> HIDE DEF P, E, N, T
  <2>3. [NoSave EXCEPT !.phase = "saved", !.at = n] \in T
    BY <2>1, <2>2, SaveUpdates
  <2> QED
    BY <2>3 DEF T
<1>4. [NoSave EXCEPT !.phase = "over"] \in SaveOf(m)
  BY <1>1 DEF NoSave, SaveOf
<1>5. ASSUME NEW e \in SUBSET Fields, NEW f \in 0 .. m, NEW p \in Settings
      PROVE  [phase |-> "sent", edited |-> e, from |-> f, at |-> 0, payload |-> p] \in SaveOf(m)
  BY <1>5 DEF SaveOf
<1> QED
  BY <1>2, <1>3, <1>4, <1>5

\* Every step of the page is one of its query.
LEMMA DetailQueryStep ==
  ASSUME DetailTypeOK, [DetailNext]_<<queryVars, detailVars>>
  PROVE  QueryStep(Details)
<1>1. CASE UNCHANGED <<queryVars, detailVars>> \/ Toggle \/ BulkToggle
  BY <1>1 DEF QueryStep, Toggle, BulkToggle, Start
<1>2. ASSUME NEW r \in Rows, RowStep(r) PROVE QueryStep(Details)
  <2>1. row[r].at \in 0 .. at
    BY DEF DetailTypeOK, RowType
  <2> QED
    BY <1>2, <2>1 DEF QueryStep, RowStep, ReadSwitches, WriteSwitches, SwitchAnswered, SwitchFails
<1>3. CASE OthersStep
  BY <1>3 DEF QueryStep, OthersStep, OthersSwitch, OthersSave
<1>4. CASE LifeStep
  <2>1. Content \in Details /\ Content.at = at
    BY DEF DetailTypeOK, QueryTypeOK, Content, Details
  <2> QED
    BY <1>4, <2>1 DEF QueryStep, LifeStep, OpenDetail, CloseDetail, ReceiveDetail, GiveUpDetail,
                      FetchDetail
<1>5. CASE StartEdit \/ Type \/ CancelEdit \/ HandleSave
  BY <1>5 DEF QueryStep, StartEdit, Type, CancelEdit, HandleSave
<1>6. ASSUME NEW k \in Saves, SaveStep(k) PROVE QueryStep(Details)
  <2>1. save[k].at \in 0 .. at
    BY DEF DetailTypeOK, SaveType
  <2> QED
    BY <1>6, <2>1 DEF QueryStep, SaveStep, ServerSaves, SaveAnswered, SaveFails
<1> QED
  BY <1>1, <1>2, <1>3, <1>4, <1>5, <1>6 DEF DetailNext, SwitchesNext, SettingsNext

\* What a page has is of its type also when the server has made one more change.
LEMMA DetailLater ==
  ASSUME DetailTypeOK, at' \in {at, at + 1}
  PROVE  /\ settled \in 0 .. at' /\ from \in 0 .. at'
         /\ row \in [Rows -> RowOf(at')] /\ save \in [Saves -> SaveOf(at')]
         /\ at \in Nat /\ at' \in Nat
<1>1. at \in Nat /\ row \in [Rows -> RowOf(at)] /\ save \in [Saves -> SaveOf(at)]
  BY DEF DetailTypeOK, QueryTypeOK, RowType, SaveType, RowOf, SaveOf
<1>2. settled \in 0 .. at /\ from \in 0 .. at
  BY DEF DetailTypeOK
<1>3. /\ \A i \in 0 .. at : i \in 0 .. at'
      /\ \A r \in RowOf(at) : r \in RowOf(at')
      /\ \A s \in SaveOf(at) : s \in SaveOf(at')
  BY <1>1, LaterTypes
<1> QED
  BY <1>1, <1>2, <1>3

LEMMA RowsType ==
  ASSUME DetailTypeOK, at' \in {at, at + 1}, NEW r \in Rows, RowStep(r)
  PROVE  row' \in [Rows -> RowOf(at')] /\ switches' \in [Ops -> BOOLEAN]
<1>1. /\ row \in [Rows -> RowOf(at)] /\ row \in [Rows -> RowOf(at')]
      /\ row[r] \in RowOf(at) /\ row[r] \in RowOf(at')
      /\ at \in Nat /\ at' \in Nat
  BY DetailLater DEF DetailTypeOK, RowType, RowOf
<1>2. switches \in [Ops -> BOOLEAN] /\ row[r].copy \in [Ops -> BOOLEAN]
      /\ row[r].todo \in SUBSET Ops /\ row[r].enabled \in BOOLEAN
  BY <1>1 DEF DetailTypeOK, RowOf
<1>3. CASE ReadSwitches(r)
  <2>1. row' = [row EXCEPT ![r] = [row[r] EXCEPT !.phase = "read", !.copy = switches]]
    BY <1>1, <1>3 DEF ReadSwitches
  <2>2. [row[r] EXCEPT !.phase = "read", !.copy = switches] \in RowOf(at')
    BY <1>1, <1>2, RowTypes
  <2> QED
    BY <1>1, <1>2, <1>3, <2>1, <2>2 DEF ReadSwitches, specVars
<1>4. CASE WriteSwitches(r)
  <2>1. row' = [row EXCEPT ![r] = [row[r] EXCEPT !.phase = "written", !.copy = AllOff,
                                                 !.at = at']]
    BY <1>1, <1>4 DEF WriteSwitches, ServerChanges
  <2>2. [row[r] EXCEPT !.phase = "written", !.copy = AllOff, !.at = at'] \in RowOf(at')
    BY <1>1, RowTypes, DetailConstants
  <2>3. switches' \in [Ops -> BOOLEAN]
    BY <1>2, <1>4 DEF WriteSwitches
  <2> QED
    BY <1>1, <2>1, <2>2, <2>3
<1>5. CASE SwitchAnswered(r)
  <2>1. switches' = switches
    BY <1>5 DEF SwitchAnswered, specVars
  <2>2. CASE row[r].todo \ {First(row[r].todo)} # {}
    <3>1. row' = [row EXCEPT ![r] = [row[r] EXCEPT !.phase = "sent", !.at = 0,
                                        !.todo = row[r].todo \ {First(row[r].todo)}]]
      BY <1>1, <1>5, <2>2 DEF SwitchAnswered
    <3>2. [row[r] EXCEPT !.phase = "sent", !.todo = row[r].todo \ {First(row[r].todo)},
                         !.at = 0] \in RowOf(at')
      BY <1>1, <1>2, RowTypes
    <3>3. [row[r] EXCEPT !.phase = "sent", !.at = 0,
                         !.todo = row[r].todo \ {First(row[r].todo)}] \in RowOf(at')
      BY <3>2
    <3> QED
      BY <1>1, <1>2, <2>1, <3>1, <3>3
  <2>3. CASE RowEnds(r)
    <3>1. row' = [row EXCEPT ![r] = IF row[r].alone
                    THEN [row[r] EXCEPT !.phase = "done", !.todo = {}, !.at = 0]
                    ELSE [NoRow EXCEPT !.phase = "over"]]
      BY <1>1, <2>3 DEF RowEnds
    <3>2. /\ [row[r] EXCEPT !.phase = "done", !.todo = {}, !.at = 0] \in RowOf(at')
          /\ [NoRow EXCEPT !.phase = "over"] \in RowOf(at')
      BY <1>1, RowTypes
    <3> QED
      BY <1>1, <1>2, <2>1, <3>1, <3>2
  <2> QED
    BY <1>5, <2>2, <2>3 DEF SwitchAnswered
<1>6. CASE SwitchFails(r)
  <2>1. row' = [row EXCEPT ![r] = [NoRow EXCEPT !.phase = "over"]] /\ switches' = switches
    BY <1>6 DEF SwitchFails, specVars
  <2>2. [NoRow EXCEPT !.phase = "over"] \in RowOf(at')
    BY <1>1, RowTypes
  <2> QED
    BY <1>1, <1>2, <2>1, <2>2
<1> QED
  BY <1>3, <1>4, <1>5, <1>6 DEF RowStep

\* A row that starts, or that others disturb.
LEMMA StartType ==
  ASSUME DetailTypeOK, at' = at,
         NEW ops \in SUBSET Ops, NEW enabled \in BOOLEAN, Start(ops, enabled)
  PROVE  row' \in [Rows -> RowOf(at')]
<1>1. row \in [Rows -> RowOf(at')] /\ at' \in Nat
  BY DetailLater
<1>2. \A q \in Rows : Disturbed(q) \in RowOf(at')
  <2> SUFFICES ASSUME NEW q \in Rows PROVE Disturbed(q) \in RowOf(at')
    OBVIOUS
  <2>1. [NoRow EXCEPT !.phase = "over"] \in RowOf(at')
    BY <1>1, RowTypes
  <2>2. [row[q] EXCEPT !.alone = FALSE] \in RowOf(at')
    BY <1>1, RowTypes
  <2> QED
    BY <2>1, <2>2 DEF Disturbed
<1>3. PICK r \in Rows :
        row' = [q \in Rows |->
                  IF q # r THEN Disturbed(q)
                  ELSE [NoRow EXCEPT !.phase = "sent", !.enabled = enabled, !.all = ops, !.todo = ops,
                                     !.alone = \A p \in Rows : ~UnderWay(p)]]
  BY DEF Start
<1>4. (\A p \in Rows : ~UnderWay(p)) \in BOOLEAN
  OBVIOUS
<1>5. [NoRow EXCEPT !.phase = "sent", !.enabled = enabled, !.all = ops, !.todo = ops,
                    !.alone = \A p \in Rows : ~UnderWay(p)] \in RowOf(at')
  BY <1>1, <1>4, RowTypes
<1> QED
  BY <1>2, <1>3, <1>5

\* A form is filled from what the page shows, and what is sent has no blanks.
Filled ==
  /\ editing => data # NoData
  /\ \A k \in Saves : save[k].phase = "sent" => save[k].payload \in [Fields -> Values]

DetailInv == DetailTypeOK /\ Past /\ Filled

\* What HandleSave sends.
Payload == IF form["name"] = Blank THEN [form EXCEPT !["name"] = data.settings["name"]] ELSE form

LEMMA PayloadType ==
  ASSUME DetailInv, HandleSave
  PROVE  Payload \in [Fields -> Values] /\ Payload \in Settings
<1>1. form \in [Fields -> Values \cup {Blank}] /\ form["url"] # Blank
  BY DEF DetailInv, DetailTypeOK, Settings, HandleSave
<1>2. data.settings \in [Fields -> Values]
  BY DEF DetailInv, DetailTypeOK, QueryTypeOK, Filled, HandleSave, Details
<1>3. Payload \in [Fields -> Values]
  BY <1>1, <1>2 DEF Payload, Fields
<1> QED
  BY <1>3, DetailConstants

LEMMA SavesType ==
  ASSUME DetailInv, at' \in {at, at + 1}, HandleSave \/ \E k \in Saves : SaveStep(k)
  PROVE  /\ save' \in [Saves -> SaveOf(at')] /\ mine' \in {0} \cup Saves
         /\ \A k \in Saves : save'[k].phase = "sent" => save'[k].payload \in [Fields -> Values]
<1>1. /\ save \in [Saves -> SaveOf(at')] /\ at \in Nat /\ at' \in Nat
      /\ \A k \in Saves : save[k].phase = "sent" => save[k].payload \in [Fields -> Values]
      /\ edited \in SUBSET Fields /\ from \in 0 .. at' /\ mine \in {0} \cup Saves
  BY DetailLater DEF DetailInv, Filled, DetailTypeOK
<1>2. CASE HandleSave
  <2>1. PICK k \in Saves :
          /\ mine' = k
          /\ save' = [save EXCEPT ![k] =
               [phase |-> "sent", edited |-> edited, from |-> from, at |-> 0, payload |-> Payload]]
    BY <1>2 DEF HandleSave, Payload
  <2>2. Payload \in [Fields -> Values] /\ Payload \in Settings
    BY <1>2, PayloadType
  <2>3. [phase |-> "sent", edited |-> edited, from |-> from, at |-> 0, payload |-> Payload]
          \in SaveOf(at')
    BY <1>1, <2>2, SaveTypes
  <2> QED
    BY <1>1, <2>1, <2>2, <2>3
<1>3. ASSUME NEW k \in Saves, SaveStep(k)
      PROVE  /\ save' \in [Saves -> SaveOf(at')] /\ mine' \in {0} \cup Saves
             /\ \A j \in Saves : save'[j].phase = "sent" => save'[j].payload \in [Fields -> Values]
  <2>1. CASE ServerSaves(k)
    <3>1. /\ save' = [save EXCEPT ![k] = [NoSave EXCEPT !.phase = "saved", !.at = at']]
          /\ mine' = mine
      BY <2>1 DEF ServerSaves, ServerChanges
    <3>2. at' \in 0 .. at'
      BY <1>1
    <3>3. /\ [NoSave EXCEPT !.phase = "saved", !.at = at'] \in SaveOf(at')
          /\ [NoSave EXCEPT !.phase = "saved", !.at = at'].phase # "sent"
      BY <1>1, <3>2, SaveTypes DEF NoSave
    <3> QED
      BY <1>1, <3>1, <3>3
  <2>2. CASE SaveOver(k)
    <3>1. /\ save' = [save EXCEPT ![k] = [NoSave EXCEPT !.phase = "over"]]
          /\ mine' \in {0, mine}
      BY <2>2 DEF SaveOver
    <3>2. /\ [NoSave EXCEPT !.phase = "over"] \in SaveOf(at')
          /\ [NoSave EXCEPT !.phase = "over"].phase # "sent"
      BY <1>1, SaveTypes DEF NoSave
    <3> QED
      BY <1>1, <3>1, <3>2
  <2> QED
    BY <1>3, <2>1, <2>2 DEF SaveStep, SaveAnswered, SaveFails
<1> QED
  BY <1>2, <1>3

\* The form's type.
FormType ==
  editing \in BOOLEAN /\ form \in Settings /\ edited \subseteq Fields /\ from \in 0 .. at

\* What is left for a step once the query's types are known: the server's data, the rows
\* and the saves, and the form.
LEMMA TypeParts ==
  ASSUME DetailInv, QueryTypeOK(Details)', at' \in {at, at + 1},
         switches' \in [Ops -> BOOLEAN], settings' \in [Fields -> Values],
         settled' \in {settled, at'}, row' \in [Rows -> RowOf(at')],
         save' \in [Saves -> SaveOf(at')], FormType', mine' \in {0} \cup Saves, others' \in Nat
  PROVE  DetailTypeOK'
<1>1. RowType' = RowOf(at') /\ SaveType' = SaveOf(at')
  BY DEF RowType, RowOf, SaveType, SaveOf
<1>2. settled' \in 0 .. at'
  BY DetailLater DEF DetailInv
<1> QED
  BY <1>1, <1>2 DEF DetailTypeOK, FormType

\* No step makes more than one change, and what the query has is never taken away.
LEMMA QueryMonotone ==
  ASSUME NEW CONSTANT Copies, NoData \notin Copies, QueryTypeOK(Copies), QueryStep(Copies)
  PROVE  at' \in {at, at + 1} /\ (data # NoData => data' # NoData)
<1>1. CASE Open \/ Close \/ Refocus \/ Retry \/ GiveUp \/ ServerChanges \/ UNCHANGED queryVars
  BY <1>1 DEF Open, Close, Refocus, Retry, GiveUp, ServerChanges, queryVars
<1>2. CASE Receive
  BY <1>2 DEF Receive, QueryTypeOK
<1>3. ASSUME NEW c \in Copies, Answer(c) PROVE at' = at /\ data' = data
  BY <1>3 DEF Answer
<1>4. ASSUME NEW n \in 0 .. at, LearnAndAsk(n) \/ LearnOnly(n) PROVE at' = at /\ data' = data
  BY <1>4 DEF LearnAndAsk, LearnOnly
<1> QED
  BY <1>1, <1>2, <1>3, <1>4 DEF QueryStep

LEMMA DetailStep ==
  ASSUME DetailInv, [DetailNext]_<<queryVars, detailVars>>
  PROVE  DetailInv'
<1>1. QueryTypeOK(Details)' /\ at' \in {at, at + 1} /\ (data # NoData => data' # NoData)
  BY DetailQueryStep, QueryType, QueryMonotone, DetailsAssumption DEF DetailInv, DetailTypeOK
<1>0. Past'
  BY DetailQueryStep, QueryPast, DetailsAssumption DEF DetailInv, DetailTypeOK
<1>2. /\ settled \in 0 .. at' /\ from \in 0 .. at'
      /\ row \in [Rows -> RowOf(at')] /\ save \in [Saves -> SaveOf(at')]
      /\ at \in Nat /\ at' \in Nat
  BY <1>1, DetailLater DEF DetailInv
<1>3. /\ switches \in [Ops -> BOOLEAN] /\ settings \in [Fields -> Values]
      /\ editing \in BOOLEAN /\ form \in Settings /\ edited \subseteq Fields
      /\ mine \in {0} \cup Saves /\ others \in Nat
  BY DEF DetailInv, DetailTypeOK
<1>4. UNCHANGED <<editing, form, edited, from>> => FormType' /\ (editing' => data' # NoData)
  BY <1>1, <1>2, <1>3 DEF FormType, DetailInv, Filled
<1>5. FormCloses => FormType' /\ (editing' => data' # NoData)
  <2> SUFFICES ASSUME FormCloses PROVE FormType' /\ ~editing'
    OBVIOUS
  <2>1. editing' = FALSE /\ form' \in Settings /\ edited' = {} /\ from' = 0
    BY DetailConstants DEF FormCloses
  <2>2. 0 \in 0 .. at'
    BY <1>2
  <2> QED
    BY <2>1, <2>2 DEF FormType
<1>6. UNCHANGED save => \A k \in Saves :
        save'[k].phase = "sent" => save'[k].payload \in [Fields -> Values]
  BY DEF DetailInv, Filled
<1>7. CASE UNCHANGED <<queryVars, detailVars>>
  <2>1. UNCHANGED <<switches, settings, settled, row, editing, form, edited, from, save, mine,
                    others>>
    BY <1>7 DEF detailVars, specVars, formVars
  <2> QED
    BY <1>0, <1>1, <1>2, <1>3, <1>4, <1>6, <2>1, TypeParts DEF DetailInv, Filled
<1>8. CASE Toggle \/ BulkToggle
  <2>1. PICK ops \in SUBSET Ops, enabled \in BOOLEAN : Start(ops, enabled)
    <3>1. CASE BulkToggle
      BY <1>8, <3>1 DEF BulkToggle
    <3>2. CASE Toggle
      <4>1. PICK o \in Ops : Start({o}, ~data.switches[o])
        BY <3>2 DEF Toggle
      <4>2. (~data.switches[o]) \in BOOLEAN /\ {o} \in SUBSET Ops
        OBVIOUS
      <4> QED
        BY <4>1, <4>2
    <3> QED
      BY <1>8, <3>1, <3>2
  <2>2. /\ UNCHANGED <<switches, settings, settled, editing, form, edited, from, save, mine, others>>
        /\ at' = at
    BY <2>1 DEF Start, specVars, formVars, queryVars
  <2>3. row' \in [Rows -> RowOf(at')]
    BY <2>1, <2>2, StartType DEF DetailInv
  <2> QED
    BY <1>0, <1>1, <1>2, <1>3, <1>4, <1>6, <2>2, <2>3, TypeParts DEF DetailInv, Filled
<1>9. ASSUME NEW r \in Rows, RowStep(r) PROVE DetailInv'
  <2>1. UNCHANGED <<settings, settled, editing, form, edited, from, save, mine, others>>
    BY <1>9 DEF RowStep, ReadSwitches, WriteSwitches, SwitchAnswered, SwitchFails, specVars, formVars
  <2>2. row' \in [Rows -> RowOf(at')] /\ switches' \in [Ops -> BOOLEAN]
    BY <1>1, <1>9, RowsType DEF DetailInv
  <2> QED
    BY <1>0, <1>1, <1>2, <1>3, <1>4, <1>6, <2>1, <2>2, TypeParts DEF DetailInv, Filled
<1>10. CASE OthersSwitch
  <2>1. UNCHANGED <<settings, settled, editing, form, edited, from, save, mine>>
    BY <1>10 DEF OthersSwitch, formVars
  <2>2. switches' \in [Ops -> BOOLEAN] /\ others' \in Nat
    BY <1>3, <1>10 DEF OthersSwitch
  <2>3. ASSUME NEW q \in Rows PROVE Disturbed(q) \in RowOf(at')
    BY <1>2, RowTypes DEF Disturbed
  <2>4. row' \in [Rows -> RowOf(at')]
    BY <1>10, <2>3 DEF OthersSwitch
  <2> QED
    BY <1>0, <1>1, <1>2, <1>3, <1>4, <1>6, <2>1, <2>2, <2>4, TypeParts DEF DetailInv, Filled
<1>11. CASE OthersSave
  <2>1. UNCHANGED <<switches, row, editing, form, edited, from, save, mine>>
    BY <1>11 DEF OthersSave, formVars
  <2>2. settings' \in [Fields -> Values] /\ others' \in Nat
    BY <1>3, <1>11 DEF OthersSave
  <2>3. settled' = at'
    BY <1>11 DEF OthersSave, ServerChanges
  <2> QED
    BY <1>0, <1>1, <1>2, <1>3, <1>4, <1>6, <2>1, <2>2, <2>3, TypeParts DEF DetailInv, Filled
<1>12. CASE LifeStep
  <2>1. UNCHANGED <<switches, settings, settled, row, save, others>>
    BY <1>12 DEF LifeStep, OpenDetail, CloseDetail, ReceiveDetail, GiveUpDetail, FetchDetail,
                 detailVars, specVars
  <2>2. FormCloses \/ UNCHANGED <<editing, form, edited, from>>
    BY <1>12 DEF LifeStep, OpenDetail, CloseDetail, ReceiveDetail, GiveUpDetail, FetchDetail,
                 detailVars, formVars
  <2>3. mine' \in {0, mine}
    BY <1>12 DEF LifeStep, OpenDetail, CloseDetail, ReceiveDetail, GiveUpDetail, FetchDetail,
                 detailVars
  <2> QED
    BY <1>0, <1>1, <1>2, <1>3, <1>4, <1>5, <1>6, <2>1, <2>2, <2>3, TypeParts DEF DetailInv, Filled
<1>13. CASE StartEdit \/ Type \/ CancelEdit
  <2>1. UNCHANGED <<switches, settings, settled, row, save, mine, others>>
    BY <1>13 DEF StartEdit, Type, CancelEdit, specVars
  <2>2. FormType' /\ (editing' => data' # NoData)
    <3>1. CASE StartEdit
      <4>1. data \in Details /\ data' = data /\ at' = at
        BY <3>1 DEF StartEdit, Shown, DetailInv, DetailTypeOK, QueryTypeOK, queryVars
      <4>2. data.settings \in Settings
        BY <4>1, DetailConstants DEF Details
      <4>3. data.at \in 0 .. at
        BY <3>1 DEF StartEdit, Shown, DetailInv, Past
      <4> QED
        BY <3>1, <4>1, <4>2, <4>3 DEF StartEdit, FormType, Shown
    <3>2. CASE Type
      <4>1. form' \in Settings /\ edited' \subseteq Fields
        BY <1>3, <3>2 DEF Type, Settings
      <4> QED
        BY <1>1, <1>2, <1>3, <3>2, <4>1 DEF Type, FormType, DetailInv, Filled
    <3>3. CASE CancelEdit
      BY <1>5, <3>3 DEF CancelEdit
    <3> QED
      BY <1>13, <3>1, <3>2, <3>3
  <2> QED
    BY <1>0, <1>1, <1>2, <1>3, <1>6, <2>1, <2>2, TypeParts DEF DetailInv, Filled
<1>14. CASE HandleSave
  <2>1. UNCHANGED <<switches, settings, settled, row, editing, form, edited, from, others>>
    BY <1>14 DEF HandleSave, specVars, formVars
  <2>2. /\ save' \in [Saves -> SaveOf(at')] /\ mine' \in {0} \cup Saves
        /\ \A k \in Saves : save'[k].phase = "sent" => save'[k].payload \in [Fields -> Values]
    BY <1>1, <1>14, SavesType
  <2> QED
    BY <1>0, <1>1, <1>2, <1>3, <1>4, <2>1, <2>2, TypeParts DEF DetailInv, Filled
<1>15. ASSUME NEW k \in Saves, SaveStep(k) PROVE DetailInv'
  <2>1. UNCHANGED <<switches, row, others>>
    BY <1>15 DEF SaveStep, ServerSaves, SaveAnswered, SaveFails, specVars
  <2>2. /\ save' \in [Saves -> SaveOf(at')] /\ mine' \in {0} \cup Saves
        /\ \A j \in Saves : save'[j].phase = "sent" => save'[j].payload \in [Fields -> Values]
    BY <1>1, <1>15, SavesType
  <2>3. FormCloses \/ UNCHANGED <<editing, form, edited, from>>
    BY <1>15 DEF SaveStep, ServerSaves, SaveAnswered, SaveFails, formVars
  <2>4. settings' \in [Fields -> Values] /\ settled' \in {settled, at'}
    <3>1. CASE ServerSaves(k)
      BY <3>1 DEF ServerSaves, ServerChanges, DetailInv, Filled
    <3>2. CASE SaveAnswered(k) \/ SaveFails(k)
      BY <1>3, <3>2 DEF SaveAnswered, SaveFails, specVars
    <3> QED
      BY <1>15, <3>1, <3>2 DEF SaveStep
  <2> QED
    BY <1>0, <1>1, <1>2, <1>3, <1>4, <1>5, <2>1, <2>2, <2>3, <2>4, TypeParts DEF DetailInv, Filled
<1> QED
  BY <1>7, <1>8, <1>9, <1>10, <1>11, <1>12, <1>13, <1>14, <1>15
     DEF DetailNext, SwitchesNext, SettingsNext, OthersStep

LEMMA DetailStart == DetailInit => DetailInv /\ Fresh
<1> SUFFICES ASSUME DetailInit PROVE DetailInv /\ Fresh
  OBVIOUS
<1>1. QueryTypeOK(Details) /\ Fresh /\ Past
  BY QueryStart, DetailsAssumption DEF DetailInit
<1>2. /\ settings \in [Fields -> Values] /\ form \in Settings
      /\ row \in [Rows -> RowOf(0)] /\ save \in [Saves -> SaveOf(0)]
  BY DetailConstants, RowTypes, SaveTypes DEF DetailInit
<1>3. at = 0 /\ RowOf(0) = RowType /\ SaveOf(0) = SaveType
  BY DEF DetailInit, QueryInit, RowOf, RowType, SaveOf, SaveType
<1>4. 0 \in 0 .. at
  BY <1>3
<1>5. Filled
  BY DEF DetailInit, Filled, NoSave
<1> QED
  BY <1>1, <1>2, <1>3, <1>4, <1>5 DEF DetailInit, DetailInv, DetailTypeOK

LEMMA DetailInvariant == DetailSpec => []DetailInv
<1>1. DetailInv /\ [DetailNext]_<<queryVars, detailVars>> => DetailInv'
  BY DetailStep
<1> QED
  BY <1>1, DetailStart, PTL DEF DetailSpec

\* The types of the page's state, for any number of operations, rows and saves.
THEOREM DetailTypeCorrect == DetailSpec => []DetailTypeOK
<1>1. DetailInv => DetailTypeOK
  BY DEF DetailInv
<1> QED
  BY <1>1, DetailInvariant, PTL

\* The page of a spec shows its own changes, of switches and of settings
\* (invalidateQueries in ui/src/pages/SpecDetail.tsx).
THEOREM DetailShowsOwnChanges == DetailSpec => []ShowsOwnChanges
<1>1. DetailInv /\ Fresh /\ [DetailNext]_<<queryVars, detailVars>> => Fresh'
  BY DetailQueryStep, QueryFresh, DetailsAssumption DEF DetailInv, DetailTypeOK
<1> QED
  BY <1>1, DetailStart, DetailInvariant, FreshShows, PTL DEF DetailSpec

-----------------------------------------------------------------------------
(* Rows of switches. *)

\* The operations ops are as row r wants them.
Reached(r, ops) == \A o \in ops : switches[o] = row[r].enabled

\* What BulkReaches needs: a row that nothing has disturbed is the only one under way, what
\* it has behind it is as it wants it, and the file has not changed since the server read it.
Undisturbed(r) ==
  /\ \A q \in Rows \ {r} : ~UnderWay(q)
  /\ Reached(r, row[r].all \ row[r].todo)
  /\ row[r].phase = "read" => row[r].copy = switches
  /\ row[r].phase = "written" /\ First(row[r].todo) \in row[r].all =>
       switches[First(row[r].todo)] = row[r].enabled

Bulk ==
  \A r \in Rows :
    /\ row[r].alone /\ UnderWay(r) => Undisturbed(r)
    /\ row[r].phase = "done" => (\A q \in Rows : ~UnderWay(q)) /\ Reached(r, row[r].all)

\* A row is disturbed: it is not done, and not alone if it is under way.
LEMMA DisturbedRow ==
  ASSUME DetailInv, NEW q \in Rows
  PROVE  /\ Disturbed(q).phase # "done"
         /\ Disturbed(q).phase \in {"sent", "read", "written"} <=> UnderWay(q)
         /\ ~Disturbed(q).alone
<1>1. row[q] \in RowType
  BY DEF DetailInv, DetailTypeOK
<1> QED
  BY <1>1 DEF Disturbed, UnderWay, NoRow, RowType

LEMMA StartBulk ==
  ASSUME DetailInv, Bulk, NEW ops \in SUBSET Ops, NEW enabled \in BOOLEAN, Start(ops, enabled)
  PROVE  Bulk'
<1> DEFINE none == \A p \in Rows : ~UnderWay(p)
<1>1. PICK r \in Rows :
        row' = [q \in Rows |->
                  IF q # r THEN Disturbed(q)
                  ELSE [NoRow EXCEPT !.phase = "sent", !.enabled = enabled, !.all = ops, !.todo = ops,
                                     !.alone = none]]
  BY DEF Start
<1>2. \A q \in Rows \ {r} :
        row'[q].phase # "done" /\ (UnderWay(q)' <=> UnderWay(q)) /\ ~row'[q].alone
  BY <1>1, DisturbedRow DEF UnderWay
<1>3. /\ row'[r].phase = "sent" /\ row'[r].alone = none
      /\ row'[r].all = ops /\ row'[r].todo = ops
  BY <1>1 DEF NoRow
<1>4. row'[r].alone => Undisturbed(r)'
  BY <1>2, <1>3 DEF Undisturbed, Reached
<1> QED
  BY <1>2, <1>3, <1>4 DEF Bulk

\* A step of row r, which is under way: no other row is done, and if r is alone no
\* other is under way.
LEMMA RowBulk ==
  ASSUME DetailInv, Bulk, NEW r \in Rows, UnderWay(r),
         \A q \in Rows \ {r} : row'[q] = row[q],
         switches' = switches \/ UnderWay(r)',
         row'[r].alone => row[r].alone,
         row[r].alone /\ UnderWay(r)' =>
           /\ Reached(r, row[r].all \ row[r].todo)'
           /\ row'[r].phase = "read" => row'[r].copy = switches'
           /\ row'[r].phase = "written" /\ First(row'[r].todo) \in row'[r].all =>
                switches'[First(row'[r].todo)] = row'[r].enabled,
         row'[r].phase = "done" => ~UnderWay(r)' /\ row[r].alone /\ Reached(r, row[r].all)'
  PROVE  Bulk'
<1>1. \A q \in Rows : row[q].phase # "done"
  BY DEF Bulk
<1>2. \A q \in Rows \ {r} : row'[q].phase # "done" /\ (UnderWay(q)' <=> UnderWay(q))
  BY <1>1 DEF UnderWay
<1>3. row[r].alone => \A q \in Rows \ {r} : ~UnderWay(q)
  BY DEF Bulk, Undisturbed
<1>4. \A q \in Rows \ {r} : row'[q].alone => ~UnderWay(q)'
  BY <1>2 DEF Bulk, Undisturbed
<1> QED
  BY <1>2, <1>3, <1>4 DEF Bulk, Undisturbed

LEMMA BulkRowStep ==
  ASSUME DetailInv, Bulk, NEW r \in Rows, RowStep(r)
  PROVE  Bulk'
<1>1. /\ row \in [Rows -> RowType] /\ row[r] \in RowType /\ UnderWay(r)
      /\ switches \in [Ops -> BOOLEAN]
  BY DEF DetailInv, DetailTypeOK, RowStep, ReadSwitches, WriteSwitches, SwitchAnswered,
         SwitchFails, UnderWay
<1>2. row[r].alone => Undisturbed(r)
  BY <1>1 DEF Bulk
<1>3. CASE ReadSwitches(r)
  <2>1. row' = [row EXCEPT ![r].phase = "read", ![r].copy = switches] /\ switches' = switches
    BY <1>3 DEF ReadSwitches, specVars
  <2>2. /\ row'[r].phase = "read" /\ row'[r].copy = switches /\ UnderWay(r)'
        /\ row'[r].alone = row[r].alone /\ row'[r].enabled = row[r].enabled
        /\ row'[r].all = row[r].all /\ row'[r].todo = row[r].todo
        /\ \A q \in Rows \ {r} : row'[q] = row[q]
    BY <1>1, <2>1 DEF RowType, UnderWay
  <2> QED
    BY <1>1, <1>2, <2>1, <2>2, RowBulk DEF Undisturbed, Reached
<1>4. CASE WriteSwitches(r)
  <2> DEFINE o == First(row[r].todo)
  <2>1. /\ row' = [row EXCEPT ![r].phase = "written", ![r].copy = AllOff, ![r].at = at + 1]
        /\ switches' = [row[r].copy EXCEPT ![o] = row[r].enabled]
        /\ row[r].phase = "read"
    BY <1>4 DEF WriteSwitches
  <2>2. /\ row'[r].phase = "written" /\ UnderWay(r)'
        /\ row'[r].alone = row[r].alone /\ row'[r].enabled = row[r].enabled
        /\ row'[r].all = row[r].all /\ row'[r].todo = row[r].todo
        /\ \A q \in Rows \ {r} : row'[q] = row[q]
    BY <1>1, <2>1 DEF RowType, UnderWay
  <2>3. row[r].copy \in [Ops -> BOOLEAN] /\ row[r].all \subseteq Ops
    BY <1>1 DEF RowType
  <2> HIDE DEF o
  <2>4. o \in row[r].all => switches'[o] = row[r].enabled
    BY <2>1, <2>3
  <2>5. ASSUME row[r].alone, NEW p \in row[r].all \ row[r].todo
        PROVE  switches'[p] = row[r].enabled
    <3>1. row[r].copy = switches /\ switches[p] = row[r].enabled
      BY <1>2, <2>1, <2>5 DEF Undisturbed, Reached
    <3> QED
      BY <2>1, <2>3, <3>1
  <2> QED
    BY <1>1, <2>2, <2>4, <2>5, RowBulk DEF Reached, o
<1>5. CASE SwitchAnswered(r)
  <2> DEFINE rest == row[r].todo \ {First(row[r].todo)}
  <2>1. row[r].phase = "written" /\ switches' = switches
    BY <1>5 DEF SwitchAnswered, specVars
  <2>2. row[r].alone => Reached(r, row[r].all \ rest)
    BY <1>2, <2>1 DEF Undisturbed, Reached
  <2>3. CASE rest # {}
    <3>1. row' = [row EXCEPT ![r].phase = "sent", ![r].todo = rest, ![r].at = 0]
      BY <1>5, <2>3 DEF SwitchAnswered
    <3>2. /\ row'[r].phase = "sent" /\ UnderWay(r)'
          /\ row'[r].alone = row[r].alone /\ row'[r].enabled = row[r].enabled
          /\ row'[r].all = row[r].all /\ row'[r].todo = rest
          /\ \A q \in Rows \ {r} : row'[q] = row[q]
      BY <1>1, <3>1 DEF RowType, UnderWay
    <3> HIDE DEF rest
    <3> QED
      BY <1>1, <2>1, <2>2, <3>2, RowBulk DEF Reached
  <2>4. CASE rest = {} /\ row[r].alone
    <3>1. row' = [row EXCEPT ![r] = [row[r] EXCEPT !.phase = "done", !.todo = {}, !.at = 0]]
      BY <1>1, <1>5, <2>4 DEF SwitchAnswered, RowEnds
    <3>2. /\ row'[r].phase = "done" /\ ~UnderWay(r)'
          /\ row'[r].enabled = row[r].enabled /\ row'[r].all = row[r].all
          /\ \A q \in Rows \ {r} : row'[q] = row[q]
      BY <1>1, <3>1 DEF RowType, UnderWay
    <3>3. Reached(r, row[r].all)
      BY <2>2, <2>4 DEF Reached
    <3> QED
      BY <1>1, <2>1, <2>4, <3>2, <3>3, RowBulk DEF Reached
  <2>5. CASE rest = {} /\ ~row[r].alone
    <3>1. row' = [row EXCEPT ![r] = [NoRow EXCEPT !.phase = "over"]]
      BY <1>5, <2>5 DEF SwitchAnswered, RowEnds
    <3>2. /\ row'[r].phase = "over" /\ ~UnderWay(r)' /\ ~row'[r].alone
          /\ \A q \in Rows \ {r} : row'[q] = row[q]
      BY <1>1, <3>1 DEF NoRow, UnderWay
    <3> QED
      BY <1>1, <2>1, <3>2, RowBulk
  <2> QED
    BY <2>3, <2>4, <2>5
<1>6. CASE SwitchFails(r)
  <2>1. row' = [row EXCEPT ![r] = [NoRow EXCEPT !.phase = "over"]] /\ switches' = switches
    BY <1>6 DEF SwitchFails, specVars
  <2>2. /\ row'[r].phase = "over" /\ ~UnderWay(r)' /\ ~row'[r].alone
        /\ \A q \in Rows \ {r} : row'[q] = row[q]
    BY <1>1, <2>1 DEF NoRow, UnderWay
  <2> QED
    BY <1>1, <2>1, <2>2, RowBulk
<1> QED
  BY <1>3, <1>4, <1>5, <1>6 DEF RowStep

LEMMA SameBulk ==
  ASSUME Bulk, UNCHANGED <<row, switches>>
  PROVE  Bulk'
  BY DEF Bulk, Undisturbed, Reached, UnderWay

LEMMA BulkStep ==
  ASSUME DetailInv, Bulk, [DetailNext]_<<queryVars, detailVars>>
  PROVE  Bulk'
<1>1. CASE Toggle
  <2>1. PICK o \in Ops : Start({o}, ~data.switches[o])
    BY <1>1 DEF Toggle
  <2>2. (~data.switches[o]) \in BOOLEAN /\ {o} \in SUBSET Ops
    OBVIOUS
  <2> QED
    BY <2>1, <2>2, StartBulk
<1>2. CASE BulkToggle
  BY <1>2, StartBulk DEF BulkToggle
<1>3. ASSUME NEW r \in Rows, RowStep(r) PROVE Bulk'
  BY <1>3, BulkRowStep
<1>4. CASE OthersSwitch
  <2>1. \A q \in Rows : row'[q].phase # "done" /\ ~row'[q].alone
    BY <1>4, DisturbedRow DEF OthersSwitch
  <2> QED
    BY <2>1 DEF Bulk
<1>5. CASE \/ UNCHANGED <<queryVars, detailVars>> \/ OthersSave \/ LifeStep
           \/ StartEdit \/ Type \/ CancelEdit \/ HandleSave \/ \E k \in Saves : SaveStep(k)
  <2>1. UNCHANGED <<row, switches>>
    BY <1>5 DEF OthersSave, LifeStep, OpenDetail, CloseDetail, ReceiveDetail, GiveUpDetail, FetchDetail,
                StartEdit, Type, CancelEdit, HandleSave, SaveStep, ServerSaves, SaveAnswered,
                SaveFails, detailVars, specVars
  <2> QED
    BY <2>1, SameBulk
<1> QED
  BY <1>1, <1>2, <1>3, <1>4, <1>5 DEF DetailNext, SwitchesNext, SettingsNext, OthersStep

\* A row of switches that nothing disturbs does what it was asked (handleBulkToggle in
\* ui/src/pages/SpecDetail.tsx), although the server changes the whole file each time.
THEOREM BulkIsDone == DetailSpec => []BulkReaches
<1>1. DetailInit => Bulk
  BY DEF DetailInit, Bulk, NoRow, UnderWay
<1>2. DetailInv /\ Bulk /\ [DetailNext]_<<queryVars, detailVars>> => Bulk'
  BY BulkStep
<1>3. Bulk => BulkReaches
  BY DEF Bulk, BulkReaches, Reached
<1> QED
  BY <1>1, <1>2, <1>3, DetailInvariant, PTL DEF DetailSpec

-----------------------------------------------------------------------------
(* The form of the settings. *)

\* A copy made since the settings were last changed has them as they are.
Copied(copy) == copy # NoData /\ copy.at >= settled => copy.settings = settings

\* A form, or a save, filled from such a copy has them in the fields not edited.
Agrees(fields, changed, number) ==
  number >= settled => \A f \in Fields \ changed : fields[f] = settings[f]

\* What SaveKeepsOthers needs.
Recent ==
  /\ Copied(data) /\ Copied(answer)
  /\ editing => Agrees(form, edited, from)
  /\ \A k \in Saves : save[k].phase = "sent" =>
       Agrees(save[k].payload, save[k].edited, save[k].from)

\* When the settings change everything that there is was made before.
LEMMA ChangeRecent ==
  ASSUME DetailInv, settled' = at + 1, UNCHANGED <<data, answer, editing, from>>,
         \A k \in Saves : save'[k].phase = "sent" => save'[k] = save[k]
  PROVE  Recent'
<1>1. at \in Nat /\ from \in 0 .. at /\ \A k \in Saves : save[k].from \in 0 .. at
  BY DEF DetailInv, DetailTypeOK, QueryTypeOK, SaveType
<1>2. (data # NoData => data.at \in 0 .. at) /\ (answer # NoData => answer.at \in 0 .. at)
  BY DEF DetailInv, Past
<1>3. Copied(data)' /\ Copied(answer)'
  BY <1>1, <1>2 DEF Copied
<1>4. Agrees(form, edited, from)'
  BY <1>1 DEF Agrees
<1>5. ASSUME NEW k \in Saves, save'[k].phase = "sent"
      PROVE  Agrees(save[k].payload, save[k].edited, save[k].from)'
  <2>1. save'[k].from \in 0 .. at
    BY <1>1, <1>5
  <2> QED
    BY <1>1, <2>1 DEF Agrees
<1> QED
  BY <1>3, <1>4, <1>5 DEF Recent

\* Else the query has copies of what there is, and the form and the saves stay or are new.
LEMMA SameRecent ==
  ASSUME DetailInv, Recent, UNCHANGED <<settings, settled>>,
         Copied(data)', Copied(answer)',
         editing' => Agrees(form, edited, from)',
         \A k \in Saves : save'[k].phase = "sent" =>
           save'[k] = save[k] \/ Agrees(save[k].payload, save[k].edited, save[k].from)'
  PROVE  Recent'
  BY DEF Recent, Agrees

LEMMA QueryRecent ==
  ASSUME DetailInv, Recent, [DetailNext]_<<queryVars, detailVars>>, UNCHANGED <<settings, settled>>
  PROVE  Copied(data)' /\ Copied(answer)'
<1>0. QueryStep(Details)
  BY DetailQueryStep DEF DetailInv
<1>1. /\ data' \in {data, answer}
      /\ answer' \in {answer, NoData, Content}
  <2>1. CASE UNCHANGED <<queryVars, detailVars>> \/ Toggle \/ BulkToggle
    BY <2>1 DEF Toggle, BulkToggle, Start, queryVars
  <2>2. ASSUME NEW r \in Rows, RowStep(r) PROVE data' = data /\ answer' \in {answer, NoData}
    BY <2>2 DEF RowStep, ReadSwitches, WriteSwitches, SwitchAnswered, SwitchFails, ServerChanges,
                LearnAndAsk, LearnOnly, Invalidate, Ask, fetchVars, queryVars
  <2>3. CASE OthersStep
    BY <2>3 DEF OthersStep, OthersSwitch, OthersSave, ServerChanges, fetchVars
  <2>4. CASE LifeStep
    BY <2>4 DEF LifeStep, OpenDetail, CloseDetail, ReceiveDetail, GiveUpDetail, FetchDetail, Open, Close,
                Receive, GiveUp, Refocus, Retry, Answer, Ask, fetchVars
  <2>5. CASE StartEdit \/ Type \/ CancelEdit \/ HandleSave
    BY <2>5 DEF StartEdit, Type, CancelEdit, HandleSave, queryVars
  <2>6. ASSUME NEW k \in Saves, SaveStep(k) PROVE data' = data /\ answer' \in {answer, NoData}
    BY <2>6 DEF SaveStep, ServerSaves, SaveAnswered, SaveFails, ServerChanges, LearnAndAsk, Invalidate,
                Ask, fetchVars, queryVars
  <2> QED
    BY <2>1, <2>2, <2>3, <2>4, <2>5, <2>6 DEF DetailNext, SwitchesNext, SettingsNext
<1>2. Content.settings = settings
  BY DEF Content
<1> QED
  BY <1>1, <1>2 DEF Recent, Copied

\* The form keeps what it has, takes a field from the user, or is filled from the page.
LEMMA FormRecent ==
  ASSUME DetailInv, Recent, StartEdit \/ Type
  PROVE  editing' => Agrees(form, edited, from)'
<1>1. CASE StartEdit
  <2>1. form' = data.settings /\ from' = data.at /\ data # NoData /\ edited' = {}
        /\ UNCHANGED <<settings, settled>>
    BY <1>1 DEF StartEdit, Shown, specVars
  <2> QED
    BY <2>1 DEF Recent, Copied, Agrees
<1>2. CASE Type
  <2>1. PICK f \in Fields \ edited, v \in Values \cup {Blank} :
          form' = [form EXCEPT ![f] = v] /\ edited' = edited \cup {f}
    BY <1>2 DEF Type
  <2>2. editing /\ from' = from /\ UNCHANGED <<settings, settled>>
    BY <1>2 DEF Type, specVars
  <2>3. \A g \in Fields \ edited' : form'[g] = form[g] /\ g \in Fields \ edited
    BY <2>1 DEF DetailInv, DetailTypeOK, Settings
  <2> QED
    BY <2>2, <2>3 DEF Recent, Agrees
<1> QED
  BY <1>1, <1>2

\* What is sent agrees as the form does: an empty name has been edited, or is old.
LEMMA SendRecent ==
  ASSUME DetailInv, Recent, HandleSave
  PROVE  \A k \in Saves : save'[k].phase = "sent" =>
           save'[k] = save[k] \/ Agrees(save[k].payload, save[k].edited, save[k].from)'
<1>1. PICK k \in Saves :
        save' = [save EXCEPT ![k] =
          [phase |-> "sent", edited |-> edited, from |-> from, at |-> 0, payload |-> Payload]]
  BY DEF HandleSave, Payload
<1>2. editing /\ UNCHANGED <<settings, settled>>
  BY DEF HandleSave, specVars
<1>3. /\ form \in [Fields -> Values \cup {Blank}] /\ settings \in [Fields -> Values]
      /\ Blank \notin Values
  BY SpecPageAssumption DEF DetailInv, DetailTypeOK, Settings
<1>4. ASSUME from >= settled, NEW f \in Fields \ edited PROVE Payload[f] = settings[f]
  <2>1. form[f] = settings[f] /\ form[f] # Blank
    BY <1>2, <1>3, <1>4 DEF Recent, Agrees
  <2> QED
    BY <1>3, <2>1 DEF Payload
<1>5. save \in [Saves -> SaveType]
  BY DEF DetailInv, DetailTypeOK
<1> QED
  BY <1>1, <1>2, <1>4, <1>5 DEF Agrees

LEMMA RecentStep ==
  ASSUME DetailInv, Recent, [DetailNext]_<<queryVars, detailVars>>
  PROVE  Recent'
<1>0. save \in [Saves -> SaveType] /\ \A k \in Saves : NoSave.phase = "none"
  BY DEF DetailInv, DetailTypeOK, NoSave
<1>1. CASE OthersSave
  <2>1. settled' = at + 1 /\ UNCHANGED <<data, answer, editing, from, save>>
    BY <1>1 DEF OthersSave, ServerChanges, fetchVars, formVars
  <2> QED
    BY <2>1, ChangeRecent
<1>2. ASSUME NEW k \in Saves, ServerSaves(k) PROVE Recent'
  <2>1. /\ settled' = at + 1 /\ UNCHANGED <<data, answer, editing, from>>
        /\ save' = [save EXCEPT ![k] = [NoSave EXCEPT !.phase = "saved", !.at = at + 1]]
    BY <1>2 DEF ServerSaves, ServerChanges, fetchVars, formVars
  <2>2. \A j \in Saves : save'[j].phase = "sent" => save'[j] = save[j]
    BY <1>0, <2>1 DEF NoSave
  <2> QED
    BY <2>1, <2>2, ChangeRecent
<1>3. CASE StartEdit \/ Type
  <2>1. UNCHANGED <<settings, settled, save>>
    BY <1>3 DEF StartEdit, Type, specVars
  <2> QED
    BY <1>3, <2>1, QueryRecent, FormRecent, SameRecent
<1>4. CASE HandleSave
  <2>1. UNCHANGED <<settings, settled, editing, form, edited, from>>
    BY <1>4 DEF HandleSave, specVars, formVars
  <2>2. editing' => Agrees(form, edited, from)'
    BY <2>1 DEF Recent, Agrees
  <2> QED
    BY <1>4, <2>1, <2>2, QueryRecent, SendRecent, SameRecent
<1>5. CASE \/ UNCHANGED <<queryVars, detailVars>> \/ Toggle \/ BulkToggle \/ OthersSwitch \/ LifeStep
           \/ CancelEdit \/ (\E r \in Rows : RowStep(r))
           \/ \E k \in Saves : SaveAnswered(k) \/ SaveFails(k)
  <2>1. UNCHANGED <<settings, settled>> /\ (editing' => UNCHANGED <<editing, form, edited, from>>)
    BY <1>5 DEF Toggle, BulkToggle, Start, RowStep, ReadSwitches, WriteSwitches, SwitchAnswered, SwitchFails,
                OthersSwitch, LifeStep, OpenDetail, CloseDetail, ReceiveDetail, GiveUpDetail, FetchDetail,
                CancelEdit, FormCloses, SaveAnswered, SaveFails, detailVars, specVars, formVars
  <2>2. \A k \in Saves : save'[k].phase = "sent" => save'[k] = save[k]
    <3>1. CASE UNCHANGED save
      BY <3>1
    <3>2. ASSUME NEW k \in Saves, SaveOver(k)
          PROVE  \A j \in Saves : save'[j].phase = "sent" => save'[j] = save[j]
      BY <1>0, <3>2 DEF SaveOver, NoSave
    <3>3. UNCHANGED save \/ \E k \in Saves : SaveOver(k)
      BY <1>5 DEF Toggle, BulkToggle, Start, RowStep, ReadSwitches, WriteSwitches, SwitchAnswered,
                  SwitchFails, OthersSwitch, LifeStep, OpenDetail, CloseDetail, ReceiveDetail,
                  GiveUpDetail, FetchDetail, CancelEdit, SaveAnswered, SaveFails, detailVars
    <3> QED
      BY <3>1, <3>2, <3>3
  <2>3. editing' => Agrees(form, edited, from)'
    BY <2>1 DEF Recent, Agrees
  <2> QED
    BY <2>1, <2>2, <2>3, QueryRecent, SameRecent
<1> QED
  BY <1>1, <1>2, <1>3, <1>4, <1>5
     DEF DetailNext, SwitchesNext, SettingsNext, OthersStep, SaveStep

\* Only the server's saving turns a save from sent to saved.
LEMMA SavedByServer ==
  ASSUME DetailInv, [DetailNext]_<<queryVars, detailVars>>, NEW k \in Saves,
         save[k].phase = "sent", save'[k].phase = "saved"
  PROVE  settings' = save[k].payload
<1>0. save \in [Saves -> SaveType] /\ NoSave.phase = "none"
  BY DEF DetailInv, DetailTypeOK, NoSave
<1>1. ASSUME NEW j \in Saves, ServerSaves(j) PROVE settings' = save[k].payload
  <2>1. save' = [save EXCEPT ![j] = [NoSave EXCEPT !.phase = "saved", !.at = at + 1]]
        /\ settings' = save[j].payload
    BY <1>1 DEF ServerSaves
  <2>2. j = k
    BY <1>0, <2>1
  <2> QED
    BY <2>1, <2>2
<1>2. ASSUME NEW j \in Saves, SaveOver(j) PROVE FALSE
  BY <1>0, <1>2 DEF SaveOver, NoSave
<1>3. ~HandleSave
  <2> SUFFICES ASSUME HandleSave PROVE FALSE
    OBVIOUS
  <2>1. PICK j \in Saves :
          save' = [save EXCEPT ![j] =
            [phase |-> "sent", edited |-> edited, from |-> from, at |-> 0, payload |-> Payload]]
    BY DEF HandleSave, Payload
  <2> QED
    BY <1>0, <2>1
<1>4. save' # save
  OBVIOUS
<1>5. ~ (\/ UNCHANGED <<queryVars, detailVars>> \/ Toggle \/ BulkToggle \/ OthersStep \/ LifeStep
         \/ StartEdit \/ Type \/ CancelEdit \/ \E r \in Rows : RowStep(r))
  BY <1>4 DEF Toggle, BulkToggle, Start, RowStep, ReadSwitches, WriteSwitches, SwitchAnswered, SwitchFails,
              OthersStep, OthersSwitch, OthersSave, LifeStep, OpenDetail, CloseDetail, ReceiveDetail,
              GiveUpDetail, FetchDetail, StartEdit, Type, CancelEdit, detailVars
<1> QED
  BY <1>1, <1>2, <1>3, <1>5
     DEF DetailNext, SwitchesNext, SettingsNext, SaveStep, SaveAnswered, SaveFails

\* A save changes only what the user has edited (startEdit and handleSave in
\* ui/src/pages/SpecDetail.tsx), although it sends every field, unless the settings
\* changed after the copy that filled the form.
THEOREM SavesKeepOthers == DetailSpec => SaveKeepsOthers
<1>1. DetailInit => Recent
  BY DEF DetailInit, QueryInit, Recent, Copied, NoSave
<1>2. DetailInv /\ Recent /\ [DetailNext]_<<queryVars, detailVars>> => Recent'
  BY RecentStep
<1>3. DetailInv /\ Recent /\ [DetailNext]_<<queryVars, detailVars>> =>
        [\A k \in Saves :
           save[k].phase = "sent" /\ save'[k].phase = "saved" /\ save[k].from >= settled =>
             \A f \in Fields \ save[k].edited : settings'[f] = settings[f]]_<<queryVars, detailVars>>
  BY SavedByServer DEF Recent, Agrees
<1> QED
  BY <1>1, <1>2, <1>3, DetailInvariant, PTL DEF DetailSpec, SaveKeepsOthers

-----------------------------------------------------------------------------
(* The pages that list the specs and the resources. *)

\* Requests with numbers of changes up to m, and of instances of the page up to n.
AskedOf(m, n) == [phase : {"none", "sent", "made", "over"}, record : 1 .. NoRecord,
                  at : 0 .. m, mount : 0 .. n]

LEMMA AskedUpdates ==
  ASSUME NEW P, NEW R, NEW N, NEW M,
         NEW q \in [phase : P, record : R, at : N, mount : M],
         NEW p \in P, NEW r \in R, NEW n \in N, NEW m \in M
  PROVE  /\ [q EXCEPT !.phase = p, !.at = n] \in [phase : P, record : R, at : N, mount : M]
         /\ [q EXCEPT !.record = r, !.mount = m] \in [phase : P, record : R, at : N, mount : M]
  OBVIOUS

\* What becomes of a request.
LEMMA AskedTypes ==
  ASSUME NEW m \in Nat, NEW n \in Nat
  PROVE  /\ \A p \in {"none", "sent", "over"} : Asked(p) \in AskedOf(m, n)
         /\ \A q \in AskedOf(m, n) : [q EXCEPT !.phase = "made", !.at = m] \in AskedOf(m, n)
         /\ \A r \in 1 .. NoRecord :
              [Asked("sent") EXCEPT !.record = r, !.mount = n] \in AskedOf(m, n)
<1> DEFINE P == {"none", "sent", "made", "over"}
           R == 1 .. NoRecord
           N == 0 .. m
           M == 0 .. n
           T == AskedOf(m, n)
<1>1. T = [phase : P, record : R, at : N, mount : M]
  BY DEF AskedOf
<1>2. NoRecord \in R /\ 0 \in N /\ m \in N /\ 0 \in M /\ n \in M
  BY ListPagesAssumption DEF NoRecord
<1>3. "none" \in P /\ "sent" \in P /\ "made" \in P /\ "over" \in P
  OBVIOUS
<1> HIDE DEF P, R, N, M, T
<1>4. \A p \in P : Asked(p) \in T
  BY <1>1, <1>2 DEF Asked
<1>5. \A q \in T : [q EXCEPT !.phase = "made", !.at = m] \in T
  BY <1>1, <1>2, <1>3, AskedUpdates
<1>6. \A r \in R : [Asked("sent") EXCEPT !.record = r, !.mount = n] \in T
  <2>1. Asked("sent") \in T
    BY <1>3, <1>4
  <2> HIDE DEF Asked
  <2> QED
    BY <1>1, <1>2, <1>3, <2>1, AskedUpdates
<1> QED
  BY <1>3, <1>4, <1>5, <1>6 DEF R, T

LEMMA LaterAsked ==
  ASSUME ListTypeOK, at' \in {at, at + 1}, mount' \in {mount, mount + 1}
  PROVE  /\ add \in [Numbers -> AskedOf(at', mount')] /\ del \in [Numbers -> AskedOf(at', mount')]
         /\ at' \in Nat /\ mount' \in Nat
<1>1. at \in Nat /\ mount \in Nat /\ at' \in Nat /\ mount' \in Nat
  BY DEF ListTypeOK, QueryTypeOK
<1>2. (\A i \in 0 .. at : i \in 0 .. at') /\ (\A i \in 0 .. mount : i \in 0 .. mount')
  BY <1>1
<1>3. ASSUME NEW q \in AskedType PROVE q \in AskedOf(at', mount')
  BY <1>2 DEF AskedType, AskedOf
<1> QED
  BY <1>1, <1>3 DEF ListTypeOK

\* Every step of the page is one of its query.
LEMMA ListQueryStep ==
  ASSUME ListTypeOK, [ListNext]_<<queryVars, listVars>>
  PROVE  QueryStep(Listings) /\ mount' \in {mount, mount + 1}
<1>1. QueryStep(Listings)
  <2>1. CASE \/ UNCHANGED <<queryVars, listVars>> \/ OpenDrawer \/ CloseDrawer \/ ChooseTab
             \/ TypeName \/ TypeSource \/ PickResource \/ PickSpec \/ ReadDone \/ SubmitSpec
             \/ SubmitResource \/ ShownLongEnough \/ AskDelete \/ CancelDelete \/ ConfirmDelete
    <3>1. UNCHANGED queryVars
      BY <2>1 DEF OpenDrawer, CloseDrawer, ChooseTab, TypeName, TypeSource, PickResource, PickSpec, ReadDone,
                  SubmitSpec, SubmitResource, Upload, ShownLongEnough, AskDelete, CancelDelete, ConfirmDelete
    <3> QED
      BY <3>1 DEF QueryStep
  <2>2. ASSUME NEW k \in Numbers, AddStep(k) PROVE QueryStep(Listings)
    <3>1. add[k].at \in 0 .. at
      BY DEF ListTypeOK, AskedType
    <3> QED
      BY <2>2, <3>1 DEF QueryStep, AddStep, ServerAdds, SpecAdded, ResourceAdded, Learnt, AddFails
  <2>3. ASSUME NEW d \in Numbers, DeleteStep(d) PROVE QueryStep(Listings)
    <3>1. del[d].at \in 0 .. at
      BY DEF ListTypeOK, AskedType
    <3> QED
      BY <2>3, <3>1 DEF QueryStep, DeleteStep, ServerDeletes, Deleted, DeleteFails
  <2>4. CASE CloseList
    BY <2>4 DEF QueryStep, CloseList
  <2>5. CASE FetchList
    <3>1. Listing \in Listings /\ Listing.at = at
      BY DEF ListTypeOK, QueryTypeOK, Listing, Listings
    <3> QED
      BY <2>5, <3>1 DEF QueryStep, FetchList
  <2> QED
    BY <2>1, <2>2, <2>3, <2>4, <2>5 DEF ListNext
<1>2. mount' \in {mount, mount + 1}
  BY <1>1 DEF QueryStep, Open, Close, Refocus, Receive, Retry, GiveUp, ServerChanges, Answer, LearnAndAsk,
              LearnOnly, queryVars
<1> QED
  BY <1>1, <1>2

\* What the drawer has, by type, and what NameIsUsers needs: a file that is being read
\* remembers a name if the user's is to be kept.
DrawerType ==
  /\ drawer \in BOOLEAN /\ tab \in Tabs
  /\ field \in [Tabs -> [name : Names, source : Names]]
  /\ reading \subseteq [file : Files, empty : BOOLEAN]
  /\ own \in Typed \cup {None} /\ edits \in Nat /\ closing \in Nat

OwnName == own # None => field["file"].name = own /\ \A r \in reading : ~r.empty

DrawerInv == DrawerType /\ OwnName

LEMMA FieldType ==
  ASSUME DrawerType, NEW t \in Tabs, NEW v \in Names, NEW w \in Names
  PROVE  /\ [field EXCEPT ![t].name = v] \in [Tabs -> [name : Names, source : Names]]
         /\ [field EXCEPT ![t].source = v] \in [Tabs -> [name : Names, source : Names]]
         /\ [field EXCEPT ![t] = [name |-> v, source |-> w]] \in [Tabs -> [name : Names, source : Names]]
         /\ "file" \in Tabs /\ field[t].name \in Names
  BY DEF DrawerType, Tabs

\* The user types or picks.
LEMMA EditStep ==
  ASSUME DrawerInv, TypeName \/ TypeSource \/ PickResource \/ PickSpec
  PROVE  DrawerInv'
<1>1. /\ DrawerType /\ OwnName /\ edits' = edits + 1
      /\ UNCHANGED <<drawer, tab, closing>>
  BY DEF DrawerInv, TypeName, TypeSource, PickResource, PickSpec, Edit
<1>2. "file" \in Tabs /\ Files \subseteq Names /\ Typed \cup {None} \subseteq Names
  BY DEF Tabs, Names
<1>3. CASE TypeName
  <2>1. PICK v \in Typed \cup {None} :
          /\ field' = [field EXCEPT ![tab].name = v]
          /\ own' = IF tab # "file" THEN own ELSE IF reading = {} THEN v ELSE None
    BY <1>3 DEF TypeName
  <2>2. reading' = reading /\ v \in Names
    BY <1>2, <1>3 DEF TypeName
  <2>3. field' \in [Tabs -> [name : Names, source : Names]]
    BY <1>1, <2>1, <2>2, FieldType DEF DrawerType
  <2>4. DrawerType'
    BY <1>1, <2>1, <2>2, <2>3 DEF DrawerType
  <2>5. OwnName'
    BY <1>1, <1>2, <2>1, <2>2 DEF OwnName, DrawerType
  <2> QED
    BY <2>4, <2>5 DEF DrawerInv
<1>4. CASE TypeSource
  <2>1. PICK v \in Typed \cup {None} : tab # "file" /\ field' = [field EXCEPT ![tab].source = v]
    BY <1>4 DEF TypeSource
  <2>2. reading' = reading /\ own' = own /\ v \in Names
    BY <1>2, <1>4 DEF TypeSource
  <2>3. field' \in [Tabs -> [name : Names, source : Names]]
    BY <1>1, <2>1, <2>2, FieldType DEF DrawerType
  <2>4. DrawerType'
    BY <1>1, <2>1, <2>2, <2>3 DEF DrawerType
  <2>5. OwnName'
    BY <1>1, <1>2, <2>1, <2>2 DEF OwnName, DrawerType
  <2> QED
    BY <2>4, <2>5 DEF DrawerInv
<1>5. CASE PickResource
  <2>1. PICK f \in Files :
          field' = [field EXCEPT !["file"] =
            [name |-> IF field["file"].name = None THEN f ELSE field["file"].name, source |-> f]]
    BY <1>1, <1>2, <1>5 DEF PickResource, DrawerType
  <2>2. reading' = reading /\ own' = own /\ f \in Names /\ field["file"].name \in Names
    BY <1>1, <1>2, <1>5 DEF PickResource, DrawerType
  <2>3. (IF field["file"].name = None THEN f ELSE field["file"].name) \in Names
    BY <2>2
  <2>4. field' \in [Tabs -> [name : Names, source : Names]]
    BY <1>1, <1>2, <2>1, <2>2, <2>3, FieldType
  <2>5. DrawerType'
    BY <1>1, <2>2, <2>4 DEF DrawerType
  <2>6. OwnName'
    BY <1>1, <1>2, <2>1, <2>2 DEF OwnName, DrawerType
  <2> QED
    BY <2>5, <2>6 DEF DrawerInv
<1>6. CASE PickSpec
  <2> DEFINE e == field["file"].name = None
  <2>1. PICK f \in Files :
          /\ field' = [field EXCEPT !["file"].source = f]
          /\ reading' = reading \cup {[file |-> f, empty |-> e]}
    BY <1>6 DEF PickSpec
  <2>2. own' = own /\ f \in Names
    BY <1>2, <1>6 DEF PickSpec
  <2>3. e \in BOOLEAN /\ (own # None => ~e)
    BY <1>1 DEF OwnName
  <2> HIDE DEF e
  <2>4. reading' \subseteq [file : Files, empty : BOOLEAN]
    BY <1>1, <2>1, <2>3 DEF DrawerType
  <2>5. field' \in [Tabs -> [name : Names, source : Names]] /\ field'["file"].name = field["file"].name
    BY <1>1, <1>2, <2>1, <2>2, FieldType DEF DrawerType
  <2>6. DrawerType'
    BY <1>1, <2>2, <2>4, <2>5 DEF DrawerType
  <2>7. OwnName'
    BY <1>1, <2>1, <2>2, <2>3, <2>5 DEF OwnName
  <2> QED
    BY <2>6, <2>7 DEF DrawerInv
<1> QED
  BY <1>3, <1>4, <1>5, <1>6

\* A file has been read.
LEMMA ReadStep ==
  ASSUME DrawerInv, ReadDone
  PROVE  DrawerInv'
<1>1. PICK r \in reading :
        /\ reading' = reading \ {r}
        /\ field' = IF Title(r.file) # None /\ r.empty
                    THEN [field EXCEPT !["file"].name = Title(r.file)] ELSE field
        /\ UNCHANGED <<drawer, tab, own, edits, closing>>
  BY DEF ReadDone
<1>2. DrawerType /\ OwnName /\ r.file \in Files
  BY DEF DrawerInv, DrawerType
<1>3. Title(r.file) \in Names /\ "file" \in Tabs
  BY <1>2 DEF Title, Names, Tabs
<1>4. field' \in [Tabs -> [name : Names, source : Names]]
  BY <1>1, <1>2, <1>3, FieldType DEF DrawerType
<1>5. DrawerType'
  BY <1>1, <1>2, <1>4 DEF DrawerType
<1>6. OwnName'
  BY <1>1, <1>2 DEF OwnName
<1> QED
  BY <1>5, <1>6 DEF DrawerInv

LEMMA DrawerStep ==
  ASSUME DrawerInv, [ListNext]_<<queryVars, listVars>>
  PROVE  DrawerInv'
<1>1. CASE TypeName \/ TypeSource \/ PickResource \/ PickSpec
  BY <1>1, EditStep
<1>2. CASE ReadDone
  BY <1>2, ReadStep
<1>3. CASE CloseList
  <2>1. NoFields \in [Tabs -> [name : Names, source : Names]] /\ "file" \in Tabs
    BY DEF NoFields, Names, Tabs
  <2> QED
    BY <1>3, <2>1 DEF CloseList, DrawerInv, DrawerType, OwnName
<1>4. CASE ~(TypeName \/ TypeSource \/ PickResource \/ PickSpec \/ ReadDone \/ CloseList)
  <2>1. UNCHANGED <<field, reading, own, edits>>
    BY <1>4 DEF ListNext, OpenDrawer, CloseDrawer, ChooseTab, SubmitSpec, SubmitResource, Upload, AddStep,
                ServerAdds, SpecAdded, ResourceAdded, Learnt, AddFails, ShownLongEnough, AskDelete,
                CancelDelete, ConfirmDelete, DeleteStep, ServerDeletes, Deleted, DeleteFails, FetchList,
                listVars, drawerVars
  <2>2. drawer' \in BOOLEAN /\ tab' \in Tabs
    BY <1>4 DEF ListNext, OpenDrawer, CloseDrawer, ChooseTab, SubmitSpec, SubmitResource, Upload, AddStep,
                ServerAdds, SpecAdded, ResourceAdded, Learnt, AddFails, ShownLongEnough, AskDelete,
                CancelDelete, ConfirmDelete, DeleteStep, ServerDeletes, Deleted, DeleteFails, FetchList,
                listVars, drawerVars, DrawerInv, DrawerType
  <2>3. closing' \in Nat
    <3>1. CASE ShownLongEnough
      BY <3>1 DEF ShownLongEnough, DrawerInv, DrawerType
    <3>2. ASSUME NEW k \in Numbers, SpecAdded(k) PROVE closing' \in Nat
      BY <3>2 DEF SpecAdded, DrawerInv, DrawerType
    <3>3. CASE ~ShownLongEnough /\ \A k \in Numbers : ~SpecAdded(k)
      BY <1>4, <3>3 DEF ListNext, OpenDrawer, CloseDrawer, ChooseTab, SubmitSpec, SubmitResource, Upload,
                        AddStep, ServerAdds, ResourceAdded, Learnt, AddFails, AskDelete, CancelDelete,
                        ConfirmDelete, DeleteStep, ServerDeletes, Deleted, DeleteFails, FetchList, listVars,
                        drawerVars, DrawerInv, DrawerType
    <3> QED
      BY <3>1, <3>2, <3>3
  <2> QED
    BY <2>1, <2>2, <2>3 DEF DrawerInv, DrawerType, OwnName
<1> QED
  BY <1>1, <1>2, <1>3, <1>4

\* The requests.
LEMMA AskStep ==
  ASSUME ListTypeOK, [ListNext]_<<queryVars, listVars>>,
         at' \in {at, at + 1}, mount' \in {mount, mount + 1}
  PROVE  /\ add' \in [Numbers -> AskedOf(at', mount')]
         /\ del' \in [Numbers -> AskedOf(at', mount')]
<1>1. /\ add \in [Numbers -> AskedOf(at', mount')] /\ del \in [Numbers -> AskedOf(at', mount')]
      /\ at' \in Nat /\ mount' \in Nat
  BY LaterAsked
<1>2. Asked("over") \in AskedOf(at', mount')
  BY <1>1, AskedTypes
<1>3. /\ NoRecord \in Nat /\ \A k \in Numbers : k \in 1 .. NoRecord
      /\ dialog \in 1 .. NoRecord
  BY ListPagesAssumption DEF NoRecord, Numbers, ListTypeOK
<1>4. CASE Upload
  <2>1. PICK k \in Numbers : add' = [add EXCEPT ![k] = [Asked("sent") EXCEPT !.record = k, !.mount = mount']]
    BY <1>4 DEF Upload, queryVars
  <2>2. [Asked("sent") EXCEPT !.record = k, !.mount = mount'] \in AskedOf(at', mount')
    BY <1>1, <1>3, AskedTypes
  <2> QED
    BY <1>1, <1>4, <2>1, <2>2 DEF Upload
<1>5. CASE ConfirmDelete
  <2>1. PICK d \in Numbers : del' = [del EXCEPT ![d] = [Asked("sent") EXCEPT !.record = dialog, !.mount = mount']]
    BY <1>5 DEF ConfirmDelete, queryVars
  <2>2. [Asked("sent") EXCEPT !.record = dialog, !.mount = mount'] \in AskedOf(at', mount')
    BY <1>1, <1>3, AskedTypes
  <2> QED
    BY <1>1, <1>5, <2>1, <2>2 DEF ConfirmDelete
<1>6. ASSUME NEW k \in Numbers, AddStep(k)
      PROVE  add' \in [Numbers -> AskedOf(at', mount')] /\ del' = del
  <2>1. CASE ServerAdds(k)
    <3>1. add' = [add EXCEPT ![k] = [add[k] EXCEPT !.phase = "made", !.at = at']]
      BY <1>1, <2>1 DEF ServerAdds, ServerChanges
    <3>2. [add[k] EXCEPT !.phase = "made", !.at = at'] \in AskedOf(at', mount')
      BY <1>1, AskedTypes
    <3> QED
      BY <1>1, <2>1, <3>1, <3>2 DEF ServerAdds
  <2>2. CASE add' = [add EXCEPT ![k] = Asked("over")] /\ del' = del
    BY <1>1, <1>2, <2>2
  <2> QED
    BY <1>6, <2>1, <2>2 DEF AddStep, SpecAdded, ResourceAdded, Learnt, AddFails
<1>7. ASSUME NEW d \in Numbers, DeleteStep(d)
      PROVE  del' \in [Numbers -> AskedOf(at', mount')] /\ add' = add
  <2>1. CASE ServerDeletes(d)
    <3>1. del' = [del EXCEPT ![d] = [del[d] EXCEPT !.phase = "made", !.at = at']]
      BY <1>1, <2>1 DEF ServerDeletes, ServerChanges
    <3>2. [del[d] EXCEPT !.phase = "made", !.at = at'] \in AskedOf(at', mount')
      BY <1>1, AskedTypes
    <3> QED
      BY <1>1, <2>1, <3>1, <3>2 DEF ServerDeletes
  <2>2. CASE del' = [del EXCEPT ![d] = Asked("over")] /\ add' = add
    BY <1>1, <1>2, <2>2
  <2> QED
    BY <1>7, <2>1, <2>2 DEF DeleteStep, Deleted, DeleteFails
<1>8. CASE UNCHANGED <<add, del>>
  BY <1>1, <1>8
<1> QED
  BY <1>1, <1>4, <1>5, <1>6, <1>7, <1>8
     DEF ListNext, OpenDrawer, CloseDrawer, ChooseTab, TypeName, TypeSource, PickResource, PickSpec, ReadDone,
         SubmitSpec, SubmitResource, ShownLongEnough, AskDelete, CancelDelete, CloseList, FetchList, listVars

ListInv == ListTypeOK /\ DrawerInv /\ Fresh

LEMMA ListStep ==
  ASSUME ListInv, [ListNext]_<<queryVars, listVars>>
  PROVE  ListInv'
<1>1. ListTypeOK /\ DrawerInv /\ Fresh /\ QueryTypeOK(Listings) /\ QueryStep(Listings)
  BY ListQueryStep DEF ListInv, ListTypeOK
<1>2. QueryTypeOK(Listings)' /\ Fresh' /\ at' \in {at, at + 1}
  BY <1>1, QueryType, QueryFresh, QueryMonotone, ListingsAssumption
<1>3. DrawerInv'
  BY <1>1, DrawerStep
<1>4. add' \in [Numbers -> AskedOf(at', mount')] /\ del' \in [Numbers -> AskedOf(at', mount')]
  BY <1>1, <1>2, ListQueryStep, AskStep
<1>5. kind' \in {"specs", "resources"}
  <2>1. kind' = kind
    BY DEF ListNext, OpenDrawer, CloseDrawer, ChooseTab, TypeName, TypeSource, PickResource, PickSpec, ReadDone,
           SubmitSpec, SubmitResource, Upload, AddStep, ServerAdds, SpecAdded, ResourceAdded, Learnt, AddFails,
           ShownLongEnough, AskDelete, CancelDelete, ConfirmDelete, DeleteStep, ServerDeletes, Deleted,
           DeleteFails, CloseList, FetchList, listVars
  <2> QED
    BY <1>1, <2>1 DEF ListTypeOK
<1>6. records' \subseteq Numbers
  <2>1. \/ records' = records
        \/ \E k \in Numbers : records' = records \cup {k}
        \/ \E d \in Numbers : records' = records \ {del[d].record}
    BY DEF ListNext, OpenDrawer, CloseDrawer, ChooseTab, TypeName, TypeSource, PickResource, PickSpec, ReadDone,
           SubmitSpec, SubmitResource, Upload, AddStep, ServerAdds, SpecAdded, ResourceAdded, Learnt, AddFails,
           ShownLongEnough, AskDelete, CancelDelete, ConfirmDelete, DeleteStep, ServerDeletes, Deleted,
           DeleteFails, CloseList, FetchList, listVars
  <2> QED
    BY <1>1, <2>1 DEF ListTypeOK
<1>7. dialog' \in 1 .. NoRecord
  <2>1. /\ NoRecord \in 1 .. NoRecord /\ \A k \in Numbers : k \in 1 .. NoRecord
    BY ListPagesAssumption DEF NoRecord, Numbers
  <2>2. dialog' \in {dialog, NoRecord} \/ AskDelete
    BY DEF ListNext, OpenDrawer, CloseDrawer, ChooseTab, TypeName, TypeSource, PickResource, PickSpec, ReadDone,
           SubmitSpec, SubmitResource, Upload, AddStep, ServerAdds, SpecAdded, ResourceAdded, Learnt, AddFails,
           ShownLongEnough, CancelDelete, ConfirmDelete, DeleteStep, ServerDeletes, Deleted,
           DeleteFails, CloseList, FetchList, listVars
  <2>3. CASE AskDelete
    <3>1. data \in Listings /\ dialog' \in data.records
      BY <1>1, <2>3 DEF AskDelete, QueryTypeOK
    <3>2. data.records \subseteq Numbers
      BY <3>1 DEF Listings
    <3> QED
      BY <2>1, <3>1, <3>2
  <2> QED
    BY <1>1, <2>1, <2>2, <2>3 DEF ListTypeOK
<1>8. ListTypeOK'
  <2>1. AskedType' = AskedOf(at', mount')
    BY DEF AskedType, AskedOf, NoRecord
  <2> QED
    BY <1>2, <1>3, <1>4, <1>5, <1>6, <1>7, <2>1 DEF ListTypeOK, DrawerInv, DrawerType
<1> QED
  BY <1>2, <1>3, <1>8 DEF ListInv

LEMMA ListStart == ListInit => ListInv
<1> SUFFICES ASSUME ListInit PROVE ListInv
  OBVIOUS
<1>1. QueryTypeOK(Listings) /\ Fresh /\ at = 0 /\ mount = 1
  BY QueryStart, ListingsAssumption DEF ListInit, QueryInit
<1>2. Asked("none") \in AskedType
  <2>1. AskedType = AskedOf(0, 1)
    BY <1>1 DEF AskedType, AskedOf
  <2> QED
    BY <2>1, AskedTypes
<1>3. NoRecord \in 1 .. NoRecord
  BY ListPagesAssumption DEF NoRecord
<1>4. DrawerInv
  BY DEF ListInit, DrawerInv, DrawerType, OwnName, NoFields, Names, Tabs
<1>5. ListTypeOK
  BY <1>1, <1>2, <1>3, <1>4 DEF ListInit, ListTypeOK, DrawerInv, DrawerType
<1> QED
  BY <1>1, <1>4, <1>5 DEF ListInv

LEMMA ListInvariant == ListSpec => []ListInv
<1>1. ListInv /\ [ListNext]_<<queryVars, listVars>> => ListInv'
  BY ListStep
<1> QED
  BY <1>1, ListStart, PTL DEF ListSpec

\* The types of the state of these pages, for any files, names and number of requests.
THEOREM ListTypeCorrect == ListSpec => []ListTypeOK
<1>1. ListInv => ListTypeOK
  BY DEF ListInv
<1> QED
  BY <1>1, ListInvariant, PTL

\* These pages show the uploads and deletions that they have made (invalidateQueries in
\* ui/src/pages/Specs.tsx and Resources.tsx).
THEOREM ListShowsOwnChanges == ListSpec => []ShowsOwnChanges
<1>1. ListInv => ShowsOwnChanges
  BY FreshShows DEF ListInv
<1> QED
  BY <1>1, ListInvariant, PTL

\* The name that the user typed while no file was being read stays, whatever files are
\* picked and read before the user types again (applyFileMeta in ui/src/pages/Specs.tsx
\* and handleDrop in Resources.tsx).  A name typed while a file is read may be overwritten.
THEOREM NameStays == ListSpec => []NameIsUsers
<1>1. ListInv => NameIsUsers
  BY DEF ListInv, DrawerInv, OwnName, NameIsUsers
<1> QED
  BY <1>1, ListInvariant, PTL

-----------------------------------------------------------------------------
(* The MCP client of the chat page. *)

\* Requests have numbers of their own, given out before.
OwnIds ==
  /\ \A q \in Requests : request[q].phase # "none" => request[q].id < counter
  /\ \A p, q \in Requests :
       p # q /\ request[p].phase # "none" /\ request[q].phase # "none" =>
         request[p].id # request[q].id
  /\ \A q \in Requests : request[q].due => request[q].phase # "none"

Live(c) == es[c] \in {"connecting", "open"}

\* What InUse needs: only clients for SSE have a connection, and while a client is made,
\* for what is chosen, the page has none.
OneInUse ==
  /\ \A c \in Clients : Live(c) => IsSse(c)
  /\ send = "creating" => ref = 0 /\ using # 0 /\ (using \notin strayed => made[using] = choice)
  /\ InUse

-----------------------------------------------------------------------------
USE McpClientAssumption DEF Clients, Requests, IsSse

\* The steps of clients and requests keep the types of the state.
LEMMA ClientTypeInit == ClientInit => ClientTypeOK
  BY DEF ClientInit, ClientTypeOK, NoRequest, RequestType

\* Making a client, and posting, keep the types of what they change.
LEMMA ResolveType ==
  ASSUME ClientTypeOK, NEW c \in Clients, Resolve(c)
  PROVE  /\ promise' \in [Clients -> {"none", "pending", "resolved", "rejected"}]
         /\ ref' \in {0} \cup Clients /\ send' \in {"none", "creating", "using"}
         /\ send' = "none" <=> using = 0
  BY DEF ClientTypeOK, Resolve

LEMMA PostType ==
  ASSUME ClientTypeOK, NEW c \in Clients, NEW phase \in {"initialize", "pending"},
         session' \in [Clients -> Nat], Post(c, phase)
  PROVE  request' \in [Requests -> RequestType] /\ counter' \in Nat
<1>1. PICK q \in Requests : request' = [request EXCEPT ![q] =
         [client |-> c, id |-> counter, phase |-> phase, to |-> session'[c], got |-> 0,
          due |-> IsSse(c) => session'[c] # 0]]
  BY DEF Post, NextId
<1> DEFINE r == [client |-> c, id |-> counter, phase |-> phase, to |-> session'[c], got |-> 0,
                 due |-> IsSse(c) => session'[c] # 0]
<1>2. session'[c] \in Nat /\ counter \in Nat
  BY DEF ClientTypeOK
<1>3. (IsSse(c) => session'[c] # 0) \in BOOLEAN
  OBVIOUS
<1>4. r \in RequestType
  BY <1>2, <1>3 DEF RequestType
<1> HIDE DEF r
<1>5. request' \in [Requests -> RequestType]
  BY <1>1, <1>4 DEF ClientTypeOK, r
<1>6. counter' \in Nat
  BY <1>2 DEF Post
<1> QED
  BY <1>5, <1>6

\* The answer changes the request that it is for, and those with its number.
LEMMA MessageType ==
  ASSUME ClientTypeOK, NEW q \in Requests, Message(q)
  PROVE  request' \in [Requests -> RequestType]
<1>1. PICK outcome \in {"answered", "failed"} :
        request' = [p \in Requests |->
          LET r == IF p \in {x \in PendingOf(request[q].client) : request[x].id = request[q].id}
                   THEN [request[p] EXCEPT !.phase = outcome, !.got = q] ELSE request[p]
          IN IF p = q THEN [r EXCEPT !.due = FALSE] ELSE r]
  BY DEF Message
<1>2. ASSUME NEW r \in RequestType
      PROVE  /\ [r EXCEPT !.due = FALSE] \in RequestType
             /\ [r EXCEPT !.phase = outcome, !.got = q] \in RequestType
  BY DEF RequestType
<1>3. \A p \in Requests : request[p] \in RequestType
  BY DEF ClientTypeOK
<1> QED
  BY <1>1, <1>2, <1>3

\* A request that is given up, or answered, is a request.
LEMMA EndType ==
  ASSUME ClientTypeOK, NEW q \in Requests, Timeout(q) \/ HttpEnds(q)
  PROVE  request' \in [Requests -> RequestType]
<1>1. ASSUME NEW r \in RequestType, NEW phase \in {"answered", "failed"}, NEW got \in {0} \cup Requests
      PROVE  /\ [r EXCEPT !.phase = phase] \in RequestType
             /\ [r EXCEPT !.phase = phase, !.due = FALSE, !.got = got] \in RequestType
  BY DEF RequestType
<1>2. request \in [Requests -> RequestType] /\ request[q] \in RequestType
  BY DEF ClientTypeOK
<1>3. CASE Timeout(q)
  <2>1. request' = [request EXCEPT ![q] = [request[q] EXCEPT !.phase = "failed"]]
    BY <1>3, <1>2 DEF Timeout
  <2>2. [request[q] EXCEPT !.phase = "failed"] \in RequestType
    BY <1>1, <1>2
  <2> QED
    BY <1>2, <2>1, <2>2
<1>4. CASE HttpEnds(q)
  <2>1. PICK outcome \in {"answered", "failed"} :
          request' = [request EXCEPT ![q].phase = outcome, ![q].due = FALSE,
                                     ![q].got = IF outcome = "answered" THEN q ELSE 0]
    BY <1>4 DEF HttpEnds
  <2> DEFINE r == [request[q] EXCEPT !.phase = outcome, !.due = FALSE,
                                     !.got = IF outcome = "answered" THEN q ELSE 0]
  <2>2. request' = [request EXCEPT ![q] = r]
    BY <2>1, <1>2
  <2>3. (IF outcome = "answered" THEN q ELSE 0) \in {0} \cup Requests
    OBVIOUS
  <2>4. r \in RequestType
    BY <1>1, <1>2, <2>3
  <2> HIDE DEF r
  <2> QED
    BY <1>2, <2>2, <2>4
<1> QED
  BY <1>3, <1>4

LEMMA ClientTypeStep ==
  ASSUME ClientTypeOK, [ClientNext]_clientVars
  PROVE  ClientTypeOK'
<1>1. CASE HandleSend
  <2>1. CASE ref # 0
    BY <1>1, <2>1 DEF HandleSend, ClientTypeOK, connVars
  <2>2. CASE ref = 0
    <3>1. PICK c \in Clients :
            /\ made' = [made EXCEPT ![c] = choice] /\ using' = c
            /\ IF choice \in Sse
               THEN /\ es' = [es EXCEPT ![c] = "connecting"]
                    /\ promise' = [promise EXCEPT ![c] = "pending"]
                    /\ send' = "creating" /\ UNCHANGED ref
               ELSE /\ promise' = [promise EXCEPT ![c] = "resolved"]
                    /\ send' = "using" /\ ref' = c /\ UNCHANGED es
            /\ UNCHANGED session
      BY <1>1, <2>2 DEF HandleSend
    <3>2. UNCHANGED <<choice, left, strayed, request, counter>>
      BY <1>1 DEF HandleSend
    <3>3. c # 0
      OBVIOUS
    <3>4. CASE choice \in Sse
      BY <3>1, <3>2, <3>3, <3>4 DEF ClientTypeOK
    <3>5. CASE choice \notin Sse
      BY <3>1, <3>2, <3>3, <3>5 DEF ClientTypeOK
    <3> QED
      BY <3>4, <3>5
  <2> QED
    BY <2>1, <2>2
<1>2. CASE EndSend
  BY <1>2 DEF EndSend, ClientTypeOK, connVars
<1>3. CASE Choose
  BY <1>3 DEF Choose, Drop, Creating, ClientTypeOK
<1>4. CASE NewChat
  BY <1>4 DEF NewChat, Drop, ClientTypeOK
<1>5. CASE LeavePage
  BY <1>5 DEF LeavePage, Creating, ClientTypeOK, connVars
<1>6. ASSUME NEW c \in Clients, Request(c) PROVE ClientTypeOK'
  <2>1. request' \in [Requests -> RequestType] /\ counter' \in Nat
    BY <1>6, PostType DEF Request, ClientTypeOK
  <2> QED
    BY <1>6, <2>1 DEF Request, ClientTypeOK, pageVars
<1>7. ASSUME NEW c \in Clients, Endpoint(c) PROVE ClientTypeOK'
  <2>1. session' \in [Clients -> Nat] /\ es' \in [Clients -> {"none", "connecting", "open", "closed"}]
    BY <1>7 DEF Endpoint, ClientTypeOK
  <2>2. request' \in [Requests -> RequestType] /\ counter' \in Nat
    BY <1>7, <2>1, PostType DEF Endpoint
  <2> QED
    BY <1>7, <2>1, <2>2 DEF Endpoint, ClientTypeOK, pageVars
<1>8. ASSUME NEW c \in Clients, DelayOver(c) PROVE ClientTypeOK'
  BY <1>8, ResolveType DEF DelayOver, ClientTypeOK
<1>9. ASSUME NEW c \in Clients, ConnectionBreaks(c) PROVE ClientTypeOK'
  <2>1. es' \in [Clients -> {"none", "connecting", "open", "closed"}]
    BY <1>9 DEF ConnectionBreaks, ClientTypeOK
  <2>2. /\ promise' \in [Clients -> {"none", "pending", "resolved", "rejected"}]
        /\ strayed' \subseteq Clients
    <3>1. CASE promise[c] # "pending"
      BY <1>9, <3>1 DEF ConnectionBreaks, ClientTypeOK
    <3>2. CASE promise[c] = "pending"
      <4>1. promise' = [promise EXCEPT ![c] = "rejected"] /\ strayed' = strayed \cup {c}
        BY <1>9, <3>2 DEF ConnectionBreaks
      <4> QED
        BY <4>1 DEF ClientTypeOK
    <3> QED
      BY <3>1, <3>2
  <2>3. /\ send' \in {"none", "creating", "using"} /\ using' \in {0} \cup Clients
        /\ send' = "none" <=> using' = 0
    BY <1>9 DEF ConnectionBreaks, ClientTypeOK
  <2> QED
    BY <1>9, <2>1, <2>2, <2>3 DEF ConnectionBreaks, ClientTypeOK
<1>10. ASSUME NEW q \in Requests, Message(q) PROVE ClientTypeOK'
  <2>1. request' \in [Requests -> RequestType]
    BY <1>10, MessageType
  <2>2. request[q].client \in {0} \cup Clients
    BY DEF ClientTypeOK, RequestType
  <2>3. /\ promise' \in [Clients -> {"none", "pending", "resolved", "rejected"}]
        /\ ref' \in {0} \cup Clients /\ send' \in {"none", "creating", "using"}
        /\ send' = "none" <=> using = 0
    BY <1>10, <2>2 DEF Message, Resolve, ClientTypeOK
  <2> QED
    BY <1>10, <2>1, <2>3 DEF Message, ClientTypeOK
<1>11. ASSUME NEW q \in Requests, Timeout(q) \/ HttpEnds(q) PROVE ClientTypeOK'
  <2>1. request' \in [Requests -> RequestType]
    BY <1>11, EndType
  <2> QED
    BY <1>11, <2>1 DEF Timeout, HttpEnds, ClientTypeOK, pageVars, connVars
<1>12. CASE UNCHANGED clientVars
  BY <1>12 DEF clientVars, pageVars, connVars, ClientTypeOK
<1> QED
  BY <1>1, <1>2, <1>3, <1>4, <1>5, <1>6, <1>7, <1>8, <1>9, <1>10, <1>11, <1>12
     DEF ClientNext, ClientStep, RequestStep

\* The types of the state, for any number of clients and requests.
THEOREM ClientTypeCorrect == ClientSpec => []ClientTypeOK
<1>1. ClientTypeOK /\ [ClientNext]_clientVars => ClientTypeOK'
  BY ClientTypeStep
<1> QED
  BY <1>1, ClientTypeInit, PTL DEF ClientSpec

-----------------------------------------------------------------------------
\* A step that leaves the numbers and settles requests only by their own answers.
Keeps ==
  /\ \A p \in Requests :
       /\ request'[p].id = request[p].id
       /\ request'[p].phase = "none" <=> request[p].phase = "none"
       /\ request'[p].due => request[p].due
       /\ request'[p].got \in {request[p].got, 0, p}
  /\ counter' = counter

AnswerInv == OwnIds /\ OwnAnswer

LEMMA KeepsInv ==
  ASSUME AnswerInv, Keeps
  PROVE  AnswerInv'
<1>1. OwnIds'
  BY DEF AnswerInv, Keeps, OwnIds
<1>2. OwnAnswer'
  BY DEF AnswerInv, Keeps, OwnAnswer
<1> QED
  BY <1>1, <1>2 DEF AnswerInv

\* A new request has a number above all others.
LEMMA PostInv ==
  ASSUME ClientTypeOK, AnswerInv, NEW c \in Clients, NEW phase \in {"initialize", "pending"},
         Post(c, phase)
  PROVE  AnswerInv'
<1>1. PICK q \in Requests :
        /\ request[q].phase = "none"
        /\ request' = [request EXCEPT ![q] =
             [client |-> c, id |-> counter, phase |-> phase, to |-> session'[c], got |-> 0,
              due |-> IsSse(c) => session'[c] # 0]]
  BY DEF Post, NextId
<1>2. counter' = counter + 1 /\ counter \in Nat
  BY DEF Post, ClientTypeOK
<1>3. /\ request'[q].id = counter /\ request'[q].phase # "none" /\ request'[q].got = 0
      /\ \A p \in Requests : p # q => request'[p] = request[p]
  BY <1>1 DEF ClientTypeOK
<1>4. \A p \in Requests : request[p].id \in Nat
  BY DEF ClientTypeOK, RequestType
<1>5. \A p \in Requests : p # q /\ request[p].phase # "none" => request[p].id < counter
  BY DEF AnswerInv, OwnIds
<1>6. \A p \in Requests : request'[p].phase # "none" => request'[p].id < counter'
  BY <1>2, <1>3, <1>4, <1>5
<1>7. ASSUME NEW p1 \in Requests, NEW p2 \in Requests, p1 # p2,
             request'[p1].phase # "none", request'[p2].phase # "none"
      PROVE  request'[p1].id # request'[p2].id
  <2>1. CASE p1 = q
    BY <1>2, <1>3, <1>4, <1>5, <1>7, <2>1
  <2>2. CASE p2 = q
    BY <1>2, <1>3, <1>4, <1>5, <1>7, <2>2
  <2>3. CASE p1 # q /\ p2 # q
    BY <1>3, <1>7, <2>3 DEF AnswerInv, OwnIds
  <2> QED
    BY <2>1, <2>2, <2>3
<1>8. \A p \in Requests : request'[p].due => request'[p].phase # "none"
  BY <1>3 DEF AnswerInv, OwnIds
<1>9. OwnAnswer'
  BY <1>3 DEF AnswerInv, OwnAnswer
<1> QED
  BY <1>6, <1>7, <1>8, <1>9 DEF AnswerInv, OwnIds

LEMMA MessageKeeps ==
  ASSUME ClientTypeOK, AnswerInv, NEW q \in Requests, Message(q)
  PROVE  Keeps
<1>1. PICK outcome \in {"answered", "failed"} :
        request' = [p \in Requests |->
          LET r == IF p \in {x \in PendingOf(request[q].client) : request[x].id = request[q].id}
                   THEN [request[p] EXCEPT !.phase = outcome, !.got = q] ELSE request[p]
          IN IF p = q THEN [r EXCEPT !.due = FALSE] ELSE r]
  BY DEF Message
<1>2. request[q].phase # "none"
  BY DEF Message, AnswerInv, OwnIds
<1>3. ASSUME NEW p \in Requests
      PROVE  /\ request'[p].id = request[p].id
             /\ request'[p].phase = "none" <=> request[p].phase = "none"
             /\ request'[p].due => request[p].due
             /\ request'[p].got \in {request[p].got, 0, p}
  <2>1. request[p] \in RequestType
    BY DEF ClientTypeOK
  <2>2. CASE p \in {x \in PendingOf(request[q].client) : request[x].id = request[q].id}
    <3>1. request[p].phase = "pending" /\ request[p].id = request[q].id
      BY <2>2 DEF PendingOf
    <3>2. p = q
      BY <1>2, <3>1 DEF AnswerInv, OwnIds
    <3>3. request'[p] = [[request[p] EXCEPT !.phase = outcome, !.got = q] EXCEPT !.due = FALSE]
      BY <1>1, <2>2, <3>2
    <3> QED
      BY <2>1, <3>1, <3>2, <3>3 DEF RequestType
  <2>3. CASE p \notin {x \in PendingOf(request[q].client) : request[x].id = request[q].id}
    <3>1. request'[p] = IF p = q THEN [request[p] EXCEPT !.due = FALSE] ELSE request[p]
      BY <1>1, <2>3
    <3> QED
      BY <2>1, <3>1 DEF RequestType
  <2> QED
    BY <2>2, <2>3
<1>4. counter' = counter
  BY DEF Message
<1> QED
  BY <1>3, <1>4 DEF Keeps

LEMMA EndKeeps ==
  ASSUME ClientTypeOK, NEW q \in Requests, Timeout(q) \/ HttpEnds(q)
  PROVE  Keeps
<1>1. request \in [Requests -> RequestType]
  BY DEF ClientTypeOK
<1>2. \A p \in Requests : p # q => request'[p] = request[p]
  BY <1>1 DEF Timeout, HttpEnds
<1>3. /\ request'[q].id = request[q].id
      /\ request'[q].phase # "none" /\ request[q].phase # "none"
      /\ request'[q].due => request[q].due
      /\ request'[q].got \in {request[q].got, 0, q}
  BY <1>1 DEF Timeout, HttpEnds, RequestType
<1>4. counter' = counter
  BY DEF Timeout, HttpEnds
<1> QED
  BY <1>2, <1>3, <1>4 DEF Keeps

LEMMA SameKeeps ==
  ASSUME UNCHANGED <<request, counter>>
  PROVE  Keeps
  BY DEF Keeps

LEMMA AnswerStep ==
  ASSUME ClientTypeOK, AnswerInv, [ClientNext]_clientVars
  PROVE  AnswerInv'
<1>1. CASE HandleSend \/ EndSend \/ Choose \/ NewChat \/ LeavePage
  <2>1. UNCHANGED <<request, counter>>
    BY <1>1 DEF HandleSend, EndSend, Choose, NewChat, LeavePage
  <2> QED
    BY <2>1, SameKeeps, KeepsInv
<1>2. ASSUME NEW c \in Clients, Request(c) \/ Endpoint(c)
      PROVE  AnswerInv'
  <2>1. PICK phase \in {"initialize", "pending"} : Post(c, phase)
    BY <1>2 DEF Request, Endpoint
  <2> QED
    BY <2>1, PostInv
<1>3. ASSUME NEW c \in Clients, DelayOver(c) \/ ConnectionBreaks(c)
      PROVE  AnswerInv'
  <2>1. UNCHANGED <<request, counter>>
    BY <1>3 DEF DelayOver, ConnectionBreaks
  <2> QED
    BY <2>1, SameKeeps, KeepsInv
<1>4. ASSUME NEW q \in Requests, RequestStep(q)
      PROVE  AnswerInv'
  BY <1>4, MessageKeeps, EndKeeps, KeepsInv DEF RequestStep
<1>5. CASE UNCHANGED clientVars
  <2>1. UNCHANGED <<request, counter>>
    BY <1>5 DEF clientVars
  <2> QED
    BY <2>1, SameKeeps, KeepsInv
<1> QED
  BY <1>1, <1>2, <1>3, <1>4, <1>5 DEF ClientNext, ClientStep

\* Requests are settled by the answers to them and by no other (handleMessage and
\* sendRequest in ui/src/lib/mcp-client.ts), since a number is never given out twice.
THEOREM AnswersAreOwn == ClientSpec => []OwnAnswer
<1>1. ClientInit => AnswerInv
  BY DEF ClientInit, AnswerInv, OwnIds, OwnAnswer, NoRequest
<1>2. ClientTypeOK /\ AnswerInv /\ [ClientNext]_clientVars => AnswerInv'
  BY AnswerStep
<1>3. AnswerInv => OwnAnswer
  BY DEF AnswerInv
<1> QED
  BY <1>1, <1>2, <1>3, ClientTypeCorrect, PTL DEF ClientSpec

-----------------------------------------------------------------------------
LEMMA UseInit == ClientInit => OneInUse
  BY DEF ClientInit, OneInUse, InUse, Live

LEMMA SendUse ==
  ASSUME ClientTypeOK, OneInUse, HandleSend
  PROVE  OneInUse'
<1>1. CASE ref # 0
  <2>1. /\ send = "none" /\ send' = "using" /\ ref' = ref
        /\ UNCHANGED <<choice, strayed, made, es>>
    BY <1>1 DEF HandleSend, connVars
  <2> QED
    BY <2>1 DEF OneInUse, InUse, Live
<1>2. CASE ref = 0
  <2>1. PICK c \in Clients :
          /\ made[c] = NoChoice /\ made' = [made EXCEPT ![c] = choice] /\ using' = c
          /\ IF choice \in Sse
             THEN /\ es' = [es EXCEPT ![c] = "connecting"]
                  /\ send' = "creating" /\ UNCHANGED ref
             ELSE send' = "using" /\ ref' = c /\ UNCHANGED es
    BY <1>2 DEF HandleSend
  <2>2. send = "none" /\ UNCHANGED <<choice, strayed>>
    BY DEF HandleSend
  <2>3. ~Live(c)
    BY <2>1 DEF OneInUse
  <2>4. \A d \in Clients : Live(d) => d \in strayed
    BY <1>2, <2>2 DEF OneInUse, InUse, Live
  <2>5. /\ made \in [Clients -> Choices \cup {NoChoice}]
        /\ es \in [Clients -> {"none", "connecting", "open", "closed"}]
    BY DEF ClientTypeOK
  <2>6. made'[c] = choice /\ \A d \in Clients : d # c => made'[d] = made[d]
    BY <2>1, <2>5
  <2>7. CASE choice \in Sse
    <3>1. /\ send' = "creating" /\ ref' = 0 /\ using' = c
          /\ \A d \in Clients : d # c => es'[d] = es[d]
      BY <1>2, <2>1, <2>5, <2>7
    <3>2. c # 0
      OBVIOUS
    <3> QED
      BY <2>2, <2>4, <2>6, <2>7, <3>1, <3>2 DEF OneInUse, InUse, Live
  <2>8. CASE choice \notin Sse
    <3>1. send' = "using" /\ ref' = c /\ using' = c /\ es' = es
      BY <2>1, <2>8
    <3> QED
      BY <2>2, <2>3, <2>4, <2>6, <3>1 DEF OneInUse, InUse, Live
  <2> QED
    BY <2>7, <2>8
<1> QED
  BY <1>1, <1>2

\* Dropping its client leaves the page with no connection but the one it is making.
LEMMA DropUse ==
  ASSUME ClientTypeOK, OneInUse, Drop, UNCHANGED made
  PROVE  /\ ref' = 0
         /\ \A c \in Clients : Live(c)' => Live(c) /\ IsSse(c)' /\ c # ref
  BY DEF Drop, OneInUse, Live, ClientTypeOK

LEMMA ChooseUse ==
  ASSUME ClientTypeOK, OneInUse, Choose \/ NewChat
  PROVE  OneInUse'
<1>1. Drop /\ UNCHANGED <<send, using, made>>
  BY DEF Choose, NewChat
<1>2. /\ ref' = 0
      /\ \A c \in Clients : Live(c)' => Live(c) /\ IsSse(c)' /\ c # ref
  BY <1>1, DropUse
<1>3. CASE Choose
  <2>1. strayed' = strayed \cup (IF send = "creating" THEN {using} ELSE {})
    BY <1>3 DEF Choose, Creating
  <2> QED
    BY <1>1, <1>2, <2>1 DEF OneInUse, InUse, Live
<1>4. CASE NewChat
  <2>1. ref # 0 /\ UNCHANGED <<choice, strayed>>
    BY <1>4 DEF NewChat
  <2> QED
    BY <1>1, <1>2, <2>1 DEF OneInUse, InUse, Live
<1> QED
  BY <1>3, <1>4

LEMMA LeaveUse ==
  ASSUME ClientTypeOK, OneInUse, LeavePage
  PROVE  OneInUse'
<1>1. /\ ref' = 0 /\ send' = "none" /\ UNCHANGED <<made, es>>
      /\ strayed' = strayed \cup (IF send = "creating" THEN {using} ELSE {}) \cup ({ref} \ {0})
  BY DEF LeavePage, Creating, connVars
<1> QED
  BY <1>1 DEF OneInUse, InUse, Live

\* A client that is made becomes the page's if its page is still there.
LEMMA ResolveUse ==
  ASSUME OneInUse, NEW c \in Clients, Resolve(c),
         UNCHANGED <<choice, using, strayed, made, es>>
  PROVE  OneInUse'
<1>1. CASE send = "creating" /\ using = c
  <2>1. ref' = c /\ send' = "using"
    BY <1>1 DEF Resolve
  <2> QED
    BY <1>1, <2>1 DEF OneInUse, InUse, Live
<1>2. CASE ~(send = "creating" /\ using = c)
  <2>1. UNCHANGED <<ref, send>>
    BY <1>2 DEF Resolve
  <2> QED
    BY <2>1 DEF OneInUse, InUse, Live
<1> QED
  BY <1>1, <1>2

LEMMA BreakUse ==
  ASSUME ClientTypeOK, OneInUse, NEW c \in Clients, ConnectionBreaks(c)
  PROVE  OneInUse'
<1>1. /\ Live(c) /\ \A d \in Clients : Live(d)' => Live(d)
      /\ UNCHANGED <<choice, ref, made>>
  BY DEF ConnectionBreaks, Live, ClientTypeOK
<1>2. CASE UNCHANGED <<send, using, strayed>>
  BY <1>1, <1>2 DEF OneInUse, InUse, Live
<1>3. CASE strayed' = strayed \cup {c} /\ UNCHANGED <<send, using>>
  BY <1>1, <1>3 DEF OneInUse, InUse, Live
<1>4. CASE strayed' = strayed \cup {c} /\ send = "creating" /\ using = c /\ send' = "none"
  BY <1>1, <1>4 DEF OneInUse, InUse, Live
<1> QED
  BY <1>2, <1>3, <1>4 DEF ConnectionBreaks

\* Steps that neither make nor drop a connection.
LEMMA SameUse ==
  ASSUME OneInUse, UNCHANGED <<choice, ref, strayed, made>>,
         \A c \in Clients : Live(c)' => Live(c),
         \/ UNCHANGED <<send, using>>
         \/ send = "using" /\ send' = "none"
  PROVE  OneInUse'
  BY DEF OneInUse, InUse, Live

LEMMA UseStep ==
  ASSUME ClientTypeOK, OneInUse, [ClientNext]_clientVars
  PROVE  OneInUse'
<1>1. CASE HandleSend
  BY <1>1, SendUse
<1>2. CASE Choose \/ NewChat
  BY <1>2, ChooseUse
<1>3. CASE LeavePage
  BY <1>3, LeaveUse
<1>4. CASE EndSend
  <2>1. /\ UNCHANGED <<choice, ref, strayed, made, es>> /\ send = "using" /\ send' = "none"
    BY <1>4 DEF EndSend, connVars
  <2> QED
    BY <2>1, SameUse DEF Live
<1>5. ASSUME NEW c \in Clients, Request(c) \/ Endpoint(c) PROVE OneInUse'
  <2>1. UNCHANGED <<choice, ref, strayed, made, send, using>>
    BY <1>5 DEF Request, Endpoint, pageVars
  <2>2. \A d \in Clients : Live(d)' => Live(d)
    BY <1>5 DEF Request, Endpoint, Live, ClientTypeOK
  <2> QED
    BY <2>1, <2>2, SameUse
<1>6. ASSUME NEW c \in Clients, DelayOver(c) PROVE OneInUse'
  <2>1. Resolve(c) /\ UNCHANGED <<choice, using, strayed, made, es>>
    BY <1>6 DEF DelayOver
  <2> QED
    BY <2>1, ResolveUse
<1>7. ASSUME NEW c \in Clients, ConnectionBreaks(c) PROVE OneInUse'
  BY <1>7, BreakUse
<1>8. ASSUME NEW q \in Requests, Message(q) PROVE OneInUse'
  <2>1. UNCHANGED <<choice, using, strayed, made, es>>
    BY <1>8 DEF Message
  <2>2. CASE UNCHANGED <<ref, send>>
    BY <2>1, <2>2, SameUse DEF Live
  <2>3. CASE Resolve(request[q].client)
    <3>1. CASE UNCHANGED <<ref, send>>
      BY <2>2, <3>1
    <3>2. CASE send = "creating" /\ using = request[q].client
      <4>1. request[q].client \in Clients
        BY <3>2 DEF OneInUse, ClientTypeOK
      <4> QED
        BY <2>1, <2>3, <4>1, ResolveUse
    <3> QED
      BY <2>3, <3>1, <3>2 DEF Resolve
  <2> QED
    BY <1>8, <2>2, <2>3 DEF Message
<1>9. ASSUME NEW q \in Requests, Timeout(q) \/ HttpEnds(q) PROVE OneInUse'
  <2>1. UNCHANGED <<choice, ref, strayed, made, es, send, using>>
    BY <1>9 DEF Timeout, HttpEnds, pageVars, connVars
  <2> QED
    BY <2>1, SameUse DEF Live
<1>10. CASE UNCHANGED clientVars
  <2>1. UNCHANGED <<choice, ref, strayed, made, es, send, using>>
    BY <1>10 DEF clientVars, pageVars, connVars
  <2> QED
    BY <2>1, SameUse DEF Live
<1> QED
  BY <1>1, <1>2, <1>3, <1>4, <1>5, <1>6, <1>7, <1>8, <1>9, <1>10
     DEF ClientNext, ClientStep, RequestStep

\* The page has one connection, made for what is chosen (getMCPClient and
\* disconnectClient in ui/src/pages/Chat.tsx), but for those it has lost sight of.
THEOREM ConnectionInUse == ClientSpec => []InUse
<1>1. ClientTypeOK /\ OneInUse /\ [ClientNext]_clientVars => OneInUse'
  BY UseStep
<1>2. OneInUse => InUse
  BY DEF OneInUse
<1> QED
  BY <1>1, <1>2, UseInit, ClientTypeCorrect, PTL DEF ClientSpec

-----------------------------------------------------------------------------
(* The pages together. *)

DetailSafe == DetailInv /\ Fresh /\ Bulk /\ Recent
ClientSafe == ClientTypeOK /\ AnswerInv /\ OneInUse

\* The page that is there keeps what was shown of it alone, and the others are as they
\* were at first: the one query is theirs in turn.
WebInv ==
  /\ page \in {"chat", "lists", "switches", "settings"}
  /\ ClientSafe /\ Fresh
  /\ IF page \in {"switches", "settings"} THEN DetailSafe ELSE row = [r \in Rows |-> NoRow]
  /\ IF page = "lists" THEN ListInv ELSE own = None

LEMMA WebStart ==
  ASSUME WebInit
  PROVE  WebInv
<1>1. ClientSafe
  BY ClientTypeInit, UseInit
     DEF WebInit, ClientSafe, ClientInit, AnswerInv, OwnIds, OwnAnswer, NoRequest
<1>2. DetailSafe /\ row = [r \in Rows |-> NoRow]
  BY DetailStart
     DEF WebInit, DetailSafe, DetailInit, QueryInit, Bulk, Recent, Copied, NoRow, NoSave, UnderWay
<1>3. ListInv /\ own = None
  BY ListStart DEF WebInit, ListInit
<1> QED
  BY <1>1, <1>2, <1>3 DEF WebInit, WebInv, DetailSafe

\* A step of the page of a spec, and one of another page or of none.
LEMMA DetailSafeStep ==
  ASSUME DetailSafe, [DetailNext]_<<queryVars, detailVars>>
  PROVE  DetailSafe'
<1>1. DetailInv' /\ Bulk' /\ Recent'
  BY DetailStep, BulkStep, RecentStep DEF DetailSafe
<1>2. Fresh'
  BY DetailQueryStep, QueryFresh, DetailsAssumption DEF DetailSafe, DetailInv, DetailTypeOK
<1> QED
  BY <1>1, <1>2 DEF DetailSafe

LEMMA ClientSafeStep ==
  ASSUME ClientSafe, [ClientNext]_clientVars
  PROVE  ClientSafe'
  BY ClientTypeStep, AnswerStep, UseStep DEF ClientSafe

LEMMA WebStep ==
  ASSUME WebInv, [WebNext]_webVars
  PROVE  WebInv'
<1>1. page' = page
  BY DEF WebNext, webVars
<1>2. ClientSafe'
  <2>1. [ClientNext]_clientVars
    BY DEF WebNext, webVars
  <2> QED
    BY <2>1, ClientSafeStep DEF WebInv
<1>3. CASE page \in {"switches", "settings"}
  <2>1. [DetailNext]_<<queryVars, detailVars>> /\ UNCHANGED listVars
    BY <1>3 DEF WebNext, webVars, DetailNext
  <2>2. DetailSafe'
    BY <1>3, <2>1, DetailSafeStep DEF WebInv
  <2>3. own' = own
    BY <2>1 DEF listVars, drawerVars
  <2> QED
    BY <1>1, <1>2, <1>3, <2>2, <2>3 DEF WebInv, DetailSafe
<1>4. CASE page = "lists"
  <2>1. [ListNext]_<<queryVars, listVars>> /\ UNCHANGED detailVars
    BY <1>4 DEF WebNext, webVars
  <2>2. ListInv'
    BY <1>4, <2>1, ListStep DEF WebInv
  <2>3. row' = row
    BY <2>1 DEF detailVars
  <2> QED
    BY <1>1, <1>2, <1>4, <2>2, <2>3 DEF WebInv, ListInv
<1>5. CASE page = "chat"
  <2>1. UNCHANGED <<queryVars, detailVars, listVars>>
    BY <1>5 DEF WebNext, webVars
  <2>2. row' = row /\ own' = own /\ UNCHANGED queryVars
    BY <2>1 DEF detailVars, listVars, drawerVars
  <2>3. Fresh'
    BY <2>2 DEF WebInv, Fresh, queryVars
  <2> QED
    BY <1>1, <1>2, <1>5, <2>2, <2>3 DEF WebInv
<1> QED
  BY <1>3, <1>4, <1>5 DEF WebInv

\* What the pages and the chat page's client each keep holds of the UI whichever of
\* them is open (ui/src/router.tsx).
THEOREM WebInvariants ==
  WebSpec => [](ShowsOwnChanges /\ BulkReaches /\ NameIsUsers /\ OwnAnswer /\ InUse)
<1>1. WebInv /\ [WebNext]_webVars => WebInv'
  BY WebStep
<1>2. WebInv => ShowsOwnChanges /\ BulkReaches /\ NameIsUsers /\ OwnAnswer /\ InUse
  <2> SUFFICES ASSUME WebInv
               PROVE  ShowsOwnChanges /\ BulkReaches /\ NameIsUsers /\ OwnAnswer /\ InUse
    OBVIOUS
  <2>1. ShowsOwnChanges /\ OwnAnswer /\ InUse
    BY FreshShows DEF WebInv, ClientSafe, AnswerInv, OneInUse
  <2>2. BulkReaches
    BY DEF WebInv, DetailSafe, Bulk, BulkReaches, Reached, NoRow
  <2>3. NameIsUsers
    BY DEF WebInv, ListInv, DrawerInv, OwnName, NameIsUsers
  <2> QED
    BY <2>1, <2>2, <2>3
<1> QED
  BY <1>1, <1>2, WebStart, PTL DEF WebSpec

\* A save changes only what the user has edited, whichever page is open, unless the
\* settings changed after the copy that filled the form (ui/src/pages/SpecDetail.tsx:33).
THEOREM WebSavesKeepOthers == WebSpec => SaveKeepsOthers
<1>1. WebInv /\ [WebNext]_webVars => WebInv'
  BY WebStep
<1>2. WebInv /\ [WebNext]_webVars =>
        [\A k \in Saves :
           save[k].phase = "sent" /\ save'[k].phase = "saved" /\ save[k].from >= settled =>
             \A f \in Fields \ save[k].edited : settings'[f] = settings[f]]_<<queryVars, detailVars>>
  <2> SUFFICES ASSUME WebInv, [WebNext]_webVars, NEW k \in Saves,
                      save[k].phase = "sent", save'[k].phase = "saved", save[k].from >= settled
               PROVE  \A f \in Fields \ save[k].edited : settings'[f] = settings[f]
    OBVIOUS
  <2>1. page \in {"switches", "settings"} /\ [DetailNext]_<<queryVars, detailVars>>
    BY DEF WebInv, WebNext, webVars, DetailNext, detailVars
  <2>2. settings' = save[k].payload
    BY <2>1, SavedByServer DEF WebInv, DetailSafe
  <2> QED
    BY <2>1, <2>2 DEF WebInv, DetailSafe, Recent, Agrees
<1> QED
  BY <1>1, <1>2, WebStart, PTL DEF WebSpec, SaveKeepsOthers

=============================================================================
