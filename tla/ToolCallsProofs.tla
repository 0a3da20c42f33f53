---------------------------- MODULE ToolCallsProofs ----------------------------
(***************************************************************************)
(* Proofs about ToolCalls for any callers, specs, configurations and       *)
(* bounds: one authenticator per spec, and no call goes upstream without   *)
(* credentials while its spec has a usable auth file.  The invariant says  *)
(* that whoever is between Lock and Unlock is the writer (LockHeld), that  *)
(* the entry it is about to add is still missing (EntryMissing), and that  *)
(* an entry is there exactly when an authenticator was built (BuiltCached).*)
(* Calls are counted once because a call that is open is not counted yet,  *)
(* and every step that ends one counts it.                                 *)
(***************************************************************************)
EXTENDS ToolCalls, FiniteSetTheorems, TLAPS

LockHeld ==
  \A c \in Callers : pc[c] \in {"locking", "recheck", "read_auth"} => writer = c

EntryMissing ==
  \A c \in Callers : pc[c] = "read_auth" => cache[tool[c]] = Absent

BuiltCached ==
  \A s \in Specs : built[s] = IF cache[s] = Absent THEN 0 ELSE 1

ToolKnown == \A c \in Callers : pc[c] # "idle" => tool[c] \in Specs

MissingNoticed ==
  \A c \in Callers : pc[c] # "idle" /\ ~Usable(authFile[tool[c]]) => missing[c]

IInv ==
  /\ TypeOK
  /\ ToolKnown
  /\ LockHeld
  /\ EntryMissing
  /\ BuiltCached
  /\ MissingNoticed
  /\ BareOnlyWithoutFile

-----------------------------------------------------------------------------
LEMMA TypeInit == Init => TypeOK /\ ToolKnown
<1> SUFFICES ASSUME Init PROVE TypeOK /\ ToolKnown
  OBVIOUS
<1>1. calls \in [Specs -> 0 .. MaxCalls] /\ edits \in 0 .. MaxEdits
  BY BoundsAssumption DEF Init
<1>2. stats \in [Specs -> [calls : Nat, errors : Nat]]
  BY DEF Init
<1> QED
  BY <1>1, <1>2 DEF Init, TypeOK, ToolKnown, Steps

\* Counting keeps the statistics well-typed.
LEMMA CountType ==
  ASSUME TypeOK, NEW s \in Specs, NEW e \in BOOLEAN, Count(s, e)
  PROVE  stats' \in [Specs -> [calls : Nat, errors : Nat]]
<1> DEFINE add == IF e THEN 1 ELSE 0
<1>1. add \in Nat
  OBVIOUS
<1>2. stats \in [Specs -> [calls : Nat, errors : Nat]]
  BY DEF TypeOK
<1> DEFINE r == [calls |-> stats[s].calls + 1, errors |-> stats[s].errors + add]
<1>3. r \in [calls : Nat, errors : Nat]
  BY <1>1, <1>2
<1>4. stats' = [stats EXCEPT ![s] = r]
  BY <1>2 DEF Count
<1> HIDE DEF r
<1> QED
  BY <1>2, <1>3, <1>4

\* What every step of a handler that ends the call does.
LEMMA AnswerType ==
  ASSUME TypeOK, ToolKnown, NEW c \in Callers,
         BuildFails(c) \/ SendFails(c) \/ Respond(c)
  PROVE  TypeOK' /\ ToolKnown'
<1>1. tool[c] \in Specs
  BY DEF ToolKnown, BuildFails, SendFails, Respond, Answer, Goto
<1>2. stats' \in [Specs -> [calls : Nat, errors : Nat]]
  BY <1>1, CountType DEF BuildFails, SendFails, Respond
<1>3. metric' \in [Specs -> Nat]
  <2>1. metric \in [Specs -> Nat] /\ metric[tool[c]] + 1 \in Nat
    BY <1>1 DEF TypeOK
  <2>2. metric' = metric \/ metric' = [metric EXCEPT ![tool[c]] = metric[tool[c]] + 1]
    BY DEF BuildFails, SendFails, Respond
  <2> QED
    BY <1>1, <2>1, <2>2
<1> QED
  BY <1>2, <1>3 DEF TypeOK, ToolKnown, BuildFails, SendFails, Respond, Answer, Goto, world,
                    lock, Steps

LEMMA TypeStep == TypeOK /\ ToolKnown /\ [Next]_vars => TypeOK' /\ ToolKnown'
<1> SUFFICES ASSUME TypeOK, ToolKnown, [Next]_vars PROVE TypeOK' /\ ToolKnown'
  OBVIOUS
<1> USE DEF TypeOK, ToolKnown, Goto, world, lock, counters, Steps
<1>1. ASSUME NEW c \in Callers, Find(c) PROVE TypeOK' /\ ToolKnown'
  <2>1. PICK s \in served :
          /\ calls[s] < MaxCalls
          /\ calls' = [calls EXCEPT ![s] = calls[s] + 1]
          /\ tool' = [tool EXCEPT ![c] = s]
          /\ missing' = [missing EXCEPT ![c] = ~Usable(authFile[s])]
    BY <1>1 DEF Find
  <2>2. calls[s] + 1 \in 0 .. MaxCalls /\ s \in Specs
    BY <2>1, BoundsAssumption
  <2>3. calls' \in [Specs -> 0 .. MaxCalls]
    BY <2>1, <2>2
  <2>4. missing' \in [Callers -> BOOLEAN]
    BY <2>1
  <2> QED
    BY <1>1, <2>1, <2>2, <2>3, <2>4 DEF Find
<1>2. ASSUME NEW c \in Callers, RLock(c) \/ ClaimLock(c) \/ Lock(c) \/ Build(c)
      PROVE  TypeOK' /\ ToolKnown'
  BY <1>2 DEF RLock, ClaimLock, Lock, Build
<1>3. ASSUME NEW c \in Callers, Look(c) PROVE TypeOK' /\ ToolKnown'
  BY <1>3 DEF Look
<1>4. ASSUME NEW c \in Callers, Recheck(c) PROVE TypeOK' /\ ToolKnown'
  BY <1>4 DEF Recheck
<1>5. ASSUME NEW c \in Callers, ReadAuth(c) PROVE TypeOK' /\ ToolKnown'
  <2>1. tool[c] \in Specs
    BY <1>5 DEF ReadAuth
  <2>2. cache' \in [Specs -> (Configs \ Malformed) \cup {Absent}]
        /\ auth' \in [Callers -> (Configs \ Malformed) \cup {Absent}]
        /\ built' \in [Specs -> Nat]
    <3>1. CASE ~Usable(authFile[tool[c]])
      BY <1>5, <3>1 DEF ReadAuth
    <3>2. CASE Usable(authFile[tool[c]])
      <4>1. authFile[tool[c]] \in Configs \ Malformed /\ built[tool[c]] + 1 \in Nat
        BY <2>1, <3>2 DEF Usable
      <4>2. /\ cache' = [cache EXCEPT ![tool[c]] = authFile[tool[c]]]
            /\ auth' = [auth EXCEPT ![c] = authFile[tool[c]]]
            /\ built' = [built EXCEPT ![tool[c]] = built[tool[c]] + 1]
        BY <1>5, <3>2 DEF ReadAuth
      <4> QED
        BY <2>1, <4>1, <4>2
    <3> QED
      BY <3>1, <3>2
  <2> QED
    BY <1>5, <2>2 DEF ReadAuth
<1>6. ASSUME NEW c \in Callers, BuildFails(c) \/ SendFails(c) \/ Respond(c)
      PROVE  TypeOK' /\ ToolKnown'
  BY <1>6, AnswerType
<1>7. CASE EditAuth \/ Toggle \/ DeleteSpec
  <2>1. edits' \in 0 .. MaxEdits
    BY <1>7, BoundsAssumption DEF EditAuth, Toggle, DeleteSpec, Edit
  <2>2. missing' \in [Callers -> BOOLEAN]
    BY <1>7 DEF EditAuth, Toggle, DeleteSpec, Edit
  <2>3. authFile' \in [Specs -> Configs \cup {Absent}] /\ served' \subseteq Specs
        /\ deleted' \subseteq Specs
    BY <1>7 DEF EditAuth, Toggle, DeleteSpec
  <2>4. UNCHANGED <<cache, lock, pc, tool, auth, counters, built>>
    BY <1>7 DEF EditAuth, Toggle, DeleteSpec, Edit
  <2> QED
    BY <2>1, <2>2, <2>3, <2>4
<1>8. CASE RebuildWithout
  BY <1>8 DEF RebuildWithout
<1>9. CASE Terminated \/ UNCHANGED vars
  BY <1>9 DEF Terminated, vars
<1> QED
  BY <1>1, <1>2, <1>3, <1>4, <1>5, <1>6, <1>7, <1>8, <1>9 DEF Next, Step

\* The variables keep their types in every behaviour.
THEOREM TypeCorrect == Spec => []TypeOK
<1> QED
  BY TypeInit, TypeStep, PTL DEF Spec

-----------------------------------------------------------------------------
LEMMA InductiveInit == Init => IInv
BY TypeInit DEF Init, IInv, LockHeld, EntryMissing, BuiltCached, MissingNoticed,
                BareOnlyWithoutFile

LEMMA InductiveStep == IInv /\ [Next]_vars => IInv'
<1> SUFFICES ASSUME IInv, [Next]_vars
             PROVE  (LockHeld /\ EntryMissing /\ BuiltCached /\ MissingNoticed
                      /\ BareOnlyWithoutFile)'
  BY TypeStep DEF IInv
<1> DEFINE Rest == LockHeld /\ EntryMissing /\ BuiltCached /\ MissingNoticed
                     /\ BareOnlyWithoutFile
<1>0. /\ pc \in [Callers -> Steps] /\ tool \in [Callers -> Specs \cup {NoTool}]
      /\ auth \in [Callers -> (Configs \ Malformed) \cup {Absent}]
      /\ cache \in [Specs -> (Configs \ Malformed) \cup {Absent}]
      /\ built \in [Specs -> Nat] /\ missing \in [Callers -> BOOLEAN]
      /\ ToolKnown /\ Rest
  BY DEF IInv, TypeOK
<1> USE DEF Goto, world, lock, counters, LockHeld, EntryMissing, BuiltCached, MissingNoticed,
            BareOnlyWithoutFile
<1>1. ASSUME NEW c \in Callers, Find(c) PROVE Rest'
  <2>1. PICK s \in served :
          /\ tool' = [tool EXCEPT ![c] = s]
          /\ missing' = [missing EXCEPT ![c] = ~Usable(authFile[s])]
    BY <1>1 DEF Find
  <2>2. /\ pc' = [pc EXCEPT ![c] = "rlock"] /\ pc[c] = "idle"
        /\ UNCHANGED <<authFile, cache, writer, auth, built>>
    BY <1>1 DEF Find
  <2>3. (LockHeld /\ EntryMissing /\ BuiltCached)'
    BY <1>0, <2>1, <2>2
  <2>4. MissingNoticed'
    BY <1>0, <2>1, <2>2
  <2>5. BareOnlyWithoutFile'
    BY <1>0, <2>1, <2>2
  <2> QED
    BY <2>3, <2>4, <2>5
<1>2. ASSUME NEW c \in Callers, RLock(c) \/ Lock(c) PROVE Rest'
  BY <1>0, <1>2 DEF RLock, Lock
<1>3. ASSUME NEW c \in Callers, ClaimLock(c) PROVE Rest'
  BY <1>0, <1>3, NamesAssumption DEF ClaimLock
<1>4. ASSUME NEW c \in Callers, Look(c) PROVE Rest'
  BY <1>0, <1>4 DEF Look
<1>5. ASSUME NEW c \in Callers, Recheck(c) PROVE Rest'
  BY <1>0, <1>5 DEF Recheck
<1>6. ASSUME NEW c \in Callers, ReadAuth(c) PROVE Rest'
  <2>1. /\ tool[c] \in Specs /\ cache[tool[c]] = Absent /\ built[tool[c]] = 0
        /\ writer = c /\ pc[c] = "read_auth" /\ pc' = [pc EXCEPT ![c] = "build"]
        /\ UNCHANGED <<authFile, tool, missing>>
    BY <1>0, <1>6 DEF ReadAuth, ToolKnown
  <2>2. \A d \in Callers : d # c => pc'[d] \notin {"locking", "recheck", "read_auth"}
    BY <1>0, <2>1
  <2>3. CASE ~Usable(authFile[tool[c]])
    BY <1>0, <1>6, <2>1, <2>2, <2>3 DEF ReadAuth
  <2>4. CASE Usable(authFile[tool[c]])
    <3> DEFINE cfg == authFile[tool[c]]
    <3>1. cfg # Absent
      BY <2>4, ConfigsAssumption DEF Usable
    <3>2. /\ cache' = [cache EXCEPT ![tool[c]] = cfg]
          /\ auth' = [auth EXCEPT ![c] = cfg]
          /\ built' = [built EXCEPT ![tool[c]] = built[tool[c]] + 1]
      BY <1>6, <2>4 DEF ReadAuth
    <3>3. BuiltCached'
      BY <1>0, <2>1, <3>1, <3>2
    <3>4. (LockHeld /\ EntryMissing)'
      BY <1>0, <2>1, <2>2
    <3>5. (MissingNoticed /\ BareOnlyWithoutFile)'
      BY <1>0, <2>1, <3>1, <3>2
    <3> QED
      BY <3>3, <3>4, <3>5
  <2> QED
    BY <2>3, <2>4
<1>7. ASSUME NEW c \in Callers, Build(c) PROVE Rest'
  BY <1>0, <1>7 DEF Build
<1>8. ASSUME NEW c \in Callers, BuildFails(c) \/ SendFails(c) \/ Respond(c) PROVE Rest'
  <2>1. /\ pc' = [pc EXCEPT ![c] = "idle"]
        /\ tool' = [tool EXCEPT ![c] = NoTool]
        /\ auth' = [auth EXCEPT ![c] = Absent]
        /\ missing' = [missing EXCEPT ![c] = FALSE]
        /\ UNCHANGED <<authFile, cache, writer, built>>
        /\ pc[c] \in {"build", "send"}
    BY <1>8 DEF BuildFails, SendFails, Respond, Answer
  <2> QED
    BY <1>0, <2>1
<1>9. CASE EditAuth \/ Toggle \/ DeleteSpec
  <2>1. /\ UNCHANGED <<cache, writer, pc, tool, auth, built>>
        /\ missing' = [d \in Callers |->
                         missing[d] \/ (d \in InCall /\ ~Usable(authFile'[tool[d]]))]
    BY <1>9 DEF EditAuth, Toggle, DeleteSpec, Edit
  <2>2. \A d \in Callers : missing[d] => missing'[d]
    BY <2>1
  <2>3. MissingNoticed'
    BY <2>1 DEF InCall
  <2> QED
    BY <1>0, <2>1, <2>2, <2>3
<1>10. CASE RebuildWithout \/ Terminated \/ UNCHANGED vars
  BY <1>0, <1>10 DEF RebuildWithout, Terminated, vars
<1> QED
  BY <1>1, <1>2, <1>3, <1>4, <1>5, <1>6, <1>7, <1>8, <1>9, <1>10 DEF Next, Step

LEMMA Inductive == Spec => []IInv
<1> QED
  BY InductiveInit, InductiveStep, PTL DEF Spec

\* One authenticator per spec, however many first calls race.
THEOREM OneAuthenticatorPerSpec == Spec => []OneAuthenticator
<1>1. IInv => OneAuthenticator
  BY DEF IInv, BuiltCached, OneAuthenticator
<1> QED
  BY <1>1, Inductive, PTL

\* A call without credentials had no usable auth file at some time.
THEOREM CredentialsAreUsed == Spec => []BareOnlyWithoutFile
<1>1. IInv => BareOnlyWithoutFile
  BY DEF IInv
<1> QED
  BY <1>1, Inductive, PTL

-----------------------------------------------------------------------------
\* The calls that are open on a spec.
Open(s) == {c \in InCall : tool[c] = s}

LEMMA OpenFinite == \A s \in Specs : IsFiniteSet(Open(s)) /\ Cardinality(Open(s)) \in Nat
<1> SUFFICES ASSUME NEW s \in Specs
             PROVE  IsFiniteSet(Open(s)) /\ Cardinality(Open(s)) \in Nat
  OBVIOUS
<1>1. Open(s) \in SUBSET Callers
  BY DEF Open, InCall
<1> QED
  BY <1>1, CallersAssumption, FS_Subset, FS_CardinalityType

LEMMA CountedInit == Init => CountedOnce
<1> SUFFICES ASSUME Init, NEW s \in Specs
             PROVE  /\ stats[s].calls + Cardinality({c \in InCall : tool[c] = s}) = calls[s]
                    /\ metric[s] <= stats[s].calls
  BY DEF CountedOnce
<1>1. {c \in InCall : tool[c] = s} = {}
  BY DEF Init, InCall
<1>2. Cardinality({}) = 0
  BY FS_EmptySet
<1>3. stats[s].calls = 0 /\ calls[s] = 0 /\ metric[s] = 0
  BY DEF Init
<1> QED
  BY <1>1, <1>2, <1>3

\* A call that finds its tool is open from then on.
LEMMA CountedFind ==
  ASSUME TypeOK, CountedOnce, NEW c \in Callers, Find(c)
  PROVE  CountedOnce'
<1>1. PICK s \in served :
        calls' = [calls EXCEPT ![s] = calls[s] + 1] /\ tool' = [tool EXCEPT ![c] = s]
  BY DEF Find
<1>2. /\ pc[c] = "idle" /\ pc' = [pc EXCEPT ![c] = "rlock"] /\ UNCHANGED <<stats, metric>>
      /\ s \in Specs
  BY DEF Find, Goto, TypeOK
<1>3. c \notin Open(s) /\ Open(s)' = Open(s) \cup {c}
  BY <1>1, <1>2 DEF Open, InCall, TypeOK
<1>4. \A t \in Specs \ {s} : Open(t)' = Open(t)
  BY <1>1, <1>2 DEF Open, InCall, TypeOK
<1>5. Cardinality(Open(s)') = Cardinality(Open(s)) + 1 /\ Cardinality(Open(s)) \in Nat
  BY <1>2, <1>3, OpenFinite, FS_AddElement
<1>6. /\ calls'[s] = calls[s] + 1 /\ \A t \in Specs \ {s} : calls'[t] = calls[t]
      /\ stats[s].calls \in Nat /\ calls[s] \in Int
  BY <1>1, <1>2 DEF TypeOK
<1>7. \A t \in Specs : stats[t].calls + Cardinality(Open(t)) = calls[t] /\ metric[t] <= stats[t].calls
  BY DEF CountedOnce, Open
<1>8. stats[s].calls + Cardinality(Open(s)') = calls'[s]
  BY <1>2, <1>5, <1>6, <1>7
<1>9. \A t \in Specs : stats'[t].calls + Cardinality(Open(t)') = calls'[t] /\ metric'[t] <= stats'[t].calls
  BY <1>2, <1>4, <1>6, <1>7, <1>8
<1> QED
  BY <1>9 DEF CountedOnce, Open

\* A call that ends is counted.
LEMMA CountedAnswer ==
  ASSUME TypeOK, ToolKnown, CountedOnce, NEW c \in Callers, BuildFails(c) \/ SendFails(c) \/ Respond(c)
  PROVE  CountedOnce'
<1>1. /\ pc[c] # "idle" /\ pc' = [pc EXCEPT ![c] = "idle"] /\ tool' = [tool EXCEPT ![c] = NoTool]
      /\ calls' = calls
  BY DEF BuildFails, SendFails, Respond, Answer, Goto
<1>2. PICK s \in Specs : s = tool[c]
  BY <1>1, NamesAssumption DEF ToolKnown
<1>3. PICK e \in BOOLEAN : Count(s, e)
  BY <1>2 DEF BuildFails, SendFails, Respond
<1>4. metric' = metric \/ metric' = [metric EXCEPT ![s] = metric[s] + 1]
  BY <1>2 DEF BuildFails, SendFails, Respond
<1>5. /\ stats'[s].calls = stats[s].calls + 1
      /\ \A t \in Specs \ {s} : stats'[t] = stats[t]
      /\ \A t \in Specs : stats[t].calls \in Nat /\ metric[t] \in Nat
  BY <1>2, <1>3 DEF Count, TypeOK
<1>6. tool[c] = s
  BY <1>2
<1>7. c \in Open(s) /\ Open(s)' = Open(s) \ {c} /\ \A t \in Specs \ {s} : Open(t)' = Open(t)
  <2>1. /\ tool'[c] = NoTool /\ \A d \in Callers \ {c} : tool'[d] = tool[d] /\ pc'[d] = pc[d]
        /\ pc'[c] = "idle"
    BY <1>1 DEF TypeOK
  <2>2. InCall' = InCall \ {c} /\ c \in InCall /\ InCall \subseteq Callers
    BY <1>1, <2>1 DEF InCall
  <2>3. NoTool \notin Specs
    BY NamesAssumption
  <2> HIDE DEF InCall
  <2>4. c \in Open(s)
    BY <1>6, <2>2 DEF Open
  <2>5. Open(s)' = {d \in InCall' : tool'[d] = s}
    BY DEF Open
  <2>6. Open(s)' = Open(s) \ {c}
    <3>1. \A d : d \in Open(s)' <=> (d \in Open(s) /\ d # c)
      BY <1>2, <2>1, <2>2, <2>3, <2>5 DEF Open
    <3> QED
      BY <3>1
  <2>7. ASSUME NEW t \in Specs \ {s} PROVE Open(t)' = Open(t)
    <3>1. Open(t)' = {d \in InCall' : tool'[d] = t}
      BY DEF Open
    <3>2. \A d : d \in Open(t)' <=> d \in Open(t)
      BY <1>6, <2>1, <2>2, <2>3, <2>7, <3>1 DEF Open
    <3> QED
      BY <3>2
  <2> QED
    BY <2>4, <2>6, <2>7
<1>8. Cardinality(Open(s)') = Cardinality(Open(s)) - 1 /\ Cardinality(Open(s)) \in Nat
  BY <1>2, <1>7, OpenFinite, FS_RemoveElement
<1>9. \A t \in Specs : stats[t].calls + Cardinality(Open(t)) = calls[t] /\ metric[t] <= stats[t].calls
  BY DEF CountedOnce, Open
<1>10. stats'[s].calls + Cardinality(Open(s)') = calls'[s]
  BY <1>1, <1>2, <1>5, <1>8, <1>9
<1>11. metric'[s] <= stats'[s].calls /\ \A t \in Specs \ {s} : metric'[t] = metric[t]
  <2>1. metric \in [Specs -> Nat]
    BY DEF TypeOK
  <2>2. metric'[s] \in {metric[s], metric[s] + 1} /\ \A t \in Specs \ {s} : metric'[t] = metric[t]
    BY <1>2, <1>4, <2>1
  <2> QED
    BY <1>2, <1>5, <1>9, <2>1, <2>2
<1>12. \A t \in Specs : stats'[t].calls + Cardinality(Open(t)') = calls'[t] /\ metric'[t] <= stats'[t].calls
  <2> SUFFICES ASSUME NEW t \in Specs
               PROVE  stats'[t].calls + Cardinality(Open(t)') = calls'[t] /\ metric'[t] <= stats'[t].calls
    OBVIOUS
  <2>1. CASE t = s
    BY <1>10, <1>11, <2>1
  <2>2. CASE t # s
    <3>1. stats'[t] = stats[t] /\ metric'[t] = metric[t] /\ Open(t)' = Open(t) /\ calls' = calls
      BY <1>1, <1>5, <1>7, <1>11, <2>2
    <3> QED
      BY <1>9, <3>1
  <2> QED
    BY <2>1, <2>2
<1> QED
  BY <1>12 DEF CountedOnce, Open

\* Steps that neither begin nor end a call.
LEMMA CountedSame ==
  ASSUME TypeOK, CountedOnce, UNCHANGED <<counters, tool>>, InCall' = InCall
  PROVE  CountedOnce'
  BY DEF CountedOnce, counters

\* Every call is counted once (handleToolsCall in mcp/handlers.go).
THEOREM CallsCounted == Spec => []CountedOnce
<1>1. ASSUME TypeOK, ToolKnown, CountedOnce, [Next]_vars PROVE CountedOnce'
  <2>1. ASSUME NEW c \in Callers, RLock(c) \/ ClaimLock(c) \/ Look(c) \/ Lock(c) \/ Recheck(c)
                                   \/ ReadAuth(c) \/ Build(c)
        PROVE  CountedOnce'
    <3>1. UNCHANGED <<counters, tool>>
      BY <2>1 DEF RLock, ClaimLock, Look, Lock, Recheck, ReadAuth, Build
    <3>2. pc[c] # "idle" /\ pc'[c] # "idle" /\ \A d \in Callers \ {c} : pc'[d] = pc[d]
      BY <1>1, <2>1 DEF TypeOK, Goto, RLock, ClaimLock, Look, Lock, Recheck, ReadAuth, Build
    <3> QED
      BY <1>1, <3>1, <3>2, CountedSame DEF InCall
  <2>2. CASE EditAuth \/ Toggle \/ DeleteSpec \/ RebuildWithout \/ Terminated \/ UNCHANGED vars
    <3>1. UNCHANGED <<counters, tool, pc>>
      BY <2>2 DEF EditAuth, Toggle, DeleteSpec, Edit, RebuildWithout, Terminated, vars, counters
    <3> QED
      BY <1>1, <3>1, CountedSame DEF InCall
  <2> QED
    BY <1>1, <2>1, <2>2, CountedFind, CountedAnswer DEF Next, Step
<1>2. IInv => TypeOK /\ ToolKnown
  BY DEF IInv
<1> QED
  BY <1>1, <1>2, CountedInit, Inductive, PTL DEF Spec

=============================================================================
