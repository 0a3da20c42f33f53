------------------------------ MODULE SSEProofs ------------------------------
(***************************************************************************)
(* Proofs about the two components of an SSE connection, SSESession for    *)
(* any sessions, requests and capacity, and Registry for any connections,  *)
(* rebuilders and number of rebuilds.                                      *)
(*                                                                         *)
(* SSESession: the inductive invariant adds to the type invariant what the *)
(* order of the deferred calls establishes (TeardownOrder) and that a      *)
(* parked sender never waits on a session that has ended (ParkedIsOpen).   *)
(*                                                                         *)
(* Registry: the inductive invariant says what the slots will hold when    *)
(* the move that Unsubscribe has under way is over (ListedOnce), and that  *)
(* the loop that is to bring the news reads a slot which the move does not *)
(* touch any more (NewsIsSafe).                                            *)
(***************************************************************************)
EXTENDS SSESession, Registry, SequenceTheorems, FiniteSetTheorems, TLAPS

\* Where HandleSSE is determines what it has done to the session: the map
\* entry goes first, then the context, then the channel.
TeardownOrder ==
  \A s \in Sessions :
    /\ s \in registered <=> phase[s] \in {"stored", "counted", "loop", "returned"}
    /\ phase[s] \in {"cancelled", "closed", "done"} => ctxDone[s]
    /\ closed[s] <=> phase[s] \in {"closed", "done"}
    /\ ctxDone[s] => reqDone[s]
    /\ phase[s] \in Closing \cup {"done"} => reqDone[s]

\* The done case wakes every parked sender, and nobody parks afterwards.
ParkedIsOpen ==
  \A m \in Requests : at[m] = "parked" => ~ctxDone[sess[m]]

IInv == TypeOK /\ TeardownOrder /\ ParkedIsOpen

-----------------------------------------------------------------------------
\* The channel keeps the order and the members of its buffer: the elements of
\* a queue after a receive, and after a send.
LEMMA QueueElements ==
  ASSUME NEW S, NEW q \in Seq(S), NEW e \in S
  PROVE  /\ Append(q, e) \in Seq(S)
         /\ Len(Append(q, e)) = Len(q) + 1
         /\ \A i \in 1 .. Len(q) : Append(q, e)[i] = q[i]
         /\ Append(q, e)[Len(q) + 1] = e
         /\ q # <<>> => /\ Head(q) \in S
                        /\ Head(q) = q[1]
                        /\ Len(q) > 0
                        /\ Tail(q) \in Seq(S)
                        /\ Len(Tail(q)) = Len(q) - 1
                        /\ \A i \in 1 .. Len(q) - 1 : Tail(q)[i] = q[i + 1]
OBVIOUS

\* An event of a session answers the senders parked on it and no others.
LEMMA Waking ==
  ASSUME NEW s \in Sessions, NEW answer, NEW m \in Requests
  PROVE  WakeAll(s, answer)[m] =
           IF at[m] = "parked" /\ sess[m] = s THEN answer ELSE at[m]
  BY DEF WakeAll, ParkedAt

\* The type invariant is inductive by itself (with the capacity's bound on
\* outCh, which the receive by a parked sender keeps).
LEMMA TypeInit == Init => TypeOK
  BY CapacityAssumption DEF Init, TypeOK, Phases, Opening, Places

LEMMA TypeStep == TypeOK /\ [Next]_vars => TypeOK'
<1> SUFFICES ASSUME TypeOK, [Next]_vars PROVE TypeOK'
  OBVIOUS
<1> USE DEF TypeOK
<1>1. ASSUME NEW s \in Sessions, SessionStep(s) PROVE TypeOK'
  <2>1. CASE StoreSession(s)
    BY <2>1 DEF StoreSession, Goto, Phases, Opening
  <2>2. CASE CountSession(s)
    BY <2>2 DEF CountSession, Goto, Phases, Opening
  <2>3. CASE AnnounceEndpoint(s)
    BY <2>3 DEF AnnounceEndpoint, Goto, Phases
  <2>4. CASE TakeResponse(s)
    <3>1. /\ Head(outCh[s]) \in Requests
          /\ Tail(outCh[s]) \in Seq(Requests)
          /\ Len(Tail(outCh[s])) = Len(outCh[s]) - 1
      BY <2>4, QueueElements DEF TakeResponse
    <3>2. ASSUME outCh' = [outCh EXCEPT ![s] = Tail(@)], at' = at
          PROVE  TypeOK'
      <4>1. Len(outCh'[s]) <= Capacity
        BY <3>1, <3>2, CapacityAssumption
      <4> QED
        BY <2>4, <3>1, <3>2, <4>1 DEF TakeResponse
    <3>3. ASSUME NEW m \in ParkedAt(s),
                 outCh' = [outCh EXCEPT ![s] = Append(Tail(@), m)],
                 at' = [at EXCEPT ![m] = "accepted"]
          PROVE  TypeOK'
      <4>1. m \in Requests
        BY DEF ParkedAt
      <4>2. /\ Append(Tail(outCh[s]), m) \in Seq(Requests)
            /\ Len(Append(Tail(outCh[s]), m)) = Len(outCh[s])
        BY <3>1, <4>1, QueueElements
      <4> QED
        BY <2>4, <3>1, <3>3, <4>1, <4>2 DEF TakeResponse, Places, Answers
    <3> QED
      BY <2>4, <3>2, <3>3 DEF TakeResponse
  <2>5. CASE StartBeat(s)
    BY <2>5 DEF StartBeat
  <2>6. CASE FinishWrite(s)
    BY <2>6 DEF FinishWrite
  <2>7. CASE Disconnect(s)
    BY <2>7 DEF Disconnect
  <2>8. CASE PropagateCancel(s)
    BY <2>8 DEF PropagateCancel, WakeAll, ParkedAt, Places, Answers
  <2>9. CASE ReturnFromLoop(s)
    BY <2>9 DEF ReturnFromLoop, Goto, Phases, Closing
  <2>10. CASE DeleteSession(s)
    BY <2>10 DEF DeleteSession, Goto, Phases, Closing
  <2>11. CASE UncountSession(s)
    BY <2>11 DEF UncountSession, Goto, Phases, Closing
  <2>12. CASE Cancel(s)
    BY <2>12 DEF Cancel, Goto, Phases, Closing, WakeAll, ParkedAt, Places, Answers
  <2>13. CASE CloseOutCh(s)
    BY <2>13 DEF CloseOutCh, Goto, Phases, Closing, WakeAll, ParkedAt, Places, Answers
  <2>14. CASE Drain(s)
    BY <2>14, CapacityAssumption DEF Drain, Goto, Phases
  <2> QED
    BY <1>1, <2>1, <2>2, <2>3, <2>4, <2>5, <2>6, <2>7, <2>8, <2>9, <2>10, <2>11,
       <2>12, <2>13, <2>14 DEF SessionStep
<1>2. ASSUME NEW m \in Requests, RequestStep(m) PROVE TypeOK'
  <2>1. CASE SelectSend(m)
    <3>1. /\ Append(outCh[sess[m]], m) \in Seq(Requests)
          /\ Len(Append(outCh[sess[m]], m)) = Len(outCh[sess[m]]) + 1
      BY QueueElements
    <3> QED
      BY <2>1, <3>1, CapacityAssumption
         DEF SelectSend, Move, HasRoom, streamVars, Places, Answers
  <2>2. CASE LookUp(m) \/ Decode(m) \/ Handle(m) \/ SelectDone(m) \/ SelectClosed(m)
             \/ Park(m) \/ Timeout(m)
    BY <2>2 DEF LookUp, Decode, Handle, SelectDone, SelectClosed, Park, Timeout, Move,
                streamVars, Places, Answers
  <2> QED
    BY <1>2, <2>1, <2>2 DEF RequestStep
<1>3. CASE UNCHANGED vars
  BY <1>3 DEF vars
<1> QED
  BY <1>1, <1>2, <1>3 DEF Next, Terminated

\* The variables of the model keep their types in every behaviour.
THEOREM TypeCorrect == Spec => []TypeOK
<1> QED
  BY TypeInit, TypeStep, PTL DEF Spec

-----------------------------------------------------------------------------
LEMMA InductiveInit == Init => IInv
  BY TypeInit DEF Init, IInv, TeardownOrder, ParkedIsOpen, Closing

LEMMA InductiveStep == IInv /\ [Next]_vars => IInv'
<1> SUFFICES ASSUME IInv, [Next]_vars PROVE IInv'
  OBVIOUS
<1>0. TypeOK'
  BY TypeStep DEF IInv
<1>1. ASSUME NEW s \in Sessions, SessionStep(s)
      PROVE  TeardownOrder' /\ ParkedIsOpen'
  <2> USE DEF IInv, TypeOK, TeardownOrder, ParkedIsOpen
  <2>1. CASE StoreSession(s)
    BY <2>1 DEF StoreSession, Goto, Closing
  <2>2. CASE CountSession(s)
    BY <2>2 DEF CountSession, Goto, Closing
  <2>3. CASE AnnounceEndpoint(s)
    BY <2>3 DEF AnnounceEndpoint, Goto, Closing
  <2>4. CASE TakeResponse(s)
    BY <2>4 DEF TakeResponse, ParkedAt
  <2>5. CASE StartBeat(s) \/ FinishWrite(s)
    BY <2>5 DEF StartBeat, FinishWrite
  <2>6. CASE Disconnect(s)
    BY <2>6 DEF Disconnect
  <2>7. CASE PropagateCancel(s)
    <3>1. TeardownOrder'
      BY <2>7 DEF PropagateCancel
    <3>2. \A m \in Requests : at'[m] = "parked" => at[m] = "parked" /\ sess[m] # s
      BY <2>7, Waking DEF PropagateCancel
    <3> QED
      BY <2>7, <3>1, <3>2 DEF PropagateCancel
  <2>8. CASE ReturnFromLoop(s)
    BY <2>8 DEF ReturnFromLoop, Goto, Closing
  <2>9. CASE DeleteSession(s)
    BY <2>9 DEF DeleteSession, Goto, Closing
  <2>10. CASE UncountSession(s)
    BY <2>10 DEF UncountSession, Goto, Closing
  <2>11. CASE Cancel(s)
    <3>1. TeardownOrder'
      BY <2>11 DEF Cancel, Goto, Closing
    <3>2. \A m \in Requests : at'[m] = "parked" => at[m] = "parked" /\ sess[m] # s
      BY <2>11, Waking DEF Cancel
    <3> QED
      BY <2>11, <3>1, <3>2 DEF Cancel
  <2>12. CASE CloseOutCh(s)
    <3>1. TeardownOrder'
      BY <2>12 DEF CloseOutCh, Goto, Closing
    <3>2. \A m \in Requests : at'[m] = "parked" => at[m] = "parked"
      BY <2>12, Waking DEF CloseOutCh
    <3> QED
      BY <2>12, <3>1, <3>2 DEF CloseOutCh
  <2>13. CASE Drain(s)
    BY <2>13 DEF Drain, Goto, Closing
  <2> QED
    BY <1>1, <2>1, <2>2, <2>3, <2>4, <2>5, <2>6, <2>7, <2>8, <2>9, <2>10,
       <2>11, <2>12, <2>13 DEF SessionStep
<1>2. ASSUME NEW m \in Requests, RequestStep(m)
      PROVE  TeardownOrder' /\ ParkedIsOpen'
  BY <1>2 DEF IInv, TypeOK, TeardownOrder, ParkedIsOpen, RequestStep, LookUp, Decode, Handle,
              SelectSend, SelectDone, SelectClosed, Park, Timeout, Move, streamVars
<1>3. ASSUME UNCHANGED vars PROVE TeardownOrder' /\ ParkedIsOpen'
  BY <1>3 DEF IInv, TeardownOrder, ParkedIsOpen, vars
<1>4. ASSUME Terminated PROVE TeardownOrder' /\ ParkedIsOpen'
  BY <1>3, <1>4 DEF Terminated
<1>5. TeardownOrder' /\ ParkedIsOpen'
  BY <1>1, <1>2, <1>3, <1>4 DEF Next
<1> QED
  BY <1>0, <1>5 DEF IInv

LEMMA Inductive == Spec => []IInv
<1> QED
  BY InductiveInit, InductiveStep, PTL DEF Spec

\* A session in the map never has a closed channel, for any number of sessions
\* and requests.
THEOREM RegisteredStaysOpen == Spec => []RegisteredIsOpen
<1>1. IInv => RegisteredIsOpen
  BY DEF IInv, TypeOK, TeardownOrder, RegisteredIsOpen
<1> QED
  BY <1>1, Inductive, PTL

\* No step makes a sender that is parked on the channel panic: the only step
\* that could is close(outCh), and by then the context has woken them all.
THEOREM TeardownFreesParked == Spec => ParkedNeverAborted
<1>1. ASSUME IInv, [Next]_vars
      PROVE  [\A m \in Requests : at[m] = "parked" => at'[m] # "aborted"]_vars
  <2> SUFFICES ASSUME NEW m \in Requests, at[m] = "parked", Next
               PROVE  at'[m] # "aborted"
    BY <1>1
  <2> USE <1>1 DEF IInv, TypeOK
  <2>1. ASSUME NEW s \in Sessions, SessionStep(s) PROVE at'[m] # "aborted"
    <3>1. CASE CloseOutCh(s)
      <4>1. ctxDone[s]
        BY <3>1 DEF CloseOutCh, Goto, TeardownOrder
      <4>2. m \notin ParkedAt(s)
        BY <4>1 DEF ParkedAt, ParkedIsOpen
      <4> QED
        BY <3>1, <4>2 DEF CloseOutCh, WakeAll
    <3>2. CASE TakeResponse(s)
      BY <3>2 DEF TakeResponse, ParkedAt
    <3>3. CASE PropagateCancel(s) \/ Cancel(s)
      BY <3>3 DEF PropagateCancel, Cancel, WakeAll, ParkedAt
    <3> QED
      BY <2>1, <3>1, <3>2, <3>3
         DEF SessionStep, StoreSession, CountSession, AnnounceEndpoint, StartBeat,
             FinishWrite, Disconnect, ReturnFromLoop, DeleteSession, UncountSession, Drain
  <2>2. ASSUME NEW n \in Requests, RequestStep(n) PROVE at'[m] # "aborted"
    BY <2>2 DEF RequestStep, LookUp, Decode, Handle, SelectSend, SelectDone, SelectClosed,
                Park, Timeout, Move
  <2> QED
    BY <2>1, <2>2 DEF Next, Terminated, vars
<1> QED
  BY <1>1, Inductive, PTL DEF Spec, ParkedNeverAborted

-----------------------------------------------------------------------------
LEMMA KeptInit == Init => AcceptedIsKept
  BY DEF Init, AcceptedIsKept

LEMMA KeptStep == IInv /\ AcceptedIsKept /\ [Next]_vars => AcceptedIsKept'
<1> SUFFICES ASSUME IInv, AcceptedIsKept, [Next]_vars,
                    NEW m \in Requests, at'[m] = "accepted", ~reqDone'[sess'[m]]
             PROVE  \/ m \in Queued(sess[m])'
                    \/ writing'[sess'[m]] = m
                    \/ m \in delivered'
  BY DEF AcceptedIsKept
<1> DEFINE Kept == m \in Queued(sess[m]) \/ writing[sess[m]] = m \/ m \in delivered
<1> USE DEF IInv, TypeOK
<1>0. sess' = sess
  BY DEF Next, SessionStep, RequestStep, Terminated, vars, streamVars, StoreSession,
         CountSession, AnnounceEndpoint, TakeResponse, StartBeat, FinishWrite,
         Disconnect, PropagateCancel, ReturnFromLoop, DeleteSession, UncountSession,
         Cancel, CloseOutCh, Drain, LookUp, Decode, Handle, SelectSend, SelectDone,
         SelectClosed, Park, Timeout
<1>1. at[m] = "accepted" /\ ~reqDone[sess[m]] => Kept
  BY DEF AcceptedIsKept
<1>2. ASSUME NEW s \in Sessions, TakeResponse(s) PROVE Kept'
  <2> DEFINE q == outCh[s]
  <2>1. /\ Head(q) = q[1]
        /\ Tail(q) \in Seq(Requests)
        /\ Len(Tail(q)) = Len(q) - 1
        /\ \A i \in 1 .. Len(q) - 1 : Tail(q)[i] = q[i + 1]
        /\ Head(q) \in Requests
    BY <1>2, QueueElements DEF TakeResponse
  <2>2. PICK rest \in Seq(Requests) :
          /\ outCh' = [outCh EXCEPT ![s] = rest]
          /\ \A i \in 1 .. Len(q) - 1 : i \in 1 .. Len(rest) /\ rest[i] = q[i + 1]
          /\ \/ at' = at
             \/ \E n \in ParkedAt(s) :
                  /\ at' = [at EXCEPT ![n] = "accepted"]
                  /\ rest[Len(q)] = n
                  /\ Len(rest) = Len(q)
    <3>1. CASE outCh' = [outCh EXCEPT ![s] = Tail(@)] /\ at' = at
      BY <2>1, <3>1
    <3>2. ASSUME NEW n \in ParkedAt(s),
                 outCh' = [outCh EXCEPT ![s] = Append(Tail(@), n)],
                 at' = [at EXCEPT ![n] = "accepted"]
          PROVE  \E rest \in Seq(Requests) :
                   /\ outCh' = [outCh EXCEPT ![s] = rest]
                   /\ \A i \in 1 .. Len(q) - 1 : i \in 1 .. Len(rest) /\ rest[i] = q[i + 1]
                   /\ \E k \in ParkedAt(s) :
                        /\ at' = [at EXCEPT ![k] = "accepted"]
                        /\ rest[Len(q)] = k
                        /\ Len(rest) = Len(q)
      <4> DEFINE rest == Append(Tail(q), n)
      <4>1. n \in Requests
        BY DEF ParkedAt
      <4>2. /\ rest \in Seq(Requests)
            /\ Len(rest) = Len(q)
            /\ rest[Len(q)] = n
            /\ \A i \in 1 .. Len(q) - 1 : rest[i] = q[i + 1]
        <5>1. Len(q) \in Nat
          OBVIOUS
        <5> QED
          BY <2>1, <4>1, <5>1, QueueElements
      <4>3. outCh' = [outCh EXCEPT ![s] = rest]
        BY <3>2
      <4>4. \A i \in 1 .. Len(q) - 1 : i \in 1 .. Len(rest) /\ rest[i] = q[i + 1]
        BY <4>2
      <4> HIDE DEF rest, q
      <4> USE <4>2
      <4> WITNESS rest \in Seq(Requests)
      <4> QED
        BY <3>2, <4>2, <4>3, <4>4
    <3> QED
      BY <1>2, <3>1, <3>2 DEF TakeResponse
  <2>3. writing[s] = None /\ writing' = [writing EXCEPT ![s] = q[1]]
        /\ delivered' = delivered /\ reqDone' = reqDone /\ q # <<>>
    BY <1>2, <2>1 DEF TakeResponse
  <2>4. CASE sess[m] # s
    <3>1. at[m] = "accepted"
      BY <2>2, <2>4 DEF ParkedAt
    <3>2. Kept
      BY <1>0, <1>1, <2>3, <3>1
    <3> QED
      BY <1>0, <2>2, <2>3, <2>4, <3>2 DEF Queued
  <2>5. CASE sess[m] = s /\ at[m] = "accepted"
    <3>1. m \in Queued(s) \/ m \in delivered
      BY <1>0, <1>1, <2>3, <2>5, NoneAssumption
    <3>2. CASE m \in Queued(s)
      <4>1. PICK i \in 1 .. Len(q) : q[i] = m
        BY <3>2 DEF Queued
      <4>2. CASE i = 1
        BY <1>0, <2>3, <2>5, <4>1, <4>2
      <4>3. CASE i # 1
        <5>1. i - 1 \in 1 .. Len(q) - 1 /\ (i - 1) + 1 = i
          BY <4>3
        <5>2. i - 1 \in 1 .. Len(outCh'[s]) /\ outCh'[s][i - 1] = m
          BY <2>2, <4>1, <5>1
        <5> QED
          BY <1>0, <2>5, <5>2 DEF Queued
      <4> QED
        BY <4>2, <4>3
    <3> QED
      BY <2>3, <3>1, <3>2
  <2>6. CASE sess[m] = s /\ at[m] # "accepted"
    <3>1. outCh'[s][Len(q)] = m /\ Len(outCh'[s]) = Len(q) /\ Len(q) \in 1 .. Len(q)
      BY <2>2, <2>3, <2>6, QueueElements DEF ParkedAt
    <3> QED
      BY <1>0, <2>6, <3>1 DEF Queued
  <2> QED
    BY <2>4, <2>5, <2>6
<1>3. ASSUME NEW n \in Requests, SelectSend(n) PROVE Kept'
  <2> DEFINE q == outCh[sess[n]]
  <2>1. /\ Len(Append(q, n)) = Len(q) + 1
        /\ \A i \in 1 .. Len(q) : Append(q, n)[i] = q[i]
        /\ Append(q, n)[Len(q) + 1] = n
    BY QueueElements
  <2>2. outCh' = [outCh EXCEPT ![sess[n]] = Append(q, n)]
        /\ at' = [at EXCEPT ![n] = "accepted"]
        /\ writing' = writing /\ delivered' = delivered /\ reqDone' = reqDone
    BY <1>3 DEF SelectSend, Move, streamVars
  <2>3. CASE m = n
    <3>1. Len(q) + 1 \in 1 .. Len(outCh'[sess[n]]) /\ outCh'[sess[n]][Len(q) + 1] = n
      BY <2>1, <2>2
    <3> QED
      BY <1>0, <2>3, <3>1 DEF Queued
  <2>4. CASE m # n
    <3>1. Kept
      BY <1>0, <1>1, <2>2, <2>4
    <3>2. \A i \in 1 .. Len(outCh[sess[m]]) :
             i \in 1 .. Len(outCh'[sess[m]]) /\ outCh'[sess[m]][i] = outCh[sess[m]][i]
      BY <2>1, <2>2
    <3> QED
      BY <1>0, <2>2, <3>1, <3>2 DEF Queued
  <2> QED
    BY <2>3, <2>4
<1>4. ASSUME NEW s \in Sessions, FinishWrite(s) PROVE Kept'
  <2>1. Kept
    BY <1>0, <1>1, <1>4 DEF FinishWrite
  <2> QED
    BY <1>0, <1>4, <2>1, NoneAssumption DEF FinishWrite, Queued
<1>5. ASSUME NEW s \in Sessions, Drain(s) PROVE Kept'
  <2>1. Kept
    BY <1>0, <1>1, <1>5 DEF Drain
  <2>2. reqDone[s] /\ reqDone' = reqDone
    BY <1>5 DEF Drain, Goto, TeardownOrder, Closing
  <2>3. sess[m] # s
    BY <1>0, <2>2
  <2> QED
    BY <1>0, <1>5, <2>1, <2>3 DEF Drain, Queued
<1>6. ASSUME NEW s \in Sessions, StartBeat(s) PROVE Kept'
  BY <1>0, <1>1, <1>6, NoneAssumption DEF StartBeat, Queued
<1>7. ASSUME UNCHANGED <<outCh, writing, delivered>>,
             at[m] = "accepted", ~reqDone[sess[m]]
      PROVE  Kept'
  BY <1>0, <1>1, <1>7 DEF Queued
<1>8. ASSUME NEW s \in Sessions,
             \/ StoreSession(s) \/ CountSession(s) \/ AnnounceEndpoint(s)
             \/ Disconnect(s) \/ ReturnFromLoop(s) \/ DeleteSession(s)
             \/ UncountSession(s)
      PROVE  Kept'
  BY <1>0, <1>7, <1>8 DEF StoreSession, CountSession, AnnounceEndpoint, Disconnect,
                          ReturnFromLoop, DeleteSession, UncountSession
<1>9. ASSUME NEW s \in Sessions, PropagateCancel(s) \/ Cancel(s) \/ CloseOutCh(s)
      PROVE  Kept'
  <2>1. at[m] = "accepted"
    BY <1>9, Waking DEF PropagateCancel, Cancel, CloseOutCh
  <2> QED
    BY <1>0, <1>7, <1>9, <2>1 DEF PropagateCancel, Cancel, CloseOutCh
<1>10. ASSUME NEW n \in Requests,
              \/ LookUp(n) \/ Decode(n) \/ Handle(n) \/ SelectDone(n) \/ SelectClosed(n)
              \/ Park(n) \/ Timeout(n)
       PROVE  Kept'
  BY <1>0, <1>7, <1>10 DEF LookUp, Decode, Handle, SelectDone, SelectClosed, Park, Timeout,
                           Move, streamVars
<1>11. CASE UNCHANGED vars
  BY <1>7, <1>11 DEF vars
<1>12. Kept'
  BY <1>2, <1>3, <1>4, <1>5, <1>6, <1>8, <1>9, <1>10, <1>11
     DEF Next, SessionStep, RequestStep, Terminated
<1> QED
  BY <1>0, <1>12

\* As long as its client stays connected, a session loses no response that
\* HandleMessage has reported as accepted, for any capacity of the channel.
THEOREM NoAcceptedResponseLost == Spec => []AcceptedIsKept
<1> QED
  BY KeptInit, KeptStep, Inductive, PTL DEF Spec

-----------------------------------------------------------------------------
(* The change feed. *)

\* Every header lies within its array: no step indexes a slot that does not
\* exist, whichever array the loops still read.
SlicesFit ==
  /\ subscribers.len <= CapOf(subscribers)
  /\ \A r \in Rebuilders : notifying[r].slice.len <= CapOf(notifying[r].slice)

\* What the lock protects while Unsubscribe moves the tail.
MoveIsBounded ==
  /\ mu = NoSession => todo = {}
  /\ mu # NoSession => /\ conn[mu] = "leaving"
                       /\ subscribers.len > 0
                       /\ subscribers.len - 1 <= Len(shifted)
                       /\ todo \subseteq 1 .. subscribers.len - 1

\* The slots that matter, what each will hold once the move is over, and whose
\* channels these are.
Held == 1 .. IF mu = NoSession THEN subscribers.len ELSE subscribers.len - 1
Content(i) == IF i \in todo THEN shifted[i] ELSE Elem(subscribers, i)
Listed == Subscribed \ {mu}

ListedOnce ==
  /\ subscribers.len = Cardinality(Subscribed)
  /\ \A i \in Held : Content(i) \in Listed
  /\ \A s \in Listed : \E i \in Held : Content(i) = s
  /\ \A i, j \in Held : Content(i) = Content(j) => i = j

\* Slot i of array a keeps its value until a loop has read it: it belongs to an
\* older array, or the move under way has nothing more to store there.
Settled(a, i) == a = subscribers.arr => i \in Held \ todo

\* Slot i of the array of r's loop will bring s the news.
WillBring(r, i, s) ==
  /\ WillRead(r, notifying[r].slice.arr, i)
  /\ Elem(notifying[r].slice, i) = s
  /\ Settled(notifying[r].slice.arr, i)

NewsIsSafe ==
  \A s \in Connections \ disturbed : Behind(s) =>
    \/ Sent(s)
    \/ \E r \in Rebuilders : \E i \in 1 .. notifying[r].slice.len : WillBring(r, i, s)

FeedInv == FeedTypeOK /\ SlicesFit /\ MoveIsBounded /\ ListedOnce /\ NewsIsSafe

-----------------------------------------------------------------------------
(* Arrays and slices. *)

\* There are never more subscribers than connections.
LEMMA Counting ==
  ASSUME NEW S \in SUBSET Connections
  PROVE  /\ IsFiniteSet(S)
         /\ Cardinality(S) \in Nat
         /\ Cardinality(Connections) \in Nat
         /\ Cardinality(S) <= Cardinality(Connections)
  BY ConnectionsAssumption, FS_Subset, FS_CardinalityType

\* A store to one slot of one array keeps every other slot and every length.
LEMMA StoreInArray ==
  ASSUME NEW T, NEW h \in Seq(Seq(T)), NEW a \in 1 .. Len(h), NEW i \in 1 .. Len(h[a]),
         NEW v \in T, NEW h2, h2 = [h EXCEPT ![a][i] = v]
  PROVE  /\ h2 \in Seq(Seq(T))
         /\ Len(h2) = Len(h)
         /\ \A b \in 1 .. Len(h) : Len(h2[b]) = Len(h[b])
         /\ \A b \in 1 .. Len(h) : \A j \in 1 .. Len(h[b]) :
              h2[b][j] = IF b = a /\ j = i THEN v ELSE h[b][j]
<1> DEFINE row == [h[a] EXCEPT ![i] = v]
<1>1. h[a] \in Seq(T)
  BY ElementOfSeq
<1>2. /\ row \in Seq(T)
      /\ Len(row) = Len(h[a])
      /\ \A j \in 1 .. Len(h[a]) : row[j] = IF j = i THEN v ELSE h[a][j]
  BY <1>1, ExceptSeq
<1>3. h2 = [h EXCEPT ![a] = row]
  OBVIOUS
<1> HIDE DEF row
<1>4. /\ h2 \in Seq(Seq(T))
      /\ Len(h2) = Len(h)
      /\ \A b \in 1 .. Len(h) : h2[b] = IF b = a THEN row ELSE h[b]
  <2>1. /\ [h EXCEPT ![a] = row] \in Seq(Seq(T))
        /\ Len([h EXCEPT ![a] = row]) = Len(h)
        /\ \A b \in 1 .. Len(h) : [h EXCEPT ![a] = row][b] = IF b = a THEN row ELSE h[b]
    BY <1>2, ExceptSeq
  <2> QED
    BY <2>1, <1>3
<1> QED
  BY <1>2, <1>4

\* A slot of a header that lies within its array is a slot of that array.
LEMMA SlotOfSlice ==
  ASSUME heap \in Seq(Seq(Slots)), NEW slice \in SliceType, slice.len <= CapOf(slice),
         NEW i \in 1 .. slice.len
  PROVE  /\ slice.arr \in 1 .. Len(heap)
         /\ heap[slice.arr] \in Seq(Slots)
         /\ i \in 1 .. Len(heap[slice.arr])
         /\ Elem(slice, i) \in Slots
<1>1. Cardinality(Connections) \in Nat
  BY Counting
<1>2. slice.arr \in 0 .. Len(heap) /\ slice.len \in Nat
  BY <1>1 DEF SliceType
<1>3. slice.arr # 0 /\ slice.len <= Len(heap[slice.arr])
  BY <1>2 DEF CapOf
<1>4. slice.arr \in 1 .. Len(heap)
  BY <1>2, <1>3
<1>5. heap[slice.arr] \in Seq(Slots)
  BY <1>4, ElementOfSeq
<1>6. i \in 1 .. Len(heap[slice.arr])
  BY <1>2, <1>3, <1>5
<1> QED
  BY <1>4, <1>5, <1>6, ElementOfSeq DEF Elem

\* The types of the parts of the state that index the heap.
LEMMA HeapTypes ==
  ASSUME FeedTypeOK, SlicesFit
  PROVE  /\ Cardinality(Connections) \in Nat
         /\ heap \in Seq(Seq(Slots))
         /\ subscribers \in SliceType
         /\ subscribers.arr \in 0 .. Len(heap)
         /\ subscribers.len \in Nat
         /\ \A r \in Rebuilders :
              /\ notifying[r].slice \in SliceType
              /\ notifying[r].slice.arr \in 0 .. Len(heap)
              /\ notifying[r].slice.len \in Nat
              /\ notifying[r].next \in Nat \ {0}
<1>1. Cardinality(Connections) \in Nat
  BY Counting
<1> QED
  BY <1>1 DEF FeedTypeOK, SlicesFit, SliceType

-----------------------------------------------------------------------------
(* The steps that leave the slices alone. *)

LEMMA FeedInitial == FeedInit => FeedInv
<1> SUFFICES ASSUME FeedInit PROVE FeedInv
  OBVIOUS
<1> USE DEF FeedInit, NilSlice, Idle
<1>1. Cardinality(Connections) \in Nat
  BY Counting
<1>2. heap \in Seq(Seq(Slots)) /\ Len(heap) = 0 /\ shifted \in Seq(Slots)
  OBVIOUS
<1>3. FeedTypeOK
  BY <1>1, <1>2, MaxRebuildsAssumption DEF FeedTypeOK, SliceType, Slots, Never
<1>4. SlicesFit /\ MoveIsBounded
  BY DEF SlicesFit, MoveIsBounded, CapOf
<1>5. ListedOnce
  <2>1. Subscribed = {}
    BY DEF Subscribed
  <2>2. Held = {}
    BY DEF Held
  <2> QED
    BY <2>1, <2>2, FS_EmptySet DEF ListedOnce, Listed
<1>6. NewsIsSafe
  BY DEF NewsIsSafe, Behind
<1> QED
  BY <1>3, <1>4, <1>5, <1>6 DEF FeedInv

\* The subscribers stay what they are when neither the slice nor the set of
\* subscribed sessions changes.
LEMMA QuietSubscribers ==
  ASSUME FeedInv, UNCHANGED sliceVars, Subscribed' = Subscribed,
         mu # NoSession => conn'[mu] = "leaving"
  PROVE  MoveIsBounded' /\ ListedOnce'
<1> USE DEF FeedInv, sliceVars
<1>1. MoveIsBounded'
  BY DEF MoveIsBounded
<1>2. Held' = Held /\ Listed' = Listed /\ \A i \in Held : Content(i)' = Content(i)
  BY DEF Held, Listed, Content, Elem
<1>3. ListedOnce'
  BY <1>2 DEF ListedOnce
<1> QED
  BY <1>1, <1>3

\* The news stays under way when no slot and no loop changes, and no client
\* falls behind or loses what it was told.
LEMMA QuietNews ==
  ASSUME FeedInv, UNCHANGED <<sliceVars, notifying>>,
         \A s \in Connections \ disturbed' : Behind(s)' =>
           /\ Behind(s)
           /\ s \notin disturbed
           /\ Sent(s) => Sent(s)'
  PROVE  NewsIsSafe'
<1>1. \A r \in Rebuilders, i \in Nat, s \in Connections : WillBring(r, i, s)' = WillBring(r, i, s)
  BY DEF sliceVars, WillBring, WillRead, Settled, Held, Elem
<1> SUFFICES ASSUME NEW s \in Connections \ disturbed', Behind(s)'
             PROVE  \/ Sent(s)'
                    \/ \E r \in Rebuilders : \E i \in 1 .. notifying'[r].slice.len :
                         WillBring(r, i, s)'
  BY DEF NewsIsSafe
<1>2. CASE Sent(s)
  BY <1>2
<1>3. CASE \E r \in Rebuilders : \E i \in 1 .. notifying[r].slice.len : WillBring(r, i, s)
  BY <1>1, <1>3
<1> QED
  BY <1>2, <1>3 DEF FeedInv, NewsIsSafe

\* The types and the bounds of what the slices do not touch.
LEMMA QuietTypes ==
  ASSUME FeedInv, UNCHANGED <<sliceVars, notifying, version, since>>,
         token' \in [Connections -> {0, 1}],
         conn' \in [Connections -> {"idle", "announced", "loop", "leaving", "gone"}],
         telling' \in [Connections -> {"nothing", "other", "changed"}],
         heard' \in [Connections -> BOOLEAN],
         known' \in [Connections -> {Never} \cup 0 .. version],
         disturbed' \subseteq Connections
  PROVE  FeedTypeOK' /\ SlicesFit'
  BY DEF FeedInv, FeedTypeOK, SliceType, SlicesFit, CapOf, sliceVars

LEMMA AnnounceStep ==
  ASSUME FeedInv, NEW s \in Connections, Announce(s)
  PROVE  FeedInv'
<1> USE DEF FeedInv, Announce
<1>1. FeedTypeOK' /\ SlicesFit'
  <2>1. conn' \in [Connections -> {"idle", "announced", "loop", "leaving", "gone"}]
    BY DEF FeedTypeOK
  <2> QED
    BY <2>1, QuietTypes DEF FeedTypeOK
<1>2. MoveIsBounded' /\ ListedOnce'
  <2>1. Subscribed' = Subscribed
    BY DEF FeedTypeOK, Subscribed
  <2>2. mu # NoSession => conn'[mu] = "leaving"
    BY DEF MoveIsBounded, FeedTypeOK
  <2> QED
    BY <2>1, <2>2, QuietSubscribers
<1>3. NewsIsSafe'
  <2>1. \A t \in Connections : Behind(t)' => Behind(t)
    BY DEF Behind, FeedTypeOK
  <2>2. \A t \in Connections : Sent(t) => Sent(t)'
    BY DEF Sent
  <2> QED
    BY <2>1, <2>2, QuietNews
<1> QED
  BY <1>1, <1>2, <1>3

LEMMA LeaveStep ==
  ASSUME FeedInv, NEW s \in Connections, Leave(s)
  PROVE  FeedInv'
<1> USE DEF FeedInv, Leave
<1>1. FeedTypeOK' /\ SlicesFit'
  <2>1. conn' \in [Connections -> {"idle", "announced", "loop", "leaving", "gone"}]
    BY DEF FeedTypeOK
  <2> QED
    BY <2>1, QuietTypes DEF FeedTypeOK
<1>2. MoveIsBounded' /\ ListedOnce'
  <2>1. Subscribed' = Subscribed
    BY DEF FeedTypeOK, Subscribed
  <2>2. mu # NoSession => conn'[mu] = "leaving"
    BY DEF MoveIsBounded, FeedTypeOK
  <2> QED
    BY <2>1, <2>2, QuietSubscribers
<1>3. NewsIsSafe'
  <2>1. \A t \in Connections : Behind(t)' => Behind(t)
    BY DEF Behind, FeedTypeOK
  <2>2. \A t \in Connections : Sent(t) => Sent(t)'
    BY DEF Sent
  <2> QED
    BY <2>1, <2>2, QuietNews
<1> QED
  BY <1>1, <1>2, <1>3

LEMMA TellingStep ==
  ASSUME FeedInv, NEW s \in Connections, NEW what \in {"changed", "other"},
         BeginTelling(s, what) \/ FinishTelling(s)
  PROVE  FeedInv'
<1> USE DEF FeedInv
<1>0. /\ UNCHANGED <<version, sliceVars, notifying, conn, known, since, disturbed>>
      /\ token' \in [Connections -> {0, 1}]
      /\ telling' \in [Connections -> {"nothing", "other", "changed"}]
      /\ heard' \in [Connections -> BOOLEAN]
  BY DEF BeginTelling, FinishTelling, FeedTypeOK
<1>1. FeedTypeOK' /\ SlicesFit'
  BY <1>0, QuietTypes DEF FeedTypeOK
<1>2. MoveIsBounded' /\ ListedOnce'
  <2>1. Subscribed' = Subscribed
    BY <1>0 DEF Subscribed
  <2>2. mu # NoSession => conn'[mu] = "leaving"
    BY <1>0 DEF MoveIsBounded
  <2> QED
    BY <1>0, <2>1, <2>2, QuietSubscribers
<1>3. NewsIsSafe'
  <2>1. \A t \in Connections : Behind(t)' => Behind(t)
    BY <1>0 DEF Behind
  <2>2. \A t \in Connections : Sent(t) => Sent(t)'
    BY DEF FeedTypeOK, Sent, BeginTelling, FinishTelling
  <2> QED
    BY <1>0, <2>1, <2>2, QuietNews
<1> QED
  BY <1>1, <1>2, <1>3

LEMMA ListToolsStep ==
  ASSUME FeedInv, NEW s \in Connections, ListTools(s)
  PROVE  FeedInv'
<1> USE DEF FeedInv, ListTools
<1>1. FeedTypeOK' /\ SlicesFit'
  <2>1. /\ heard' \in [Connections -> BOOLEAN]
        /\ known' \in [Connections -> {Never} \cup 0 .. version]
        /\ disturbed' \subseteq Connections
    BY MaxRebuildsAssumption DEF FeedTypeOK
  <2> QED
    BY <2>1, QuietTypes DEF FeedTypeOK
<1>2. MoveIsBounded' /\ ListedOnce'
  <2>1. Subscribed' = Subscribed
    BY DEF Subscribed
  <2>2. mu # NoSession => conn'[mu] = "leaving"
    BY DEF MoveIsBounded
  <2> QED
    BY <2>1, <2>2, QuietSubscribers
<1>3. NewsIsSafe'
  <2>1. ~Behind(s)'
    BY MaxRebuildsAssumption DEF Behind, FeedTypeOK
  <2>2. \A t \in Connections \ {s} : /\ Behind(t)' => Behind(t)
                                     /\ Sent(t) => Sent(t)'
                                     /\ t \notin disturbed' => t \notin disturbed
    BY DEF Behind, FeedTypeOK, Sent
  <2> QED
    BY <2>1, <2>2, QuietNews
<1> QED
  BY <1>1, <1>2, <1>3

-----------------------------------------------------------------------------
(* The rebuilds and their loops. *)

\* Every client is still among the subscribers when a rebuild copies the header
\* under the lock, so its loop will bring the news to all of them.
LEMMA RebuildAllStep ==
  ASSUME FeedInv, NEW r \in Rebuilders, RebuildAll(r)
  PROVE  FeedInv'
<1> USE DEF FeedInv, RebuildAll
<1> DEFINE loop == IF subscribers.len = 0 THEN Idle ELSE [slice |-> subscribers, next |-> 1]
<1>1. /\ notifying' = [notifying EXCEPT ![r] = loop]
      /\ notifying \in [Rebuilders -> [slice : SliceType, next : Nat \ {0}]]
  BY DEF FeedTypeOK
<1>2. NilSlice \in SliceType /\ Cardinality(Connections) \in Nat
  BY Counting DEF NilSlice, SliceType, FeedTypeOK
<1>3. loop \in [slice : SliceType, next : Nat \ {0}]
  BY <1>2 DEF FeedTypeOK, Idle
<1>4. FeedTypeOK'
  <2>1. notifying' \in [Rebuilders -> [slice : SliceType, next : Nat \ {0}]]
    BY <1>1, <1>3
  <2>2. SliceType' = SliceType
    BY DEF SliceType, sliceVars
  <2>3. version' \in 0 .. MaxRebuilds /\ version' = version + 1 /\ version \in Nat
    BY MaxRebuildsAssumption DEF FeedTypeOK
  <2>4. /\ known' \in [Connections -> {Never} \cup 0 .. version']
        /\ since' \in [Connections -> 0 .. version']
    BY <2>3 DEF FeedTypeOK
  <2> QED
    BY <2>1, <2>2, <2>3, <2>4 DEF FeedTypeOK, sliceVars
<1>5. SlicesFit'
  <2> SUFFICES ASSUME NEW q \in Rebuilders
               PROVE  notifying'[q].slice.len <= CapOf(notifying[q].slice)'
    BY DEF SlicesFit, CapOf, sliceVars
  <2>1. CASE q = r
    BY <1>1, <2>1 DEF SlicesFit, CapOf, Idle, NilSlice, sliceVars
  <2>2. CASE q # r
    BY <1>1, <2>2 DEF SlicesFit, CapOf, sliceVars
  <2> QED
    BY <2>1, <2>2
<1>6. MoveIsBounded' /\ ListedOnce'
  BY QuietSubscribers DEF Subscribed
<1>7. NewsIsSafe'
  <2> SUFFICES ASSUME NEW s \in Connections \ disturbed', Behind(s)'
               PROVE  \E i \in 1 .. notifying'[r].slice.len : WillBring(r, i, s)'
    BY DEF NewsIsSafe
  <2>1. s \in Listed
    BY ConnectionsAssumption DEF Behind, Listed, Subscribed
  <2>2. PICK i \in Held : Content(i) = s
    BY <2>1 DEF ListedOnce
  <2>3. i \in 1 .. subscribers.len /\ i \notin todo /\ Elem(subscribers, i) = s
    BY <2>2 DEF Held, MoveIsBounded, Content
  <2>4. subscribers.len \in Nat
    BY HeapTypes
  <2>5. subscribers.len # 0
    BY <2>3, <2>4
  <2>6. notifying'[r] = [slice |-> subscribers, next |-> 1]
    BY <1>1, <2>5
  <2>7. WillRead(r, notifying[r].slice.arr, i)'
    BY <2>3, <2>4, <2>6 DEF WillRead
  <2>8. Elem(notifying[r].slice, i)' = s
    BY <2>3, <2>6 DEF Elem, sliceVars
  <2>9. Settled(notifying[r].slice.arr, i)'
    BY <2>2, <2>3 DEF Settled, Held, sliceVars
  <2> QED
    BY <2>3, <2>6, <2>7, <2>8, <2>9 DEF WillBring
<1> QED
  BY <1>4, <1>5, <1>6, <1>7

\* A loop either delivers to the session it was to bring the news to, or still
\* has its slot before it.
LEMMA NotifyOneStep ==
  ASSUME FeedInv, NEW r \in Rebuilders, NotifyOne(r)
  PROVE  FeedInv'
<1> USE DEF FeedInv, NotifyOne
<1> DEFINE n == notifying[r]
<1>1. /\ notifying' = [notifying EXCEPT ![r] = Advanced(n)]
      /\ notifying \in [Rebuilders -> [slice : SliceType, next : Nat \ {0}]]
      /\ n.next \in Nat \ {0} /\ n.slice.len \in Nat /\ n.next <= n.slice.len
  BY HeapTypes DEF FeedTypeOK
<1>2. NilSlice \in SliceType
  BY Counting DEF NilSlice, SliceType, FeedTypeOK
<1>3. /\ Advanced(n) \in [slice : SliceType, next : Nat \ {0}]
      /\ Advanced(n).slice \in {NilSlice, n.slice}
      /\ n.next # n.slice.len => Advanced(n) = [n EXCEPT !.next = n.next + 1]
  BY <1>1, <1>2 DEF Advanced, Idle
<1>4. FeedTypeOK'
  <2>1. notifying' \in [Rebuilders -> [slice : SliceType, next : Nat \ {0}]]
    BY <1>1, <1>3
  <2>2. SliceType' = SliceType
    BY DEF SliceType, sliceVars
  <2>3. token' \in [Connections -> {0, 1}]
    BY DEF FeedTypeOK
  <2> QED
    BY <2>1, <2>2, <2>3 DEF FeedTypeOK, sliceVars
<1>5. SlicesFit'
  <2> SUFFICES ASSUME NEW q \in Rebuilders
               PROVE  notifying'[q].slice.len <= CapOf(notifying[q].slice)'
    BY DEF SlicesFit, CapOf, sliceVars
  <2>1. notifying'[q].slice \in {NilSlice, notifying[q].slice}
    BY <1>1, <1>3
  <2> QED
    BY <2>1 DEF SlicesFit, CapOf, NilSlice, sliceVars
<1>6. MoveIsBounded' /\ ListedOnce'
  BY QuietSubscribers DEF Subscribed, MoveIsBounded
<1>7. NewsIsSafe'
  <2> SUFFICES ASSUME NEW s \in Connections \ disturbed', Behind(s)'
               PROVE  \/ Sent(s)'
                      \/ \E q \in Rebuilders : \E i \in 1 .. notifying'[q].slice.len :
                           WillBring(q, i, s)'
    BY DEF NewsIsSafe
  <2>1. Behind(s) /\ s \in Connections \ disturbed
    BY DEF Behind
  <2>2. CASE Sent(s)
    BY <2>2 DEF FeedTypeOK, Sent
  <2>3. ASSUME NEW q \in Rebuilders, NEW i \in 1 .. notifying[q].slice.len, WillBring(q, i, s)
        PROVE  \/ Sent(s)'
               \/ i \in 1 .. notifying'[q].slice.len /\ WillBring(q, i, s)'
    <3>1. CASE q = r /\ i = n.next
      BY <2>3, <3>1 DEF WillBring, FeedTypeOK, Sent
    <3>2. CASE q = r /\ i # n.next
      <4>1. i \in Nat /\ n.next < i /\ i <= n.slice.len
        BY <1>1, <2>3, <3>2 DEF WillBring, WillRead
      <4>2. Advanced(n) = [n EXCEPT !.next = n.next + 1]
        BY <1>1, <1>3, <4>1
      <4>3. notifying'[q].slice = notifying[q].slice /\ notifying'[q].next = n.next + 1
        BY <1>1, <3>2, <4>2
      <4>4. WillRead(q, notifying[q].slice.arr, i)'
        BY <1>1, <3>2, <4>1, <4>3 DEF WillRead
      <4> QED
        BY <2>3, <4>3, <4>4 DEF WillBring, Elem, Settled, Held, sliceVars
    <3>3. CASE q # r
      <4>1. notifying'[q] = notifying[q]
        BY <1>1, <3>3
      <4> QED
        BY <2>3, <4>1 DEF WillBring, WillRead, Elem, Settled, Held, sliceVars
    <3> QED
      BY <3>1, <3>2, <3>3
  <2> QED
    BY <2>1, <2>2, <2>3 DEF NewsIsSafe
<1> QED
  BY <1>4, <1>5, <1>6, <1>7

-----------------------------------------------------------------------------
(* The steps on the slice. *)

\* The news stays under way when every loop that was to bring it still does.
LEMMA LoopsStillBring ==
  ASSUME FeedInv, UNCHANGED <<notifying, token, telling, heard>>,
         \A s \in Connections \ disturbed' : Behind(s)' =>
           /\ Behind(s)
           /\ s \notin disturbed
           /\ \A r \in Rebuilders : \A i \in 1 .. notifying[r].slice.len :
                WillBring(r, i, s) => WillBring(r, i, s)'
  PROVE  NewsIsSafe'
<1> SUFFICES ASSUME NEW s \in Connections \ disturbed', Behind(s)'
             PROVE  \/ Sent(s)'
                    \/ \E r \in Rebuilders : \E i \in 1 .. notifying'[r].slice.len :
                         WillBring(r, i, s)'
  BY DEF NewsIsSafe
<1>1. CASE Sent(s)
  BY <1>1 DEF Sent
<1>2. CASE \E r \in Rebuilders : \E i \in 1 .. notifying[r].slice.len : WillBring(r, i, s)
  BY <1>2
<1> QED
  BY <1>1, <1>2 DEF FeedInv, NewsIsSafe

\* What Subscribe does to the arrays, whether it appends in place or copies:
\* the slots behind the headers keep their values.
SliceGrows(s) ==
  /\ heap' \in Seq(Seq(Slots))
  /\ Len(heap') \in Nat /\ Len(heap) <= Len(heap')
  /\ subscribers'.arr \in 1 .. Len(heap')
  /\ subscribers'.len = subscribers.len + 1
  /\ subscribers' = [arr |-> subscribers'.arr, len |-> subscribers'.len]
  /\ subscribers'.len <= Len(heap'[subscribers'.arr])
  /\ subscribers'.arr = subscribers.arr \/ subscribers'.arr > Len(heap)
  /\ \A i \in 1 .. subscribers.len : heap'[subscribers'.arr][i] = Elem(subscribers, i)
  /\ heap'[subscribers'.arr][subscribers.len + 1] = s
  /\ \A a \in 1 .. Len(heap) :
       /\ Len(heap'[a]) = Len(heap[a])
       /\ \A i \in 1 .. Len(heap[a]) :
            (a = subscribers.arr => i <= subscribers.len) => heap'[a][i] = heap[a][i]

LEMMA AppendToSlice ==
  ASSUME FeedInv, NEW s \in Connections, Subscribe(s)
  PROVE  SliceGrows(s)
<1> USE DEF FeedInv
<1>1. /\ heap \in Seq(Seq(Slots)) /\ Len(heap) \in Nat
      /\ subscribers.arr \in 0 .. Len(heap) /\ subscribers.len \in Nat
      /\ subscribers = [arr |-> subscribers.arr, len |-> subscribers.len]
      /\ s \in Slots
  BY HeapTypes DEF Slots, SliceType
<1>2. CASE /\ subscribers.len < CapOf(subscribers)
           /\ heap' = [heap EXCEPT ![subscribers.arr][subscribers.len + 1] = s]
           /\ subscribers' = [subscribers EXCEPT !.len = @ + 1]
  <2>1. /\ subscribers.arr \in 1 .. Len(heap)
        /\ subscribers.len < Len(heap[subscribers.arr])
    BY <1>1, <1>2 DEF CapOf
  <2>2. heap[subscribers.arr] \in Seq(Slots) /\ Len(heap[subscribers.arr]) \in Nat
    BY <1>1, <2>1, ElementOfSeq, LenProperties
  <2>3. subscribers.len + 1 \in 1 .. Len(heap[subscribers.arr])
    BY <1>1, <2>1, <2>2
  <2>4. /\ heap' \in Seq(Seq(Slots))
        /\ Len(heap') = Len(heap)
        /\ \A b \in 1 .. Len(heap) : Len(heap'[b]) = Len(heap[b])
        /\ \A b \in 1 .. Len(heap) : \A j \in 1 .. Len(heap[b]) :
             heap'[b][j] = IF b = subscribers.arr /\ j = subscribers.len + 1
                           THEN s ELSE heap[b][j]
    BY <1>1, <1>2, <2>1, <2>3, StoreInArray
  <2>5. /\ subscribers'.arr = subscribers.arr
        /\ subscribers'.len = subscribers.len + 1
        /\ subscribers' = [arr |-> subscribers'.arr, len |-> subscribers'.len]
    BY <1>1, <1>2
  <2>6. \A i \in 1 .. subscribers.len : /\ i \in 1 .. Len(heap[subscribers.arr])
                                        /\ i # subscribers.len + 1
    BY <1>1, <2>1, <2>2
  <2> QED
    BY <1>1, <2>1, <2>2, <2>3, <2>4, <2>5, <2>6 DEF Elem, SliceGrows
<1>3. CASE /\ subscribers.len = CapOf(subscribers)
           /\ heap' = Append(heap, Grown(subscribers, s))
           /\ subscribers' = [arr |-> Len(heap) + 1, len |-> subscribers.len + 1]
  <2> DEFINE g == Grown(subscribers, s)
             m == IF subscribers.len = 0 THEN 1 ELSE 2 * subscribers.len
  <2>1. m \in Nat /\ subscribers.len + 1 <= m
    BY <1>1
  <2>2. \A i \in 1 .. subscribers.len : Elem(subscribers, i) \in Slots
    BY <1>1, SlotOfSlice, HeapTypes DEF SlicesFit
  <2>3. /\ g \in [1 .. m -> Slots]
        /\ \A i \in 1 .. subscribers.len : g[i] = Elem(subscribers, i)
        /\ g[subscribers.len + 1] = s
    BY <1>1, <2>1, <2>2 DEF Grown, Slots
  <2>4. g \in Seq(Slots) /\ Len(g) = m
    BY <2>1, <2>3, SeqDef
  <2> HIDE DEF g, m
  <2>5. /\ heap' \in Seq(Seq(Slots))
        /\ Len(heap') = Len(heap) + 1
        /\ heap'[Len(heap) + 1] = g
        /\ \A a \in 1 .. Len(heap) : heap'[a] = heap[a]
    BY <1>1, <1>3, <2>4 DEF g
  <2>6. subscribers'.arr = Len(heap) + 1 /\ subscribers'.len = subscribers.len + 1
    BY <1>3
  <2> QED
    BY <1>1, <1>3, <2>1, <2>3, <2>4, <2>5, <2>6 DEF SliceGrows
<1> QED
  BY <1>1, <1>2, <1>3 DEF Subscribe

LEMMA SubscribeStep ==
  ASSUME FeedInv, NEW s \in Connections, Subscribe(s)
  PROVE  FeedInv'
<1> USE DEF FeedInv
<1> DEFINE len == subscribers.len
<1>0. SliceGrows(s)
  BY AppendToSlice
<1>1. /\ conn[s] = "announced" /\ mu = NoSession
      /\ conn' = [conn EXCEPT ![s] = "loop"]
      /\ since' = [since EXCEPT ![s] = version]
      /\ UNCHANGED <<version, mu, todo, shifted, notifying, token, telling, heard, known,
                     disturbed>>
  BY DEF Subscribe
<1>2. /\ Cardinality(Connections) \in Nat /\ heap \in Seq(Seq(Slots)) /\ Len(heap) \in Nat
      /\ subscribers \in SliceType /\ len \in Nat /\ todo = {}
  BY <1>1, HeapTypes DEF MoveIsBounded
<1>3. Subscribed' = Subscribed \cup {s} /\ s \notin Subscribed
  BY <1>1 DEF Subscribed, FeedTypeOK
<1>4. /\ Cardinality(Subscribed') = len + 1
      /\ len + 1 <= Cardinality(Connections)
  <2>1. Subscribed \in SUBSET Connections /\ Subscribed' \in SUBSET Connections
    BY DEF Subscribed
  <2>2. IsFiniteSet(Subscribed) /\ Cardinality(Subscribed') <= Cardinality(Connections)
    BY <2>1, Counting
  <2>3. Cardinality(Subscribed') = Cardinality(Subscribed) + 1
    BY <1>3, <2>2, FS_AddElement
  <2> QED
    BY <2>2, <2>3 DEF ListedOnce
<1>5. SlicesFit'
  <2>1. CapOf(subscribers)' = Len(heap'[subscribers'.arr])
    BY <1>0 DEF CapOf, SliceGrows
  <2>2. \A r \in Rebuilders : notifying'[r].slice.len <= CapOf(notifying[r].slice)'
    <3> SUFFICES ASSUME NEW r \in Rebuilders
                 PROVE  notifying[r].slice.len <= CapOf(notifying[r].slice)'
      BY <1>1
    <3>1. notifying[r].slice.arr \in 0 .. Len(heap)
      BY HeapTypes
    <3>2. \A a \in 0 .. Len(heap) : a # 0 => Len(heap'[a]) = Len(heap[a])
      BY <1>0, <1>2 DEF SliceGrows
    <3> QED
      BY <1>1, <3>1, <3>2 DEF SlicesFit, CapOf
  <2> QED
    BY <1>0, <2>1, <2>2 DEF SlicesFit, SliceGrows
<1>6. FeedTypeOK'
  <2>1. \A slice \in SliceType : slice \in SliceType'
    BY <1>0, <1>2 DEF SliceType, SliceGrows
  <2>2. subscribers' \in SliceType'
    BY <1>0, <1>2, <1>4 DEF SliceType, SliceGrows
  <2>3. notifying' \in [Rebuilders -> [slice : SliceType', next : Nat \ {0}]]
    BY <1>1, <2>1 DEF FeedTypeOK
  <2>4. /\ conn' \in [Connections -> {"idle", "announced", "loop", "leaving", "gone"}]
        /\ since' \in [Connections -> 0 .. version]
    BY <1>1, MaxRebuildsAssumption DEF FeedTypeOK
  <2>5. heap' \in Seq(Seq(Slots))
    BY <1>0 DEF SliceGrows
  <2>6. todo' \subseteq 1 .. subscribers'.len
    BY <1>1, <1>2
  <2> QED
    BY <1>1, <2>2, <2>3, <2>4, <2>5, <2>6 DEF FeedTypeOK
<1>7. MoveIsBounded'
  BY <1>1 DEF MoveIsBounded
<1>8. ListedOnce'
  <2>1. /\ Held' = 1 .. len + 1 /\ Held = 1 .. len
        /\ Listed' = Listed \cup {s} /\ s \notin Listed
    BY <1>0, <1>1, <1>3, ConnectionsAssumption DEF Held, Listed, SliceGrows
  <2>2. /\ \A i \in 1 .. len : Content(i)' = Content(i)
        /\ \A k : k = len + 1 => Content(k)' = s
    BY <1>0, <1>1, <1>2 DEF Content, Elem, SliceGrows
  <2>3. \A i \in 1 .. len : Content(i) \in Listed /\ Content(i) # s
    BY <2>1 DEF ListedOnce
  <2> QED
    <3>1. \A i \in Held' : i \in 1 .. len \/ i = len + 1
      BY <1>2, <2>1
    <3>2. \A i \in Held' : Content(i)' \in Listed'
      BY <2>1, <2>2, <2>3, <3>1
    <3>3. \A x \in Listed' : \E i \in Held' : Content(i)' = x
      <4>1. ASSUME NEW x \in Listed PROVE \E i \in Held' : Content(i)' = x
        <5>1. PICK i \in 1 .. len : Content(i) = x
          BY <2>1 DEF ListedOnce
        <5> QED
          BY <1>2, <2>1, <2>2, <5>1
      <4>2. len + 1 \in Held'
        BY <1>2, <2>1
      <4> QED
        BY <2>1, <2>2, <4>1, <4>2
    <3>4. ASSUME NEW i \in Held', NEW j \in Held', Content(i)' = Content(j)' PROVE i = j
      <4>1. CASE i \in 1 .. len /\ j \in 1 .. len
        BY <2>1, <2>2, <3>4, <4>1 DEF ListedOnce
      <4> QED
        BY <2>2, <2>3, <3>1, <3>4, <4>1
    <3>5. subscribers'.len = Cardinality(Subscribed')
      BY <1>0, <1>4 DEF SliceGrows
    <3> QED
      BY <3>2, <3>3, <3>4, <3>5 DEF ListedOnce
<1>9. NewsIsSafe'
  <2> SUFFICES ASSUME NEW t \in Connections \ disturbed', Behind(t)'
               PROVE  /\ Behind(t)
                      /\ t \notin disturbed
                      /\ \A r \in Rebuilders : \A i \in 1 .. notifying[r].slice.len :
                           WillBring(r, i, t) => WillBring(r, i, t)'
    BY <1>1, LoopsStillBring
  <2>1. t # s /\ Behind(t) /\ t \notin disturbed
    BY <1>1, MaxRebuildsAssumption DEF Behind, FeedTypeOK
  <2>2. ASSUME NEW r \in Rebuilders, NEW i \in 1 .. notifying[r].slice.len, WillBring(r, i, t)
        PROVE  WillBring(r, i, t)'
    <3> DEFINE a == notifying[r].slice.arr
    <3>1. a \in 1 .. Len(heap) /\ i \in 1 .. Len(heap[a])
      BY HeapTypes, SlotOfSlice DEF SlicesFit
    <3>2. a = subscribers.arr => i \in 1 .. len
      BY <1>1, <2>2 DEF WillBring, Settled, Held
    <3>3. heap'[a][i] = heap[a][i]
      <4>1. a = subscribers.arr => i <= subscribers.len
        BY <1>2, <3>2
      <4> HIDE DEF a
      <4> QED
        BY <1>0, <3>1, <4>1 DEF SliceGrows
    <3>4. Settled(notifying[r].slice.arr, i)'
      BY <1>0, <1>1, <1>2, <3>1, <3>2 DEF Settled, Held, SliceGrows
    <3> QED
      BY <1>1, <2>2, <3>3, <3>4 DEF WillBring, WillRead, Elem
  <2> QED
    BY <2>1, <2>2
<1> QED
  BY <1>5, <1>6, <1>7, <1>8, <1>9

\* The tail is loaded under the lock, every channel behind the one that leaves
\* moves down by one slot, and the loops that have yet to visit those slots are
\* recorded as disturbed.
LEMMA UnsubscribeFindStep ==
  ASSUME FeedInv, NEW s \in Connections, UnsubscribeFind(s)
  PROVE  FeedInv'
<1> USE DEF FeedInv
<1> DEFINE len == subscribers.len
           Overtaken(i) == {Elem(subscribers, j) : j \in {k \in i + 1 .. len :
                              \E r \in Rebuilders : WillRead(r, subscribers.arr, k)}}
<1>1. PICK i \in 1 .. len :
        /\ conn[s] = "leaving" /\ mu = NoSession /\ mu' = s
        /\ Elem(subscribers, i) = s
        /\ todo' = i .. len - 1
        /\ shifted' = Tail(heap[subscribers.arr])
        /\ disturbed' = disturbed \cup Overtaken(i)
        /\ UNCHANGED <<version, subscribers, heap, notifying, token, conn, telling, heard,
                       known, since>>
  BY DEF UnsubscribeFind
<1>2. /\ heap \in Seq(Seq(Slots)) /\ subscribers \in SliceType /\ len \in Nat
      /\ todo = {} /\ s # NoSession
  BY <1>1, HeapTypes, ConnectionsAssumption DEF MoveIsBounded
<1>3. /\ heap[subscribers.arr] \in Seq(Slots)
      /\ len <= Len(heap[subscribers.arr]) /\ len > 0
  <2>1. heap[subscribers.arr] \in Seq(Slots) /\ subscribers.arr \in 1 .. Len(heap)
    BY <1>2, SlotOfSlice DEF SlicesFit
  <2> QED
    BY <1>2, <2>1 DEF SlicesFit, CapOf
<1>4. /\ shifted' \in Seq(Slots)
      /\ len - 1 <= Len(shifted')
      /\ \A j \in 1 .. len - 1 : shifted'[j] = Elem(subscribers, j + 1)
  <2> DEFINE q == heap[subscribers.arr]
  <2>1. q \in Seq(Slots) /\ Len(q) \in Nat /\ len <= Len(q) /\ q # <<>>
    BY <1>2, <1>3
  <2> HIDE DEF q
  <2>2. /\ Tail(q) \in Seq(Slots) /\ Len(Tail(q)) = Len(q) - 1
        /\ \A j \in 1 .. Len(Tail(q)) : Tail(q)[j] = q[j + 1]
    BY <2>1, HeadTailProperties
  <2> QED
    BY <1>1, <1>2, <2>1, <2>2 DEF q, Elem
<1>5. /\ Held = 1 .. len /\ Listed = Subscribed
      /\ \A j \in 1 .. len : Content(j) = Elem(subscribers, j)
  BY <1>1, <1>2, ConnectionsAssumption DEF Held, Listed, Subscribed, Content
<1>6. /\ \A j \in 1 .. len : Elem(subscribers, j) \in Subscribed
      /\ \A t \in Subscribed : \E j \in 1 .. len : Elem(subscribers, j) = t
      /\ \A j, k \in 1 .. len : Elem(subscribers, j) = Elem(subscribers, k) => j = k
  BY <1>5 DEF ListedOnce
<1>7. FeedTypeOK'
  <2>1. Overtaken(i) \subseteq Connections
    BY <1>2, <1>6 DEF Subscribed
  <2>2. todo' \subseteq 1 .. subscribers'.len
    BY <1>1, <1>2
  <2>3. SliceType' = SliceType
    BY <1>1 DEF SliceType
  <2> QED
    BY <1>1, <1>4, <2>1, <2>2, <2>3 DEF FeedTypeOK, Slots
<1>8. SlicesFit'
  BY <1>1 DEF SlicesFit, CapOf
<1>9. MoveIsBounded'
  BY <1>1, <1>2, <1>3, <1>4 DEF MoveIsBounded
<1>10. ListedOnce'
  <2> DEFINE From(j) == IF j < i THEN j ELSE j + 1
  <2>1. Held' = 1 .. len - 1 /\ Listed' = Subscribed \ {s}
    BY <1>1, <1>2 DEF Held, Listed, Subscribed
  <2>2. \A j \in 1 .. len - 1 : /\ From(j) \in 1 .. len /\ From(j) # i
                                /\ Content(j)' = Elem(subscribers, From(j))
    <3> SUFFICES ASSUME NEW j \in 1 .. len - 1
                 PROVE  /\ From(j) \in 1 .. len /\ From(j) # i
                        /\ Content(j)' = Elem(subscribers, From(j))
      OBVIOUS
    <3>1. Elem(subscribers, j)' = Elem(subscribers, j)
      BY <1>1 DEF Elem
    <3>2. CASE j < i
      BY <1>1, <1>2, <3>1, <3>2 DEF Content
    <3>3. CASE ~(j < i)
      BY <1>1, <1>2, <1>4, <3>3 DEF Content
    <3> QED
      BY <3>2, <3>3
  <2>3. \A j \in Held' : Content(j)' \in Listed'
    BY <1>1, <1>6, <2>1, <2>2
  <2>4. ASSUME NEW t \in Listed' PROVE \E j \in Held' : Content(j)' = t
    <3>1. PICK k \in 1 .. len : Elem(subscribers, k) = t
      BY <1>6, <2>1
    <3>2. k # i
      BY <1>1, <2>1, <3>1
    <3>3. CASE k < i
      <4>1. k \in 1 .. len - 1 /\ From(k) = k
        BY <1>2, <3>3
      <4> QED
        BY <2>1, <2>2, <3>1, <4>1
    <3>4. CASE k > i
      <4>1. k - 1 \in 1 .. len - 1 /\ From(k - 1) = k
        BY <1>2, <3>4
      <4> QED
        BY <2>1, <2>2, <3>1, <4>1
    <3> QED
      BY <1>2, <3>2, <3>3, <3>4
  <2>5. ASSUME NEW j \in Held', NEW k \in Held', Content(j)' = Content(k)' PROVE j = k
    <3>1. From(j) = From(k)
      BY <1>6, <2>1, <2>2, <2>5
    <3> QED
      BY <1>2, <2>1, <3>1
  <2>6. subscribers'.len = Cardinality(Subscribed')
    BY <1>1 DEF ListedOnce, Subscribed
  <2> QED
    BY <2>3, <2>4, <2>5, <2>6 DEF ListedOnce
<1>11. NewsIsSafe'
  <2> SUFFICES ASSUME NEW t \in Connections \ disturbed', Behind(t)'
               PROVE  /\ Behind(t)
                      /\ t \notin disturbed
                      /\ \A r \in Rebuilders : \A k \in 1 .. notifying[r].slice.len :
                           WillBring(r, k, t) => WillBring(r, k, t)'
    BY <1>1, LoopsStillBring
  <2>1. t # s /\ Behind(t) /\ t \notin disturbed /\ t \notin Overtaken(i)
    BY <1>1 DEF Behind
  <2>2. ASSUME NEW r \in Rebuilders, NEW k \in 1 .. notifying[r].slice.len, WillBring(r, k, t)
        PROVE  WillBring(r, k, t)'
    <3>1. ASSUME notifying[r].slice.arr = subscribers.arr PROVE k \in 1 .. len - 1 /\ k < i
      <4>1. k \in 1 .. len /\ WillRead(r, subscribers.arr, k) /\ Elem(subscribers, k) = t
        BY <1>5, <2>2, <3>1 DEF WillBring, Settled, Elem
      <4>2. k # i
        BY <1>1, <2>1, <4>1
      <4>3. ~(k > i)
        BY <1>2, <2>1, <4>1
      <4> QED
        BY <1>2, <4>1, <4>2, <4>3
    <3>2. Settled(notifying[r].slice.arr, k)'
      BY <1>1, <1>2, <3>1 DEF Settled, Held
    <3> QED
      BY <1>1, <2>2, <3>2 DEF WillBring, WillRead, Elem
  <2> QED
    BY <2>1, <2>2
<1> QED
  BY <1>7, <1>8, <1>9, <1>10, <1>11

\* A store of the move puts into a slot what the slot is to hold.
LEMMA UnsubscribeShiftStep ==
  ASSUME FeedInv, NEW s \in Connections, UnsubscribeShift(s)
  PROVE  FeedInv'
<1> USE DEF FeedInv
<1> DEFINE arr == subscribers.arr
<1>1. PICK i \in todo :
        /\ mu = s
        /\ heap' = [heap EXCEPT ![arr][i] = shifted[i]]
        /\ todo' = todo \ {i}
        /\ UNCHANGED <<version, subscribers, mu, shifted, notifying, token, conn, telling,
                       heard, known, since, disturbed>>
  BY DEF UnsubscribeShift
<1>2. /\ s # NoSession /\ subscribers.len \in Nat /\ heap \in Seq(Seq(Slots))
      /\ subscribers \in SliceType
      /\ i \in 1 .. subscribers.len - 1 /\ i \in 1 .. Len(shifted)
  <2>1. /\ s # NoSession /\ subscribers.len \in Nat /\ heap \in Seq(Seq(Slots))
        /\ subscribers \in SliceType /\ shifted \in Seq(Slots)
    BY HeapTypes, ConnectionsAssumption DEF FeedTypeOK
  <2>2. i \in 1 .. subscribers.len - 1 /\ subscribers.len - 1 <= Len(shifted)
    BY <1>1, <2>1 DEF MoveIsBounded
  <2> QED
    BY <2>1, <2>2
<1>3. arr \in 1 .. Len(heap) /\ i \in 1 .. Len(heap[arr]) /\ shifted[i] \in Slots
  <2>1. i \in 1 .. subscribers.len
    BY <1>2
  <2>2. arr \in 1 .. Len(heap) /\ i \in 1 .. Len(heap[arr])
    BY <1>2, <2>1, SlotOfSlice DEF SlicesFit
  <2> QED
    BY <1>2, <2>2, ElementOfSeq DEF FeedTypeOK
<1>4. /\ heap' \in Seq(Seq(Slots))
      /\ Len(heap') = Len(heap)
      /\ \A b \in 1 .. Len(heap) : Len(heap'[b]) = Len(heap[b])
      /\ \A b \in 1 .. Len(heap) : \A j \in 1 .. Len(heap[b]) :
           heap'[b][j] = IF b = arr /\ j = i THEN shifted[i] ELSE heap[b][j]
  BY <1>1, <1>2, <1>3, StoreInArray
<1>5. SliceType' = SliceType
  BY <1>4 DEF SliceType
<1>6. FeedTypeOK'
  BY <1>1, <1>4, <1>5 DEF FeedTypeOK
<1>7. SlicesFit'
  <2>1. \A slice \in SliceType : CapOf(slice)' = CapOf(slice)
    BY <1>4 DEF CapOf, SliceType
  <2> QED
    BY <1>1, <1>2, <2>1, HeapTypes DEF SlicesFit
<1>8. MoveIsBounded'
  BY <1>1 DEF MoveIsBounded
<1>9. ListedOnce'
  <2>1. Held' = Held /\ Listed' = Listed /\ Subscribed' = Subscribed
    BY <1>1 DEF Held, Listed, Subscribed
  <2>2. ASSUME NEW j \in Held PROVE Content(j)' = Content(j)
    <3>1. j \in 1 .. subscribers.len
      BY <1>1, <1>2, <2>2 DEF Held
    <3>2. j \in 1 .. Len(heap[arr])
      BY <1>2, <3>1, SlotOfSlice DEF SlicesFit
    <3>3. heap'[arr][j] = IF j = i THEN shifted[i] ELSE heap[arr][j]
      BY <1>3, <1>4, <3>2
    <3> QED
      BY <1>1, <3>3 DEF Content, Elem
  <2> QED
    BY <1>1, <2>1, <2>2 DEF ListedOnce
<1>10. NewsIsSafe'
  <2> SUFFICES ASSUME NEW t \in Connections \ disturbed', Behind(t)'
               PROVE  /\ Behind(t)
                      /\ t \notin disturbed
                      /\ \A r \in Rebuilders : \A k \in 1 .. notifying[r].slice.len :
                           WillBring(r, k, t) => WillBring(r, k, t)'
    BY <1>1, LoopsStillBring
  <2>1. Behind(t) /\ t \notin disturbed
    BY <1>1 DEF Behind
  <2>2. ASSUME NEW r \in Rebuilders, NEW k \in 1 .. notifying[r].slice.len, WillBring(r, k, t)
        PROVE  WillBring(r, k, t)'
    <3> DEFINE a == notifying[r].slice.arr
    <3>1. a \in 1 .. Len(heap) /\ k \in 1 .. Len(heap[a])
      BY <1>2, HeapTypes, SlotOfSlice DEF SlicesFit
    <3>2. a = arr => k # i
      BY <2>2 DEF WillBring, Settled
    <3>3. heap'[a][k] = heap[a][k]
      <4> HIDE DEF a, arr
      <4> QED
        BY <1>4, <3>1, <3>2
    <3>4. Settled(notifying[r].slice.arr, k)'
      BY <1>1, <2>2 DEF WillBring, Settled, Held
    <3> QED
      BY <1>1, <2>2, <3>3, <3>4 DEF WillBring, WillRead, Elem
  <2> QED
    BY <2>1, <2>2
<1> QED
  BY <1>6, <1>7, <1>8, <1>9, <1>10

\* The shorter header drops the old last slot, which nobody is waiting for.
LEMMA UnsubscribeDoneStep ==
  ASSUME FeedInv, NEW s \in Connections, UnsubscribeDone(s)
  PROVE  FeedInv'
<1> USE DEF FeedInv
<1> DEFINE len == subscribers.len
<1>1. /\ mu = s /\ todo = {}
      /\ subscribers' = [subscribers EXCEPT !.len = @ - 1]
      /\ mu' = NoSession /\ shifted' = <<>>
      /\ conn' = [conn EXCEPT ![s] = "gone"]
      /\ UNCHANGED <<version, heap, todo, notifying, token, telling, heard, known, since,
                     disturbed>>
  BY DEF UnsubscribeDone
<1>2. /\ s # NoSession /\ heap \in Seq(Seq(Slots)) /\ subscribers \in SliceType
      /\ len \in Nat /\ len > 0 /\ conn[s] = "leaving" /\ Cardinality(Connections) \in Nat
  BY <1>1, HeapTypes, ConnectionsAssumption DEF MoveIsBounded
<1>3. /\ subscribers'.arr = subscribers.arr
      /\ subscribers'.len = len - 1
      /\ subscribers' \in SliceType
  BY <1>1, <1>2 DEF SliceType
<1>4. Subscribed' = Subscribed \ {s} /\ s \in Subscribed
  BY <1>1, <1>2 DEF Subscribed, FeedTypeOK
<1>5. FeedTypeOK'
  <2>1. conn' \in [Connections -> {"idle", "announced", "loop", "leaving", "gone"}]
    BY <1>1 DEF FeedTypeOK
  <2>2. SliceType' = SliceType
    BY <1>1 DEF SliceType
  <2>3. shifted' \in Seq(Slots) /\ mu' \in Slots
    BY <1>1 DEF Slots
  <2> QED
    BY <1>1, <1>3, <2>1, <2>2, <2>3 DEF FeedTypeOK
<1>6. SlicesFit'
  <2>1. CapOf(subscribers)' = CapOf(subscribers)
    BY <1>1, <1>3 DEF CapOf
  <2>2. CapOf(subscribers) \in Nat
    BY <1>2, SlotOfSlice, LenProperties DEF CapOf, SlicesFit, SliceType
  <2> QED
    BY <1>1, <1>2, <1>3, <2>1, <2>2 DEF SlicesFit, CapOf
<1>7. MoveIsBounded'
  BY <1>1 DEF MoveIsBounded
<1>8. ListedOnce'
  <2>1. Held' = Held /\ Listed' = Listed
    BY <1>1, <1>2, <1>3, <1>4, ConnectionsAssumption DEF Held, Listed, Subscribed
  <2>2. \A j \in Held : Content(j)' = Content(j)
    BY <1>1, <1>3 DEF Content, Elem
  <2>3. subscribers'.len = Cardinality(Subscribed')
    <3>1. Subscribed \in SUBSET Connections
      BY DEF Subscribed
    <3>2. Cardinality(Subscribed \ {s}) = Cardinality(Subscribed) - 1
      BY <1>4, <3>1, Counting, FS_RemoveElement
    <3> QED
      BY <1>3, <1>4, <3>2 DEF ListedOnce
  <2> QED
    BY <2>1, <2>2, <2>3 DEF ListedOnce
<1>9. NewsIsSafe'
  <2> SUFFICES ASSUME NEW t \in Connections \ disturbed', Behind(t)'
               PROVE  /\ Behind(t)
                      /\ t \notin disturbed
                      /\ \A r \in Rebuilders : \A k \in 1 .. notifying[r].slice.len :
                           WillBring(r, k, t) => WillBring(r, k, t)'
    BY <1>1, LoopsStillBring
  <2>1. Behind(t) /\ t \notin disturbed
    BY <1>1 DEF Behind, FeedTypeOK
  <2>2. Held' = Held
    BY <1>1, <1>2, <1>3 DEF Held
  <2>3. ASSUME NEW r \in Rebuilders, NEW k \in 1 .. notifying[r].slice.len, WillBring(r, k, t)
        PROVE  WillBring(r, k, t)'
    BY <1>1, <1>3, <2>2, <2>3 DEF WillBring, WillRead, Elem, Settled
  <2> QED
    BY <2>1, <2>3
<1> QED
  BY <1>5, <1>6, <1>7, <1>8, <1>9

-----------------------------------------------------------------------------
(* What the runs check. *)

LEMMA FeedStep ==
  ASSUME FeedInv, [FeedNext]_feedVars
  PROVE  FeedInv'
<1>1. ASSUME NEW s \in Connections,
             \/ Announce(s) \/ Subscribe(s) \/ Leave(s)
             \/ UnsubscribeFind(s) \/ UnsubscribeShift(s) \/ UnsubscribeDone(s)
             \/ \E what \in {"changed", "other"} : BeginTelling(s, what)
             \/ FinishTelling(s) \/ ListTools(s)
      PROVE  FeedInv'
  BY <1>1, AnnounceStep, SubscribeStep, LeaveStep, UnsubscribeFindStep, UnsubscribeShiftStep,
     UnsubscribeDoneStep, TellingStep, ListToolsStep
<1>2. ASSUME NEW r \in Rebuilders, RebuildAll(r) \/ NotifyOne(r) PROVE FeedInv'
  BY <1>2, RebuildAllStep, NotifyOneStep
<1>3. CASE UNCHANGED feedVars
  <2> USE <1>3 DEF FeedInv, feedVars
  <2>1. FeedTypeOK' /\ SlicesFit'
    BY DEF FeedTypeOK, SliceType, SlicesFit, CapOf
  <2>2. MoveIsBounded' /\ ListedOnce'
    BY QuietSubscribers DEF Subscribed, sliceVars, MoveIsBounded
  <2>3. NewsIsSafe'
    BY QuietNews DEF Behind, sliceVars, Sent
  <2> QED
    BY <2>1, <2>2, <2>3
<1> QED
  BY <1>1, <1>2, <1>3 DEF FeedNext, FeedTerminated

\* The inductive invariant of the feed.
THEOREM FeedInvariant == FeedSpec => []FeedInv
<1> QED
  BY FeedInitial, FeedStep, PTL DEF FeedSpec

\* For any connections and rebuilders, every state of the feed is well-typed:
\* in particular the slice never holds more channels than there are
\* connections, and a channel never more than its one token
\* (registry/registry.go:41-79).
THEOREM FeedTypeCorrect == FeedSpec => []FeedTypeOK
<1>1. FeedInv => FeedTypeOK
  BY DEF FeedInv
<1> QED
  BY FeedInvariant, <1>1, PTL

\* For any number of connections that come and go while loops read the arrays,
\* the slice holds every subscriber's channel once and nothing else whenever
\* the lock is free (registry/registry.go:53-70).
THEOREM SubscribersAreExact == FeedSpec => []SubscribersExact
<1>1. FeedInv => SubscribersExact
  <2> SUFFICES ASSUME FeedInv, mu = NoSession
               PROVE  /\ subscribers.len = Cardinality(Subscribed)
                      /\ {Elem(subscribers, i) : i \in 1 .. subscribers.len} = Subscribed
    BY DEF SubscribersExact
  <2>1. Held = 1 .. subscribers.len /\ Listed = Subscribed /\ todo = {}
    BY ConnectionsAssumption DEF FeedInv, Held, Listed, Subscribed, MoveIsBounded
  <2>2. \A i \in Held : Content(i) = Elem(subscribers, i)
    BY <2>1 DEF Content
  <2> QED
    BY <2>1, <2>2 DEF FeedInv, ListedOnce
<1> QED
  BY FeedInvariant, <1>1, PTL

\* For any number of rebuilds at the same time, a client that is behind a
\* rebuild has news under way to it, unless an Unsubscribe moved its channel
\* under a running loop (registry/registry.go:53-79, mcp/sse.go:75-108).
THEOREM NewsIsUnderWay == FeedSpec => []BehindIsUnderWay
<1>1. FeedInv => BehindIsUnderWay
  BY DEF FeedInv, NewsIsSafe, WillBring, BehindIsUnderWay, UnderWay
<1> QED
  BY FeedInvariant, <1>1, PTL

=============================================================================
