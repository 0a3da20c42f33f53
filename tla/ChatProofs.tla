----------------------------- MODULE ChatProofs -----------------------------
(***************************************************************************)
(* ChatProofs: what a send stores it stores in the conversation in which   *)
(* it was begun, a conversation holds nothing of another unless the user   *)
(* sent in it while the page showed messages of another, and no save of a  *)
(* conversation forgets what was stored of it, for any number of sends,    *)
(* tool calls, instances of the page and sessions.                         *)
(*                                                                         *)
(* The types and AnswersStayHome are not inductive.  A message is stored   *)
(* from what a send works on, which it took from what the page showed,     *)
(* which the page took from its copy of the storage: ChatInv says of what  *)
(* sends work on and of the copy what AnswersStayHome says of the storage, *)
(* of the messages shown only that they come from sends, and that the one  *)
(* send which runs in the page shows its messages only where the page      *)
(* shows its conversation or one that the user has turned to since.        *)
(*                                                                         *)
(* KeepsEarlier needs more: a save stores what its send works on, so that  *)
(* has to hold all that is stored.  KeepsInv says so of what the send      *)
(* works on, of the page's copy of the storage and of the messages shown,  *)
(* and that of these only the message made ready for the model's answer    *)
(* is not complete, which a save would leave out.                          *)
(***************************************************************************)
EXTENDS Chat, FiniteSetTheorems, SequenceTheorems, WellFoundedInduction, TLAPS

\* The types of what TypeOK only describes, and of what a send remembers.
MessageSet == [id : Nat \ {0}, role : {"user", "assistant", "tool_call", "tool_result"},
               said : Sends, streaming : BOOLEAN]
SessionSet == [id : SessionIds, messages : Seq(MessageSet)]

Phases == {"none", "prepare", "answer", "tool", "done", "failed", "killed"}

\* What is stored: sessions with ids of their own, and no message that is not complete.
IsBook(st) ==
  /\ st \in Seq(SessionSet)
  /\ Len(st) <= MaxSessions
  /\ \A i, j \in DOMAIN st : st[i].id = st[j].id => i = j
  /\ \A i \in DOMAIN st : \A k \in DOMAIN st[i].messages : ~st[i].messages[k].streaming

ChatTypes ==
  /\ IsBook(store) /\ IsBook(sessions)
  /\ messages \in Seq(MessageSet)
  /\ base \in [Sends -> Seq(MessageSet)] /\ current \in [Sends -> Seq(MessageSet)]
  /\ active \in SessionIds \cup {NoSession}
  /\ loading \in BOOLEAN
  /\ mount \in 1 .. MaxMounts
  /\ idRef \in [1 .. MaxMounts -> Nat]
  /\ phase \in [Sends -> Phases]
  /\ home \in [Sends -> SessionIds \cup {NoSession}]
  /\ page \in [Sends -> 1 .. MaxMounts]
  /\ calls \in [Sends -> 0 .. MaxCalls]
  /\ strayed \in SUBSET (SessionIds \cup {NoSession})
  /\ shared \in SUBSET SessionIds
  /\ mixed \in SUBSET SessionIds

\* What msgs say comes from sends that have begun.
Known(msgs) == \A k \in DOMAIN msgs : home[msgs[k].said] # NoSession

\* msgs is the conversation s alone, unless the user sent in s what the page showed of
\* another: what it says comes from sends that have begun, and were begun in s.
Belongs(msgs, s) ==
  \A k \in DOMAIN msgs :
    /\ home[msgs[k].said] # NoSession
    /\ s \notin mixed => home[msgs[k].said] = s

AllBelong ==
  /\ \A i \in DOMAIN store : Belongs(store[i].messages, store[i].id)
  /\ \A i \in DOMAIN sessions : Belongs(sessions[i].messages, sessions[i].id)
  /\ Known(messages)
  /\ \A n \in Sends : home[n] # NoSession =>
       Belongs(base[n], home[n]) /\ Belongs(current[n], home[n])

\* At most one send runs in the page that is open, and the page shows its
\* conversation or one that the user has turned to meanwhile.
OneOnPage ==
  \A n \in Running : Shown(n) =>
    /\ loading
    /\ \A k \in Running : Shown(k) => k = n
    /\ active = home[n] \/ active \in strayed

SendsKnown ==
  /\ \A n \in Sends :
       /\ phase[n] = "none" <=> home[n] = NoSession
       /\ page[n] <= mount
  /\ \A s \in mixed : \E n \in Sends : home[n] = s

ChatInv == ChatTypes /\ AllBelong /\ OneOnPage /\ SendsKnown

-----------------------------------------------------------------------------
(* filter. *)

\* A non-empty set of naturals has a least element.
LEMMA Least ==
  ASSUME NEW T \in SUBSET Nat, T # {}
  PROVE  \E m \in T : \A k \in T : m <= k
<1> DEFINE Below == {1 .. k : k \in T}
<1>1. Below \subseteq FiniteSubsetsOf(Nat) /\ Below # {}
  <2>1. \A k \in T : IsFiniteSet(1 .. k) /\ 1 .. k \subseteq Nat
    BY FS_Interval
  <2> QED
    BY <2>1 DEF FiniteSubsetsOf
<1>2. PICK B \in Below : \A C \in Below : <<C, B>> \notin StrictSubsetOrdering(Nat)
  <2>1. IsWellFoundedOn(StrictSubsetOrdering(Nat), FiniteSubsetsOf(Nat))
    BY FS_StrictSubsetOrderingWellFounded
  <2> HIDE DEF Below
  <2> QED
    BY <1>1, <2>1, WFMin
<1>3. PICK m \in T : B = 1 .. m
  BY <1>2
<1>4. ASSUME NEW k \in T, k < m PROVE FALSE
  <2>1. 1 .. k \subseteq 1 .. m /\ m \in 1 .. m /\ m \notin 1 .. k
    BY <1>4
  <2>2. 1 .. k \in Below /\ 1 .. k \in SUBSET Nat /\ 1 .. m \in SUBSET Nat
    OBVIOUS
  <2>3. 1 .. k # 1 .. m
    BY <2>1
  <2>4. <<1 .. k, 1 .. m>> \in StrictSubsetOrdering(Nat)
    BY <2>1, <2>2, <2>3 DEF StrictSubsetOrdering
  <2> QED
    BY <1>2, <1>3, <2>2, <2>4
<1> QED
  BY <1>4

\* As many indices are kept up to k as there are, one more at each that is kept.
LEMMA Ranks ==
  ASSUME NEW L \in Nat, NEW keep \in SUBSET (1 .. L), NEW k \in Nat
  PROVE  /\ Rank(keep, 0) = 0
         /\ Rank(keep, k) \in Nat
         /\ Rank(keep, k + 1) = Rank(keep, k) + (IF k + 1 \in keep THEN 1 ELSE 0)
         /\ k >= L => Rank(keep, k) = Cardinality(keep)
<1> DEFINE Low == {j \in keep : j <= k}
           High == {j \in keep : j <= k + 1}
<1>1. IsFiniteSet(keep) /\ IsFiniteSet(Low)
  <2>1. IsFiniteSet(1 .. L)
    BY FS_Interval
  <2> QED
    BY <2>1, FS_Subset
<1>2. \A j \in keep : j \in Nat /\ 1 <= j /\ j <= L
  OBVIOUS
<1>3. /\ {j \in keep : j <= 0} = {}
      /\ High = IF k + 1 \in keep THEN Low \cup {k + 1} ELSE Low
      /\ k + 1 \notin Low
      /\ k >= L => Low = keep
  <2>1. \A j \in keep : j <= k + 1 <=> (j <= k \/ j = k + 1)
    BY <1>2
  <2>2. High = IF k + 1 \in keep THEN Low \cup {k + 1} ELSE Low
    BY <2>1
  <2>3. k + 1 \notin Low /\ \A j \in keep : ~(j <= 0)
    BY <1>2
  <2>4. k >= L => \A j \in keep : j <= k
    BY <1>2
  <2> QED
    BY <2>2, <2>3, <2>4
<1> HIDE DEF Low, High
<1>6. Cardinality(Low) \in Nat
  BY <1>1, FS_CardinalityType
<1>7. Cardinality(Low \cup {k + 1}) = Cardinality(Low) + 1
  BY <1>1, <1>3, FS_AddElement
<1>8. Cardinality(High) = Cardinality(Low) + (IF k + 1 \in keep THEN 1 ELSE 0)
  BY <1>3, <1>6, <1>7
<1>9. Cardinality({j \in keep : j <= 0}) = 0
  BY <1>3, FS_EmptySet
<1> QED
  BY <1>3, <1>6, <1>8, <1>9 DEF Low, High, Rank

\* The indices to keep are enumerated without repetition.
LEMMA Enumeration ==
  ASSUME NEW L \in Nat, NEW keep \in SUBSET (1 .. L)
  PROVE  /\ Cardinality(keep) \in Nat /\ Cardinality(keep) <= L
         /\ \A n \in 1 .. Cardinality(keep) : Nth(keep, n) \in keep
         /\ \A m, n \in 1 .. Cardinality(keep) : Nth(keep, m) = Nth(keep, n) => m = n
         /\ \A i \in keep : \E n \in 1 .. Cardinality(keep) : Nth(keep, n) = i
<1> DEFINE N == Cardinality(keep)
<1>0. \A j \in keep : j \in Nat /\ 1 <= j /\ j <= L
  OBVIOUS
<1>1. IsFiniteSet(keep) /\ N \in Nat /\ N <= L
  <2>1. IsFiniteSet(1 .. L) /\ Cardinality(1 .. L) = L
    BY FS_Interval
  <2> QED
    BY <2>1, FS_Subset, FS_CardinalityType
<1>2. /\ Rank(keep, 0) = 0 /\ Rank(keep, L) = N
      /\ \A k \in Nat :
           /\ Rank(keep, k) \in Nat
           /\ Rank(keep, k + 1) = Rank(keep, k) + (IF k + 1 \in keep THEN 1 ELSE 0)
  BY Ranks
<1>3. \A i, j \in keep : i < j => Rank(keep, i) < Rank(keep, j)
  <2> SUFFICES ASSUME NEW i \in keep, NEW j \in keep, i < j
               PROVE  Rank(keep, i) < Rank(keep, j)
    OBVIOUS
  <2> DEFINE I == {k \in keep : k <= i}
             J == {k \in keep : k <= j}
  <2>1. I \in SUBSET J /\ j \in J /\ j \notin I /\ IsFiniteSet(J)
    <3>1. IsFiniteSet(J)
      BY <1>1, FS_Subset
    <3>2. i \in Nat /\ j \in Nat
      BY <1>0
    <3>3. \A k \in keep : k <= i => k <= j
      BY <1>0, <3>2
    <3>4. I \in SUBSET J
      BY <3>3
    <3>5. j <= j /\ ~(j <= i)
      BY <3>2
    <3>6. j \in J /\ j \notin I
      BY <3>5
    <3> QED
      BY <3>1, <3>4, <3>6
  <2>2. Rank(keep, i) = Cardinality(I) /\ Rank(keep, j) = Cardinality(J)
    BY DEF Rank
  <2> HIDE DEF I, J
  <2>3. Cardinality(I) <= Cardinality(J) /\ Cardinality(I) # Cardinality(J)
    BY <2>1, FS_Subset
  <2>4. Cardinality(I) \in Nat /\ Cardinality(J) \in Nat
    BY <2>1, FS_Subset, FS_CardinalityType
  <2> QED
    BY <2>2, <2>3, <2>4
<1> HIDE DEF N
<1>4. \A n \in 1 .. N : Nth(keep, n) \in keep /\ Rank(keep, Nth(keep, n)) = n
  <2> SUFFICES ASSUME NEW n \in 1 .. N PROVE \E i \in keep : Rank(keep, i) = n
    BY DEF Nth
  <2> DEFINE Far == {k \in Nat : n <= Rank(keep, k)}
  <2>1. Far \in SUBSET Nat /\ L \in Far
    BY <1>1, <1>2
  <2>2. PICK k \in Far : \A l \in Far : k <= l
    <3> HIDE DEF Far
    <3> QED
      BY <2>1, Least
  <2>3. k \in Nat /\ k # 0 /\ n <= Rank(keep, k)
    BY <1>1, <1>2
  <2>4. k - 1 \in Nat /\ ~(n <= Rank(keep, k - 1))
    BY <2>2, <2>3
  <2>5. /\ Rank(keep, k) = Rank(keep, k - 1) + (IF k \in keep THEN 1 ELSE 0)
        /\ Rank(keep, k - 1) \in Nat
    <3>1. (k - 1) + 1 = k
      BY <2>3
    <3> QED
      BY <1>2, <2>4, <3>1
  <2> QED
    BY <1>1, <2>3, <2>4, <2>5
<1>5. \A m, n \in 1 .. N : Nth(keep, m) = Nth(keep, n) => m = n
  BY <1>4
<1>6. \A i \in keep : \E n \in 1 .. N : Nth(keep, n) = i
  <2> SUFFICES ASSUME NEW i \in keep PROVE \E n \in 1 .. N : Nth(keep, n) = i
    OBVIOUS
  <2> DEFINE n == Rank(keep, i)
  <2>1. i - 1 \in Nat /\ (i - 1) + 1 = i
    BY <1>0
  <2>2. n \in Nat /\ 0 < n
    <3>1. Rank(keep, i) = Rank(keep, i - 1) + 1 /\ Rank(keep, i - 1) \in Nat
      BY <1>2, <2>1
    <3> QED
      BY <3>1
  <2>3. n <= N
    <3>1. {k \in keep : k <= i} \in SUBSET keep
      OBVIOUS
    <3> QED
      BY <1>1, <3>1, FS_Subset DEF Rank, N
  <2>4. n \in 1 .. N
    BY <1>1, <2>2, <2>3
  <2>5. Nth(keep, n) \in keep /\ Rank(keep, Nth(keep, n)) = n
    BY <1>4, <2>4
  <2>6. \A j \in keep : Rank(keep, j) = Rank(keep, i) => j = i
    <3> SUFFICES ASSUME NEW j \in keep, Rank(keep, j) = Rank(keep, i) PROVE j = i
      OBVIOUS
    <3>1. ~(j < i) /\ ~(i < j)
      BY <1>3, <2>2
    <3> QED
      BY <1>0, <3>1
  <2> QED
    BY <2>4, <2>5, <2>6
<1> QED
  BY <1>1, <1>4, <1>5, <1>6 DEF N

\* filter returns the elements to keep, each as often as it is there.
LEMMA FilterElements ==
  ASSUME NEW T, NEW q \in Seq(T), NEW keep \in SUBSET DOMAIN q
  PROVE  /\ Filtered(q, keep) \in Seq(T)
         /\ Len(Filtered(q, keep)) \in Nat /\ Len(Filtered(q, keep)) <= Len(q)
         /\ \A n \in 1 .. Len(Filtered(q, keep)) :
              Nth(keep, n) \in keep /\ Filtered(q, keep)[n] = q[Nth(keep, n)]
         /\ \A m, n \in 1 .. Len(Filtered(q, keep)) : Nth(keep, m) = Nth(keep, n) => m = n
         /\ \A i \in keep : \E n \in 1 .. Len(Filtered(q, keep)) : Nth(keep, n) = i
<1> DEFINE L == Len(q)
           N == Cardinality(keep)
<1>1. L \in Nat /\ keep \in SUBSET (1 .. L) /\ \A i \in 1 .. L : q[i] \in T
  BY LenProperties, ElementOfSeq
<1> HIDE DEF L
<1>2. /\ N \in Nat /\ N <= L
      /\ \A n \in 1 .. N : Nth(keep, n) \in keep
      /\ \A m, n \in 1 .. N : Nth(keep, m) = Nth(keep, n) => m = n
      /\ \A i \in keep : \E n \in 1 .. N : Nth(keep, n) = i
  BY <1>1, Enumeration
<1> HIDE DEF N
<1>3. Filtered(q, keep) = [n \in 1 .. N |-> q[Nth(keep, n)]]
  BY DEF Filtered, N
<1>4. \A n \in 1 .. N : q[Nth(keep, n)] \in T
  BY <1>1, <1>2
<1>5. Filtered(q, keep) \in Seq(T) /\ Len(Filtered(q, keep)) = N
  <2>1. Filtered(q, keep) \in [1 .. N -> T]
    BY <1>3, <1>4
  <2> QED
    BY <1>2, <2>1, SeqDef
<1> QED
  BY <1>2, <1>3, <1>5 DEF L

-----------------------------------------------------------------------------
(* The storage. *)

\* deleteSession removes the session and nothing else.
LEMMA WithoutBook ==
  ASSUME NEW st, IsBook(st), NEW s
  PROVE  /\ IsBook(Without(st, s))
         /\ \A i \in DOMAIN Without(st, s) :
              /\ Without(st, s)[i].id # s
              /\ \E j \in DOMAIN st : Without(st, s)[i] = st[j]
         /\ \A j \in DOMAIN st : st[j].id # s =>
              \E i \in DOMAIN Without(st, s) : Without(st, s)[i] = st[j]
<1> DEFINE keep == {i \in DOMAIN st : st[i].id # s}
           w == Filtered(st, keep)
<1>1. /\ st \in Seq(SessionSet) /\ Len(st) \in Nat /\ Len(st) <= MaxSessions
      /\ keep \in SUBSET DOMAIN st /\ MaxSessions \in Nat
      /\ \A i \in keep : i \in DOMAIN st /\ st[i].id # s
      /\ \A i \in DOMAIN st : st[i].id # s => i \in keep
  BY BoundsAssumption, LenProperties DEF IsBook
<1>2. Without(st, s) = w
  BY DEF Without
<1> HIDE DEF keep
<1>3. /\ w \in Seq(SessionSet)
      /\ Len(w) \in Nat /\ Len(w) <= Len(st)
      /\ \A n \in 1 .. Len(w) : Nth(keep, n) \in keep /\ w[n] = st[Nth(keep, n)]
      /\ \A m, n \in 1 .. Len(w) : Nth(keep, m) = Nth(keep, n) => m = n
      /\ \A i \in keep : \E n \in 1 .. Len(w) : Nth(keep, n) = i
  <2>1. st \in Seq(SessionSet) /\ keep \in SUBSET DOMAIN st
    BY <1>1
  <2> QED
    BY <2>1, FilterElements
<1> HIDE DEF w
<1>4. DOMAIN w = 1 .. Len(w)
  BY <1>3, LenProperties
<1>5. /\ \A i \in DOMAIN w : w[i].id # s /\ \E j \in DOMAIN st : w[i] = st[j]
      /\ \A j \in DOMAIN st : st[j].id # s => \E i \in DOMAIN w : w[i] = st[j]
  BY <1>1, <1>3, <1>4
<1>6. IsBook(w)
  <2>1. Len(w) <= MaxSessions
    BY <1>1, <1>3
  <2>2. \A i, j \in DOMAIN w : w[i].id = w[j].id => i = j
    BY <1>1, <1>3, <1>4 DEF IsBook
  <2>3. \A i \in DOMAIN w : \A k \in DOMAIN w[i].messages : ~w[i].messages[k].streaming
    BY <1>5 DEF IsBook
  <2> QED
    BY <1>3, <2>1, <2>2, <2>3 DEF IsBook
<1> QED
  BY <1>2, <1>5, <1>6

\* saveSession stores the session, and of the others what was stored of them.
LEMMA WithSessionBook ==
  ASSUME NEW st, IsBook(st), NEW e \in SessionSet,
         \A k \in DOMAIN e.messages : ~e.messages[k].streaming
  PROVE  /\ IsBook(WithSession(st, e))
         /\ \A i \in DOMAIN WithSession(st, e) :
              \/ WithSession(st, e)[i] = e
              \/ /\ WithSession(st, e)[i].id # e.id
                 /\ \E j \in DOMAIN st : WithSession(st, e)[i] = st[j]
<1> DEFINE w == Without(st, e.id)
           q == <<e>> \o w
           t == Trimmed(q)
<1>1. /\ IsBook(w)
      /\ \A i \in DOMAIN w : w[i].id # e.id /\ \E j \in DOMAIN st : w[i] = st[j]
  BY WithoutBook
<1>2. WithSession(st, e) = t
  BY DEF WithSession
<1> HIDE DEF w
<1>3. /\ w \in Seq(SessionSet) /\ Len(w) \in Nat /\ DOMAIN w = 1 .. Len(w)
      /\ MaxSessions \in Nat
  BY <1>1, BoundsAssumption, LenProperties DEF IsBook
<1>4. /\ q \in Seq(SessionSet) /\ Len(q) = Len(w) + 1 /\ DOMAIN q = 1 .. Len(w) + 1
      /\ q[1] = e
      /\ \A i \in 1 .. Len(w) + 1 : i # 1 => i - 1 \in DOMAIN w /\ q[i] = w[i - 1]
  BY <1>3
<1>5. /\ \A i \in DOMAIN q : q[i] = e \/ (q[i].id # e.id /\ \E j \in DOMAIN st : q[i] = st[j])
      /\ \A i, j \in DOMAIN q : q[i].id = q[j].id => i = j
      /\ \A i \in DOMAIN q : \A k \in DOMAIN q[i].messages : ~q[i].messages[k].streaming
  <2>1. \A i \in DOMAIN q : q[i] = e \/ (q[i].id # e.id /\ \E j \in DOMAIN st : q[i] = st[j])
    BY <1>1, <1>4
  <2>2. ASSUME NEW i \in DOMAIN q, NEW j \in DOMAIN q, q[i].id = q[j].id PROVE i = j
    <3>1. CASE i = 1 \/ j = 1
      BY <1>1, <1>4, <2>2, <3>1
    <3>2. CASE i # 1 /\ j # 1
      <4>1. i - 1 = j - 1
        BY <1>1, <1>4, <2>2, <3>2 DEF IsBook
      <4> QED
        BY <1>3, <1>4, <4>1
    <3> QED
      BY <3>1, <3>2
  <2>3. \A i \in DOMAIN q : \A k \in DOMAIN q[i].messages : ~q[i].messages[k].streaming
    BY <2>1 DEF IsBook
  <2> QED
    BY <2>1, <2>2, <2>3
<1> HIDE DEF q
<1>6. /\ t \in Seq(SessionSet) /\ Len(t) \in Nat /\ Len(t) <= MaxSessions
      /\ DOMAIN t \subseteq DOMAIN q
      /\ \A i \in DOMAIN t : t[i] = q[i]
  <2>1. CASE Len(q) > MaxSessions
    BY <1>3, <1>4, <2>1 DEF Trimmed
  <2>2. CASE ~(Len(q) > MaxSessions)
    BY <1>3, <1>4, <2>2 DEF Trimmed
  <2> QED
    BY <2>1, <2>2
<1> HIDE DEF t
<1>7. IsBook(t)
  BY <1>5, <1>6 DEF IsBook
<1> QED
  BY <1>2, <1>5, <1>6, <1>7

\* What is stored of messages is those of them that are complete.
LEMMA NotStreamingPart ==
  ASSUME NEW msgs \in Seq(MessageSet)
  PROVE  /\ NotStreaming(msgs) \in Seq(MessageSet)
         /\ \A k \in DOMAIN NotStreaming(msgs) :
              /\ ~NotStreaming(msgs)[k].streaming
              /\ \E l \in DOMAIN msgs : NotStreaming(msgs)[k] = msgs[l]
<1> DEFINE keep == {i \in DOMAIN msgs : ~msgs[i].streaming}
           w == Filtered(msgs, keep)
<1>1. keep \in SUBSET DOMAIN msgs /\ \A i \in keep : i \in DOMAIN msgs /\ ~msgs[i].streaming
  OBVIOUS
<1>2. NotStreaming(msgs) = w
  BY DEF NotStreaming
<1> HIDE DEF keep
<1>3. /\ w \in Seq(MessageSet)
      /\ \A n \in 1 .. Len(w) : Nth(keep, n) \in keep /\ w[n] = msgs[Nth(keep, n)]
  BY <1>1, FilterElements
<1> HIDE DEF w
<1>4. DOMAIN w = 1 .. Len(w)
  BY <1>3, LenProperties
<1> QED
  BY <1>1, <1>2, <1>3, <1>4

\* saveCurrentSession stores of the session what it is given, and nothing of it
\* in another.
LEMMA SavedBook ==
  ASSUME NEW st, IsBook(st), NEW s \in SessionIds, NEW msgs \in Seq(MessageSet)
  PROVE  /\ IsBook(Saved(st, s, msgs))
         /\ \A i \in DOMAIN Saved(st, s, msgs) :
              \/ \E j \in DOMAIN st : Saved(st, s, msgs)[i] = st[j]
              \/ /\ Saved(st, s, msgs)[i].id = s
                 /\ \A k \in DOMAIN Saved(st, s, msgs)[i].messages : \E l \in DOMAIN msgs :
                      Saved(st, s, msgs)[i].messages[k] = msgs[l]
<1> DEFINE e == [id |-> s, messages |-> NotStreaming(msgs)]
<1>1. /\ e \in SessionSet /\ e.id = s
      /\ \A k \in DOMAIN e.messages : /\ ~e.messages[k].streaming
                                      /\ \E l \in DOMAIN msgs : e.messages[k] = msgs[l]
  BY NotStreamingPart DEF SessionSet
<1>2. CASE IsStored(st, s)
  <2>1. Saved(st, s, msgs) = WithSession(st, e)
    BY <1>2 DEF Saved
  <2> HIDE DEF e
  <2> QED
    BY <1>1, <2>1, WithSessionBook
<1>3. CASE ~IsStored(st, s)
  BY <1>3 DEF Saved
<1> QED
  BY <1>2, <1>3

-----------------------------------------------------------------------------
(* Messages. *)

\* The messages of a send have its number.
LEMMA MessageType ==
  ASSUME NEW id \in Nat \ {0}, NEW role \in {"user", "assistant", "tool_call", "tool_result"},
         NEW n \in Sends
  PROVE  /\ Message(id, role, n) \in MessageSet /\ Message(id, role, n).said = n
         /\ Streaming(id, n) \in MessageSet /\ Streaming(id, n).said = n
<1>1. Message(id, role, n) \in MessageSet /\ Message(id, role, n).said = n
  BY DEF Message, MessageSet
<1>2. Message(id, "assistant", n) \in MessageSet /\ Message(id, "assistant", n).said = n
  BY DEF Message, MessageSet
<1>3. Streaming(id, n) \in MessageSet /\ Streaming(id, n).said = n
  BY <1>2 DEF Streaming, MessageSet
<1> QED
  BY <1>1, <1>3

\* updateMessage changes messages to what the send says, and adds none.
LEMMA UpdatedPart ==
  ASSUME NEW msgs \in Seq(MessageSet), NEW id, NEW n \in Sends
  PROVE  /\ Updated(msgs, id, n) \in Seq(MessageSet)
         /\ DOMAIN Updated(msgs, id, n) = DOMAIN msgs
         /\ \A k \in DOMAIN msgs : \/ Updated(msgs, id, n)[k] = msgs[k]
                                   \/ Updated(msgs, id, n)[k].said = n
<1> DEFINE u == Updated(msgs, id, n)
<1>1. /\ Len(msgs) \in Nat /\ DOMAIN msgs = 1 .. Len(msgs)
      /\ \A k \in DOMAIN msgs : msgs[k] \in MessageSet
  BY LenProperties, ElementOfSeq
<1>2. DOMAIN u = DOMAIN msgs /\ u = [k \in DOMAIN msgs |-> u[k]]
  BY DEF Updated
<1>3. \A k \in DOMAIN msgs : u[k] \in MessageSet /\ (u[k] = msgs[k] \/ u[k].said = n)
  BY <1>1 DEF Updated, MessageSet
<1> HIDE DEF u
<1>4. u \in [1 .. Len(msgs) -> MessageSet]
  BY <1>1, <1>2, <1>3
<1>5. u \in Seq(MessageSet)
  BY <1>1, <1>4, SeqDef
<1> QED
  BY <1>2, <1>3, <1>5 DEF u

\* A message appended by a send of s belongs to s.
LEMMA AppendBelongs ==
  ASSUME NEW msgs \in Seq(MessageSet), NEW m \in MessageSet, NEW s,
         Belongs(msgs, s), home[m.said] = s, s # NoSession
  PROVE  Append(msgs, m) \in Seq(MessageSet) /\ Belongs(Append(msgs, m), s)
<1>1. /\ Append(msgs, m) \in Seq(MessageSet)
      /\ DOMAIN Append(msgs, m) = 1 .. Len(msgs) + 1 /\ DOMAIN msgs = 1 .. Len(msgs)
      /\ Len(msgs) \in Nat
      /\ \A k \in 1 .. Len(msgs) + 1 :
           Append(msgs, m)[k] = IF k = Len(msgs) + 1 THEN m ELSE msgs[k]
  OBVIOUS
<1>2. \A k \in 1 .. Len(msgs) + 1 : k \in 1 .. Len(msgs) \/ k = Len(msgs) + 1
  BY <1>1
<1> QED
  BY <1>1, <1>2 DEF Belongs

\* A message that a send of s changes belongs to s.
LEMMA UpdatedBelongs ==
  ASSUME NEW msgs \in Seq(MessageSet), NEW id, NEW n \in Sends, NEW s,
         Belongs(msgs, s), home[n] # NoSession, s \notin mixed => home[n] = s
  PROVE  Updated(msgs, id, n) \in Seq(MessageSet) /\ Belongs(Updated(msgs, id, n), s)
  BY UpdatedPart DEF Belongs

\* A message that a send changes comes from a send.
LEMMA UpdatedKnown ==
  ASSUME NEW msgs \in Seq(MessageSet), NEW id, NEW n \in Sends, Known(msgs),
         home[n] # NoSession
  PROVE  Updated(msgs, id, n) \in Seq(MessageSet) /\ Known(Updated(msgs, id, n))
  BY UpdatedPart DEF Known

-----------------------------------------------------------------------------
(* The steps of a send. *)

\* What a step of a send leaves as the invariant says: the storage and the page's copy
\* of it, what the page shows, what sends work on, and where they run.
StorageKept ==
  /\ IsBook(store') /\ IsBook(sessions')
  /\ \A i \in DOMAIN store' : Belongs(store'[i].messages, store'[i].id)
  /\ \A i \in DOMAIN sessions' : Belongs(sessions'[i].messages, sessions'[i].id)

PageKept == messages' \in Seq(MessageSet) /\ Known(messages')

WorkKept ==
  /\ base' \in [Sends -> Seq(MessageSet)] /\ current' \in [Sends -> Seq(MessageSet)]
  /\ \A k \in Sends : home[k] # NoSession =>
       Belongs(base'[k], home[k]) /\ Belongs(current'[k], home[k])

SendsKept == OneOnPage' /\ SendsKnown' /\ phase' \in [Sends -> Phases]

USE DEF Phases, StorageKept, PageKept, WorkKept, SendsKept

\* What the send that is awaiting something has to work with.
LEMMA AtWork ==
  ASSUME ChatInv, NEW n \in Running
  PROVE  /\ n \in Sends /\ home[n] \in SessionIds /\ home[n] # NoSession
         /\ base[n] \in Seq(MessageSet) /\ Belongs(base[n], home[n])
         /\ current[n] \in Seq(MessageSet) /\ Belongs(current[n], home[n])
         /\ page[n] \in 1 .. MaxMounts /\ LastId(n) \in Nat
         /\ LastId(n) + 1 \in Nat \ {0} /\ LastId(n) + 2 \in Nat \ {0}
         /\ Shown(n) => active = home[n] \/ active \in strayed
<1>1. n \in Sends /\ page[n] \in 1 .. MaxMounts /\ LastId(n) \in Nat
  BY DEF ChatInv, ChatTypes, Running, LastId
<1>2. home[n] \in SessionIds /\ home[n] # NoSession
  BY <1>1 DEF ChatInv, ChatTypes, SendsKnown, Running
<1> QED
  BY <1>1, <1>2 DEF ChatInv, ChatTypes, AllBelong, OneOnPage

\* What a send shows comes from sends.
LEMMA ShowBelongs ==
  ASSUME ChatInv, NEW n \in Running, NEW msgs \in Seq(MessageSet), Belongs(msgs, home[n]),
         Show(n, msgs)
  PROVE  PageKept
<1>1. CASE Shown(n)
  BY <1>1 DEF Show, Belongs, Known
<1>2. CASE ~Shown(n)
  BY <1>2 DEF Show, ChatInv, ChatTypes, AllBelong
<1> QED
  BY <1>1, <1>2

\* What a send stores belongs to its conversation, and the others are as they were.
LEMMA StoreBelongs ==
  ASSUME ChatInv, NEW n \in Running, NEW msgs \in Seq(MessageSet), Belongs(msgs, home[n]),
         Store(n, msgs)
  PROVE  StorageKept
<1> DEFINE s == home[n]
           new == Saved(store, s, msgs)
<1>1. s \in SessionIds /\ IsBook(store) /\ IsBook(sessions) /\ store' = new
  BY AtWork DEF ChatInv, ChatTypes, Store
<1> HIDE DEF s
<1>2. /\ IsBook(new)
      /\ \A i \in DOMAIN new :
           \/ \E j \in DOMAIN store : new[i] = store[j]
           \/ /\ new[i].id = s
              /\ \A k \in DOMAIN new[i].messages : \E l \in DOMAIN msgs :
                   new[i].messages[k] = msgs[l]
  BY <1>1, SavedBook
<1> HIDE DEF new
<1>3. \A i \in DOMAIN new : Belongs(new[i].messages, new[i].id)
  <2> SUFFICES ASSUME NEW i \in DOMAIN new PROVE Belongs(new[i].messages, new[i].id)
    OBVIOUS
  <2>1. CASE \E j \in DOMAIN store : new[i] = store[j]
    BY <2>1 DEF ChatInv, AllBelong
  <2>2. CASE /\ new[i].id = s
             /\ \A k \in DOMAIN new[i].messages : \E l \in DOMAIN msgs :
                  new[i].messages[k] = msgs[l]
    BY <2>2 DEF Belongs, s
  <2> QED
    BY <1>2, <2>1, <2>2
<1> QED
  BY <1>1, <1>2, <1>3 DEF Store, ChatInv, AllBelong

\* Where the sends run, when one of them goes on or ends.
LEMMA GoesOn ==
  ASSUME ChatInv, NEW n \in Running, NEW to \in {"answer", "tool"},
         UNCHANGED <<active, mount, home, page, strayed, shared, mixed, loading>>, Await(n, to)
  PROVE  /\ SendsKept
<1> USE DEF ChatInv, ChatTypes, Await
<1>1. n \in Sends /\ phase[n] # "none"
  BY DEF Running
<1>2. /\ phase' \in [Sends -> Phases]
      /\ \A k \in Sends : phase'[k] = IF k = n THEN to ELSE phase[k]
  BY <1>1
<1>3. Running' = Running
  BY <1>2 DEF Running
<1>4. OneOnPage'
  BY <1>3 DEF OneOnPage, Shown
<1>5. SendsKnown'
  BY <1>1, <1>2 DEF SendsKnown
<1> QED
  BY <1>2, <1>4, <1>5

\* What a send leaves behind when it ends: nothing that it worked on.
LEMMA Ends ==
  ASSUME ChatInv, NEW n \in Running, NEW how \in {"done", "failed"},
         UNCHANGED <<active, mount, home, page, strayed, shared, mixed>>, End(n, how)
  PROVE  /\ SendsKept
         /\ loading' \in BOOLEAN
         /\ WorkKept
         /\ calls' \in [Sends -> 0 .. MaxCalls]
<1> USE DEF ChatInv, ChatTypes, End, Await
<1>1. n \in Sends /\ phase[n] # "none"
  BY DEF Running
<1>2. /\ phase' \in [Sends -> Phases]
      /\ \A k \in Sends : phase'[k] = IF k = n THEN how ELSE phase[k]
  BY <1>1
<1>3. Running' = Running \ {n}
  BY <1>2 DEF Running
<1>4. loading' \in BOOLEAN /\ (loading' <=> loading /\ ~Shown(n))
  OBVIOUS
<1>5. OneOnPage'
  BY <1>3, <1>4 DEF OneOnPage, Shown
<1>6. SendsKnown'
  BY <1>1, <1>2 DEF SendsKnown
<1>7. <<>> \in Seq(MessageSet) /\ 0 \in 0 .. MaxCalls
  BY EmptySeq, BoundsAssumption
<1>8. \A s : Belongs(<<>>, s)
  BY DEF Belongs
<1>9. /\ base' \in [Sends -> Seq(MessageSet)] /\ current' \in [Sends -> Seq(MessageSet)]
      /\ calls' \in [Sends -> 0 .. MaxCalls]
  BY <1>1, <1>7
<1>10. \A k \in Sends : /\ base'[k] = IF k = n THEN <<>> ELSE base[k]
                        /\ current'[k] = IF k = n THEN <<>> ELSE current[k]
  BY <1>1
<1> QED
  BY <1>2, <1>4, <1>5, <1>6, <1>8, <1>9, <1>10 DEF AllBelong

\* A send that goes on with msgs of its conversation keeps what it works on.
LEMMA Continues ==
  ASSUME ChatInv, NEW n \in Running, NEW msgs \in Seq(MessageSet), Belongs(msgs, home[n]),
         current' = [current EXCEPT ![n] = msgs], Show(n, msgs), UNCHANGED base
  PROVE  /\ PageKept
         /\ WorkKept
<1>1. n \in Sends
  BY AtWork
<1>2. /\ current' \in [Sends -> Seq(MessageSet)]
      /\ \A k \in Sends : current'[k] = IF k = n THEN msgs ELSE current[k]
  BY <1>1 DEF ChatInv, ChatTypes
<1> QED
  BY <1>1, <1>2, ShowBelongs DEF ChatInv, ChatTypes, AllBelong

\* The ids that a send gives out.
LEMMA IdsGivenOut ==
  ASSUME ChatInv, NEW n \in Running, NEW k \in {1, 2},
         idRef' = [idRef EXCEPT ![page[n]] = @ + k]
  PROVE  idRef' \in [1 .. MaxMounts -> Nat]
<1>1. idRef \in [1 .. MaxMounts -> Nat] /\ page[n] \in 1 .. MaxMounts
  BY AtWork DEF ChatInv, ChatTypes
<1> QED
  BY <1>1

\* The model is asked: nothing is stored.
LEMMA PreparedStep ==
  ASSUME ChatInv, NEW n \in Sends, Prepared(n)
  PROVE  ChatInv'
<1> DEFINE id == LastId(n) + 1
           asked == Append(current[n], Streaming(id, n))
<1>1. n \in Running
  BY DEF Prepared, Running
<1>2. asked \in Seq(MessageSet) /\ Belongs(asked, home[n])
  BY <1>1, AtWork, MessageType, AppendBelongs
<1>3. /\ Await(n, "answer") /\ current' = [current EXCEPT ![n] = asked] /\ Show(n, asked)
      /\ idRef' = [idRef EXCEPT ![page[n]] = @ + 1]
      /\ UNCHANGED <<store, sessions, active, loading, mount, home, page, base, calls, strayed,
                     shared, mixed>>
  BY DEF Prepared, Ask
<1> HIDE DEF asked
<1>4. SendsKept
  BY <1>1, <1>3, GoesOn
<1>5. /\ PageKept
      /\ WorkKept
  BY <1>1, <1>2, <1>3, Continues
<1>6. idRef' \in [1 .. MaxMounts -> Nat]
  BY <1>1, <1>3, IdsGivenOut
<1>7. ChatTypes'
  BY <1>3, <1>4, <1>5, <1>6 DEF ChatInv, ChatTypes, IsBook
<1>8. AllBelong'
  BY <1>3, <1>5 DEF ChatInv, AllBelong, Belongs, Known
<1> QED
  BY <1>4, <1>7, <1>8 DEF ChatInv

\* The answer is stored in the conversation of the send.
LEMMA AnsweredStep ==
  ASSUME ChatInv, NEW n \in Sends, Answered(n)
  PROVE  ChatInv'
<1> DEFINE said == Updated(current[n], LastId(n), n)
           shown == Updated(messages, LastId(n), n)
<1>1. n \in Running
  BY DEF Answered, Running
<1>2. /\ Store(n, said) /\ Show(n, shown) /\ End(n, "done")
      /\ UNCHANGED <<active, mount, idRef, home, page, strayed, shared, mixed>>
  BY DEF Answered
<1>3. said \in Seq(MessageSet) /\ Belongs(said, home[n])
  BY <1>1, AtWork, UpdatedBelongs
<1>4. PageKept
  <2>1. messages \in Seq(MessageSet) /\ Known(messages)
    BY DEF ChatInv, ChatTypes, AllBelong
  <2>2. CASE Shown(n)
    <3>1. home[n] # NoSession
      BY <1>1, AtWork
    <3>2. shown \in Seq(MessageSet) /\ Known(shown)
      BY <2>1, <3>1, UpdatedKnown
    <3> QED
      BY <1>2, <2>2, <3>2 DEF Show
  <2>3. CASE ~Shown(n)
    BY <1>2, <2>1, <2>3 DEF Show
  <2> QED
    BY <2>2, <2>3
<1> HIDE DEF said, shown
<1>5. StorageKept
  BY <1>1, <1>2, <1>3, StoreBelongs
<1>6. /\ SendsKept
      /\ loading' \in BOOLEAN
      /\ WorkKept
      /\ calls' \in [Sends -> 0 .. MaxCalls]
  BY <1>1, <1>2, Ends
<1>7. ChatTypes'
  BY <1>2, <1>4, <1>5, <1>6 DEF ChatInv, ChatTypes, IsBook
<1>8. AllBelong'
  BY <1>2, <1>4, <1>5, <1>6 DEF AllBelong, Belongs, Known
<1> QED
  BY <1>6, <1>7, <1>8 DEF ChatInv

\* Where a tool is called after msgs of the conversation.
LEMMA Calls ==
  ASSUME ChatInv, NEW n \in Running, NEW msgs \in Seq(MessageSet), Belongs(msgs, home[n]),
         NEW id \in Nat \ {0}, Call(n, msgs, id),
         UNCHANGED <<active, loading, mount, home, page, base, strayed, shared, mixed>>
  PROVE  /\ SendsKept
         /\ PageKept
         /\ WorkKept
         /\ calls' \in [Sends -> 0 .. MaxCalls]
<1> DEFINE called == Append(msgs, Message(id, "tool_call", n))
<1>1. called \in Seq(MessageSet) /\ Belongs(called, home[n])
  BY AtWork, MessageType, AppendBelongs
<1>2. /\ calls[n] < MaxCalls /\ calls' = [calls EXCEPT ![n] = @ + 1]
      /\ Await(n, "tool") /\ current' = [current EXCEPT ![n] = called] /\ Show(n, called)
  BY DEF Call
<1> HIDE DEF called
<1>3. SendsKept
  BY <1>2, GoesOn
<1>4. /\ PageKept
      /\ WorkKept
  BY <1>1, <1>2, Continues
<1>5. calls' \in [Sends -> 0 .. MaxCalls]
  <2>1. calls \in [Sends -> 0 .. MaxCalls] /\ n \in Sends /\ MaxCalls \in Nat
    BY AtWork, BoundsAssumption DEF ChatInv, ChatTypes
  <2>2. calls[n] + 1 \in 0 .. MaxCalls
    BY <1>2, <2>1
  <2> QED
    BY <1>2, <2>1, <2>2
<1> QED
  BY <1>3, <1>4, <1>5

\* A tool is called: nothing is stored.
LEMMA AskedForToolStep ==
  ASSUME ChatInv, NEW n \in Sends, AskedForTool(n)
  PROVE  ChatInv'
<1> DEFINE msgs == Updated(current[n], LastId(n), n)
           id == LastId(n) + 1
<1>1. n \in Running
  BY DEF AskedForTool, Running
<1>2. /\ Call(n, msgs, id)
      /\ idRef' = [idRef EXCEPT ![page[n]] = @ + 1]
      /\ UNCHANGED <<store, sessions, active, loading, mount, home, page, base, strayed, shared,
                     mixed>>
  BY DEF AskedForTool
<1>3. msgs \in Seq(MessageSet) /\ Belongs(msgs, home[n]) /\ id \in Nat \ {0}
  BY <1>1, AtWork, UpdatedBelongs
<1> HIDE DEF msgs, id
<1>4. /\ SendsKept
      /\ PageKept
      /\ WorkKept
      /\ calls' \in [Sends -> 0 .. MaxCalls]
  BY <1>1, <1>2, <1>3, Calls
<1>5. idRef' \in [1 .. MaxMounts -> Nat]
  BY <1>1, <1>2, IdsGivenOut
<1>6. ChatTypes'
  BY <1>2, <1>4, <1>5 DEF ChatInv, ChatTypes, IsBook
<1>7. AllBelong'
  BY <1>2, <1>4 DEF ChatInv, AllBelong, Belongs, Known
<1> QED
  BY <1>4, <1>6, <1>7 DEF ChatInv

\* The next tool is called, or the conversation of the send stored.
LEMMA ToolAnsweredStep ==
  ASSUME ChatInv, NEW n \in Sends, ToolAnswered(n)
  PROVE  ChatInv'
<1> DEFINE msgs == Append(current[n], Message(LastId(n) + 1, "tool_result", n))
           id == LastId(n) + 2
           asked == Append(msgs, Streaming(id, n))
<1>1. n \in Running
  BY DEF ToolAnswered, Running
<1>2. /\ \/ Call(n, msgs, id) /\ UNCHANGED <<store, sessions>>
         \/ Store(n, msgs) /\ Ask(n, msgs, id) /\ UNCHANGED calls
      /\ idRef' = [idRef EXCEPT ![page[n]] = @ + 2]
      /\ UNCHANGED <<active, loading, mount, home, page, base, strayed, shared, mixed>>
  BY DEF ToolAnswered
<1>3. msgs \in Seq(MessageSet) /\ Belongs(msgs, home[n]) /\ id \in Nat \ {0}
  BY <1>1, AtWork, MessageType, AppendBelongs
<1> HIDE DEF msgs, id
<1>4. asked \in Seq(MessageSet) /\ Belongs(asked, home[n])
  BY <1>1, <1>3, AtWork, MessageType, AppendBelongs
<1>5. idRef' \in [1 .. MaxMounts -> Nat]
  BY <1>1, <1>2, IdsGivenOut
<1>6. CASE Call(n, msgs, id) /\ UNCHANGED <<store, sessions>>
  <2>1. /\ SendsKept
        /\ PageKept
        /\ WorkKept
        /\ calls' \in [Sends -> 0 .. MaxCalls]
    BY <1>1, <1>2, <1>3, <1>6, Calls
  <2>2. ChatTypes'
    BY <1>2, <1>5, <1>6, <2>1 DEF ChatInv, ChatTypes, IsBook
  <2>3. AllBelong'
    BY <1>2, <1>6, <2>1 DEF ChatInv, AllBelong, Belongs, Known
  <2> QED
    BY <2>1, <2>2, <2>3 DEF ChatInv
<1>7. CASE Store(n, msgs) /\ Ask(n, msgs, id) /\ UNCHANGED calls
  <2>1. Await(n, "answer") /\ current' = [current EXCEPT ![n] = asked] /\ Show(n, asked)
    BY <1>7 DEF Ask
  <2> HIDE DEF asked
  <2>2. SendsKept
    BY <1>1, <1>2, <2>1, GoesOn
  <2>3. /\ PageKept
        /\ WorkKept
    BY <1>1, <1>2, <1>4, <2>1, Continues
  <2>4. StorageKept
    BY <1>1, <1>3, <1>7, StoreBelongs
  <2>5. ChatTypes'
    BY <1>2, <1>5, <1>7, <2>2, <2>3, <2>4 DEF ChatInv, ChatTypes, IsBook
  <2>6. AllBelong'
    BY <1>2, <2>3, <2>4 DEF AllBelong, Belongs, Known
  <2> QED
    BY <2>2, <2>5, <2>6 DEF ChatInv
<1> QED
  BY <1>2, <1>6, <1>7

\* What the send began with is stored in its conversation, with an error message.
LEMMA FailedStep ==
  ASSUME ChatInv, NEW n \in Sends, Failed(n)
  PROVE  ChatInv'
<1> DEFINE msgs == Append(base[n], Message(LastId(n) + 1, "assistant", n))
<1>1. n \in Running
  BY DEF Failed, Running
<1>2. /\ Show(n, msgs) /\ Store(n, msgs) /\ End(n, "failed")
      /\ idRef' = [idRef EXCEPT ![page[n]] = @ + 1]
      /\ UNCHANGED <<active, mount, home, page, strayed, shared, mixed>>
  BY DEF Failed
<1>3. msgs \in Seq(MessageSet) /\ Belongs(msgs, home[n])
  BY <1>1, AtWork, MessageType, AppendBelongs
<1> HIDE DEF msgs
<1>4. PageKept
  BY <1>1, <1>2, <1>3, ShowBelongs
<1>5. StorageKept
  BY <1>1, <1>2, <1>3, StoreBelongs
<1>6. /\ SendsKept
      /\ loading' \in BOOLEAN
      /\ WorkKept
      /\ calls' \in [Sends -> 0 .. MaxCalls]
  BY <1>1, <1>2, Ends
<1>7. idRef' \in [1 .. MaxMounts -> Nat]
  BY <1>1, <1>2, IdsGivenOut
<1>8. ChatTypes'
  BY <1>2, <1>4, <1>5, <1>6, <1>7 DEF ChatInv, ChatTypes, IsBook
<1>9. AllBelong'
  BY <1>2, <1>4, <1>5, <1>6 DEF AllBelong, Belongs, Known
<1> QED
  BY <1>6, <1>8, <1>9 DEF ChatInv

-----------------------------------------------------------------------------
(* What the user does. *)

\* Belongs, after a step, and Known.
BelongsNext(msgs, s) ==
  \A k \in DOMAIN msgs :
    /\ home'[msgs[k].said] # NoSession
    /\ s \notin mixed' => home'[msgs[k].said] = s

KnownNext(msgs) == \A k \in DOMAIN msgs : home'[msgs[k].said] # NoSession

\* What belonged to a session still does, if the step has begun no send that there
\* was and it is not forgotten what is mixed.
HomesKept ==
  /\ \A k \in Sends : home[k] # NoSession => home'[k] = home[k]
  /\ mixed \subseteq mixed'

\* Every message comes from a send.
LEMMA SaidBySends ==
  ASSUME NEW msgs \in Seq(MessageSet), NEW k \in DOMAIN msgs
  PROVE  msgs[k].said \in Sends
<1>1. msgs[k] \in MessageSet
  <2>1. k \in 1 .. Len(msgs)
    BY LenProperties
  <2> QED
    BY <2>1, ElementOfSeq
<1> QED
  BY <1>1 DEF MessageSet

\* What belongs to a session belongs to it after such a step.
LEMMA StillBelongs ==
  ASSUME ChatTypes, HomesKept, NEW msgs \in Seq(MessageSet), NEW s,
         Belongs(msgs, s)
  PROVE  BelongsNext(msgs, s)
<1>1. \A k \in DOMAIN msgs : msgs[k].said \in Sends
  BY SaidBySends
<1>2. s \in mixed => s \in mixed'
  BY DEF HomesKept
<1> QED
  BY <1>1, <1>2 DEF HomesKept, Belongs, BelongsNext

\* What a session of the storage holds.
LEMMA BookContent ==
  ASSUME NEW st, IsBook(st), NEW i \in DOMAIN st
  PROVE  st[i].id \in SessionIds /\ st[i].id # NoSession /\ st[i].messages \in Seq(MessageSet)
<1>1. st[i] \in SessionSet
  BY ElementOfSeq, LenProperties DEF IsBook
<1> QED
  BY <1>1, NoSessionAssumption DEF SessionSet

\* The storage, the page's copy and the running sends still hold what belongs to
\* them after a step that changes none of them.
LEMMA OthersStillBelong ==
  ASSUME ChatInv, HomesKept
  PROVE  /\ \A i \in DOMAIN store : BelongsNext(store[i].messages, store[i].id)
         /\ \A i \in DOMAIN sessions : BelongsNext(sessions[i].messages, sessions[i].id)
         /\ \A n \in Sends : home[n] # NoSession =>
              BelongsNext(base[n], home[n]) /\ BelongsNext(current[n], home[n])
<1> USE DEF ChatInv, ChatTypes, AllBelong
<1>1. \A i \in DOMAIN store : BelongsNext(store[i].messages, store[i].id)
  BY BookContent, StillBelongs
<1>2. \A i \in DOMAIN sessions : BelongsNext(sessions[i].messages, sessions[i].id)
  BY BookContent, StillBelongs
<1>3. \A n \in Sends : home[n] # NoSession =>
        BelongsNext(base[n], home[n]) /\ BelongsNext(current[n], home[n])
  BY StillBelongs
<1> QED
  BY <1>1, <1>2, <1>3

\* A send begins in the conversation that is shown, or in a new one.
LEMMA SendStepBegins ==
  ASSUME ChatInv, NEW n \in Sends, Send(n)
  PROVE  ChatInv'
<1> DEFINE m == Message(idRef[mount] + 1, "user", n)
           said == Append(messages, m)
<1>1. /\ n \notin Running /\ home[n] = NoSession /\ ~loading
      /\ messages' = said /\ loading' = TRUE
      /\ idRef' = [idRef EXCEPT ![mount] = @ + 1]
      /\ phase' = [phase EXCEPT ![n] = "prepare"]
      /\ page' = [page EXCEPT ![n] = mount]
      /\ base' = [base EXCEPT ![n] = messages]
      /\ current' = [current EXCEPT ![n] = said]
      /\ sessions' = IF active = NoSession \/ IsStored(store, active) THEN store' ELSE sessions
      /\ UNCHANGED <<mount, calls, shared>>
  BY DEF Send, ChatInv, SendsKnown, Running
<1>2. PICK s \in SessionIds :
        /\ active # NoSession => s = active
        /\ active' = s
        /\ home' = [home EXCEPT ![n] = s]
        /\ store' = Saved(IF active = NoSession
                          THEN WithSession(store, [id |-> s, messages |-> <<>>]) ELSE store,
                          s, said)
        /\ strayed' = IF active = NoSession /\ NoSession \in strayed
                      THEN strayed \cup {s} ELSE strayed
        /\ mixed' = IF \E k \in DOMAIN messages : home[messages[k].said] # s
                    THEN mixed \cup {s} ELSE mixed
  BY DEF Send
<1>3. s # NoSession /\ HomesKept /\ home'[n] = s
  BY <1>1, <1>2, NoSessionAssumption DEF HomesKept, ChatInv, ChatTypes
<1>4. /\ messages \in Seq(MessageSet) /\ Known(messages)
      /\ mount \in 1 .. MaxMounts /\ idRef[mount] \in Nat /\ idRef[mount] + 1 \in Nat \ {0}
      /\ m \in MessageSet /\ m.said = n
  <2>1. /\ messages \in Seq(MessageSet) /\ Known(messages)
        /\ mount \in 1 .. MaxMounts /\ idRef[mount] \in Nat
    BY DEF ChatInv, ChatTypes, AllBelong
  <2> QED
    BY <2>1, MessageType
<1> HIDE DEF m
<1>5. BelongsNext(messages, s)
  <2> SUFFICES ASSUME NEW k \in DOMAIN messages
               PROVE  /\ home'[messages[k].said] # NoSession
                      /\ s \notin mixed' => home'[messages[k].said] = s
    BY DEF BelongsNext
  <2>1. messages[k].said \in Sends /\ home[messages[k].said] # NoSession
    BY <1>4, SaidBySends DEF Known
  <2>2. home'[messages[k].said] = home[messages[k].said]
    BY <1>3, <2>1 DEF HomesKept
  <2>3. s \notin mixed' => home[messages[k].said] = s
    BY <1>2
  <2> QED
    BY <2>1, <2>2, <2>3
<1>6. said \in Seq(MessageSet) /\ BelongsNext(said, s)
  <2>1. /\ said \in Seq(MessageSet)
        /\ DOMAIN said = 1 .. Len(messages) + 1 /\ DOMAIN messages = 1 .. Len(messages)
        /\ Len(messages) \in Nat
        /\ \A k \in 1 .. Len(messages) + 1 :
             said[k] = IF k = Len(messages) + 1 THEN m ELSE messages[k]
    BY <1>4
  <2>2. \A k \in 1 .. Len(messages) + 1 : k \in 1 .. Len(messages) \/ k = Len(messages) + 1
    BY <2>1
  <2> HIDE DEF said
  <2> QED
    BY <1>3, <1>4, <1>5, <2>1, <2>2 DEF BelongsNext
<1> HIDE DEF said
<1>7. /\ IsBook(store') /\ IsBook(sessions')
      /\ \A i \in DOMAIN store' : BelongsNext(store'[i].messages, store'[i].id)
      /\ \A i \in DOMAIN sessions' : BelongsNext(sessions'[i].messages, sessions'[i].id)
  <2> DEFINE e == [id |-> s, messages |-> <<>>]
             st == IF active = NoSession THEN WithSession(store, e) ELSE store
  <2>1. /\ IsBook(store) /\ IsBook(sessions)
        /\ \A i \in DOMAIN store : BelongsNext(store[i].messages, store[i].id)
        /\ \A i \in DOMAIN sessions : BelongsNext(sessions[i].messages, sessions[i].id)
    BY <1>3, OthersStillBelong DEF ChatInv, ChatTypes
  <2>2. e \in SessionSet /\ e.messages = <<>>
    BY EmptySeq DEF SessionSet
  <2> HIDE DEF e
  <2>3. /\ IsBook(WithSession(store, e))
        /\ \A i \in DOMAIN WithSession(store, e) :
             \/ WithSession(store, e)[i] = e
             \/ \E j \in DOMAIN store : WithSession(store, e)[i] = store[j]
    <3>1. \A k \in DOMAIN e.messages : ~e.messages[k].streaming
      BY <2>2
    <3> QED
      BY <2>1, <2>2, <3>1, WithSessionBook
  <2>4. BelongsNext(e.messages, e.id)
    BY <2>2 DEF BelongsNext
  <2>5. IsBook(st) /\ \A i \in DOMAIN st : BelongsNext(st[i].messages, st[i].id)
    <3>1. CASE active = NoSession
      <4>1. st = WithSession(store, e)
        BY <3>1
      <4> QED
        BY <2>1, <2>3, <2>4, <4>1
    <3>2. CASE active # NoSession
      BY <2>1, <3>2
    <3> QED
      BY <3>1, <3>2
  <2>6. store' = Saved(st, s, said)
    BY <1>2 DEF e
  <2> HIDE DEF st
  <2>7. /\ IsBook(store')
        /\ \A i \in DOMAIN store' :
             \/ \E j \in DOMAIN st : store'[i] = st[j]
             \/ /\ store'[i].id = s
                /\ \A k \in DOMAIN store'[i].messages : \E l \in DOMAIN said :
                     store'[i].messages[k] = said[l]
    BY <1>6, <2>5, <2>6, SavedBook
  <2>8. ASSUME NEW i \in DOMAIN store' PROVE BelongsNext(store'[i].messages, store'[i].id)
    <3>1. CASE \E j \in DOMAIN st : store'[i] = st[j]
      BY <2>5, <3>1
    <3>2. CASE /\ store'[i].id = s
               /\ \A k \in DOMAIN store'[i].messages : \E l \in DOMAIN said :
                    store'[i].messages[k] = said[l]
      BY <1>6, <3>2 DEF BelongsNext
    <3> QED
      BY <2>7, <3>1, <3>2
  <2>9. sessions' = store' \/ sessions' = sessions
    BY <1>1
  <2> QED
    BY <2>1, <2>7, <2>8, <2>9
<1>8. OneOnPage'
  <2>1. Running' \subseteq Running \cup {n}
    BY <1>1 DEF Running, ChatInv, ChatTypes
  <2>2. \A k \in Running : k \in Sends /\ k # n /\ page[k] # mount
    BY <1>1 DEF ChatInv, OneOnPage, Shown, Running
  <2>3. \A k \in Running : page'[k] # mount'
    BY <1>1, <2>2 DEF ChatInv, ChatTypes
  <2> QED
    BY <1>1, <1>2, <1>3, <2>1, <2>3 DEF OneOnPage, Shown
<1>9. SendsKnown'
  <2>1. \A k \in Sends : /\ home'[k] = IF k = n THEN s ELSE home[k]
                         /\ phase'[k] = IF k = n THEN "prepare" ELSE phase[k]
                         /\ page'[k] = IF k = n THEN mount ELSE page[k]
    BY <1>1, <1>2 DEF ChatInv, ChatTypes
  <2>2. \A r \in mixed' : \E k \in Sends : home'[k] = r
    <3>1. mixed' \subseteq mixed \cup {s} /\ mixed \subseteq SessionIds
      BY <1>2 DEF ChatInv, ChatTypes
    <3>2. \A r \in mixed : \E k \in Sends : home'[k] = r
      BY <1>3, <3>1, NoSessionAssumption DEF ChatInv, SendsKnown, HomesKept
    <3> QED
      BY <1>3, <3>1, <3>2
  <2> QED
    BY <1>1, <1>3, <1>4, <2>1, <2>2 DEF ChatInv, SendsKnown
<1>10. ChatTypes'
  <2>1. /\ base' \in [Sends -> Seq(MessageSet)] /\ current' \in [Sends -> Seq(MessageSet)]
        /\ messages' \in Seq(MessageSet)
    BY <1>1, <1>4, <1>6 DEF ChatInv, ChatTypes
  <2>2. /\ idRef' \in [1 .. MaxMounts -> Nat] /\ page' \in [Sends -> 1 .. MaxMounts]
        /\ mount' \in 1 .. MaxMounts
    BY <1>1, <1>4 DEF ChatInv, ChatTypes
  <2>3. /\ phase' \in [Sends -> Phases]
        /\ loading' \in BOOLEAN
    BY <1>1 DEF ChatInv, ChatTypes
  <2>4. /\ home' \in [Sends -> SessionIds \cup {NoSession}]
        /\ active' \in SessionIds \cup {NoSession}
        /\ strayed' \in SUBSET (SessionIds \cup {NoSession})
        /\ mixed' \in SUBSET SessionIds
    BY <1>2 DEF ChatInv, ChatTypes
  <2> QED
    BY <1>1, <1>7, <2>1, <2>2, <2>3, <2>4 DEF ChatInv, ChatTypes
<1>11. AllBelong'
  <2>1. Known(messages)'
    BY <1>1, <1>6 DEF BelongsNext, Known
  <2>2. ASSUME NEW k \in Sends, home'[k] # NoSession
        PROVE  BelongsNext(base'[k], home'[k]) /\ BelongsNext(current'[k], home'[k])
    <3>1. CASE k = n
      BY <1>1, <1>3, <1>5, <1>6, <3>1 DEF ChatInv, ChatTypes
    <3>2. CASE k # n
      <4>1. home'[k] = home[k] /\ base'[k] = base[k] /\ current'[k] = current[k]
        BY <1>1, <1>2, <3>2
      <4> QED
        BY <1>3, <2>2, <4>1, OthersStillBelong
    <3> QED
      BY <3>1, <3>2
  <2> QED
    BY <1>7, <2>1, <2>2 DEF AllBelong, BelongsNext, Belongs, Known
<1> QED
  BY <1>8, <1>9, <1>10, <1>11 DEF ChatInv

\* The page turns to a session, showing what belongs to it.
LEMMA Turns ==
  ASSUME ChatInv, NEW s \in SessionIds \cup {NoSession}, NEW msgs \in Seq(MessageSet),
         \/ s = NoSession /\ msgs = <<>>
         \/ s # NoSession /\ Belongs(msgs, s),
         TurnTo(s, msgs),
         IsBook(store'), IsBook(sessions'),
         \A i \in DOMAIN store' : \E j \in DOMAIN store : store'[i] = store[j],
         \A i \in DOMAIN sessions' : \/ \E j \in DOMAIN store : sessions'[i] = store[j]
                                     \/ \E j \in DOMAIN sessions : sessions'[i] = sessions[j]
  PROVE  ChatInv'
<1>1. /\ active' = s /\ messages' = msgs
      /\ strayed' = IF \E n \in Running : page[n] = mount THEN strayed \cup {s}
                    ELSE strayed \ {NoSession}
      /\ UNCHANGED <<loading, mount, idRef, phase, home, page, base, current, calls, shared,
                     mixed>>
  BY DEF TurnTo
<1>2. HomesKept
  BY <1>1 DEF HomesKept
<1>3. BelongsNext(msgs, s)
  <2>1. CASE msgs = <<>>
    BY <2>1 DEF BelongsNext
  <2>2. CASE s # NoSession /\ Belongs(msgs, s)
    BY <1>2, <2>2, StillBelongs DEF ChatInv
  <2> QED
    BY <2>1, <2>2
<1>4. /\ \A i \in DOMAIN store : BelongsNext(store[i].messages, store[i].id)
      /\ \A i \in DOMAIN sessions : BelongsNext(sessions[i].messages, sessions[i].id)
      /\ \A n \in Sends : home[n] # NoSession =>
           BelongsNext(base[n], home[n]) /\ BelongsNext(current[n], home[n])
  BY <1>2, OthersStillBelong
<1>5. AllBelong'
  <2>1. /\ \A i \in DOMAIN store' : BelongsNext(store'[i].messages, store'[i].id)
        /\ \A i \in DOMAIN sessions' : BelongsNext(sessions'[i].messages, sessions'[i].id)
    BY <1>4
  <2>2. Known(messages)'
    BY <1>1, <1>3 DEF BelongsNext, Known
  <2> QED
    BY <1>1, <1>4, <2>1, <2>2 DEF AllBelong, BelongsNext, Belongs, Known
<1>6. OneOnPage'
  <2>1. Running' = Running /\ \A n : Shown(n)' <=> Shown(n)
    BY <1>1 DEF Running, Shown
  <2>2. ASSUME NEW n \in Running, Shown(n) PROVE s \in strayed'
    BY <1>1, <2>2 DEF Shown
  <2> QED
    BY <1>1, <2>1, <2>2 DEF ChatInv, OneOnPage
<1>7. SendsKnown'
  BY <1>1 DEF ChatInv, SendsKnown
<1>8. ChatTypes'
  <2>1. strayed' \in SUBSET (SessionIds \cup {NoSession})
    BY <1>1 DEF ChatInv, ChatTypes
  <2> QED
    BY <1>1, <2>1 DEF ChatInv, ChatTypes
<1> QED
  BY <1>5, <1>6, <1>7, <1>8 DEF ChatInv

\* The page shows no conversation.
LEMMA NewChatStep ==
  ASSUME ChatInv, NewChat
  PROVE  ChatInv'
<1>1. <<>> \in Seq(MessageSet) /\ NoSession \in SessionIds \cup {NoSession}
  BY EmptySeq
<1>2. /\ IsBook(store') /\ IsBook(sessions') /\ store' = store /\ sessions' = sessions
      /\ TurnTo(NoSession, <<>>)
  BY DEF NewChat, ChatInv, ChatTypes
<1>3. /\ \A i \in DOMAIN store' : \E j \in DOMAIN store : store'[i] = store[j]
      /\ \A i \in DOMAIN sessions' : \E j \in DOMAIN sessions : sessions'[i] = sessions[j]
  BY <1>2
<1> QED
  BY <1>1, <1>2, <1>3, Turns

\* The page shows a conversation of its copy of the storage.
LEMMA SelectSessionStep ==
  ASSUME ChatInv, SelectSession
  PROVE  ChatInv'
<1>1. PICK i \in DOMAIN sessions : TurnTo(sessions[i].id, sessions[i].messages)
  BY DEF SelectSession
<1>2. /\ IsBook(store') /\ IsBook(sessions') /\ store' = store /\ sessions' = sessions
      /\ IsBook(sessions)
  BY DEF SelectSession, ChatInv, ChatTypes, IsBook
<1>3. /\ \A k \in DOMAIN store' : \E j \in DOMAIN store : store'[k] = store[j]
      /\ \A k \in DOMAIN sessions' : \E j \in DOMAIN sessions : sessions'[k] = sessions[j]
  BY <1>2
<1>4. /\ sessions[i].id \in SessionIds \cup {NoSession} /\ sessions[i].id # NoSession
      /\ sessions[i].messages \in Seq(MessageSet)
  BY <1>2, BookContent
<1>5. Belongs(sessions[i].messages, sessions[i].id)
  BY DEF ChatInv, AllBelong
<1> QED
  BY <1>1, <1>2, <1>3, <1>4, <1>5, Turns

\* The session removed, and nothing else of the page changed.
LEMMA DeletedElsewhere ==
  ASSUME ChatInv, IsBook(store'), IsBook(sessions'),
         \A i \in DOMAIN store' : \E j \in DOMAIN store : store'[i] = store[j],
         \A i \in DOMAIN sessions' : \E j \in DOMAIN store : sessions'[i] = store[j],
         UNCHANGED <<active, messages, loading, mount, idRef, phase, home, page, base, current,
                     calls, strayed, shared, mixed>>
  PROVE  ChatInv'
<1>1. ChatTypes'
  BY DEF ChatInv, ChatTypes
<1>2. AllBelong'
  <2>1. /\ \A i \in DOMAIN store' : Belongs(store'[i].messages, store'[i].id)
        /\ \A i \in DOMAIN sessions' : Belongs(sessions'[i].messages, sessions'[i].id)
    BY DEF ChatInv, AllBelong
  <2> QED
    BY <2>1 DEF ChatInv, AllBelong, Belongs, Known
<1>3. OneOnPage' /\ SendsKnown'
  BY DEF ChatInv, OneOnPage, SendsKnown, Running, Shown
<1> QED
  BY <1>1, <1>2, <1>3 DEF ChatInv

\* If the conversation shown is deleted, the page shows another.
LEMMA DeleteSessionStep ==
  ASSUME ChatInv, DeleteSession
  PROVE  ChatInv'
<1>1. PICK i \in DOMAIN sessions :
        LET s == sessions[i].id IN
        /\ store' = Without(store, s)
        /\ sessions' = store'
        /\ IF s # active THEN UNCHANGED <<active, messages, loading, mount, idRef, phase, home,
                                          page, base, current, calls, strayed, shared, mixed>>
           ELSE IF store' = <<>> THEN TurnTo(NoSession, <<>>)
           ELSE TurnTo(store'[1].id, store'[1].messages)
  BY DEF DeleteSession
<1>2. /\ IsBook(store') /\ IsBook(sessions')
      /\ \A k \in DOMAIN store' : \E j \in DOMAIN store : store'[k] = store[j]
      /\ \A k \in DOMAIN sessions' : \E j \in DOMAIN store : sessions'[k] = store[j]
  <2>1. IsBook(store)
    BY DEF ChatInv, ChatTypes
  <2>2. /\ IsBook(Without(store, sessions[i].id))
        /\ \A k \in DOMAIN Without(store, sessions[i].id) : \E j \in DOMAIN store :
             Without(store, sessions[i].id)[k] = store[j]
    BY <2>1, WithoutBook
  <2> QED
    BY <1>1, <2>2
<1>3. CASE sessions[i].id # active
  <2>1. UNCHANGED <<active, messages, loading, mount, idRef, phase, home, page, base, current,
                    calls, strayed, shared, mixed>>
    BY <1>1, <1>3
  <2> QED
    BY <1>2, <2>1, DeletedElsewhere
<1>4. CASE sessions[i].id = active /\ store' = <<>>
  <2>1. <<>> \in Seq(MessageSet) /\ NoSession \in SessionIds \cup {NoSession}
    BY EmptySeq
  <2>2. TurnTo(NoSession, <<>>)
    BY <1>1, <1>4
  <2> QED
    BY <1>2, <2>1, <2>2, Turns
<1>5. CASE sessions[i].id = active /\ store' # <<>>
  <2>1. TurnTo(store'[1].id, store'[1].messages)
    BY <1>1, <1>5
  <2>2. 1 \in DOMAIN store'
    BY <1>2, <1>5, LenProperties, EmptySeq DEF IsBook
  <2>3. /\ store'[1].id \in SessionIds \cup {NoSession} /\ store'[1].id # NoSession
        /\ store'[1].messages \in Seq(MessageSet)
    BY <1>2, <2>2, BookContent
  <2>4. Belongs(store'[1].messages, store'[1].id)
    BY <1>2, <2>2 DEF ChatInv, AllBelong
  <2> QED
    BY <1>2, <2>1, <2>3, <2>4, Turns
<1> QED
  BY <1>3, <1>4, <1>5

\* The title is changed, and no message.
LEMMA RenameStep ==
  ASSUME ChatInv, Rename
  PROVE  ChatInv'
<1>1. PICK i \in DOMAIN store : store' = WithSession(store, store[i])
  BY DEF Rename
<1>2. /\ sessions' = store'
      /\ UNCHANGED <<active, messages, loading, mount, idRef, phase, home, page, base, current,
                     calls, strayed, shared, mixed>>
  BY DEF Rename
<1>3. /\ IsBook(store) /\ store[i] \in SessionSet
      /\ \A k \in DOMAIN store[i].messages : ~store[i].messages[k].streaming
  BY ElementOfSeq, LenProperties DEF ChatInv, ChatTypes, IsBook
<1>4. /\ IsBook(store')
      /\ \A k \in DOMAIN store' : \/ store'[k] = store[i]
                                \/ \E j \in DOMAIN store : store'[k] = store[j]
  BY <1>1, <1>3, WithSessionBook
<1>5. \A k \in DOMAIN store' : \E j \in DOMAIN store : store'[k] = store[j]
  BY <1>4
<1>6. /\ IsBook(sessions')
      /\ \A k \in DOMAIN sessions' : \E j \in DOMAIN store : sessions'[k] = store[j]
  BY <1>2, <1>4, <1>5 DEF IsBook
<1> QED
  BY <1>2, <1>4, <1>5, <1>6, DeletedElsewhere

\* The page opened again shows what is stored, and no send runs in it.
Opened ==
  /\ IsBook(store') /\ IsBook(sessions')
  /\ \A i \in DOMAIN store' : BelongsNext(store'[i].messages, store'[i].id)
  /\ \A i \in DOMAIN sessions' : BelongsNext(sessions'[i].messages, sessions'[i].id)
  /\ messages' \in Seq(MessageSet) /\ KnownNext(messages')
  /\ active' \in SessionIds \cup {NoSession}
  /\ mixed' = mixed
  /\ mount' \in 1 .. MaxMounts /\ loading' \in BOOLEAN
  /\ strayed' \in SUBSET (SessionIds \cup {NoSession})
  /\ HomesKept
  /\ \A n \in Sends : page'[n] # mount' /\ page'[n] <= mount'

USE DEF Opened

LEMMA Opens ==
  ASSUME ChatInv, Open
  PROVE  Opened
<1>1. /\ mount < MaxMounts /\ mount' = mount + 1 /\ sessions' = store
      /\ active' = IF store = <<>> THEN NoSession ELSE store[1].id
      /\ messages' = IF store = <<>> THEN <<>> ELSE store[1].messages
      /\ loading' = FALSE /\ strayed' = strayed \ {NoSession}
      /\ UNCHANGED <<store, idRef, home, page, mixed>>
  BY DEF Open
<1>2. HomesKept
  BY <1>1 DEF HomesKept
<1>3. /\ IsBook(store) /\ IsBook(store') /\ IsBook(sessions')
      /\ \A i \in DOMAIN store : BelongsNext(store[i].messages, store[i].id)
  BY <1>1, <1>2, OthersStillBelong DEF ChatInv, ChatTypes, IsBook
<1>4. /\ messages' \in Seq(MessageSet) /\ KnownNext(messages')
      /\ active' \in SessionIds \cup {NoSession}
  <2>1. CASE store = <<>>
    BY <1>1, <2>1, EmptySeq DEF KnownNext
  <2>2. CASE store # <<>>
    <3>1. 1 \in DOMAIN store
      BY <1>3, <2>2, LenProperties, EmptySeq DEF IsBook
    <3> QED
      BY <1>1, <1>3, <2>2, <3>1, BookContent DEF BelongsNext, KnownNext
  <2> QED
    BY <2>1, <2>2
<1>5. mount' \in 1 .. MaxMounts /\ \A n \in Sends : page'[n] # mount' /\ page'[n] <= mount'
  <2>1. /\ mount \in 1 .. MaxMounts /\ MaxMounts \in Nat
        /\ \A n \in Sends : page[n] \in 1 .. MaxMounts /\ page[n] <= mount
    BY BoundsAssumption DEF ChatInv, ChatTypes, SendsKnown
  <2> QED
    BY <1>1, <2>1
<1>6. strayed' \in SUBSET (SessionIds \cup {NoSession})
  BY <1>1 DEF ChatInv, ChatTypes
<1> QED
  BY <1>1, <1>2, <1>3, <1>4, <1>5, <1>6

\* The sends of the page that was left go on without it.
LEMMA ReturnStep ==
  ASSUME ChatInv, Return
  PROVE  ChatInv'
<1>1. Opened
  BY Opens DEF Return
<1>2. /\ UNCHANGED <<idRef, home, page, phase, base, current, calls>>
      /\ shared' = shared \cup {home[n] : n \in Running}
  BY DEF Return, Open
<1>3. \A n \in Sends : home[n] # NoSession =>
        BelongsNext(base[n], home[n]) /\ BelongsNext(current[n], home[n])
  BY <1>1, OthersStillBelong
<1>4. AllBelong'
  BY <1>1, <1>2, <1>3 DEF AllBelong, BelongsNext, Belongs, KnownNext, Known
<1>5. OneOnPage' /\ SendsKnown'
  BY <1>1, <1>2 DEF ChatInv, OneOnPage, SendsKnown, Running, Shown
<1>6. shared' \in SUBSET SessionIds
  BY <1>2, AtWork DEF ChatInv, ChatTypes
<1>7. ChatTypes'
  BY <1>1, <1>2, <1>6 DEF ChatInv, ChatTypes
<1> QED
  BY <1>4, <1>5, <1>7 DEF ChatInv

\* The sends of the page end.
LEMMA ReloadStep ==
  ASSUME ChatInv, Reload
  PROVE  ChatInv'
<1>1. Opened
  BY Opens DEF Reload
<1>2. /\ UNCHANGED <<idRef, home, page, shared>>
      /\ phase' = [n \in Sends |-> IF n \in Running THEN "killed" ELSE phase[n]]
      /\ base' = [n \in Sends |-> <<>>]
      /\ current' = [n \in Sends |-> <<>>]
      /\ calls' = [n \in Sends |-> 0]
  BY DEF Reload, Open
<1>3. <<>> \in Seq(MessageSet) /\ 0 \in 0 .. MaxCalls /\ \A s : BelongsNext(<<>>, s)
  BY EmptySeq, BoundsAssumption DEF BelongsNext
<1>4. AllBelong'
  BY <1>1, <1>2, <1>3 DEF AllBelong, BelongsNext, Belongs, KnownNext, Known
<1>5. Running' = {}
  BY <1>2 DEF Running
<1>6. OneOnPage' /\ SendsKnown'
  <2>1. \A n \in Sends : phase'[n] = "none" <=> phase[n] = "none"
    BY <1>2 DEF Running
  <2> QED
    BY <1>1, <1>2, <1>5, <2>1 DEF ChatInv, OneOnPage, SendsKnown
<1>7. /\ base' \in [Sends -> Seq(MessageSet)] /\ current' \in [Sends -> Seq(MessageSet)]
      /\ calls' \in [Sends -> 0 .. MaxCalls]
  BY <1>2, <1>3
<1>8. phase' \in [Sends -> Phases]
  BY <1>2 DEF ChatInv, ChatTypes
<1>9. ChatTypes'
  BY <1>1, <1>2, <1>7, <1>8 DEF ChatInv, ChatTypes
<1> QED
  BY <1>4, <1>6, <1>9 DEF ChatInv

-----------------------------------------------------------------------------
(* The specification. *)

\* At first nothing is stored, and no send has begun.
LEMMA ChatInit ==
  ASSUME Init
  PROVE  ChatInv
<1>1. /\ <<>> \in Seq(MessageSet) /\ <<>> \in Seq(SessionSet) /\ Len(<<>>) = 0
      /\ DOMAIN <<>> = {} /\ 1 \in 1 .. MaxMounts /\ 0 \in 0 .. MaxCalls
      /\ MaxSessions \in Nat
  BY EmptySeq, BoundsAssumption
<1>2. IsBook(<<>>)
  BY <1>1 DEF IsBook
<1>3. ChatTypes
  <2>1. /\ base \in [Sends -> Seq(MessageSet)] /\ current \in [Sends -> Seq(MessageSet)]
        /\ messages \in Seq(MessageSet) /\ IsBook(store) /\ IsBook(sessions)
    BY <1>1, <1>2 DEF Init
  <2>2. /\ idRef \in [1 .. MaxMounts -> Nat] /\ page \in [Sends -> 1 .. MaxMounts]
        /\ calls \in [Sends -> 0 .. MaxCalls] /\ mount \in 1 .. MaxMounts
    BY <1>1 DEF Init
  <2> QED
    BY <2>1, <2>2 DEF Init, ChatTypes
<1>4. AllBelong
  BY <1>1 DEF Init, AllBelong, Belongs, Known
<1>5. OneOnPage /\ SendsKnown
  BY DEF Init, OneOnPage, SendsKnown, Running
<1> QED
  BY <1>3, <1>4, <1>5 DEF ChatInv

\* Every step keeps the invariant.
LEMMA ChatStep ==
  ASSUME ChatInv, [Next]_vars
  PROVE  ChatInv'
<1>1. CASE \E n \in Sends : Send(n)
  BY <1>1, SendStepBegins
<1>2. CASE \E n \in Sends : SendStep(n)
  BY <1>2, PreparedStep, AnsweredStep, AskedForToolStep, ToolAnsweredStep, FailedStep DEF SendStep
<1>3. CASE NewChat \/ SelectSession \/ DeleteSession \/ Rename
  BY <1>3, NewChatStep, SelectSessionStep, DeleteSessionStep, RenameStep
<1>4. CASE Return \/ Reload
  BY <1>4, ReturnStep, ReloadStep
<1>5. CASE UNCHANGED vars
  <2>1. ChatTypes'
    BY <1>5 DEF ChatInv, ChatTypes, IsBook, vars
  <2>2. AllBelong'
    BY <1>5 DEF ChatInv, AllBelong, Belongs, Known, vars
  <2>3. OneOnPage' /\ SendsKnown'
    BY <1>5 DEF ChatInv, OneOnPage, SendsKnown, Running, Shown, vars
  <2> QED
    BY <2>1, <2>2, <2>3 DEF ChatInv
<1> QED
  BY <1>1, <1>2, <1>3, <1>4, <1>5 DEF Next

\* The invariant of the chat page and its storage (handleSend in
\* ui/src/pages/Chat.tsx, ui/src/lib/chat-storage.ts).
THEOREM ChatInvariant == Spec => []ChatInv
<1>1. Init => ChatInv
  BY ChatInit
<1>2. ChatInv /\ [Next]_vars => ChatInv'
  BY ChatStep
<1> QED
  BY <1>1, <1>2, PTL DEF Spec

\* What ChatTypes says is what TypeOK says.
LEMMA MessagesAreMessages ==
  ASSUME NEW msgs \in Seq(MessageSet), NEW k \in DOMAIN msgs
  PROVE  IsMessage(msgs[k])
<1>1. msgs[k] \in MessageSet
  <2>1. k \in 1 .. Len(msgs)
    BY LenProperties
  <2> QED
    BY <2>1, ElementOfSeq
<1> QED
  BY <1>1 DEF MessageSet, IsMessage

LEMMA BooksAreStores ==
  ASSUME NEW st, IsBook(st)
  PROVE  IsStore(st)
<1>1. \A i \in DOMAIN st : IsSession(st[i])
  BY BookContent, MessagesAreMessages DEF IsSession, IsBook
<1>2. \A i \in DOMAIN st : \A j \in 1 .. i - 1 : st[j].id # st[i].id
  <2>1. Len(st) \in Nat /\ DOMAIN st = 1 .. Len(st)
    BY LenProperties DEF IsBook
  <2>2. \A i \in 1 .. Len(st) : \A j \in 1 .. i - 1 : j \in 1 .. Len(st) /\ j # i
    BY <2>1
  <2> QED
    BY <2>1, <2>2 DEF IsBook
<1> QED
  BY <1>1, <1>2 DEF IsStore, IsBook

\* The types of the chat page's state: no more sessions are stored than
\* MAX_SESSIONS, with ids of their own and without a message that is not complete.
THEOREM ChatTypeCorrect == Spec => []TypeOK
<1>1. ChatInv => TypeOK
  <2> SUFFICES ASSUME ChatInv PROVE TypeOK
    OBVIOUS
  <2>1. IsStore(store) /\ IsStore(sessions)
    BY BooksAreStores DEF ChatInv, ChatTypes
  <2>2. /\ \A i \in DOMAIN messages : IsMessage(messages[i])
        /\ \A n \in Sends : \A i \in DOMAIN current[n] : IsMessage(current[n][i])
    BY MessagesAreMessages DEF ChatInv, ChatTypes
  <2> QED
    BY <2>1, <2>2 DEF TypeOK, ChatInv, ChatTypes
<1> QED
  BY <1>1, ChatInvariant, PTL

\* What a send stores it stores in the conversation in which it was begun
\* (saveCurrentSession in ui/src/pages/Chat.tsx), wherever the user has turned on its page
\* or has gone meanwhile: a conversation holds messages of its own sends only, unless the
\* user sent in it while the page showed messages of another.
THEOREM AnswersAreAtHome == Spec => []AnswersStayHome
<1>1. ChatInv => AnswersStayHome
  BY DEF ChatInv, AllBelong, Belongs, AnswersStayHome
<1> QED
  BY <1>1, ChatInvariant, PTL

-----------------------------------------------------------------------------
(* What is stored stays. *)

Complete(msgs) == \A k \in DOMAIN msgs : ~msgs[k].streaming

\* A message is among msgs, or its id has been given again.
Held(m, msgs) == m \in Range(msgs) \/ Retaken(m.id, msgs)

\* Nothing is said of a session that the user turned to during a send, or for which a
\* send ran on without its page.
Loose == strayed \cup shared

\* A send works on what it began with and what it has added, and only the message made
\* ready for the model's answer is not complete.
OwnWork(n) ==
  /\ \A k \in DOMAIN current[n] : current[n][k] \in Range(base[n]) \/ current[n][k].said = n
  /\ Complete(base[n])
  /\ phase[n] # "answer" => Complete(current[n])
  /\ phase[n] = "answer" =>
       /\ Len(current[n]) > 0 /\ current[n][Len(current[n])].id = LastId(n)
       /\ \A k \in DOMAIN current[n] : current[n][k].streaming <=> k = Len(current[n])

WorkIsOwn ==
  \A n \in Running : home[n] \notin Loose =>
    /\ Shown(n) /\ OwnWork(n)
    /\ active = home[n] => messages = current[n]

\* No send runs in the page that is open.
AtRest == \A n \in Running : ~Shown(n)

\* All that is stored of the conversation of a send is what it works on, whether it began
\* with it or added it.
HasStored(n) ==
  \A i \in DOMAIN store : store[i].id = home[n] =>
    \A m \in Range(store[i].messages) :
      Held(m, current[n]) /\ (m \in Range(base[n]) \/ m.said = n)

\* All that is stored of a session is in the page's copy of it, on the page that shows it,
\* and with the send that works on it.
CopiesAgree ==
  \A i \in DOMAIN store, j \in DOMAIN sessions :
    store[i].id = sessions[j].id /\ store[i].id \notin Loose =>
      sessions[j].messages = store[i].messages

PageAgrees ==
  \A i \in DOMAIN store :
    store[i].id = active /\ active \notin Loose /\ AtRest => messages = store[i].messages

NothingForgotten ==
  /\ CopiesAgree /\ PageAgrees
  /\ \A n \in Running : home[n] \notin Loose => HasStored(n)

RestIsComplete == AtRest /\ active \notin Loose => Complete(messages)

KeepsInv == WorkIsOwn /\ NothingForgotten /\ RestIsComplete

\* What KeepsEarlier says of a step, and what it says of the session s alone.
KeepsOf(s) ==
  \A i \in DOMAIN store, j \in DOMAIN store' :
    store[i].id = s /\ store'[j].id = s =>
      \A m \in Range(store[i].messages) :
        Held(m, store'[j].messages) \/ phase'[m.said] = "failed"

KeepsStep == \A s : s \notin Loose => KeepsOf(s)

\* Of the sessions but s, what is stored after a step was stored before.
OthersStored(s) ==
  \A i \in DOMAIN store' : store'[i].id # s => \E j \in DOMAIN store : store'[i] = store[j]

\* The page's copy is made of what is stored, or nothing is.
Copied == sessions' = store' \/ (sessions' = sessions /\ store' = store)

\* A filter that lets everything through returns what it is given.
LEMMA FilteredAll ==
  ASSUME NEW T, NEW q \in Seq(T)
  PROVE  Filtered(q, DOMAIN q) = q
<1> DEFINE L == Len(q)
           keep == 1 .. L
<1>1. L \in Nat /\ DOMAIN q = keep /\ q = [i \in keep |-> q[i]] /\ Cardinality(keep) = L
  BY LenProperties, FS_Interval, SeqDef
<1>2. \A i \in keep : Rank(keep, i) = i
  <2> SUFFICES ASSUME NEW i \in keep PROVE Rank(keep, i) = i
    OBVIOUS
  <2>1. {j \in keep : j <= i} = 1 .. i /\ i \in Nat
    BY <1>1
  <2>2. Cardinality(1 .. i) = i
    BY <2>1, FS_Interval
  <2> QED
    BY <2>1, <2>2 DEF Rank
<1> HIDE DEF keep
<1>3. \A n \in keep : Nth(keep, n) = n
  BY <1>2 DEF Nth
<1>4. Filtered(q, keep) = [n \in 1 .. L |-> q[Nth(keep, n)]]
  BY <1>1 DEF Filtered
<1>5. 1 .. L = keep
  BY DEF keep
<1>6. Filtered(q, keep) = [n \in keep |-> q[n]]
  BY <1>3, <1>4, <1>5
<1> QED
  BY <1>1, <1>6

\* Messages that are all complete are stored as they are.
LEMMA CompleteStored ==
  ASSUME NEW msgs \in Seq(MessageSet), Complete(msgs)
  PROVE  NotStreaming(msgs) = msgs
<1>1. {i \in DOMAIN msgs : ~msgs[i].streaming} = DOMAIN msgs
  BY DEF Complete
<1> QED
  BY <1>1, FilteredAll DEF NotStreaming

\* Appending a message keeps those there are.
LEMMA AppendHolds ==
  ASSUME NEW msgs \in Seq(MessageSet), NEW m \in MessageSet
  PROVE  /\ Append(msgs, m) \in Seq(MessageSet)
         /\ DOMAIN Append(msgs, m) = 1 .. Len(msgs) + 1 /\ DOMAIN msgs = 1 .. Len(msgs)
         /\ Len(Append(msgs, m)) = Len(msgs) + 1 /\ Len(msgs) \in Nat
         /\ \A k \in DOMAIN msgs : k \in DOMAIN Append(msgs, m) /\ Append(msgs, m)[k] = msgs[k]
         /\ Append(msgs, m)[Len(msgs) + 1] = m
         /\ \A k \in DOMAIN Append(msgs, m) : k \in DOMAIN msgs \/ k = Len(msgs) + 1
         /\ Len(msgs) + 1 \notin DOMAIN msgs
         /\ \A x \in Range(msgs) : x \in Range(Append(msgs, m))
         /\ \A x : Held(x, msgs) => Held(x, Append(msgs, m))
<1> DEFINE w == Append(msgs, m)
<1>1. /\ w \in Seq(MessageSet)
      /\ DOMAIN w = 1 .. Len(msgs) + 1 /\ DOMAIN msgs = 1 .. Len(msgs)
      /\ Len(w) = Len(msgs) + 1 /\ Len(msgs) \in Nat
      /\ \A k \in 1 .. Len(msgs) + 1 : w[k] = IF k = Len(msgs) + 1 THEN m ELSE msgs[k]
  OBVIOUS
<1> HIDE DEF w
<1>2. /\ \A k \in DOMAIN msgs : k \in DOMAIN w /\ k # Len(msgs) + 1
      /\ \A k \in DOMAIN w : k \in DOMAIN msgs \/ k = Len(msgs) + 1
      /\ Len(msgs) + 1 \in DOMAIN w
  BY <1>1
<1>3. \A k \in DOMAIN msgs : w[k] = msgs[k]
  BY <1>1, <1>2
<1>4. \A x \in Range(msgs) : x \in Range(w)
  BY <1>2, <1>3 DEF Range
<1>5. \A id : Retaken(id, msgs) => Retaken(id, w)
  BY <1>2, <1>3 DEF Retaken
<1>6. \A x : Held(x, msgs) => Held(x, w)
  BY <1>4, <1>5 DEF Held
<1>7. w[Len(msgs) + 1] = m
  BY <1>1, <1>2
<1> QED
  BY <1>1, <1>2, <1>3, <1>4, <1>6, <1>7 DEF w

\* Updating the message made ready for the answer, the last, keeps all complete ones,
\* but for those whose id it has been given again.
LEMMA UpdatedHolds ==
  ASSUME NEW msgs \in Seq(MessageSet), NEW id, NEW n \in Sends,
         Len(msgs) > 0, msgs[Len(msgs)].id = id,
         \A k \in DOMAIN msgs : msgs[k].streaming <=> k = Len(msgs)
  PROVE  /\ Complete(Updated(msgs, id, n))
         /\ \A x : Held(x, msgs) /\ ~x.streaming => Held(x, Updated(msgs, id, n))
         /\ \A k \in DOMAIN msgs : \/ Updated(msgs, id, n)[k] = msgs[k]
                                   \/ Updated(msgs, id, n)[k].said = n
<1> DEFINE u == Updated(msgs, id, n)
           L == Len(msgs)
<1>1. /\ L \in Nat /\ DOMAIN msgs = 1 .. L /\ L \in DOMAIN msgs
      /\ \A k \in DOMAIN msgs : msgs[k] \in MessageSet
  BY LenProperties, ElementOfSeq
<1>2. DOMAIN u = DOMAIN msgs
  BY DEF Updated
<1>3. \A k \in DOMAIN msgs : /\ u[k].id = msgs[k].id
                             /\ msgs[k].id # id => u[k] = msgs[k]
                             /\ msgs[k].id = id => ~u[k].streaming
                             /\ u[k] = msgs[k] \/ u[k].said = n
  BY <1>1 DEF Updated, MessageSet
<1> HIDE DEF u, L
<1>4. Complete(u)
  <2> SUFFICES ASSUME NEW k \in DOMAIN msgs PROVE ~u[k].streaming
    BY <1>2 DEF Complete
  <2>1. CASE msgs[k].id = id
    BY <1>3, <2>1
  <2>2. CASE msgs[k].id # id
    BY <1>3, <2>2 DEF L
  <2> QED
    BY <2>1, <2>2
<1>5. \A i : Retaken(i, msgs) => Retaken(i, u)
  BY <1>2, <1>3 DEF Retaken
<1>6. ASSUME NEW x, Held(x, msgs), ~x.streaming PROVE Held(x, u)
  <2>1. CASE Retaken(x.id, msgs)
    BY <1>5, <2>1 DEF Held
  <2>2. CASE x \in Range(msgs)
    <3>1. PICK k \in DOMAIN msgs : msgs[k] = x
      BY <2>2 DEF Range
    <3>2. CASE x.id # id
      BY <1>2, <1>3, <3>1, <3>2 DEF Held, Range
    <3>3. CASE x.id = id
      <4>1. k # L /\ msgs[L].id = id
        BY <1>6, <3>1 DEF L
      <4>2. Retaken(x.id, u)
        BY <1>1, <1>2, <1>3, <3>1, <3>3, <4>1 DEF Retaken
      <4> QED
        BY <4>2 DEF Held
    <3> QED
      BY <3>2, <3>3
  <2> QED
    BY <1>6, <2>1, <2>2 DEF Held
<1> QED
  BY <1>3, <1>4, <1>6 DEF u, L

\* saveSession stores the session as it is given, and saveCurrentSession its complete
\* messages; the other sessions are as they were.
LEMMA SavedExactly ==
  ASSUME NEW st, IsBook(st), NEW s \in SessionIds, NEW msgs \in Seq(MessageSet),
         NEW i \in DOMAIN Saved(st, s, msgs)
  PROVE  IF Saved(st, s, msgs)[i].id = s
         THEN Saved(st, s, msgs)[i].messages = NotStreaming(msgs) /\ IsStored(st, s)
         ELSE \E j \in DOMAIN st : Saved(st, s, msgs)[i] = st[j]
<1> DEFINE e == [id |-> s, messages |-> NotStreaming(msgs)]
<1>1. /\ e \in SessionSet /\ e.id = s /\ e.messages = NotStreaming(msgs)
      /\ \A k \in DOMAIN e.messages : ~e.messages[k].streaming
  BY NotStreamingPart DEF SessionSet
<1>2. CASE IsStored(st, s)
  <2>1. Saved(st, s, msgs) = WithSession(st, e)
    BY <1>2 DEF Saved
  <2> HIDE DEF e
  <2>2. \/ WithSession(st, e)[i] = e
        \/ WithSession(st, e)[i].id # e.id /\ \E j \in DOMAIN st : WithSession(st, e)[i] = st[j]
    BY <1>1, <2>1, WithSessionBook
  <2> QED
    BY <1>1, <1>2, <2>1, <2>2
<1>3. CASE ~IsStored(st, s)
  BY <1>3 DEF Saved, IsStored
<1> QED
  BY <1>2, <1>3

\* A session that is stored as it was keeps all its messages.
LEMMA OthersKeep ==
  ASSUME ChatInv, NEW s, OthersStored(s), NEW r, r # s
  PROVE  KeepsOf(r)
<1> SUFFICES ASSUME NEW i \in DOMAIN store, NEW j \in DOMAIN store',
                    store[i].id = r, store'[j].id = r
             PROVE  store'[j] = store[i]
  BY DEF KeepsOf, Held
<1>1. PICK k \in DOMAIN store : store'[j] = store[k]
  BY DEF OthersStored
<1> QED
  BY <1>1 DEF ChatInv, ChatTypes, IsBook

\* What the storage holds after a send has stored msgs.
LEMMA StoresExactly ==
  ASSUME ChatInv, NEW n \in Running, NEW msgs \in Seq(MessageSet), Store(n, msgs)
  PROVE  /\ OthersStored(home[n])
         /\ Shown(n) => Copied
         /\ ~Shown(n) => sessions' = sessions
         /\ Complete(msgs) =>
              \A i \in DOMAIN store' : store'[i].id = home[n] => store'[i].messages = msgs
<1>1. home[n] \in SessionIds /\ IsBook(store) /\ store' = Saved(store, home[n], msgs)
  BY AtWork DEF ChatInv, ChatTypes, Store
<1>2. \A i \in DOMAIN store' :
        IF store'[i].id = home[n] THEN store'[i].messages = NotStreaming(msgs)
        ELSE \E j \in DOMAIN store : store'[i] = store[j]
  BY <1>1, SavedExactly
<1>3. ~IsStored(store, home[n]) => store' = store
  BY <1>1 DEF Saved
<1>4. sessions' = IF Shown(n) /\ IsStored(store, home[n]) THEN store' ELSE sessions
  BY DEF Store
<1> QED
  BY <1>2, <1>3, <1>4, CompleteStored DEF OthersStored, Copied

\* What a step of the send n leaves alone.
LeavesOthers(n) ==
  /\ UNCHANGED <<active, mount, home, page, strayed, shared, mixed>>
  /\ \A k \in Sends : k # n =>
       phase'[k] = phase[k] /\ base'[k] = base[k] /\ current'[k] = current[k]
  /\ \A i \in 1 .. MaxMounts : i # page[n] => idRef'[i] = idRef[i]
  /\ OthersStored(home[n])
  /\ Shown(n) => Copied
  /\ ~Shown(n) => sessions' = sessions /\ messages' = messages

\* The one send that works for a session of which KeepsInv says something.
LEMMA OneWorks ==
  ASSUME ChatInv, KeepsInv, NEW n \in Running
  PROVE  /\ Shown(n) => \A k \in Running : home[k] \notin Loose => k = n
         /\ Shown(n) => ~AtRest
         /\ Shown(n) /\ active \notin Loose => active = home[n]
         /\ home[n] \notin Loose => Shown(n)
<1>1. \A k \in Running : home[k] \notin Loose => Shown(k)
  BY DEF KeepsInv, WorkIsOwn
<1>2. \A k \in Running : Shown(k) /\ Shown(n) => k = n
  BY DEF ChatInv, OneOnPage
<1>3. Shown(n) => active = home[n] \/ active \in strayed
  BY DEF ChatInv, OneOnPage
<1> QED
  BY <1>1, <1>2, <1>3 DEF AtRest, Loose

\* A step of a send for a session of which nothing is said.
LEMMA LooseGoesOn ==
  ASSUME ChatInv, ChatInv', KeepsInv, NEW n \in Running, LeavesOthers(n), home[n] \in Loose
  PROVE  KeepsInv' /\ KeepsStep
<1>1. /\ Loose' = Loose /\ active' = active
      /\ \A k \in Sends : (Shown(k)' <=> Shown(k)) /\ home'[k] = home[k]
      /\ \A k \in Sends : k # n => (k \in Running' <=> k \in Running)
      /\ \A k \in Running : k \in Sends
      /\ \A k \in Running' : k \in Sends
  BY DEF LeavesOthers, Loose, Shown, Running
<1>2. IsBook(store) /\ IsBook(store')
  BY DEF ChatInv, ChatTypes
<1>3. KeepsStep
  BY OthersKeep DEF KeepsStep, LeavesOthers
<1>4. AtRest' /\ active \notin Loose => AtRest /\ messages' = messages
  <2> SUFFICES ASSUME AtRest', active \notin Loose PROVE AtRest /\ messages' = messages
    OBVIOUS
  <2>1. ~Shown(n)
    BY OneWorks
  <2> QED
    BY <1>1, <2>1 DEF AtRest, LeavesOthers
<1>5. ASSUME NEW k \in Running', home[k] \notin Loose
      PROVE  /\ k \in Running /\ k # n /\ k \in Sends
             /\ phase'[k] = phase[k] /\ base'[k] = base[k] /\ current'[k] = current[k]
             /\ Shown(k) /\ messages' = messages /\ LastId(k)' = LastId(k)
             /\ home'[k] = home[k]
  <2>1. k \in Running /\ k # n /\ k \in Sends
    BY <1>1, <1>5
  <2>2. Shown(k) /\ ~Shown(n)
    BY <1>5, <2>1, OneWorks
  <2>3. page[k] \in 1 .. MaxMounts /\ page[k] # page[n]
    BY <2>1, <2>2 DEF ChatInv, ChatTypes, Shown
  <2> QED
    BY <1>1, <2>1, <2>2, <2>3 DEF LeavesOthers, LastId
<1>6. WorkIsOwn'
  <2> SUFFICES ASSUME NEW k \in Running', home'[k] \notin Loose'
               PROVE  /\ Shown(k)' /\ OwnWork(k)'
                      /\ active' = home'[k] => messages' = current'[k]
    BY DEF WorkIsOwn
  <2>1. home[k] \notin Loose
    BY <1>1
  <2>2. Shown(k) /\ OwnWork(k) /\ (active = home[k] => messages = current[k])
    BY <1>5, <2>1 DEF KeepsInv, WorkIsOwn
  <2>3. OwnWork(k)'
    BY <1>5, <2>1, <2>2 DEF OwnWork
  <2> QED
    BY <1>1, <1>5, <2>1, <2>2, <2>3
<1>7. CopiesAgree'
  <2> SUFFICES ASSUME NEW i \in DOMAIN store', NEW j \in DOMAIN sessions',
                      store'[i].id = sessions'[j].id, store'[i].id \notin Loose
               PROVE  sessions'[j].messages = store'[i].messages
    BY <1>1 DEF CopiesAgree
  <2>1. CASE sessions' = store'
    BY <1>2, <2>1 DEF IsBook
  <2>2. CASE sessions' = sessions
    <3>1. PICK k \in DOMAIN store : store'[i] = store[k]
      BY DEF LeavesOthers, OthersStored
    <3> QED
      BY <2>2, <3>1 DEF KeepsInv, NothingForgotten, CopiesAgree
  <2> QED
    BY <2>1, <2>2 DEF LeavesOthers, Copied
<1>8. PageAgrees'
  <2> SUFFICES ASSUME NEW i \in DOMAIN store', store'[i].id = active, active \notin Loose, AtRest'
               PROVE  messages' = store'[i].messages
    BY <1>1 DEF PageAgrees
  <2>1. PICK k \in DOMAIN store : store'[i] = store[k]
    BY DEF LeavesOthers, OthersStored
  <2> QED
    BY <1>4, <2>1 DEF KeepsInv, NothingForgotten, PageAgrees
<1>9. ASSUME NEW k \in Running', home'[k] \notin Loose' PROVE HasStored(k)'
  <2>1. home[k] \notin Loose
    BY <1>1, <1>9
  <2>2. HasStored(k) /\ home[k] # home[n]
    BY <1>5, <2>1 DEF KeepsInv, NothingForgotten
  <2>3. \A i \in DOMAIN store' : store'[i].id = home[k] =>
          \E j \in DOMAIN store : store'[i] = store[j]
    BY <2>2 DEF LeavesOthers, OthersStored
  <2> QED
    BY <1>5, <2>1, <2>2, <2>3 DEF HasStored
<1>10. RestIsComplete'
  BY <1>1, <1>4 DEF KeepsInv, RestIsComplete
<1> QED
  BY <1>3, <1>6, <1>7, <1>8, <1>9, <1>10 DEF KeepsInv, NothingForgotten

\* A step of a send for a session of which something is said: the sessions' copies agree,
\* and nothing else is worked on.
LEMMA OwnStep ==
  ASSUME ChatInv, ChatInv', KeepsInv, NEW n \in Running, LeavesOthers(n), home[n] \notin Loose,
         KeepsOf(home[n])
  PROVE  /\ Loose' = Loose /\ KeepsStep /\ CopiesAgree'
         /\ \A k \in Running' : home'[k] \notin Loose' => k = n
         /\ Shown(n) /\ Shown(n)' /\ home'[n] = home[n] /\ active' = active
         /\ \A k \in Running : Shown(k) => k = n
         /\ \A k \in Running' : Shown(k)' => k \in Sends /\ Shown(k)
         /\ active \notin Loose => active = home[n]
<1>1. /\ Loose' = Loose /\ active' = active /\ n \in Sends
      /\ \A k \in Sends : (Shown(k)' <=> Shown(k)) /\ home'[k] = home[k]
      /\ \A k \in Sends : k # n => (k \in Running' <=> k \in Running)
      /\ \A k \in Running' : k \in Sends
  BY DEF LeavesOthers, Loose, Shown, Running
<1>2. /\ Shown(n) /\ \A k \in Running : home[k] \notin Loose => k = n
      /\ active \notin Loose => active = home[n]
      /\ \A k \in Running : Shown(k) => k = n
  BY OneWorks DEF ChatInv, OneOnPage
<1>3. KeepsStep
  BY OthersKeep DEF KeepsStep, LeavesOthers
<1>4. CopiesAgree'
  <2>1. CASE sessions' = store'
    BY <2>1 DEF CopiesAgree, ChatInv, ChatTypes, IsBook
  <2>2. CASE sessions' = sessions /\ store' = store
    BY <1>1, <2>2 DEF CopiesAgree, KeepsInv, NothingForgotten
  <2> QED
    BY <1>2, <2>1, <2>2 DEF LeavesOthers, Copied
<1> QED
  BY <1>1, <1>2, <1>3, <1>4

\* The send goes on.
LEMMA OwnGoesOn ==
  ASSUME ChatInv, ChatInv', KeepsInv, NEW n \in Running, LeavesOthers(n), home[n] \notin Loose,
         KeepsOf(home[n]), phase'[n] \in {"answer", "tool"}, Show(n, current'[n]),
         OwnWork(n)', HasStored(n)'
  PROVE  KeepsInv' /\ KeepsStep
<1>1. /\ Loose' = Loose /\ KeepsStep /\ CopiesAgree'
      /\ \A k \in Running' : home'[k] \notin Loose' => k = n
      /\ Shown(n) /\ Shown(n)'
  BY OwnStep
<1>2. n \in Running' /\ messages' = current'[n]
  BY <1>1 DEF Running, Show
<1>3. ~AtRest'
  BY <1>1, <1>2 DEF AtRest
<1>4. WorkIsOwn'
  BY <1>1, <1>2 DEF WorkIsOwn
<1>5. PageAgrees' /\ RestIsComplete'
  BY <1>3 DEF PageAgrees, RestIsComplete
<1>6. \A k \in Running' : home'[k] \notin Loose' => HasStored(k)'
  BY <1>1
<1> QED
  BY <1>1, <1>4, <1>5, <1>6 DEF KeepsInv, NothingForgotten

\* The send ends, having stored what the page shows.
LEMMA OwnEnds ==
  ASSUME ChatInv, ChatInv', KeepsInv, NEW n \in Running, LeavesOthers(n), home[n] \notin Loose,
         KeepsOf(home[n]), phase'[n] \in {"done", "failed"},
         active = home[n] => /\ Complete(messages')
                             /\ \A i \in DOMAIN store' : store'[i].id = home[n] =>
                                  store'[i].messages = messages'
  PROVE  KeepsInv' /\ KeepsStep
<1>1. /\ Loose' = Loose /\ KeepsStep /\ CopiesAgree' /\ active' = active
      /\ \A k \in Running' : home'[k] \notin Loose' => k = n
      /\ active \notin Loose => active = home[n]
  BY OwnStep
<1>2. n \notin Running'
  BY DEF Running
<1>3. WorkIsOwn' /\ \A k \in Running' : home'[k] \notin Loose' => HasStored(k)'
  BY <1>1, <1>2 DEF WorkIsOwn
<1>4. PageAgrees' /\ RestIsComplete'
  BY <1>1 DEF PageAgrees, RestIsComplete
<1> QED
  BY <1>1, <1>3, <1>4 DEF KeepsInv, NothingForgotten

\* The messages of a send.
LEMMA OwnMessages ==
  ASSUME NEW id \in Nat \ {0}, NEW role \in {"user", "assistant", "tool_call", "tool_result"},
         NEW n \in Sends
  PROVE  /\ Message(id, role, n) \in MessageSet /\ Message(id, role, n).said = n
         /\ ~Message(id, role, n).streaming
         /\ Streaming(id, n) \in MessageSet /\ Streaming(id, n).said = n
         /\ Streaming(id, n).streaming /\ Streaming(id, n).id = id
<1>1. /\ Message(id, role, n) \in MessageSet /\ ~Message(id, role, n).streaming
      /\ Message(id, "assistant", n) \in MessageSet /\ Message(id, "assistant", n).id = id
  BY DEF Message, MessageSet
<1>2. Streaming(id, n).streaming /\ Streaming(id, n).id = id
  BY <1>1 DEF Streaming, MessageSet
<1> QED
  BY <1>1, <1>2, MessageType

\* What a send works on after it has appended a message of its own to complete messages.
LEMMA OwnAppended ==
  ASSUME NEW msgs \in Seq(MessageSet), NEW m \in MessageSet, NEW n, NEW B,
         Complete(msgs), m.said = n,
         \A k \in DOMAIN msgs : msgs[k] \in B \/ msgs[k].said = n
  PROVE  /\ \A k \in DOMAIN Append(msgs, m) :
              Append(msgs, m)[k] \in B \/ Append(msgs, m)[k].said = n
         /\ ~m.streaming => Complete(Append(msgs, m))
         /\ m.streaming =>
              /\ Len(Append(msgs, m)) > 0 /\ Append(msgs, m)[Len(Append(msgs, m))].id = m.id
              /\ \A k \in DOMAIN Append(msgs, m) :
                   Append(msgs, m)[k].streaming <=> k = Len(Append(msgs, m))
<1> DEFINE w == Append(msgs, m)
           L == Len(msgs)
<1>1. /\ DOMAIN w = 1 .. L + 1 /\ DOMAIN msgs = 1 .. L /\ Len(w) = L + 1 /\ L \in Nat
      /\ \A k \in DOMAIN msgs : w[k] = msgs[k] /\ k # L + 1
      /\ w[L + 1] = m
      /\ \A k \in DOMAIN w : k \in DOMAIN msgs \/ k = L + 1
  BY AppendHolds
<1> HIDE DEF w, L
<1>2. \A k \in DOMAIN w : w[k] \in B \/ w[k].said = n
  BY <1>1
<1>3. ~m.streaming => Complete(w)
  BY <1>1 DEF Complete
<1>4. m.streaming => /\ Len(w) > 0 /\ w[Len(w)].id = m.id
                     /\ \A k \in DOMAIN w : w[k].streaming <=> k = Len(w)
  <2>1. Len(w) > 0 /\ w[Len(w)] = m
    BY <1>1
  <2>2. \A k \in DOMAIN w : m.streaming => (w[k].streaming <=> k = L + 1)
    BY <1>1 DEF Complete
  <2> QED
    BY <1>1, <2>1, <2>2
<1> QED
  BY <1>2, <1>3, <1>4 DEF w

\* Where nothing is stored, all is kept.
LEMMA SameStorage ==
  ASSUME ChatInv, UNCHANGED <<store, sessions>>
  PROVE  Copied /\ sessions' = sessions /\ \A s : OthersStored(s) /\ KeepsOf(s)
  BY DEF ChatInv, ChatTypes, IsBook, Copied, OthersStored, KeepsOf, Held

\* What is stored is complete.
LEMMA StoredIsComplete ==
  ASSUME NEW st, IsBook(st), NEW i \in DOMAIN st
  PROVE  Complete(st[i].messages) /\ \A x \in Range(st[i].messages) : ~x.streaming
  BY DEF IsBook, Complete, Range

\* A send that stores all that it has been working on keeps what is stored.
LEMMA OwnStored ==
  ASSUME ChatInv, KeepsInv, NEW n \in Running, home[n] \notin Loose,
         NEW msgs \in Seq(MessageSet), Store(n, msgs), Complete(msgs),
         \A x : Held(x, current[n]) /\ (x \in Range(base[n]) \/ x.said = n) /\ ~x.streaming =>
           Held(x, msgs) \/ phase'[x.said] = "failed"
  PROVE  /\ KeepsOf(home[n])
         /\ \A i \in DOMAIN store' : store'[i].id = home[n] => store'[i].messages = msgs
<1>1. \A i \in DOMAIN store' : store'[i].id = home[n] => store'[i].messages = msgs
  BY StoresExactly
<1>2. ASSUME NEW i \in DOMAIN store, store[i].id = home[n], NEW x \in Range(store[i].messages)
      PROVE  Held(x, msgs) \/ phase'[x.said] = "failed"
  <2>1. ~x.streaming
    BY StoredIsComplete DEF ChatInv, ChatTypes
  <2>2. Held(x, current[n]) /\ (x \in Range(base[n]) \/ x.said = n)
    BY <1>2 DEF KeepsInv, NothingForgotten, HasStored
  <2> QED
    BY <2>1, <2>2
<1> QED
  BY <1>1, <1>2 DEF KeepsOf

\* A send goes on with msgs, appending a message of its own, ready for the model's answer
\* or for a tool's.
LEMMA GoesOnWith ==
  ASSUME ChatInv, ChatInv', KeepsInv, NEW n \in Running, LeavesOthers(n),
         NEW msgs \in Seq(MessageSet), NEW m \in MessageSet, m.said = n,
         current'[n] = Append(msgs, m), Show(n, current'[n]), base'[n] = base[n],
         phase'[n] = IF m.streaming THEN "answer" ELSE "tool",
         m.streaming => m.id = LastId(n)',
         home[n] \notin Loose =>
           /\ Complete(msgs) /\ KeepsOf(home[n])
           /\ \A k \in DOMAIN msgs : msgs[k] \in Range(base[n]) \/ msgs[k].said = n
           /\ \A i \in DOMAIN store' : store'[i].id = home[n] =>
                \A x \in Range(store'[i].messages) :
                  Held(x, msgs) /\ (x \in Range(base[n]) \/ x.said = n)
  PROVE  KeepsInv' /\ KeepsStep
<1>1. CASE home[n] \in Loose
  BY <1>1, LooseGoesOn
<1>2. CASE home[n] \notin Loose
  <2> DEFINE B == Range(base[n])
             w == Append(msgs, m)
  <2>1. /\ Complete(msgs) /\ KeepsOf(home[n])
        /\ \A k \in DOMAIN msgs : msgs[k] \in B \/ msgs[k].said = n
        /\ \A i \in DOMAIN store' : store'[i].id = home[n] =>
             \A x \in Range(store'[i].messages) :
               Held(x, msgs) /\ (x \in B \/ x.said = n)
    BY <1>2
  <2>2. Complete(base[n]) /\ Range(base'[n]) = B /\ home'[n] = home[n]
    BY <1>2, AtWork DEF KeepsInv, WorkIsOwn, OwnWork, LeavesOthers
  <2>3. \A x : Held(x, msgs) => Held(x, w)
    BY AppendHolds
  <2> HIDE DEF B
  <2>4. /\ \A k \in DOMAIN w : w[k] \in B \/ w[k].said = n
        /\ ~m.streaming => Complete(w)
        /\ m.streaming => /\ Len(w) > 0 /\ w[Len(w)].id = m.id
                          /\ \A k \in DOMAIN w : w[k].streaming <=> k = Len(w)
    BY <2>1, OwnAppended
  <2> HIDE DEF w
  <2>5. current'[n] = w /\ Complete(base'[n])
    BY <2>2 DEF w
  <2>6. OwnWork(n)'
    <3>1. CASE m.streaming
      BY <2>2, <2>4, <2>5, <3>1 DEF OwnWork
    <3>2. CASE ~m.streaming
      BY <2>2, <2>4, <2>5, <3>2 DEF OwnWork
    <3> QED
      BY <3>1, <3>2
  <2>7. HasStored(n)'
    BY <2>1, <2>2, <2>3, <2>5 DEF HasStored
  <2>8. phase'[n] \in {"answer", "tool"}
    OBVIOUS
  <2> QED
    BY <1>2, <2>1, <2>6, <2>7, <2>8, OwnGoesOn
<1> QED
  BY <1>1, <1>2

\* What a send works on, for a session of which something is said.
LEMMA OwnFacts ==
  ASSUME ChatInv, KeepsInv, NEW n \in Running, home[n] \notin Loose
  PROVE  /\ OwnWork(n) /\ HasStored(n)
         /\ active = home[n] => messages = current[n]
  BY DEF KeepsInv, WorkIsOwn, NothingForgotten

\* A step changes only what belongs to its send.
LEMMA OnlyOf ==
  ASSUME ChatInv, NEW n \in Running, NEW to, NEW k,
         UNCHANGED <<active, mount, home, page, strayed, shared, mixed>>, Await(n, to),
         \/ UNCHANGED base
         \/ base' = [base EXCEPT ![n] = <<>>],
         NEW new, current' = [current EXCEPT ![n] = new],
         \/ UNCHANGED idRef
         \/ idRef' = [idRef EXCEPT ![page[n]] = @ + k],
         NEW shown, Show(n, shown),
         \/ UNCHANGED <<store, sessions>>
         \/ \E msgs \in Seq(MessageSet) : Store(n, msgs)
  PROVE  /\ LeavesOthers(n)
         /\ phase'[n] = to /\ current'[n] = new
         /\ idRef' = [idRef EXCEPT ![page[n]] = @ + k] => LastId(n)' = LastId(n) + k
<1>1. /\ phase \in [Sends -> Phases] /\ base \in [Sends -> Seq(MessageSet)] /\ n \in Sends
      /\ current \in [Sends -> Seq(MessageSet)] /\ idRef \in [1 .. MaxMounts -> Nat]
      /\ page[n] \in 1 .. MaxMounts
  BY AtWork DEF ChatInv, ChatTypes
<1>2. /\ \A j \in Sends : j # n =>
           phase'[j] = phase[j] /\ base'[j] = base[j] /\ current'[j] = current[j]
      /\ phase'[n] = to /\ current'[n] = new
  BY <1>1 DEF Await
<1>3. /\ \A i \in 1 .. MaxMounts : i # page[n] => idRef'[i] = idRef[i]
      /\ idRef' = [idRef EXCEPT ![page[n]] = @ + k] => LastId(n)' = LastId(n) + k
  BY <1>1 DEF LastId
<1>4. OthersStored(home[n]) /\ (Shown(n) => Copied) /\ (~Shown(n) => sessions' = sessions)
  BY SameStorage, StoresExactly
<1>5. ~Shown(n) => messages' = messages
  BY DEF Show
<1> QED
  BY <1>2, <1>3, <1>4, <1>5 DEF LeavesOthers

\* The model is asked.
LEMMA PreparedKeeps ==
  ASSUME ChatInv, ChatInv', KeepsInv, NEW n \in Sends, Prepared(n)
  PROVE  KeepsInv' /\ KeepsStep
<1> DEFINE msgs == current[n]
           m == Streaming(LastId(n) + 1, n)
           asked == Append(msgs, m)
<1>1. n \in Running
  BY DEF Prepared, Running
<1>2. /\ Await(n, "answer") /\ current' = [current EXCEPT ![n] = asked] /\ Show(n, asked)
      /\ idRef' = [idRef EXCEPT ![page[n]] = @ + 1]
      /\ UNCHANGED <<store, sessions, active, loading, mount, home, page, base, calls, strayed,
                     shared, mixed>>
      /\ phase[n] = "prepare"
  BY DEF Prepared, Ask
<1>3. msgs \in Seq(MessageSet) /\ LastId(n) + 1 \in Nat \ {0}
  BY <1>1, AtWork
<1>4. m \in MessageSet /\ m.said = n /\ m.streaming /\ m.id = LastId(n) + 1
  BY <1>3, OwnMessages
<1> HIDE DEF m, asked
<1>5. LeavesOthers(n) /\ phase'[n] = "answer" /\ current'[n] = asked /\ LastId(n)' = LastId(n) + 1
  BY <1>1, <1>2, OnlyOf
<1>6. base'[n] = base[n] /\ current'[n] = Append(msgs, m) /\ Show(n, current'[n])
  BY <1>2, <1>5 DEF asked
<1>7. ASSUME home[n] \notin Loose
      PROVE  /\ Complete(msgs) /\ KeepsOf(home[n])
             /\ \A k \in DOMAIN msgs : msgs[k] \in Range(base[n]) \/ msgs[k].said = n
             /\ \A i \in DOMAIN store' : store'[i].id = home[n] =>
                  \A x \in Range(store'[i].messages) :
                    Held(x, msgs) /\ (x \in Range(base[n]) \/ x.said = n)
  <2>1. OwnWork(n) /\ HasStored(n)
    BY <1>1, <1>7, OwnFacts
  <2>2. KeepsOf(home[n])
    BY <1>2, SameStorage
  <2> QED
    BY <1>2, <2>1, <2>2 DEF OwnWork, HasStored
<1> HIDE DEF msgs
<1>8. phase'[n] = (IF m.streaming THEN "answer" ELSE "tool") /\ (m.streaming => m.id = LastId(n)')
  BY <1>4, <1>5
<1> QED
  BY <1>1, <1>3, <1>4, <1>5, <1>6, <1>7, <1>8, GoesOnWith

\* The answer in place of the message made ready for it.
LEMMA OwnAnswer ==
  ASSUME ChatInv, KeepsInv, NEW n \in Running, home[n] \notin Loose, phase[n] = "answer",
         NEW msgs, msgs = Updated(current[n], LastId(n), n)
  PROVE  /\ Complete(msgs)
         /\ \A x : Held(x, current[n]) /\ ~x.streaming => Held(x, msgs)
         /\ \A k \in DOMAIN msgs : msgs[k] \in Range(base[n]) \/ msgs[k].said = n
<1>1. /\ n \in Sends /\ current[n] \in Seq(MessageSet)
      /\ Len(current[n]) > 0 /\ current[n][Len(current[n])].id = LastId(n)
      /\ \A k \in DOMAIN current[n] : current[n][k].streaming <=> k = Len(current[n])
      /\ \A k \in DOMAIN current[n] : current[n][k] \in Range(base[n]) \/ current[n][k].said = n
  BY AtWork, OwnFacts DEF OwnWork
<1>2. /\ Complete(msgs)
      /\ \A x : Held(x, current[n]) /\ ~x.streaming => Held(x, msgs)
      /\ \A k \in DOMAIN current[n] : msgs[k] = current[n][k] \/ msgs[k].said = n
  BY <1>1, UpdatedHolds
<1>3. DOMAIN msgs = DOMAIN current[n]
  BY DEF Updated
<1> QED
  BY <1>1, <1>2, <1>3

\* A tool is called.
LEMMA AskedForToolKeeps ==
  ASSUME ChatInv, ChatInv', KeepsInv, NEW n \in Sends, AskedForTool(n)
  PROVE  KeepsInv' /\ KeepsStep
<1> DEFINE msgs == Updated(current[n], LastId(n), n)
           m == Message(LastId(n) + 1, "tool_call", n)
           called == Append(msgs, m)
<1>1. n \in Running
  BY DEF AskedForTool, Running
<1>2. /\ Await(n, "tool") /\ current' = [current EXCEPT ![n] = called] /\ Show(n, called)
      /\ idRef' = [idRef EXCEPT ![page[n]] = @ + 1]
      /\ UNCHANGED <<store, sessions, active, loading, mount, home, page, base, strayed, shared,
                     mixed>>
      /\ phase[n] = "answer"
  BY DEF AskedForTool, Call
<1>3. msgs \in Seq(MessageSet) /\ LastId(n) + 1 \in Nat \ {0}
  BY <1>1, AtWork, UpdatedPart
<1>4. m \in MessageSet /\ m.said = n /\ ~m.streaming
  BY <1>3, OwnMessages
<1> HIDE DEF m, called
<1>5. LeavesOthers(n) /\ phase'[n] = "tool" /\ current'[n] = called
  BY <1>1, <1>2, OnlyOf
<1>6. base'[n] = base[n] /\ current'[n] = Append(msgs, m) /\ Show(n, current'[n])
  BY <1>2, <1>5 DEF called
<1>7. ASSUME home[n] \notin Loose
      PROVE  /\ Complete(msgs) /\ KeepsOf(home[n])
             /\ \A k \in DOMAIN msgs : msgs[k] \in Range(base[n]) \/ msgs[k].said = n
             /\ \A i \in DOMAIN store' : store'[i].id = home[n] =>
                  \A x \in Range(store'[i].messages) :
                    Held(x, msgs) /\ (x \in Range(base[n]) \/ x.said = n)
  <2>1. /\ Complete(msgs)
        /\ \A x : Held(x, current[n]) /\ ~x.streaming => Held(x, msgs)
        /\ \A k \in DOMAIN msgs : msgs[k] \in Range(base[n]) \/ msgs[k].said = n
    BY <1>1, <1>2, <1>7, OwnAnswer
  <2>2. HasStored(n) /\ KeepsOf(home[n])
    BY <1>1, <1>2, <1>7, OwnFacts, SameStorage
  <2>3. \A i \in DOMAIN store : \A x \in Range(store[i].messages) : ~x.streaming
    BY StoredIsComplete DEF ChatInv, ChatTypes
  <2> QED
    BY <1>2, <2>1, <2>2, <2>3 DEF HasStored
<1> HIDE DEF msgs
<1>8. phase'[n] = (IF m.streaming THEN "answer" ELSE "tool") /\ (m.streaming => m.id = LastId(n)')
  BY <1>4, <1>5
<1> QED
  BY <1>1, <1>3, <1>4, <1>5, <1>6, <1>7, <1>8, GoesOnWith

\* A tool has answered: the next one is called, or the conversation stored.
LEMMA ToolAnsweredKeeps ==
  ASSUME ChatInv, ChatInv', KeepsInv, NEW n \in Sends, ToolAnswered(n)
  PROVE  KeepsInv' /\ KeepsStep
<1> DEFINE r == Message(LastId(n) + 1, "tool_result", n)
           msgs == Append(current[n], r)
           id == LastId(n) + 2
           c == Message(id, "tool_call", n)
           a == Streaming(id, n)
           called == Append(msgs, c)
           asked == Append(msgs, a)
<1>1. n \in Running /\ phase[n] = "tool"
  BY DEF ToolAnswered, Running
<1>2. /\ \/ /\ Await(n, "tool") /\ current' = [current EXCEPT ![n] = called] /\ Show(n, called)
            /\ UNCHANGED <<store, sessions>>
         \/ /\ Await(n, "answer") /\ current' = [current EXCEPT ![n] = asked] /\ Show(n, asked)
            /\ Store(n, msgs)
      /\ idRef' = [idRef EXCEPT ![page[n]] = @ + 2]
      /\ UNCHANGED <<active, loading, mount, home, page, base, strayed, shared, mixed>>
  BY DEF ToolAnswered, Call, Ask
<1>3. /\ current[n] \in Seq(MessageSet) /\ LastId(n) + 1 \in Nat \ {0} /\ id \in Nat \ {0}
      /\ n \in Sends
  BY <1>1, AtWork
<1>4. r \in MessageSet /\ r.said = n /\ ~r.streaming
  BY <1>3, OwnMessages
<1> HIDE DEF id
<1>5. /\ c \in MessageSet /\ c.said = n /\ ~c.streaming
      /\ a \in MessageSet /\ a.said = n /\ a.streaming /\ a.id = id
  BY <1>3, OwnMessages
<1> HIDE DEF r, c, a
<1>6. msgs \in Seq(MessageSet) /\ \A x : Held(x, current[n]) => Held(x, msgs)
  BY <1>3, <1>4, AppendHolds
<1>7. ASSUME home[n] \notin Loose
      PROVE  /\ Complete(msgs)
             /\ \A k \in DOMAIN msgs : msgs[k] \in Range(base[n]) \/ msgs[k].said = n
  <2>1. OwnWork(n)
    BY <1>1, <1>7, OwnFacts
  <2>2. /\ Complete(current[n])
        /\ \A k \in DOMAIN current[n] :
             current[n][k] \in Range(base[n]) \/ current[n][k].said = n
    BY <1>1, <2>1 DEF OwnWork
  <2> QED
    BY <1>3, <1>4, <2>2, OwnAppended
<1> HIDE DEF msgs, called, asked
<1>8. CASE /\ Await(n, "tool") /\ current' = [current EXCEPT ![n] = called] /\ Show(n, called)
           /\ UNCHANGED <<store, sessions>>
  <2>1. LeavesOthers(n) /\ phase'[n] = "tool" /\ current'[n] = called
    BY <1>1, <1>2, <1>8, OnlyOf
  <2>2. base'[n] = base[n] /\ current'[n] = Append(msgs, c) /\ Show(n, current'[n])
    BY <1>2, <1>8, <2>1 DEF called
  <2>3. ASSUME home[n] \notin Loose
        PROVE  /\ KeepsOf(home[n])
               /\ \A i \in DOMAIN store' : store'[i].id = home[n] =>
                    \A x \in Range(store'[i].messages) :
                      Held(x, msgs) /\ (x \in Range(base[n]) \/ x.said = n)
    <3>1. HasStored(n) /\ KeepsOf(home[n])
      BY <1>1, <1>8, <2>3, OwnFacts, SameStorage
    <3> QED
      BY <1>6, <1>8, <3>1 DEF HasStored
  <2>4. phase'[n] = (IF c.streaming THEN "answer" ELSE "tool") /\ (c.streaming => c.id = LastId(n)')
    BY <1>5, <2>1
  <2> QED
    BY <1>1, <1>5, <1>6, <1>7, <2>1, <2>2, <2>3, <2>4, GoesOnWith
<1>9. CASE /\ Await(n, "answer") /\ current' = [current EXCEPT ![n] = asked] /\ Show(n, asked)
           /\ Store(n, msgs)
  <2>1. /\ LeavesOthers(n) /\ phase'[n] = "answer" /\ current'[n] = asked
        /\ LastId(n)' = LastId(n) + 2
    <3>1. /\ UNCHANGED <<active, mount, home, page, strayed, shared, mixed>> /\ UNCHANGED base
          /\ \E q \in Seq(MessageSet) : Store(n, q)
      BY <1>2, <1>6, <1>9
    <3>2. /\ Await(n, "answer") /\ current' = [current EXCEPT ![n] = asked] /\ Show(n, asked)
          /\ idRef' = [idRef EXCEPT ![page[n]] = @ + 2]
      BY <1>2, <1>9
    <3> QED
      BY <1>1, <3>1, <3>2, OnlyOf
  <2>2. base'[n] = base[n] /\ current'[n] = Append(msgs, a) /\ Show(n, current'[n])
    BY <1>2, <1>9, <2>1 DEF asked
  <2>3. ASSUME home[n] \notin Loose
        PROVE  /\ KeepsOf(home[n])
               /\ \A i \in DOMAIN store' : store'[i].id = home[n] =>
                    \A x \in Range(store'[i].messages) :
                      Held(x, msgs) /\ (x \in Range(base[n]) \/ x.said = n)
    <3>1. /\ KeepsOf(home[n])
          /\ \A i \in DOMAIN store' : store'[i].id = home[n] => store'[i].messages = msgs
      BY <1>1, <1>6, <1>7, <1>9, <2>3, OwnStored
    <3>2. \A x \in Range(msgs) : Held(x, msgs) /\ (x \in Range(base[n]) \/ x.said = n)
      BY <1>7, <2>3 DEF Held, Range
    <3> QED
      BY <3>1, <3>2
  <2>4. phase'[n] = (IF a.streaming THEN "answer" ELSE "tool") /\ (a.streaming => a.id = LastId(n)')
    BY <1>5, <2>1 DEF id
  <2> QED
    BY <1>1, <1>5, <1>6, <1>7, <2>1, <2>2, <2>3, <2>4, GoesOnWith
<1> QED
  BY <1>2, <1>8, <1>9

\* The answer is stored, and shown where its conversation is.
LEMMA AnsweredKeeps ==
  ASSUME ChatInv, ChatInv', KeepsInv, NEW n \in Sends, Answered(n)
  PROVE  KeepsInv' /\ KeepsStep
<1> DEFINE said == Updated(current[n], LastId(n), n)
           shown == Updated(messages, LastId(n), n)
<1>1. n \in Running /\ phase[n] = "answer"
  BY DEF Answered, Running
<1>2. /\ Await(n, "done") /\ current' = [current EXCEPT ![n] = <<>>] /\ Show(n, shown)
      /\ base' = [base EXCEPT ![n] = <<>>] /\ Store(n, said)
      /\ UNCHANGED <<active, mount, home, page, strayed, shared, mixed>> /\ UNCHANGED idRef
  BY DEF Answered, End
<1>3. said \in Seq(MessageSet)
  BY <1>1, AtWork, UpdatedPart
<1>4. home[n] \notin Loose /\ active = home[n] => shown = said
  BY <1>1, OwnFacts
<1>5. ASSUME home[n] \notin Loose
      PROVE  /\ Complete(said)
             /\ \A x : Held(x, current[n]) /\ ~x.streaming => Held(x, said)
  BY <1>1, <1>5, OwnAnswer
<1> HIDE DEF said, shown
<1>6. LeavesOthers(n) /\ phase'[n] = "done"
  <2>1. \E q \in Seq(MessageSet) : Store(n, q)
    BY <1>2, <1>3
  <2> QED
    BY <1>1, <1>2, <2>1, OnlyOf
<1>7. CASE home[n] \in Loose
  BY <1>1, <1>6, <1>7, LooseGoesOn
<1>8. CASE home[n] \notin Loose
  <2>1. /\ KeepsOf(home[n])
        /\ \A i \in DOMAIN store' : store'[i].id = home[n] => store'[i].messages = said
    BY <1>1, <1>2, <1>3, <1>5, <1>8, OwnStored
  <2>2. Shown(n)
    BY <1>1, <1>8, OneWorks
  <2>3. active = home[n] => messages' = said
    BY <1>2, <1>4, <1>8, <2>2 DEF Show
  <2>4. active = home[n] => /\ Complete(messages')
                            /\ \A i \in DOMAIN store' : store'[i].id = home[n] =>
                                 store'[i].messages = messages'
    BY <1>5, <1>8, <2>1, <2>3
  <2> QED
    BY <1>1, <1>6, <1>8, <2>1, <2>4, OwnEnds
<1> QED
  BY <1>7, <1>8

\* The send has failed: what it has added is gone, and nothing else.
LEMMA FailedKeeps ==
  ASSUME ChatInv, ChatInv', KeepsInv, NEW n \in Sends, Failed(n)
  PROVE  KeepsInv' /\ KeepsStep
<1> DEFINE m == Message(LastId(n) + 1, "assistant", n)
           msgs == Append(base[n], m)
<1>1. n \in Running
  BY DEF Failed, Running
<1>2. /\ Await(n, "failed") /\ current' = [current EXCEPT ![n] = <<>>] /\ Show(n, msgs)
      /\ base' = [base EXCEPT ![n] = <<>>] /\ Store(n, msgs)
      /\ UNCHANGED <<active, mount, home, page, strayed, shared, mixed>>
      /\ idRef' = [idRef EXCEPT ![page[n]] = @ + 1]
  BY DEF Failed, End
<1>3. base[n] \in Seq(MessageSet) /\ LastId(n) + 1 \in Nat \ {0}
  BY <1>1, AtWork
<1>4. m \in MessageSet /\ m.said = n /\ ~m.streaming
  BY <1>3, OwnMessages
<1> HIDE DEF m
<1>5. msgs \in Seq(MessageSet) /\ \A x \in Range(base[n]) : x \in Range(msgs)
  BY <1>3, <1>4, AppendHolds
<1>6. ASSUME home[n] \notin Loose PROVE Complete(msgs)
  <2>1. Complete(base[n])
    BY <1>1, <1>6, OwnFacts DEF OwnWork
  <2>2. \A k \in DOMAIN base[n] : base[n][k] \in Range(base[n]) \/ base[n][k].said = n
    BY DEF Range
  <2> QED
    BY <1>3, <1>4, <2>1, <2>2, OwnAppended
<1> HIDE DEF msgs
<1>7. LeavesOthers(n) /\ phase'[n] = "failed"
  <2>1. \E q \in Seq(MessageSet) : Store(n, q)
    BY <1>2, <1>5
  <2> QED
    BY <1>1, <1>2, <2>1, OnlyOf
<1>8. CASE home[n] \in Loose
  BY <1>1, <1>7, <1>8, LooseGoesOn
<1>9. CASE home[n] \notin Loose
  <2>1. \A x : Held(x, current[n]) /\ (x \in Range(base[n]) \/ x.said = n) /\ ~x.streaming =>
          Held(x, msgs) \/ phase'[x.said] = "failed"
    BY <1>5, <1>7 DEF Held
  <2>2. /\ KeepsOf(home[n])
        /\ \A i \in DOMAIN store' : store'[i].id = home[n] => store'[i].messages = msgs
    BY <1>1, <1>2, <1>5, <1>6, <1>9, <2>1, OwnStored
  <2>3. messages' = msgs
    BY <1>1, <1>2, <1>9, OneWorks DEF Show
  <2>4. active = home[n] => /\ Complete(messages')
                            /\ \A i \in DOMAIN store' : store'[i].id = home[n] =>
                                 store'[i].messages = messages'
    BY <1>6, <1>9, <2>2, <2>3
  <2> QED
    BY <1>1, <1>7, <1>9, <2>2, <2>4, OwnEnds
<1> QED
  BY <1>8, <1>9

\* A step that takes all that is stored from the storage keeps it.
LEMMA StorageKeeps ==
  ASSUME ChatInv, \A i \in DOMAIN store' : \E j \in DOMAIN store : store'[i] = store[j]
  PROVE  KeepsStep
<1> SUFFICES ASSUME NEW i \in DOMAIN store, NEW j \in DOMAIN store',
                    store[i].id = store'[j].id
             PROVE  store'[j] = store[i]
  BY DEF KeepsStep, KeepsOf, Held
<1> QED
  BY DEF ChatInv, ChatTypes, IsBook

\* A step of the user that begins no send and takes all that is stored from the storage:
\* the copies still agree, and the sends have what is stored.
LEMMA UserKeeps ==
  ASSUME ChatInv, ChatInv', KeepsInv, Loose \ {NoSession} \subseteq Loose',
         \A i \in DOMAIN store' : \E j \in DOMAIN store : store'[i] = store[j],
         Copied,
         UNCHANGED <<mount, idRef, phase, home, page, base, current>>
  PROVE  /\ KeepsStep /\ CopiesAgree'
         /\ Running' = Running /\ (AtRest' <=> AtRest)
         /\ \A n \in Running : home[n] \notin Loose' => home[n] \notin Loose
         /\ \A n \in Running : home[n] \notin Loose' => HasStored(n)'
         /\ \A n \in Running : home[n] \notin Loose' => Shown(n)' /\ OwnWork(n)'
<1>1. /\ Running' = Running
      /\ \A n \in Running : /\ n \in Sends /\ home[n] # NoSession
                            /\ (Shown(n)' <=> Shown(n)) /\ (OwnWork(n)' <=> OwnWork(n))
  BY AtWork DEF Running, Shown, OwnWork, LastId
<1>2. \A n \in Running : home[n] \notin Loose' => home[n] \notin Loose
  BY <1>1
<1>3. CopiesAgree'
  <2> SUFFICES ASSUME NEW i \in DOMAIN store', NEW j \in DOMAIN sessions',
                      store'[i].id = sessions'[j].id, store'[i].id \notin Loose'
               PROVE  sessions'[j].messages = store'[i].messages
    BY DEF CopiesAgree
  <2>1. CASE sessions' = store'
    BY <2>1 DEF ChatInv, ChatTypes, IsBook
  <2>2. CASE sessions' = sessions
    <3>1. PICK k \in DOMAIN store : store'[i] = store[k]
      OBVIOUS
    <3>2. store[k].id \notin Loose
      BY <3>1, BookContent DEF ChatInv, ChatTypes
    <3> QED
      BY <2>2, <3>1, <3>2 DEF KeepsInv, NothingForgotten, CopiesAgree
  <2> QED
    BY <2>1, <2>2 DEF Copied
<1>4. ASSUME NEW n \in Running, home[n] \notin Loose'
      PROVE  HasStored(n)' /\ Shown(n)' /\ OwnWork(n)'
  <2>1. HasStored(n) /\ Shown(n) /\ OwnWork(n)
    BY <1>2, <1>4, OwnFacts, OneWorks
  <2>2. HasStored(n)'
    BY <2>1 DEF HasStored, Held
  <2> QED
    BY <1>1, <2>1, <2>2
<1> QED
  BY <1>1, <1>2, <1>3, <1>4, StorageKeeps DEF AtRest

\* The page turns to a session and shows what is stored of it.
LEMMA TurnsKeep ==
  ASSUME ChatInv, ChatInv', KeepsInv, NEW s, NEW msgs, TurnTo(s, msgs), Complete(msgs),
         \A i \in DOMAIN store' : \E j \in DOMAIN store : store'[i] = store[j],
         Copied,
         \A i \in DOMAIN store' : store'[i].id = s /\ s \notin Loose => store'[i].messages = msgs
  PROVE  KeepsInv' /\ KeepsStep
<1>1. /\ active' = s /\ messages' = msgs
      /\ strayed' = IF ~AtRest THEN strayed \cup {s} ELSE strayed \ {NoSession}
      /\ UNCHANGED <<mount, idRef, phase, home, page, base, current, shared>>
  BY DEF TurnTo, AtRest, Shown
<1>2. /\ Loose \ {NoSession} \subseteq Loose'
      /\ AtRest => Loose' \subseteq Loose
      /\ ~AtRest => s \in Loose'
      /\ s # NoSession /\ s \notin Loose' => s \notin Loose
  BY <1>1 DEF Loose
<1>3. /\ KeepsStep /\ CopiesAgree'
      /\ Running' = Running /\ (AtRest' <=> AtRest)
      /\ \A n \in Running : home[n] \notin Loose' => home[n] \notin Loose
      /\ \A n \in Running : home[n] \notin Loose' => HasStored(n)'
      /\ \A n \in Running : home[n] \notin Loose' => Shown(n)' /\ OwnWork(n)'
  BY <1>1, <1>2, UserKeeps
<1>4. \A n \in Running' : home'[n] \notin Loose' => home'[n] # active'
  <2> SUFFICES ASSUME NEW n \in Running, home[n] \notin Loose' PROVE s \in Loose'
    BY <1>1, <1>3
  <2>1. Shown(n)'
    BY <1>3
  <2> QED
    BY <1>1, <1>2, <2>1 DEF AtRest, Shown
<1>5. WorkIsOwn'
  BY <1>1, <1>3, <1>4 DEF WorkIsOwn
<1>6. PageAgrees'
  <2> SUFFICES ASSUME NEW i \in DOMAIN store', store'[i].id = s, s \notin Loose'
               PROVE  store'[i].messages = msgs
    BY <1>1 DEF PageAgrees
  <2>1. s # NoSession
    BY BookContent DEF ChatInv, ChatTypes
  <2> QED
    BY <1>2, <2>1
<1>7. RestIsComplete'
  BY <1>1 DEF RestIsComplete
<1> QED
  BY <1>1, <1>3, <1>5, <1>6, <1>7 DEF KeepsInv, NothingForgotten

\* The page shows no conversation.
LEMMA NewChatKeeps ==
  ASSUME ChatInv, ChatInv', KeepsInv, NewChat
  PROVE  KeepsInv' /\ KeepsStep
<1>1. store' = store /\ sessions' = sessions /\ TurnTo(NoSession, <<>>) /\ Complete(<<>>)
  BY DEF NewChat, Complete
<1>2. \A i \in DOMAIN store' : store'[i].id # NoSession
  BY BookContent DEF ChatInv, ChatTypes
<1>3. Copied /\ \A i \in DOMAIN store' : \E j \in DOMAIN store : store'[i] = store[j]
  BY <1>1 DEF Copied
<1> QED
  BY <1>1, <1>2, <1>3, TurnsKeep

\* The page's copy of a session is what is stored of it.
LEMMA SelectSessionKeeps ==
  ASSUME ChatInv, ChatInv', KeepsInv, SelectSession
  PROVE  KeepsInv' /\ KeepsStep
<1>1. PICK i \in DOMAIN sessions : TurnTo(sessions[i].id, sessions[i].messages)
  BY DEF SelectSession
<1>2. store' = store /\ sessions' = sessions
  BY DEF SelectSession
<1>3. Complete(sessions[i].messages)
  BY StoredIsComplete DEF ChatInv, ChatTypes
<1>4. \A j \in DOMAIN store' : store'[j].id = sessions[i].id /\ sessions[i].id \notin Loose =>
        store'[j].messages = sessions[i].messages
  BY <1>2 DEF KeepsInv, NothingForgotten, CopiesAgree
<1>5. Copied /\ \A k \in DOMAIN store' : \E j \in DOMAIN store : store'[k] = store[j]
  BY <1>2 DEF Copied
<1> QED
  BY <1>1, <1>3, <1>4, <1>5, TurnsKeep

\* A step that changes nothing but the storage and the page's copy.
LEMMA ElsewhereKeeps ==
  ASSUME ChatInv, ChatInv', KeepsInv, Copied,
         \A i \in DOMAIN store' : \E j \in DOMAIN store : store'[i] = store[j],
         UNCHANGED <<active, messages, mount, idRef, phase, home, page, base, current, strayed,
                     shared, mixed>>
  PROVE  KeepsInv' /\ KeepsStep
<1>1. Loose' = Loose
  BY DEF Loose
<1>2. /\ KeepsStep /\ CopiesAgree'
      /\ Running' = Running /\ (AtRest' <=> AtRest)
      /\ \A n \in Running : home[n] \notin Loose' => HasStored(n)'
      /\ \A n \in Running : home[n] \notin Loose' => Shown(n)' /\ OwnWork(n)'
  BY <1>1, UserKeeps
<1>3. WorkIsOwn'
  BY <1>1, <1>2, OwnFacts DEF WorkIsOwn
<1>4. PageAgrees' /\ RestIsComplete'
  BY <1>1, <1>2 DEF PageAgrees, RestIsComplete, KeepsInv, NothingForgotten
<1> QED
  BY <1>1, <1>2, <1>3, <1>4 DEF KeepsInv, NothingForgotten

\* The session removed is not the one shown, or the page turns to another.
LEMMA DeleteSessionKeeps ==
  ASSUME ChatInv, ChatInv', KeepsInv, DeleteSession
  PROVE  KeepsInv' /\ KeepsStep
<1>1. PICK i \in DOMAIN sessions :
        LET s == sessions[i].id IN
        /\ store' = Without(store, s)
        /\ sessions' = store'
        /\ IF s # active THEN UNCHANGED <<active, messages, loading, mount, idRef, phase, home,
                                          page, base, current, calls, strayed, shared, mixed>>
           ELSE IF store' = <<>> THEN TurnTo(NoSession, <<>>)
           ELSE TurnTo(store'[1].id, store'[1].messages)
  BY DEF DeleteSession
<1>2. Copied /\ \A k \in DOMAIN store' : \E j \in DOMAIN store : store'[k] = store[j]
  <2>1. IsBook(store)
    BY DEF ChatInv, ChatTypes
  <2>2. \A k \in DOMAIN Without(store, sessions[i].id) : \E j \in DOMAIN store :
          Without(store, sessions[i].id)[k] = store[j]
    BY <2>1, WithoutBook
  <2> QED
    BY <1>1, <2>2 DEF Copied
<1>3. CASE sessions[i].id # active
  BY <1>1, <1>2, <1>3, ElsewhereKeeps
<1>4. CASE sessions[i].id = active /\ store' = <<>>
  <2>1. TurnTo(NoSession, <<>>) /\ Complete(<<>>) /\ DOMAIN store' = {}
    BY <1>1, <1>4 DEF Complete
  <2> QED
    BY <1>2, <2>1, TurnsKeep
<1>5. CASE sessions[i].id = active /\ store' # <<>>
  <2>1. TurnTo(store'[1].id, store'[1].messages)
    BY <1>1, <1>5
  <2>2. IsBook(store') /\ 1 \in DOMAIN store'
    BY <1>5, LenProperties, EmptySeq DEF IsBook, ChatInv, ChatTypes
  <2>3. Complete(store'[1].messages)
    BY <2>2, StoredIsComplete
  <2>4. \A k \in DOMAIN store' : store'[k].id = store'[1].id =>
          store'[k].messages = store'[1].messages
    BY <2>2 DEF IsBook
  <2> QED
    BY <1>2, <2>1, <2>3, <2>4, TurnsKeep
<1> QED
  BY <1>3, <1>4, <1>5

\* The title is changed, and no message.
LEMMA RenameKeeps ==
  ASSUME ChatInv, ChatInv', KeepsInv, Rename
  PROVE  KeepsInv' /\ KeepsStep
<1>1. PICK i \in DOMAIN store : store' = WithSession(store, store[i])
  BY DEF Rename
<1>2. /\ sessions' = store'
      /\ UNCHANGED <<active, messages, loading, mount, idRef, phase, home, page, base, current,
                     calls, strayed, shared, mixed>>
  BY DEF Rename
<1>3. /\ IsBook(store) /\ store[i] \in SessionSet
      /\ \A k \in DOMAIN store[i].messages : ~store[i].messages[k].streaming
  BY ElementOfSeq, LenProperties DEF ChatInv, ChatTypes, IsBook
<1>4. \A k \in DOMAIN store' : \/ store'[k] = store[i]
                               \/ \E j \in DOMAIN store : store'[k] = store[j]
  BY <1>1, <1>3, WithSessionBook
<1>5. Copied /\ \A k \in DOMAIN store' : \E j \in DOMAIN store : store'[k] = store[j]
  BY <1>2, <1>4 DEF Copied
<1> QED
  BY <1>2, <1>5, ElsewhereKeeps

\* The page opened again shows what is stored, and of the sessions for which a send goes on
\* nothing is said.
LEMMA OpensKeep ==
  ASSUME ChatInv, ChatInv', KeepsInv, Open, \A n \in Running' : home'[n] \in Loose'
  PROVE  KeepsInv' /\ KeepsStep
<1>1. /\ store' = store /\ sessions' = store
      /\ active' = IF store = <<>> THEN NoSession ELSE store[1].id
      /\ messages' = IF store = <<>> THEN <<>> ELSE store[1].messages
      /\ IsBook(store)
  BY DEF Open, ChatInv, ChatTypes
<1>2. KeepsStep
  BY <1>1, StorageKeeps
<1>3. CopiesAgree'
  BY <1>1 DEF CopiesAgree, IsBook
<1>4. PageAgrees' /\ Complete(messages')
  <2>1. CASE store = <<>>
    BY <1>1, <2>1 DEF PageAgrees, Complete
  <2>2. CASE store # <<>>
    <3>1. 1 \in DOMAIN store
      BY <1>1, <2>2, LenProperties, EmptySeq DEF IsBook
    <3>2. Complete(store[1].messages)
      BY <1>1, <3>1, StoredIsComplete
    <3>3. \A i \in DOMAIN store : store[i].id = store[1].id =>
            store[i].messages = store[1].messages
      BY <1>1, <3>1 DEF IsBook
    <3> QED
      BY <1>1, <2>2, <3>2, <3>3 DEF PageAgrees
  <2> QED
    BY <2>1, <2>2
<1> QED
  BY <1>2, <1>3, <1>4 DEF KeepsInv, WorkIsOwn, NothingForgotten, RestIsComplete

\* The page left while sends run, and the tab reloaded.
LEMMA LeavingKeeps ==
  ASSUME ChatInv, ChatInv', KeepsInv, Return \/ Reload
  PROVE  KeepsInv' /\ KeepsStep
<1>1. CASE Return
  <2>1. Running' = Running /\ home' = home /\ shared' = shared \cup {home[n] : n \in Running}
    BY <1>1 DEF Return, Open, Running
  <2>2. \A n \in Running' : home'[n] \in Loose'
    BY <2>1 DEF Loose
  <2> QED
    BY <1>1, <2>2, OpensKeep DEF Return
<1>2. CASE Reload
  <2>1. Running' = {}
    BY <1>2 DEF Reload, Running
  <2> QED
    BY <1>2, <2>1, OpensKeep DEF Reload
<1> QED
  BY <1>1, <1>2

\* What a send stores as it begins: the messages shown and its own.
LEMMA SendStores ==
  ASSUME ChatInv, KeepsInv, NEW n \in Sends, Send(n)
  PROVE  /\ home'[n] = active' /\ AtRest
         /\ Loose \subseteq Loose' /\ \A s : s # active' /\ s \in Loose' => s \in Loose
         /\ OthersStored(active') /\ Copied
         /\ active' \notin Loose' =>
              /\ Complete(messages)
              /\ \A i \in DOMAIN store' : store'[i].id = active' => store'[i].messages = messages'
         /\ active' \notin Loose => KeepsOf(active')
<1> DEFINE m == Message(idRef[mount] + 1, "user", n)
           said == Append(messages, m)
<1>1. /\ messages' = said /\ ~loading
      /\ sessions' = IF active = NoSession \/ IsStored(store, active) THEN store' ELSE sessions
      /\ shared' = shared
  BY DEF Send
<1>2. PICK s \in SessionIds :
        /\ IF active = NoSession THEN \A k \in Sends : home[k] # s ELSE s = active
        /\ active' = s
        /\ home' = [home EXCEPT ![n] = s]
        /\ store' = Saved(IF active = NoSession
                          THEN WithSession(store, [id |-> s, messages |-> <<>>]) ELSE store,
                          s, said)
        /\ strayed' = IF active = NoSession /\ NoSession \in strayed
                      THEN strayed \cup {s} ELSE strayed
  BY DEF Send
<1>3. AtRest
  BY <1>1 DEF AtRest, ChatInv, OneOnPage
<1>4. /\ messages \in Seq(MessageSet) /\ idRef[mount] + 1 \in Nat \ {0}
      /\ IsBook(store) /\ home'[n] = s /\ shared \in SUBSET SessionIds
      /\ active \in SessionIds \cup {NoSession}
  <2>1. idRef[mount] \in Nat /\ home \in [Sends -> SessionIds \cup {NoSession}]
    BY DEF ChatInv, ChatTypes
  <2>2. home'[n] = s /\ idRef[mount] + 1 \in Nat \ {0}
    BY <1>2, <2>1
  <2> QED
    BY <2>2 DEF ChatInv, ChatTypes
<1>5. m \in MessageSet /\ ~m.streaming /\ m.said = n
  BY <1>4, OwnMessages
<1> HIDE DEF m
<1>6. /\ said \in Seq(MessageSet) /\ (Complete(messages) => Complete(said))
      /\ \A x : x \in Range(messages) => x \in Range(said)
  <2>1. \A k \in DOMAIN messages : messages[k] \in Range(messages) \/ messages[k].said = n
    BY DEF Range
  <2> QED
    BY <1>4, <1>5, <2>1, AppendHolds, OwnAppended
<1> HIDE DEF said
<1>7. /\ Loose \subseteq Loose' /\ \A r : r # s /\ r \in Loose' => r \in Loose
      /\ s \notin Loose' => s \notin Loose /\ active \notin Loose
  <2>1. Loose \subseteq Loose' /\ \A r : r # s /\ r \in Loose' => r \in Loose
    BY <1>1, <1>2 DEF Loose
  <2>2. NoSession \in Loose => NoSession \in strayed
    BY <1>4, NoSessionAssumption DEF Loose
  <2>3. s \notin Loose' => active # NoSession \/ NoSession \notin strayed
    BY <1>2 DEF Loose
  <2> QED
    BY <1>2, <2>1, <2>2, <2>3
<1>8. s \notin Loose' => Complete(messages) /\ Complete(said)
  BY <1>3, <1>6, <1>7 DEF KeepsInv, RestIsComplete
<1>9. CASE active # NoSession
  <2>1. s = active /\ store' = Saved(store, s, said)
    BY <1>2, <1>9
  <2>2. \A i \in DOMAIN store' :
          IF store'[i].id = s THEN store'[i].messages = NotStreaming(said)
          ELSE \E j \in DOMAIN store : store'[i] = store[j]
    BY <1>4, <1>6, <2>1, SavedExactly
  <2>3. s \notin Loose' =>
          \A i \in DOMAIN store' : store'[i].id = s => store'[i].messages = said
    BY <1>6, <1>8, <2>2, CompleteStored
  <2>4. ASSUME s \notin Loose PROVE KeepsOf(s)
    <3>1. \A i \in DOMAIN store : store[i].id = s => store[i].messages = messages
      BY <1>3, <2>1, <2>4 DEF KeepsInv, NothingForgotten, PageAgrees
    <3>2. s \notin Loose'
      BY <1>1, <1>2, <1>9, <2>4 DEF Loose
    <3> QED
      BY <1>6, <2>3, <3>1, <3>2 DEF KeepsOf, Held
  <2>5. Copied
    BY <1>1, <1>9, <2>1 DEF Copied, Saved
  <2> QED
    BY <1>1, <1>2, <1>3, <1>4, <1>7, <1>8, <2>2, <2>3, <2>4, <2>5 DEF OthersStored
<1>10. CASE active = NoSession
  <2> DEFINE e == [id |-> s, messages |-> <<>>]
             st == WithSession(store, e)
  <2>1. store' = Saved(st, s, said) /\ \A k \in Sends : home[k] # s
    BY <1>2, <1>10
  <2>2. e \in SessionSet /\ e.id = s /\ \A k \in DOMAIN e.messages : ~e.messages[k].streaming
    BY EmptySeq DEF SessionSet
  <2> HIDE DEF e
  <2>3. /\ IsBook(st)
        /\ \A i \in DOMAIN st : st[i] = e \/ \E j \in DOMAIN store : st[i] = store[j]
    BY <1>4, <2>2, WithSessionBook
  <2> HIDE DEF st
  <2>4. \A i \in DOMAIN store' :
          IF store'[i].id = s THEN store'[i].messages = NotStreaming(said)
          ELSE \E j \in DOMAIN st : store'[i] = st[j]
    BY <1>6, <2>1, <2>3, SavedExactly
  <2>5. s \notin Loose' =>
          \A i \in DOMAIN store' : store'[i].id = s => store'[i].messages = said
    BY <1>6, <1>8, <2>4, CompleteStored
  <2>6. OthersStored(s)
    BY <2>2, <2>3, <2>4 DEF OthersStored
  <2>7. ASSUME s \notin Loose, NEW i \in DOMAIN store, store[i].id = s
        PROVE  Range(store[i].messages) = {}
    <3>1. Belongs(store[i].messages, s) /\ s \notin mixed
      BY <2>1, <2>7 DEF ChatInv, AllBelong, SendsKnown
    <3>2. \A k \in DOMAIN store[i].messages : store[i].messages[k].said \in Sends
      BY <1>4, BookContent, SaidBySends
    <3>3. DOMAIN store[i].messages = {}
      BY <2>1, <3>1, <3>2 DEF Belongs
    <3> QED
      BY <3>3 DEF Range
  <2>8. s \notin Loose => KeepsOf(s)
    BY <2>7 DEF KeepsOf
  <2>9. Copied
    BY <1>1, <1>10 DEF Copied
  <2> QED
    BY <1>1, <1>2, <1>3, <1>4, <1>7, <1>8, <2>5, <2>6, <2>8, <2>9
<1> QED
  BY <1>9, <1>10

\* A send begins with what the page shows, and stores it with its own message.
LEMMA SendKeeps ==
  ASSUME ChatInv, ChatInv', KeepsInv, NEW n \in Sends, Send(n)
  PROVE  KeepsInv' /\ KeepsStep
<1> DEFINE s == active'
           m == Message(idRef[mount] + 1, "user", n)
           said == Append(messages, m)
<1>1. /\ home'[n] = s /\ AtRest
      /\ Loose \subseteq Loose' /\ \A r : r # s /\ r \in Loose' => r \in Loose
      /\ OthersStored(s) /\ Copied
      /\ s \notin Loose' =>
           /\ Complete(messages)
           /\ \A i \in DOMAIN store' : store'[i].id = s => store'[i].messages = messages'
      /\ s \notin Loose => KeepsOf(s)
  BY SendStores
<1> HIDE DEF s
<1>2. /\ phase' = [phase EXCEPT ![n] = "prepare"] /\ page' = [page EXCEPT ![n] = mount]
      /\ base' = [base EXCEPT ![n] = messages] /\ current' = [current EXCEPT ![n] = said]
      /\ messages' = said /\ mount' = mount
      /\ \E r \in SessionIds : home' = [home EXCEPT ![n] = r]
  BY DEF Send
<1>3. /\ messages \in Seq(MessageSet) /\ idRef[mount] + 1 \in Nat \ {0}
  <2>1. messages \in Seq(MessageSet) /\ idRef[mount] \in Nat
    BY DEF ChatInv, ChatTypes
  <2> QED
    BY <2>1
<1>4. m \in MessageSet /\ ~m.streaming /\ m.said = n
  BY <1>3, OwnMessages
<1> HIDE DEF m
<1>5. /\ \A x \in Range(messages) : x \in Range(said)
      /\ \A k \in DOMAIN said : said[k] \in Range(messages) \/ said[k].said = n
      /\ Complete(messages) => Complete(said)
  <2>1. \A k \in DOMAIN messages : messages[k] \in Range(messages) \/ messages[k].said = n
    BY DEF Range
  <2>2. \A x \in Range(messages) : x \in Range(said)
    BY <1>3, <1>4, AppendHolds
  <2>3. /\ DOMAIN said = 1 .. Len(messages) + 1 /\ DOMAIN messages = 1 .. Len(messages)
        /\ \A k \in DOMAIN messages : said[k] = messages[k]
        /\ said[Len(messages) + 1] = m
        /\ \A k \in DOMAIN said : k \in DOMAIN messages \/ k = Len(messages) + 1
    BY <1>3, <1>4, AppendHolds
  <2>4. \A k \in DOMAIN said : said[k] \in Range(messages) \/ said[k].said = n
    BY <1>4, <2>1, <2>3
  <2>5. Complete(messages) => Complete(said)
    BY <1>4, <2>3 DEF Complete
  <2> QED
    BY <2>2, <2>4, <2>5
<1> HIDE DEF said
<1>6. /\ phase'[n] = "prepare" /\ page'[n] = mount /\ base'[n] = messages /\ current'[n] = said
      /\ \A k \in Sends : k # n => /\ phase'[k] = phase[k] /\ page'[k] = page[k]
                                   /\ home'[k] = home[k]
  BY <1>2 DEF ChatInv, ChatTypes
<1>7. n \in Running' /\ \A k \in Running' : k # n => k \in Running
  BY <1>6 DEF Running
<1>8. ASSUME NEW k \in Running', home'[k] \notin Loose' PROVE k = n
  <2> SUFFICES ASSUME k # n PROVE FALSE
    OBVIOUS
  <2>1. k \in Running /\ k \in Sends
    BY <1>7 DEF Running
  <2>2. home[k] \notin Loose
    BY <1>1, <1>6, <1>8, <2>1
  <2>3. Shown(k)
    BY <2>1, <2>2, OneWorks
  <2> QED
    BY <1>1, <2>1, <2>3 DEF AtRest
<1>9. Shown(n)' /\ ~AtRest'
  BY <1>2, <1>6, <1>7 DEF Shown, AtRest
<1>10. WorkIsOwn'
  <2> SUFFICES ASSUME home'[n] \notin Loose'
               PROVE  Shown(n)' /\ OwnWork(n)' /\ messages' = current'[n]
    BY <1>8 DEF WorkIsOwn
  <2>1. Complete(messages) /\ Complete(said)
    BY <1>1, <1>5
  <2>2. OwnWork(n)'
    BY <1>5, <1>6, <2>1 DEF OwnWork
  <2> QED
    BY <1>2, <1>6, <1>9, <2>2
<1>11. CopiesAgree'
  <2>1. CASE sessions' = store'
    BY <2>1 DEF CopiesAgree, ChatInv, ChatTypes, IsBook
  <2>2. CASE sessions' = sessions /\ store' = store
    BY <1>1, <2>2 DEF CopiesAgree, KeepsInv, NothingForgotten
  <2> QED
    BY <1>1, <2>1, <2>2 DEF Copied
<1>12. \A k \in Running' : home'[k] \notin Loose' => HasStored(k)'
  <2> SUFFICES ASSUME home'[n] \notin Loose' PROVE HasStored(n)'
    BY <1>8
  <2>1. \A i \in DOMAIN store' : store'[i].id = home'[n] => store'[i].messages = said
    BY <1>1, <1>2
  <2>2. \A x \in Range(said) : Held(x, said) /\ (x \in Range(messages) \/ x.said = n)
    BY <1>5 DEF Held, Range
  <2> QED
    BY <1>6, <2>1, <2>2 DEF HasStored
<1>13. KeepsStep
  <2> SUFFICES ASSUME NEW r, r \notin Loose PROVE KeepsOf(r)
    BY DEF KeepsStep
  <2>1. CASE r # s
    BY <1>1, <2>1, OthersKeep
  <2>2. CASE r = s
    BY <1>1, <2>2
  <2> QED
    BY <2>1, <2>2
<1> QED
  BY <1>9, <1>10, <1>11, <1>12, <1>13 DEF KeepsInv, NothingForgotten, PageAgrees, RestIsComplete

\* Every step keeps the invariant and what is stored.
LEMMA KeepsEveryStep ==
  ASSUME ChatInv, ChatInv', KeepsInv, [Next]_vars
  PROVE  KeepsInv' /\ KeepsStep
<1>1. CASE \E n \in Sends : Send(n)
  BY <1>1, SendKeeps
<1>2. CASE \E n \in Sends : SendStep(n)
  BY <1>2, PreparedKeeps, AnsweredKeeps, AskedForToolKeeps, ToolAnsweredKeeps, FailedKeeps
     DEF SendStep
<1>3. CASE NewChat \/ SelectSession \/ DeleteSession \/ Rename
  BY <1>3, NewChatKeeps, SelectSessionKeeps, DeleteSessionKeeps, RenameKeeps
<1>4. CASE Return \/ Reload
  BY <1>4, LeavingKeeps
<1>5. CASE UNCHANGED vars
  BY <1>5, ElsewhereKeeps DEF vars, Copied
<1> QED
  BY <1>1, <1>2, <1>3, <1>4, <1>5 DEF Next

\* What the sends work on, and what the page and its copy of the storage show.
THEOREM KeepsInvariant == Spec => []KeepsInv
<1>1. Init => KeepsInv
  BY DEF Init, KeepsInv, WorkIsOwn, NothingForgotten, RestIsComplete, CopiesAgree, PageAgrees,
         Running, Complete
<1>2. ChatInv /\ ChatInv' /\ KeepsInv /\ [Next]_vars => KeepsInv'
  BY KeepsEveryStep
<1> QED
  BY <1>1, <1>2, ChatInvariant, PTL DEF Spec

\* No save of a conversation forgets what was stored of it (saveCurrentSession in
\* ui/src/pages/Chat.tsx, saveSession in ui/src/lib/chat-storage.ts).
THEOREM KeepsWhatIsStored == Spec => KeepsEarlier
<1>1. ChatInv /\ ChatInv' /\ KeepsInv /\ [Next]_vars =>
        \A i \in DOMAIN store, j \in DOMAIN store' :
          LET old == store[i].messages
              new == store'[j].messages
          IN store[i].id = store'[j].id /\ store[i].id \notin strayed \cup shared =>
               \A m \in Range(old) :
                 m \in Range(new) \/ phase'[m.said] = "failed" \/ Retaken(m.id, new)
  BY KeepsEveryStep DEF KeepsStep, KeepsOf, Held, Loose
<1> QED
  BY <1>1, ChatInvariant, KeepsInvariant, PTL DEF Spec, KeepsEarlier

=============================================================================
