--------------------------- MODULE OAuth2TokenProofs ---------------------------
(***************************************************************************)
(* Proofs about OAuth2Token for any callers, lifetimes, margin and         *)
(* timeout: returned tokens are fresh, and a token is fetched once in a    *)
(* lifetime.  The invariant says that who looks or fetches holds the mutex *)
(* (MutexHeld), so that the cached token, found too old, stays so until    *)
(* the new one arrives (FetchNeeded), which is no later than the timeout   *)
(* (FetchInTime); and it counts the fetches against the time (Paced).      *)
(***************************************************************************)
EXTENDS OAuth2Token, TLAPS

MutexHeld == \A c \in Callers : pc[c] \in {"look", "fetch"} => holder = c

FetchNeeded == \A c \in Callers : pc[c] = "fetch" => ~Valid(cached)

FetchInTime ==
  \A c \in Callers : pc[c] = "fetch" => sent[c] <= now /\ now - sent[c] <= Timeout

ExpiryKnown ==
  /\ cached.set => cached.expiry >= cached.until - Timeout
  /\ ReturnedIsFresh

\* A lower bound of the lifetimes that are longer than the margin.
Shortest(s) == s \in Nat /\ s > Margin
                 /\ \A e \in Lifetimes : Lifetime(e) > Margin => Lifetime(e) >= s

Paced ==
  \A s \in Nat : Shortest(s) =>
    /\ (fetched - 1) * (s - Margin) <= now
    /\ \/ fetched * (s - Margin) <= now
       \/ cached.set /\ fetched * (s - Margin) <= cached.until - Margin

IInv ==
  /\ TypeOK
  /\ MutexHeld
  /\ FetchNeeded
  /\ FetchInTime
  /\ ExpiryKnown
  /\ Paced

-----------------------------------------------------------------------------
LEMMA LifetimeType == \A e \in Lifetimes : Lifetime(e) \in Nat
BY LifetimesAssumption, DefaultAssumption DEF Lifetime

\* The time at which a token was made.
LEMMA MadeBetween ==
  ASSUME NEW a \in Nat, NEW b \in Nat, NEW m \in a .. b
  PROVE  m \in Nat /\ a <= m /\ m <= b
OBVIOUS

LEMMA SumType == \A a, b \in Nat : a + b \in Nat
OBVIOUS

\* What Receive stores.
NewToken(until, expiry) == [set |-> TRUE, until |-> until, expiry |-> expiry]

LEMMA NewTokenType ==
  ASSUME NEW u \in Nat, NEW e \in Nat
  PROVE  /\ NewToken(u, e) \in Tokens /\ NewToken(u, e).set
         /\ NewToken(u, e).until = u /\ NewToken(u, e).expiry = e
BY DEF NewToken, Tokens

LEMMA NoTokenType == NoToken \in Tokens /\ NoResult \in Results
BY DEF NoToken, Tokens, NoResult, Results

LEMMA ResultType ==
  ASSUME NEW t \in Tokens, NEW isKept \in BOOLEAN, now \in Nat
  PROVE  Result(isKept, t) \in Results
BY DEF Result, Tokens, Results

LEMMA TimeType ==
  ASSUME TypeOK
  PROVE  now \in Nat /\ Margin \in Nat /\ Timeout \in Nat /\ Result(TRUE, cached) \in Results
<1>1. now \in Nat /\ Margin \in Nat /\ Timeout \in Nat
  BY TimesAssumption DEF TypeOK
<1>2. cached \in Tokens
  BY DEF TypeOK
<1>3. Result(TRUE, cached) \in Results
  BY <1>1, <1>2, ResultType
<1> QED
  BY <1>1, <1>3

LEMMA TypeInit == Init => TypeOK
BY TimesAssumption, NoTokenType DEF Init, TypeOK

LEMMA TypeStep == TypeOK /\ [Next]_vars => TypeOK'
<1> SUFFICES ASSUME TypeOK, [Next]_vars PROVE TypeOK'
  OBVIOUS
<1> USE DEF TypeOK, Goto
<1>1. ASSUME NEW c \in Callers, Apply(c) PROVE TypeOK'
  BY <1>1 DEF Apply
<1>2. ASSUME NEW c \in Callers, Lock(c) PROVE TypeOK'
  BY <1>2 DEF Lock
<1>3. ASSUME NEW c \in Callers, Look(c) PROVE TypeOK'
  BY <1>3, TimeType DEF Look
<1>4. ASSUME NEW c \in Callers, Fetch(c) PROVE TypeOK'
  BY <1>4, TimeType DEF Fetch
<1>5. ASSUME NEW c \in Callers, Receive(c) PROVE TypeOK'
  <2>1. PICK e \in Lifetimes, made \in sent[c] .. now :
          /\ cached' = NewToken(now + Lifetime(e), made + Lifetime(e))
          /\ fetched' = IF Lifetime(e) > Margin THEN fetched + 1 ELSE fetched
    BY <1>5 DEF Receive, NewToken
  <2>2. Lifetime(e) \in Nat /\ now \in Nat /\ sent[c] \in Nat /\ fetched \in Nat
    BY LifetimeType
  <2>3. made \in Nat
    BY <2>2, MadeBetween
  <2>4. now + Lifetime(e) \in Nat /\ made + Lifetime(e) \in Nat /\ fetched + 1 \in Nat
    BY <2>2, <2>3, SumType
  <2>5. cached' \in Tokens
    BY <2>1, <2>2, <2>4, NewTokenType
  <2>6. fetched' \in Nat
    BY <2>1, <2>2, <2>4
  <2>7. Result(FALSE, cached') \in Results
    BY <2>2, <2>5, ResultType
  <2> QED
    BY <1>5, <2>5, <2>6, <2>7 DEF Receive
<1>6. ASSUME NEW c \in Callers, FetchFails(c) PROVE TypeOK'
  BY <1>6 DEF FetchFails
<1>7. ASSUME NEW c \in Callers, Return(c) PROVE TypeOK'
  BY <1>7, NoTokenType DEF Return
<1>8. CASE Pass
  <2>1. now' \in Nat
    BY <1>8, SumType DEF Pass
  <2> QED
    BY <1>8, <2>1 DEF Pass
<1>9. CASE UNCHANGED vars
  BY <1>9 DEF vars
<1> QED
  BY <1>1, <1>2, <1>3, <1>4, <1>5, <1>6, <1>7, <1>8, <1>9 DEF Next, Step

\* The variables keep their types in every behaviour.
THEOREM TypeCorrect == Spec => []TypeOK
<1> QED
  BY TypeInit, TypeStep, PTL DEF Spec

-----------------------------------------------------------------------------
\* One more fetch in the count of Paced.
LEMMA OneMore ==
  ASSUME NEW n \in Nat, NEW d \in Nat
  PROVE  (n + 1) * d = n * d + d /\ (n + 1 - 1) * d = n * d /\ n * d \in Nat
         /\ (n - 1) * d \in Int /\ 0 * d = 0 /\ (0 - 1) * d <= 0
OBVIOUS

LEMMA SuccessorProduct ==
  ASSUME NEW n \in Nat, NEW m, NEW d \in Nat, m = n + 1
  PROVE  m * d = n * d + d /\ (m - 1) * d = n * d
OBVIOUS

LEMMA Later == \A x \in Int, n \in Nat : x <= n => x <= n + 1
OBVIOUS

\* An old token does not get younger.
LEMMA StaysOld ==
  ASSUME NEW until \in Nat, NEW n \in Nat, NEW m \in Nat, ~(until - n > m)
  PROVE  ~(until - (n + 1) > m)
OBVIOUS

LEMMA StillInTime ==
  ASSUME NEW x \in Nat, NEW n \in Nat, NEW t \in Nat, x <= n, n - x < t
  PROVE  x <= n + 1 /\ n + 1 - x <= t
OBVIOUS

\* A token expires no earlier than the timeout before the time counted for it.
LEMMA ExpiryClose ==
  ASSUME NEW x \in Nat, NEW n \in Nat, NEW t \in Nat, NEW made \in Nat, NEW life \in Nat,
         x <= made, n - x <= t
  PROVE  made + life >= (n + life) - t
OBVIOUS

LEMMA StillFresh ==
  ASSUME NEW u \in Nat, NEW a \in Nat, NEW m \in Nat, NEW x \in Nat, NEW t \in Nat,
         x >= u - t, u - a > m
  PROVE  x - a > m - t
OBVIOUS

LEMMA FieldTypes == 
  \A t \in Tokens : t.set \in BOOLEAN /\ t.until \in Nat /\ t.expiry \in Nat
BY DEF Tokens

\* The pace after one more fetch: product is fetched * d.
LEMMA PaceAfter ==
  ASSUME NEW product \in Nat, NEW d \in Nat, NEW n \in Nat, NEW life \in Nat, NEW m \in Nat,
         product <= n, life >= d + m
  PROVE  product + d <= (n + life) - m
OBVIOUS

LEMMA AlreadyOld ==
  ASSUME NEW product \in Int, NEW until \in Nat, NEW n \in Nat, NEW m \in Nat,
         ~(until - n > m), product <= until - m
  PROVE  product <= n
OBVIOUS

LEMMA InductiveInit == Init => IInv
<1> SUFFICES ASSUME Init PROVE IInv
  OBVIOUS
<1>1. Paced
  <2> SUFFICES ASSUME NEW s \in Nat, Shortest(s)
               PROVE  (fetched - 1) * (s - Margin) <= now /\ fetched * (s - Margin) <= now
    BY DEF Paced
  <2>1. s - Margin \in Nat
    BY TimesAssumption DEF Shortest
  <2> QED
    BY <2>1, OneMore DEF Init
<1> QED
  BY <1>1, TypeInit DEF Init, IInv, MutexHeld, FetchNeeded, FetchInTime, ExpiryKnown, NoToken,
                        ReturnedIsFresh

\* The steps that fetch nothing and let no time pass leave the pace alone.
LEMMA PaceKept ==
  ASSUME Paced, UNCHANGED <<now, cached, fetched>>
  PROVE  Paced'
BY DEF Paced, Shortest, Lifetime

LEMMA InductiveStep == IInv /\ [Next]_vars => IInv'
<1> SUFFICES ASSUME IInv, [Next]_vars
             PROVE  (MutexHeld /\ FetchNeeded /\ FetchInTime /\ ExpiryKnown /\ Paced)'
  BY TypeStep DEF IInv
<1> DEFINE Rest == MutexHeld /\ FetchNeeded /\ FetchInTime /\ ExpiryKnown
<1>0. /\ Rest /\ Paced /\ cached \in Tokens
      /\ pc \in [Callers -> {"idle", "lock", "look", "fetch", "set header", "failed"}]
      /\ sent \in [Callers -> Nat] /\ token \in [Callers -> Results]
  BY DEF IInv, TypeOK
<1>n. now \in Nat /\ fetched \in Nat /\ Margin \in Nat /\ Timeout \in Nat
  BY TimeType DEF IInv, TypeOK
<1>c. cached.until \in Nat
  BY <1>0, FieldTypes
<1> USE DEF MutexHeld, FetchNeeded, FetchInTime, ExpiryKnown, ReturnedIsFresh, Goto
<1>1. ASSUME NEW c \in Callers, Apply(c) \/ FetchFails(c) PROVE Rest' /\ Paced'
  <2>1. Rest'
    BY <1>0, <1>1 DEF Apply, FetchFails, Valid
  <2> QED
    BY <1>0, <1>1, <2>1, PaceKept DEF Apply, FetchFails
<1>2. ASSUME NEW c \in Callers, Lock(c) PROVE Rest' /\ Paced'
  <2>1. Rest'
    BY <1>0, <1>2, NoOneAssumption DEF Lock, Valid
  <2> QED
    BY <1>0, <1>2, <2>1, PaceKept DEF Lock
<1>3. ASSUME NEW c \in Callers, Look(c) PROVE Rest' /\ Paced'
  <2>1. /\ pc' = [pc EXCEPT ![c] = "set header"] /\ holder = c /\ Valid(cached)
        /\ token' = [token EXCEPT ![c] = Result(TRUE, cached)]
        /\ UNCHANGED <<now, cached, sent, fetched>>
    BY <1>0, <1>3 DEF Look
  <2>2. Result(TRUE, cached).expiry - Result(TRUE, cached).at > Margin - Timeout
    <3>1. cached.expiry \in Nat /\ cached.expiry >= cached.until - Timeout
      BY <1>0, <2>1, FieldTypes DEF Valid
    <3>2. cached.until - now > Margin
      BY <2>1 DEF Valid
    <3>3. cached.expiry - now > Margin - Timeout
      BY <1>n, <1>c, <3>1, <3>2, StillFresh
    <3> QED
      BY <3>3 DEF Result
  <2>3. (MutexHeld /\ FetchNeeded /\ FetchInTime)'
    BY <1>0, <2>1 DEF Valid
  <2>4. ASSUME NEW k \in Callers, pc'[k] = "set header", token'[k].kept
        PROVE  token'[k].expiry - token'[k].at > Margin - Timeout
    <3>1. CASE k = c
      BY <1>0, <2>1, <2>2, <3>1
    <3>2. CASE k # c
      BY <1>0, <2>1, <2>4, <3>2
    <3> QED
      BY <3>1, <3>2
  <2>5. ExpiryKnown'
    BY <1>0, <2>1, <2>4
  <2> QED
    BY <1>0, <2>1, <2>3, <2>5, PaceKept
<1>4. ASSUME NEW c \in Callers, Fetch(c) PROVE Rest' /\ Paced'
  <2>1. /\ pc' = [pc EXCEPT ![c] = "fetch"] /\ holder = c /\ ~Valid(cached)
        /\ sent' = [sent EXCEPT ![c] = now] /\ UNCHANGED <<now, holder, cached, token, fetched>>
    BY <1>0, <1>4 DEF Fetch
  <2>2. MutexHeld' /\ FetchNeeded' /\ ExpiryKnown'
    BY <1>0, <2>1 DEF Valid
  <2>3. now <= now /\ now - now <= Timeout
    BY <1>n
  <2>4. FetchInTime'
    BY <1>0, <2>1, <2>3
  <2> QED
    BY <1>0, <2>1, <2>2, <2>4, PaceKept
<1>5. ASSUME NEW c \in Callers, Receive(c) PROVE Rest' /\ Paced'
  <2>1. PICK e \in Lifetimes, made \in sent[c] .. now :
          /\ cached' = NewToken(now + Lifetime(e), made + Lifetime(e))
          /\ fetched' = IF Lifetime(e) > Margin THEN fetched + 1 ELSE fetched
    BY <1>5 DEF Receive, NewToken
  <2>2. /\ pc[c] = "fetch" /\ now' = now /\ sent' = sent
        /\ pc' = [pc EXCEPT ![c] = "set header"] /\ token' = [token EXCEPT ![c] = Result(FALSE, cached')]
    BY <1>5 DEF Receive
  <2>3. holder = c /\ ~Valid(cached) /\ now - sent[c] <= Timeout
    BY <1>0, <2>2
  <2>4. Lifetime(e) \in Nat /\ sent[c] \in Nat
    BY <1>0, LifetimeType
  <2>5. made \in Nat /\ sent[c] <= made
    BY <1>n, <2>4, MadeBetween
  <2>6. now + Lifetime(e) \in Nat /\ made + Lifetime(e) \in Nat
    BY <1>n, <2>4, <2>5, SumType
  <2>7. cached'.set /\ cached'.until = now + Lifetime(e) /\ cached'.expiry = made + Lifetime(e)
    BY <1>n, <2>1, <2>6, NewTokenType
  <2>8. cached'.expiry >= cached'.until - Timeout
    BY <1>n, <2>3, <2>4, <2>5, <2>7, ExpiryClose
  <2>9. \A k \in Callers : pc'[k] \notin {"look", "fetch"}
    BY <1>0, <2>2, <2>3
  <2>10. ASSUME NEW k \in Callers, pc'[k] = "set header", token'[k].kept
         PROVE  token'[k].expiry - token'[k].at > Margin - Timeout
    <3>1. CASE k = c
      BY <1>0, <2>2, <2>10, <3>1 DEF Result
    <3>2. CASE k # c
      BY <1>0, <2>2, <2>10, <3>2
    <3> QED
      BY <3>1, <3>2
  <2>11. Rest'
    BY <2>8, <2>9, <2>10
  <2>12. Paced'
    <3> SUFFICES ASSUME NEW s \in Nat, Shortest(s)
                 PROVE  /\ (fetched' - 1) * (s - Margin) <= now
                        /\ \/ fetched' * (s - Margin) <= now
                           \/ fetched' * (s - Margin) <= cached'.until - Margin
      BY <2>2, <2>7 DEF Paced, Shortest, Lifetime
    <3> DEFINE d == s - Margin
    <3>1. d \in Nat
      BY <1>n DEF Shortest
    <3>2. /\ fetched * d \in Nat /\ (fetched + 1) * d = fetched * d + d
          /\ (fetched + 1 - 1) * d = fetched * d /\ (fetched - 1) * d \in Int
      BY <1>n, <3>1, OneMore
    <3>3. /\ (fetched - 1) * d <= now
          /\ fetched * d <= now \/ fetched * d <= cached.until - Margin
      BY <1>0 DEF Paced
    <3>4. ~(cached.until - now > Margin) \/ ~cached.set
      BY <2>3 DEF Valid
    <3>5. fetched * d <= now
      <4> HIDE DEF d
      <4>1. CASE fetched * d <= now
        BY <4>1
      <4>2. CASE cached.set /\ fetched * d <= cached.until - Margin
        BY <1>n, <1>c, <3>2, <3>4, <4>2, AlreadyOld
      <4>3. fetched * d <= now \/ (cached.set /\ fetched * d <= cached.until - Margin)
        BY <1>0 DEF Paced, d
      <4> QED
        BY <4>1, <4>2, <4>3
    <3>6. CASE Lifetime(e) > Margin
      <4>1. fetched' = fetched + 1 /\ Lifetime(e) >= s
        BY <2>1, <3>6 DEF Shortest
      <4>2. Lifetime(e) >= d + Margin
        BY <1>n, <4>1
      <4> HIDE DEF d
      <4>3. fetched' * d = fetched * d + d /\ (fetched' - 1) * d = fetched * d
        BY <1>n, <3>1, <4>1, SuccessorProduct
      <4>4. fetched * d + d <= (now + Lifetime(e)) - Margin
        BY <1>n, <2>4, <3>1, <3>2, <3>5, <4>2, PaceAfter
      <4>5. fetched' * d <= cached'.until - Margin
        BY <2>7, <4>3, <4>4
      <4> QED
        BY <3>5, <4>3, <4>5 DEF d
    <3>7. CASE ~(Lifetime(e) > Margin)
      BY <2>1, <3>3, <3>5, <3>7
    <3> QED
      BY <3>6, <3>7
  <2> QED
    BY <2>11, <2>12
<1>6. ASSUME NEW c \in Callers, Return(c) PROVE Rest' /\ Paced'
  <2>1. Rest'
    BY <1>0, <1>6 DEF Return, Valid
  <2> QED
    BY <1>0, <1>6, <2>1, PaceKept DEF Return
<1>7. CASE Pass
  <2>1. /\ now' = now + 1
        /\ UNCHANGED <<holder, cached, pc, sent, token, fetched>>
        /\ \A c \in Callers : pc[c] = "fetch" => now - sent[c] < Timeout
    BY <1>7 DEF Pass
  <2>2. MutexHeld' /\ ExpiryKnown'
    BY <1>0, <2>1
  <2>3. ASSUME NEW c \in Callers, pc'[c] = "fetch"
        PROVE  sent'[c] <= now' /\ now' - sent'[c] <= Timeout
    <3>1. pc[c] = "fetch" /\ sent'[c] = sent[c] /\ sent[c] \in Nat
      BY <1>0, <2>1, <2>3
    <3>2. sent[c] <= now /\ now - sent[c] < Timeout
      BY <1>0, <2>1, <3>1
    <3> QED
      BY <1>n, <2>1, <3>1, <3>2, StillInTime
  <2>4. ASSUME NEW c \in Callers, pc'[c] = "fetch" PROVE ~Valid(cached)'
    <3>1. ~cached.set \/ ~(cached.until - now > Margin)
      BY <1>0, <2>1, <2>4 DEF Valid
    <3>2. ~cached.set \/ ~(cached.until - (now + 1) > Margin)
      BY <1>n, <1>c, <3>1, StaysOld
    <3> QED
      BY <2>1, <3>2 DEF Valid
  <2>5. Rest'
    BY <2>2, <2>3, <2>4
  <2>6. Paced'
    <3> SUFFICES ASSUME NEW s \in Nat, Shortest(s)
                 PROVE  /\ (fetched - 1) * (s - Margin) <= now + 1
                        /\ \/ fetched * (s - Margin) <= now + 1
                           \/ cached.set /\ fetched * (s - Margin) <= cached.until - Margin
      BY <2>1 DEF Paced, Shortest, Lifetime
    <3> DEFINE d == s - Margin
    <3>1. d \in Nat
      BY <1>n DEF Shortest
    <3> HIDE DEF d
    <3>2. fetched * d \in Int /\ (fetched - 1) * d \in Int
      BY <1>n, <3>1, OneMore
    <3>3. /\ (fetched - 1) * d <= now
          /\ \/ fetched * d <= now
             \/ cached.set /\ fetched * d <= cached.until - Margin
      BY <1>0 DEF Paced, d
    <3>4. /\ (fetched - 1) * d <= now + 1
          /\ \/ fetched * d <= now + 1
             \/ cached.set /\ fetched * d <= cached.until - Margin
      BY <1>n, <3>2, <3>3, Later
    <3> QED
      BY <3>4 DEF d
  <2> QED
    BY <2>5, <2>6
<1>8. CASE UNCHANGED vars
  <2>1. Rest'
    BY <1>0, <1>8 DEF vars, Valid
  <2> QED
    BY <1>0, <1>8, <2>1, PaceKept DEF vars
<1> QED
  BY <1>1, <1>2, <1>3, <1>4, <1>5, <1>6, <1>7, <1>8 DEF Next, Step

LEMMA Inductive == Spec => []IInv
<1> QED
  BY InductiveInit, InductiveStep, PTL DEF Spec

\* A token returned from the cache is good for the margin less the timeout.
THEOREM TokensAreFresh == Spec => []ReturnedIsFresh
<1>1. IInv => ReturnedIsFresh
  BY DEF IInv, ExpiryKnown
<1> QED
  BY <1>1, Inductive, PTL

\* Waiting callers share the token that one of them fetches: there is at most
\* one fetch in a lifetime.
THEOREM TokensAreShared == Spec => []OncePerLifetime
<1>1. IInv => OncePerLifetime
  <2> SUFFICES ASSUME IInv, NEW s \in {Lifetime(e) : e \in Lifetimes}, s > Margin,
                      \A e \in Lifetimes : Lifetime(e) > Margin => Lifetime(e) >= s
               PROVE  (fetched - 1) * (s - Margin) <= now
    BY DEF OncePerLifetime
  <2>1. s \in Nat
    BY LifetimeType
  <2> QED
    BY <2>1 DEF IInv, Paced, Shortest
<1> QED
  BY <1>1, Inductive, PTL

=============================================================================
