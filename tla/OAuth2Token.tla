----------------------------- MODULE OAuth2Token -----------------------------
(***************************************************************************)
(* The OAuth2 authenticator of a spec (auth/oauth2.go): one cached token,  *)
(* shared by the concurrent tool calls of the spec.                        *)
(*                                                                         *)
(* getToken holds the mutex while it looks at the cached token and, unless *)
(* that has more than 30 seconds left, while it fetches a new one, for as  *)
(* long as the client's timeout allows.  Time is counted in steps of any   *)
(* length.  The token endpoint makes a token at some time between request  *)
(* and response and says how long it lives, or does not say.               *)
(***************************************************************************)
EXTENDS Integers, FiniteSets

CONSTANTS
  Callers,         \* the goroutines that apply the authenticator
  Margin,          \* a token with no more time left than this is replaced
  Timeout,         \* TimeoutSeconds of the token client
  Lifetimes,       \* the expires_in of responses; 0 for none
  DefaultExpiry,   \* DefaultExpirySeconds
  MaxTime,         \* bound on the time
  NoOne

ASSUME TimesAssumption == Margin \in Nat /\ Timeout \in Nat /\ MaxTime \in Nat
ASSUME LifetimesAssumption == \A e \in Lifetimes : e \in Nat
ASSUME DefaultAssumption == DefaultExpiry \in Nat \ {0}
ASSUME NoOneAssumption == NoOne \notin Callers

VARIABLES
  now,       \* the time
  holder,    \* the caller that holds the mutex
  cached,    \* the cached token: set or not, ExpiresAt, and when it really expires
  pc,        \* Callers -> the next step of Apply
  sent,      \* Callers -> when the request for a token was sent
  token,     \* Callers -> what getToken returned: a kept token or a new one, when it
             \* was returned and when it really expires (history)
  fetched    \* number of tokens fetched that live longer than Margin (history)

vars == <<now, holder, cached, pc, sent, token, fetched>>

-----------------------------------------------------------------------------
NoToken == [set |-> FALSE, until |-> 0, expiry |-> 0]
NoResult == [kept |-> FALSE, at |-> 0, expiry |-> 0]
Valid(t) == t.set /\ t.until - now > Margin
Result(isKept, t) == [kept |-> isKept, at |-> now, expiry |-> t.expiry]
Lifetime(expiresIn) == IF expiresIn = 0 THEN DefaultExpiry ELSE expiresIn

Init ==
  /\ now = 0
  /\ holder = NoOne
  /\ cached = NoToken
  /\ pc = [c \in Callers |-> "idle"]
  /\ sent = [c \in Callers |-> 0]
  /\ token = [c \in Callers |-> NoResult]
  /\ fetched = 0

Goto(c, from, to) == pc[c] = from /\ pc' = [pc EXCEPT ![c] = to]

\* ApplyChain calls Apply.
Apply(c) ==
  /\ Goto(c, "idle", "lock")
  /\ UNCHANGED <<now, holder, cached, sent, token, fetched>>

Lock(c) ==
  /\ Goto(c, "lock", "look")
  /\ holder = NoOne
  /\ holder' = c
  /\ UNCHANGED <<now, cached, sent, token, fetched>>

\* Mutant of Look: the token is used until it expires.
LookNoMargin(c) ==
  /\ pc[c] = "look"
  /\ cached.set /\ cached.until > now
  /\ pc' = [pc EXCEPT ![c] = "set header"]
  /\ token' = [token EXCEPT ![c] = Result(TRUE, cached)]
  /\ holder' = NoOne
  /\ UNCHANGED <<now, cached, sent, fetched>>

\* The cached token is still good for longer than the margin.
Look(c) ==
  /\ Goto(c, "look", "set header")
  /\ Valid(cached)
  /\ token' = [token EXCEPT ![c] = Result(TRUE, cached)]
  /\ holder' = NoOne
  /\ UNCHANGED <<now, cached, sent, fetched>>

\* Mutant of Fetch: the cached token is not looked at again under the mutex.
FetchAlways(c) ==
  /\ Goto(c, "look", "fetch")
  /\ sent' = [sent EXCEPT ![c] = now]
  /\ UNCHANGED <<now, holder, cached, token, fetched>>

\* It is not: ask for a new one, holding the mutex.
Fetch(c) ==
  /\ Goto(c, "look", "fetch")
  /\ ~Valid(cached)
  /\ sent' = [sent EXCEPT ![c] = now]
  /\ UNCHANGED <<now, holder, cached, token, fetched>>

\* The response: the token was made at some time since the request was sent,
\* and its life is counted from now.
Receive(c) ==
  /\ Goto(c, "fetch", "set header")
  /\ \E expiresIn \in Lifetimes, made \in sent[c] .. now :
       /\ cached' = [set |-> TRUE, until |-> now + Lifetime(expiresIn),
                     expiry |-> made + Lifetime(expiresIn)]
       /\ fetched' = IF Lifetime(expiresIn) > Margin THEN fetched + 1 ELSE fetched
  /\ token' = [token EXCEPT ![c] = Result(FALSE, cached')]
  /\ holder' = NoOne
  /\ UNCHANGED <<now, sent>>

\* Mutant of FetchFails: the mutex stays locked on the error path.
FetchFailsLocked(c) ==
  /\ Goto(c, "fetch", "failed")
  /\ UNCHANGED <<now, holder, cached, sent, token, fetched>>

\* The request fails or times out, or the response is not 200 or not JSON: the
\* cached token stays as it was, and the tool call fails.
FetchFails(c) ==
  /\ Goto(c, "fetch", "failed")
  /\ holder' = NoOne
  /\ UNCHANGED <<now, cached, sent, token, fetched>>

\* Apply sets the header, unless the request has it, or returns the error.
Return(c) ==
  /\ pc[c] \in {"set header", "failed"}
  /\ pc' = [pc EXCEPT ![c] = "idle"]
  /\ sent' = [sent EXCEPT ![c] = 0]
  /\ token' = [token EXCEPT ![c] = NoResult]
  /\ UNCHANGED <<now, holder, cached, fetched>>

\* Time passes, up to the timeout of the request for a token.
Pass ==
  /\ now < MaxTime
  /\ \A c \in Callers : pc[c] = "fetch" => now - sent[c] < Timeout
  /\ now' = now + 1
  /\ UNCHANGED <<holder, cached, pc, sent, token, fetched>>

Step(c) ==
  Lock(c) \/ Look(c) \/ Fetch(c) \/ Receive(c) \/ FetchFails(c) \/ Return(c)

Next ==
  \/ \E c \in Callers : Apply(c) \/ Step(c)
  \/ Pass

Spec == Init /\ [][Next]_vars

\* The mutex is granted to whoever waits for it, and the client has a timeout.
FairSpec ==
  /\ Spec
  /\ \A c \in Callers :
       /\ WF_vars(Look(c) \/ Fetch(c) \/ Receive(c) \/ FetchFails(c) \/ Return(c))
       /\ SF_vars(Lock(c))

-----------------------------------------------------------------------------
Tokens == [set : BOOLEAN, until : Nat, expiry : Nat]
Results == [kept : BOOLEAN, at : Nat, expiry : Nat]

TypeOK ==
  /\ now \in Nat
  /\ holder \in Callers \cup {NoOne}
  /\ cached \in Tokens
  /\ pc \in [Callers -> {"idle", "lock", "look", "fetch", "set header", "failed"}]
  /\ sent \in [Callers -> Nat]
  /\ token \in [Callers -> Results]
  /\ fetched \in Nat

\* A token that getToken returns from the cache is still accepted by the server,
\* with all of the margin left but the time the fetch took: the life of a token
\* is counted from its response, not from when it was made.
ReturnedIsFresh ==
  \A c \in Callers :
    pc[c] = "set header" /\ token[c].kept
      => token[c].expiry - token[c].at > Margin - Timeout

\* Callers that waited for the mutex during a fetch use the token it brought:
\* with lifetimes over the margin the endpoint is asked for a token only once
\* in a lifetime, however many calls are made.
OncePerLifetime ==
  \A shortest \in {Lifetime(e) : e \in Lifetimes} :
    /\ shortest > Margin
    /\ \A e \in Lifetimes : Lifetime(e) > Margin => Lifetime(e) >= shortest
    => (fetched - 1) * (shortest - Margin) <= now

\* Every Apply returns, whatever the token endpoint does.
ApplyReturns == \A c \in Callers : pc[c] = "lock" ~> pc[c] = "idle"

=============================================================================
