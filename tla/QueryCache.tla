------------------------------ MODULE QueryCache ------------------------------
(***************************************************************************)
(* QueryCache: one query of React Query as the pages of the administration *)
(* use it (ui/src/main.tsx, useQuery and invalidateQueries in ui/src/pages *)
(* Specs.tsx, SpecDetail.tsx and Resources.tsx).                           *)
(*                                                                         *)
(* What the server has changes with every request that succeeds; at counts *)
(* these changes.  A fetch takes a copy of it to the page, and the page    *)
(* shows its last copy.  After a change of its own a page invalidates the  *)
(* query: a fetch under way is given up for a new one, but not when it is  *)
(* the first (there is nothing to show yet), and not while the page is     *)
(* away.  The cache outlives the page.  Data may grow stale with time or   *)
(* not, so a page that is opened or gets the focus may fetch or not.       *)
(***************************************************************************)
EXTENDS Naturals

CONSTANTS
  NoData,     \* nothing fetched yet
  MaxMounts   \* bound on how often the page is opened

ASSUME MaxMountsAssumption == MaxMounts \in Nat \ {0}

VARIABLES
  at,        \* number of changes that the server has made
  mount,     \* number of the page's present or last instance
  mounted,   \* whether the page is open
  data,      \* what the cache has, a copy of the server's with its number .at
  fetching,  \* the fetch: "idle", "asked", or "answered" by the server
  answer,    \* the copy on its way
  invalid,   \* isInvalidated
  failed,    \* whether the last fetch failed, after its retry
  learned,   \* the last change that a page has learnt to be made (history)
  missed     \* it learnt of a change and has not asked the server since (history)

fetchVars == <<fetching, answer, missed>>
queryVars == <<at, mount, mounted, data, fetching, answer, invalid, failed, learned, missed>>

-----------------------------------------------------------------------------
\* A fetch is begun, in place of the one under way if there is one.
Ask == fetching' = "asked" /\ answer' = NoData /\ missed' = FALSE

\* The page is opened.
Open ==
  /\ ~mounted
  /\ mounted' = TRUE
  /\ mount' = mount + 1
  /\ \/ fetching = "idle" /\ Ask
     \/ (fetching # "idle" \/ (data # NoData /\ ~invalid)) /\ UNCHANGED fetchVars
  /\ UNCHANGED <<at, data, invalid, failed, learned>>

\* The user goes to another page, as often as there is a way back.
Close ==
  /\ mounted /\ mount < MaxMounts
  /\ mounted' = FALSE
  /\ UNCHANGED <<at, mount, data, fetchVars, invalid, failed, learned>>

\* The window gets the focus.
Refocus ==
  /\ mounted /\ fetching = "idle" /\ Ask
  /\ UNCHANGED <<at, mount, mounted, data, invalid, failed, learned>>

\* The server answers with what it has, content.
Answer(content) ==
  /\ fetching = "asked"
  /\ fetching' = "answered"
  /\ answer' = content
  /\ UNCHANGED <<at, mount, mounted, data, invalid, failed, learned, missed>>

Receive ==
  /\ fetching = "answered"
  /\ fetching' = "idle" /\ answer' = NoData
  /\ data' = answer
  /\ invalid' = FALSE /\ failed' = FALSE
  /\ UNCHANGED <<at, mount, mounted, learned, missed>>

\* A fetch fails and is tried again.
Retry ==
  /\ mounted /\ fetching = "answered" /\ Ask
  /\ UNCHANGED <<at, mount, mounted, data, invalid, failed, learned>>

\* It has failed twice.
GiveUp ==
  /\ fetching # "idle"
  /\ fetching' = "idle" /\ answer' = NoData
  /\ failed' = TRUE
  /\ UNCHANGED <<at, mount, mounted, data, invalid, learned, missed>>

-----------------------------------------------------------------------------
\* Mutant of Invalidate: a fetch under way is good enough.
InvalidateJoins ==
  /\ invalid' = TRUE
  /\ IF mounted /\ fetching = "idle" THEN Ask ELSE UNCHANGED fetchVars

\* invalidateQueries
Invalidate ==
  /\ invalid' = TRUE
  /\ IF mounted /\ (fetching = "idle" \/ data # NoData) THEN Ask
     ELSE /\ missed' = (missed \/ fetching = "answered")
          /\ UNCHANGED <<fetching, answer>>

\* The server changes what it has.
ServerChanges ==
  /\ at' = at + 1
  /\ UNCHANGED <<mount, mounted, data, fetchVars, invalid, failed, learned>>

\* The page is told that change n is made, and asks for it or not.
Learn(n) == learned' = (IF n > learned THEN n ELSE learned)

LearnAndAsk(n) == Learn(n) /\ Invalidate /\ UNCHANGED <<at, mount, mounted, data, failed>>

LearnOnly(n) ==
  /\ Learn(n) /\ missed' = TRUE
  /\ UNCHANGED <<at, mount, mounted, data, fetching, answer, invalid, failed>>

QueryInit ==
  /\ at = 0
  /\ mount = 1 /\ mounted = TRUE
  /\ data = NoData
  /\ fetching = "asked" /\ answer = NoData
  /\ invalid = FALSE /\ failed = FALSE
  /\ learned = 0 /\ missed = FALSE

-----------------------------------------------------------------------------
\* The type of the query, with copies from Copies.
QueryTypeOK(Copies) ==
  /\ at \in Nat /\ mount \in Nat /\ mounted \in BOOLEAN
  /\ data \in Copies \cup {NoData} /\ answer \in Copies \cup {NoData}
  /\ fetching \in {"idle", "asked", "answered"}
  /\ fetching = "answered" <=> answer # NoData
  /\ invalid \in BOOLEAN /\ failed \in BOOLEAN
  /\ learned \in 0 .. at /\ missed \in BOOLEAN

\* A page at rest shows every change that it has been told of, whatever fetches
\* were under way when it learnt of it, and also when it was closed and opened
\* meanwhile.  Not so after a fetch that failed, and not when nothing was asked
\* since: in the middle of a row of switches or after a failure in it, and when
\* the change was made during the first fetch or while the page was away.
ShowsOwnChanges ==
  mounted /\ fetching = "idle" /\ ~failed /\ ~missed => data # NoData /\ data.at >= learned

=============================================================================
