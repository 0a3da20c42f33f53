------------------------------ MODULE StatsStore ------------------------------
(***************************************************************************)
(* The call statistics of the JSON store (store/jsonstore.go) from start   *)
(* to shutdown of the process (cmd/serve.go).                              *)
(*                                                                         *)
(* Handlers of tool calls count into a cache under statsMu.  One goroutine *)
(* copies the cache under the mutex, clears the dirty flag and then writes *)
(* the copy without the mutex; it does so on a ticker and once more when   *)
(* the store is closed.  On SIGTERM the main goroutine lets the HTTP       *)
(* server drain for 30 seconds at most and closes the store.               *)
(*                                                                         *)
(* The file changes in one step: only this goroutine saves it, which is    *)
(* the case in which AtomicFile implements FileRegister.  Latencies are    *)
(* added up like the counts and are left out.                              *)
(***************************************************************************)
EXTENDS Naturals

CONSTANTS
  Handlers,     \* goroutines that serve tools/call
  Ops,          \* operation identifiers
  MaxCalls,     \* bound on the number of tool calls
  MaxFailures,  \* bound on the number of failing writes of the file
  MaxKills,     \* bound on the number of kills
  MaxStreams    \* bound on the number of SSE connections at a time

ASSUME BoundsAssumption ==
  MaxCalls \in Nat /\ MaxFailures \in Nat /\ MaxKills \in Nat /\ MaxStreams \in Nat

VARIABLES
  cache,      \* statsCache; an operation without an entry has zero counts
  dirty,      \* statsDirty
  disk,       \* what tool_stats.json holds; zero counts for no file
  copy,       \* the copyMap that flushStats is writing
  flusher,    \* flushLoop: "waiting", "writing", "last write" or "done"
  main,       \* main goroutine: "serving", "draining", "closing" or "exited"
  running,    \* the handlers with a tool call under way
  streams,    \* the number of open SSE connections
  calls,      \* number of tool calls so far
  failures,   \* number of failed writes so far
  kills,      \* number of kills so far
  lost,       \* the last write failed (history)
  unloaded,   \* the process was started without the file's counts, and has not
              \* written the file yet (history)
  drained     \* the server was drained before the deadline (history)

bounded == <<calls, failures, kills>>
statsVars == <<cache, dirty, disk, copy, flusher, main, running, streams, calls,
              failures, kills, lost, unloaded, drained>>

-----------------------------------------------------------------------------
Counts == [calls : Nat, errors : Nat]
Zero == [calls |-> 0, errors |-> 0]
NoCounts == [o \in Ops |-> Zero]

AtMost(c, d) == \A o \in Ops : c[o].calls <= d[o].calls /\ c[o].errors <= d[o].errors

Counted(c, o, isError) ==
  [c EXCEPT ![o] = [calls |-> @.calls + 1, errors |-> @.errors + (IF isError THEN 1 ELSE 0)]]

StatsInit ==
  /\ cache = NoCounts
  /\ dirty = FALSE
  /\ disk = NoCounts
  /\ copy = NoCounts
  /\ flusher = "waiting"
  /\ main = "serving"
  /\ running = {}
  /\ streams = 0
  /\ calls = 0
  /\ failures = 0
  /\ kills = 0
  /\ lost = FALSE
  /\ unloaded = FALSE
  /\ drained = FALSE

-----------------------------------------------------------------------------
(* Requests. *)

StartCall(h) ==
  /\ main = "serving"
  /\ h \notin running
  /\ calls < MaxCalls
  /\ calls' = calls + 1
  /\ running' = running \cup {h}
  /\ UNCHANGED <<cache, dirty, disk, copy, flusher, main, streams, failures, kills,
                 lost,
                 unloaded, drained>>

\* Mutant of IncrementStats: the cache is not marked as dirty.
IncrementStatsClean(h) ==
  /\ main # "exited"
  /\ h \in running
  /\ \E o \in Ops, isError \in BOOLEAN : cache' = Counted(cache, o, isError)
  /\ running' = running \ {h}
  /\ UNCHANGED <<dirty, disk, copy, flusher, main, streams, bounded, lost,
                 unloaded, drained>>

\* IncrementStats, called once by every path of a tool call that found its tool.
IncrementStats(h) ==
  /\ main # "exited"
  /\ h \in running
  /\ \E o \in Ops, isError \in BOOLEAN : cache' = Counted(cache, o, isError)
  /\ dirty' = TRUE
  /\ running' = running \ {h}
  /\ UNCHANGED <<disk, copy, flusher, main, streams, bounded, lost, unloaded,
                 drained>>

Connect ==
  /\ main = "serving"
  /\ streams < MaxStreams
  /\ streams' = streams + 1
  /\ UNCHANGED <<cache, dirty, disk, copy, flusher, main, running, bounded, lost,
                 unloaded, drained>>

\* HandleSSE returns only when its client disconnects.
Disconnect ==
  /\ main # "exited"
  /\ streams > 0
  /\ streams' = streams - 1
  /\ UNCHANGED <<cache, dirty, disk, copy, flusher, main, running, bounded, lost,
                 unloaded, drained>>

-----------------------------------------------------------------------------
(* flushLoop. *)

\* Mutant of Copy: only what was counted since the last flush is copied.
CopyChanged(next) ==
  /\ dirty
  /\ copy' = [o \in Ops |-> IF cache[o] = disk[o] THEN Zero ELSE cache[o]]
  /\ dirty' = FALSE
  /\ flusher' = next
  /\ UNCHANGED <<cache, disk, main, running, streams, bounded, lost, unloaded,
                 drained>>

\* The critical section of flushStats.
Copy(next) ==
  /\ dirty
  /\ copy' = cache
  /\ dirty' = FALSE
  /\ flusher' = next
  /\ UNCHANGED <<cache, disk, main, running, streams, bounded, lost, unloaded,
                 drained>>

\* The ticker fires; nothing happens unless the cache is dirty.
Tick == flusher = "waiting" /\ Copy("writing")

\* Mutant of Stop: the loop ends without the last flush.
StopAtOnce ==
  /\ flusher = "waiting"
  /\ main = "closing"
  /\ flusher' = "done"
  /\ UNCHANGED <<cache, dirty, disk, copy, main, running, streams, bounded, lost,
                 unloaded, drained>>

\* stopCh is closed: flush once more and return.
Stop ==
  /\ flusher = "waiting"
  /\ main = "closing"
  /\ \/ Copy("last write")
     \/ /\ ~dirty
        /\ flusher' = "done"
        /\ UNCHANGED <<cache, dirty, disk, copy, main, running, streams, bounded,
                       lost,
                       unloaded, drained>>

AfterWrite == flusher' = IF flusher = "writing" THEN "waiting" ELSE "done"

\* Mutant of WriteFile: the flag is cleared when the write is done.
WriteFileThenClean ==
  /\ flusher \in {"writing", "last write"}
  /\ disk' = copy
  /\ lost' = FALSE
  /\ unloaded' = FALSE
  /\ copy' = NoCounts
  /\ dirty' = FALSE
  /\ AfterWrite
  /\ UNCHANGED <<cache, main, running, streams, bounded, drained>>

\* writeJSONAtomic of the copy.
WriteFile ==
  /\ flusher \in {"writing", "last write"}
  /\ disk' = copy
  /\ lost' = FALSE
  /\ unloaded' = FALSE
  /\ copy' = NoCounts
  /\ AfterWrite
  /\ UNCHANGED <<cache, dirty, main, running, streams, bounded, drained>>

\* It fails: flushStats ignores the error, and the flag stays cleared.
WriteFileFails ==
  /\ flusher \in {"writing", "last write"}
  /\ failures < MaxFailures
  /\ failures' = failures + 1
  /\ lost' = TRUE
  /\ copy' = NoCounts
  /\ AfterWrite
  /\ UNCHANGED <<cache, dirty, disk, main, running, streams, calls, kills,
                 unloaded, drained>>

-----------------------------------------------------------------------------
(* The main goroutine. *)

Main(from, to) ==
  /\ main = from
  /\ main' = to
  /\ UNCHANGED <<cache, dirty, disk, copy, flusher, running, streams, bounded,
                 lost, unloaded>>

\* SIGINT or SIGTERM: server.Shutdown, no new requests.
Terminate == Main("serving", "draining") /\ UNCHANGED drained

\* Mutant of CloseStore: the shutdown has no deadline.
CloseStoreNoDeadline ==
  /\ running = {} /\ streams = 0
  /\ Main("draining", "closing")
  /\ drained' = TRUE

\* Shutdown returns, because nothing is active any more or because the 30
\* seconds are over; Close closes stopCh ...
CloseStore ==
  /\ Main("draining", "closing")
  /\ drained' = (running = {} /\ streams = 0)

\* ... and waits for doneCh; the process ends and cuts off what still runs.
Exit ==
  /\ flusher = "done"
  /\ Main("closing", "exited")
  /\ UNCHANGED drained

\* NewJSONStore loads the file.  When it cannot be read or decoded the cache
\* stays empty, and the file as it is until the next flush replaces it.
Start ==
  /\ main' = "serving"
  /\ \/ cache' = disk /\ unloaded' = FALSE
     \/ disk # NoCounts /\ cache' = NoCounts /\ unloaded' = TRUE
  /\ dirty' = FALSE
  /\ copy' = NoCounts
  /\ flusher' = "waiting"
  /\ running' = {}
  /\ streams' = 0
  /\ lost' = FALSE
  /\ drained' = FALSE
  /\ UNCHANGED <<disk, calls, failures>>

StartAgain == main = "exited" /\ Start /\ UNCHANGED kills

\* The process is killed at any point and started again.
KillAndStart ==
  /\ main # "exited"
  /\ kills < MaxKills
  /\ kills' = kills + 1
  /\ Start

FlusherStep == Tick \/ Stop \/ WriteFile \/ WriteFileFails
MainStep == CloseStore \/ Exit

StatsNext ==
  \/ \E h \in Handlers : StartCall(h) \/ IncrementStats(h)
  \/ Connect \/ Disconnect
  \/ FlusherStep
  \/ Terminate \/ MainStep
  \/ StartAgain \/ KillAndStart

StatsSpec == StatsInit /\ [][StatsNext]_statsVars
StatsFairSpec == StatsSpec /\ WF_statsVars(FlusherStep) /\ WF_statsVars(MainStep)

-----------------------------------------------------------------------------
StatsTypeOK ==
  /\ cache \in [Ops -> Counts]
  /\ dirty \in BOOLEAN
  /\ disk \in [Ops -> Counts]
  /\ copy \in [Ops -> Counts]
  /\ flusher \in {"waiting", "writing", "last write", "done"}
  /\ main \in {"serving", "draining", "closing", "exited"}
  /\ running \subseteq Handlers
  /\ streams \in 0 .. MaxStreams
  /\ calls \in 0 .. MaxCalls
  /\ failures \in 0 .. MaxFailures
  /\ kills \in 0 .. MaxKills
  /\ lost \in BOOLEAN
  /\ unloaded \in BOOLEAN
  /\ drained \in BOOLEAN

\* The file is the cache, or nothing was counted since a start that could not
\* load it.
Saved == disk = cache \/ (unloaded /\ cache = NoCounts)

\* Calls counted while the flusher writes its copy are not forgotten: when the
\* flag is clear and nothing is being written, the file is the cache, unless
\* the write failed.
CleanIsSaved == ~dirty /\ flusher \in {"waiting", "done"} /\ ~lost => Saved

\* The numbers in the file go down only when the process could not load it at
\* its start (store/jsonstore.go:43-47), and then in the first write only: never
\* from one write to the next, nor over a restart that loads the file.
SavedOnlyGrows == [][AtMost(disk, disk') \/ unloaded]_statsVars

\* A shutdown that drained the server before the deadline leaves every counted
\* call in the file, unless a write failed.
DrainedShutdownSaves == main = "exited" /\ drained /\ ~lost => Saved

\* While the process serves, each count reaches the file, unless the write
\* fails or the process is killed first.
CountsReachFile ==
  \A o \in Ops : \A n \in 1 .. MaxCalls :
    cache[o].calls >= n
      ~> disk[o].calls >= n \/ cache[o].calls < n \/ lost \/ main # "serving"

\* A shutdown, once begun, ends, whatever clients do.
ShutdownEnds == main = "draining" ~> main = "exited" \/ main = "serving"

=============================================================================
