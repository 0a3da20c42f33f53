# A TLA+ model of map-gateway

map-gateway turns OpenAPI specs into MCP tools: an administrator uploads a spec,
its operations become tools in a registry, and MCP clients list and call them over
HTTP or SSE; each call is translated into a request to the spec's upstream. The
program is one Go process that keeps everything in a directory of JSON files, and
a browser UI. Almost all of its difficulty lies in what its goroutines do at the
same time: SSE sessions, posted messages, admin requests with their rebuilds of
the registry, tool calls that share authenticators and tokens, the flusher of the
statistics, and shutdown; and in what its browser pages do with answers that come late.

This directory holds TLA+ modules of those parts, TLC configurations that check
them on small instances, and TLAPS proofs of their main invariants for every value
of the constants. `PROJECT.json` lists components, runs, the source lines of each
definition (`map`), a fault for every property (`mutants`), the hazards found in
the code and the findings.

    tlc -workers 2 -config MCSSE.cfg MCSSE     # a run
    tlapm SSEProofs.tla                        # a proof

Paths below are relative to `src/`.

## 1. Inventory

| Component | State | Operations | Talks to |
|---|---|---|---|
| Tool registry (`registry/registry.go`) | tool map, resource map, subscriber slice, one RWMutex | RebuildAll, RebuildResources, Get, List, Subscribe, Unsubscribe | rebuilt by the admin handlers; read by tools/call and tools/list; notifies SSE sessions through channels of capacity one |
| SSE transport (`mcp/sse.go`) | session map, per session a context, a channel of 64 responses and captured headers; session gauge | HandleSSE (one goroutine per connection), HandleMessage (one per POST) | MCP handlers; the registry's change feed |
| Spec administration (`admin/specs.go`, `admin/operations.go`) | none of its own | Create, Update, Delete, UpdateOperation, each ending in RebuildRegistryFromStore | file store, registry |
| JSON file store (`store/jsonstore.go`) | files `spec.json`, `operations.json`, `auth.json` per spec, resource files, `tool_stats.json` | Save/Get/List/Delete, writeJSONAtomic, readJSON | admin handlers, tool calls |
| Call statistics (`store/jsonstore.go`, `cmd/serve.go`) | cache and dirty flag under statsMu; the file | IncrementStats, flushLoop, flushStats, Close | tool calls; shutdown |
| MCP handlers (`mcp/handlers.go`) | authenticator cache under AuthMu; counters | tools/call, tools/list, resources/*, initialize, ping | registry, store, auth, proxy |
| OAuth2 (`auth/oauth2.go`) | one token per authenticator, under a mutex | Apply, getToken, fetchToken | token endpoint |
| Resources (`admin/resources.go`, `mcp/handlers.go`) | a record file and a content file per resource | Create, Update, Delete, resources/read | file store, registry |
| Credentials (`auth/auth.go`, `apikey.go`, `basic.go`, `bearer.go`, `encrypt.go`) | none | header capture, merge, ApplyChain, decrypt | tool calls |
| Upstream (`proxy/*.go`) | pool of clients | Build, Do, MapResponse | tool calls |
| OpenAPI (`spec/*.go`) | none | parse, extract operations and tool names | Create, rebuild |
| Sessions and login (`admin/session.go`, `admin/login.go`) | a signed cookie | login, logout, expiry | admin routes |
| Chat page (`ui/src/pages/Chat.tsx`) | conversations in localStorage and their copy on the page; messages shown | send (a loop of answers and tool calls), select, delete, rename, new chat | MCP client, admin API |
| MCP client (`ui/src/lib/mcp-client.ts`, `getMCPClient` in `Chat.tsx`) | the page's client; per client its EventSource, message URL and pending requests; one counter of ids | create, connect and reconnect, send a request, take an answer, time out, disconnect | SSE and HTTP transports |
| Page of a spec (`ui/src/pages/SpecDetail.tsx`) | a cached copy of the spec, the form of its settings, a row of switches under way | toggle, bulk toggle, edit, save | admin API; React Query's cache |
| Pages of specs and resources (`ui/src/pages/Specs.tsx`, `Resources.tsx`) | a cached list; a drawer with fields and files being read; the dialog of a deletion | type, pick, submit, delete | admin API; React Query's cache |
| Dashboard, statistics, frame (`ui/src/pages/Dashboard.tsx`, `Stats.tsx`, `components/Layout.tsx`) | polled numbers | none | admin API |
| Config, TLS, telemetry, build | read once, or counters | | |

What is hard in it:

* *Concurrency.* The notification loop of the registry reads the subscriber slice
  without the lock while Unsubscribe moves its elements in place. A posted message
  is handled by a goroutine that does not own the session it answers on. Rebuilds
  of different admin requests overlap. First calls of a spec race to build its
  authenticator. Calls are counted while the flusher writes.
* *Failure.* A request writes two or removes three files without a transaction,
  ignores some errors, and the process can be killed between any two of them.
* *Bounded resources and time.* A response channel of 64 with a 200 ms limit, a
  notification channel of one, a shutdown deadline of 30 s, tokens that expire.
* *Asynchronous UI.* A send of the chat page works for minutes on what it saw when it
  was called, while the user goes elsewhere. A page shows a copy that was fetched before,
  during or after its own changes; forms keep what they were filled with; files are read
  while the user types. The browser reconnects a broken EventSource to another session,
  and answers to the requests of the last one never come.
* *Progress.* Writes to SSE clients have no deadline; mutexes are held over network
  requests; sessions never end by themselves.

What makes each component correct, as far as it is not about data formats:

* registry: the slice holds exactly the subscribed sessions; a client that is
  behind a rebuild learns of it;
* SSE: no accepted response is lost while the client is there, every posted request
  whose body arrives is answered, teardown ends and breaks nobody;
* administration: answered requests are what the files say, through kills; the
  registry serves the stored, enabled operations once a rebuild could read them by itself;
* store: readers find whole values, the last one saved;
* statistics: no counted call is lost between flushes and at shutdown, and numbers
  on disk never go down while the file can be loaded;
* tool calls: one authenticator per spec, credentials are not left out, each call
  is counted once and answered;
* resources: content on disk is whole when it is read and belongs to a record;
* chat: answers are stored where they were asked for, and no save forgets;
* MCP client: a request is settled by its own answer or given up in time; the page uses
  one connection, made for what the user has chosen;
* pages: what a page shows has its own changes; switches arrive as they were asked for;
  a save reverts nothing that changed before its form was filled; a file read later does
  not overwrite what the user typed;
* OAuth2: tokens are fresh when used, shared by concurrent calls, and the mutex is
  never left locked.

## 2. Modules

| Module | Models | State in the code |
|---|---|---|
| `Registry` | change feed of the registry and HandleSSE's subscription | `version` is the tool map, numbered by rebuild; `subscribers`, `heap` are Go slices: headers over shared arrays; `mu` the lock, held over several steps only by Unsubscribe; `notifying` the loops of notifySubscribers; `token` the one-place channels; `telling` what HandleSSE's loop is writing |
| `SSESession` | HandleSSE and HandleMessage | `registered` = `SSEServer.sessions`; `reqDone`, `ctxDone` the two contexts; `outCh`, `closed` the channel; `phase` and `at` the two kinds of goroutines |
| `SpecAdmin` | the four changing spec requests and the rebuild | `specFile`, `opsFile`, `authFile`; `registry`; per request the values it has read (`newRec`, `newOps`, `read`, `built`) |
| `Resources` | the resource requests, their rebuild, and reading of content | `record`, `content` the two files; `served` the registry's list; per request its place, what it saves (`newRec`) and what its rebuild has `read`; `reading` per reader |
| `AtomicFile` | writeJSONAtomic on one path | inodes, the two names, per writer its open file |
| `FileRegister` | abstract: what a file promises its readers | the value |
| `StatsStore` | statistics from start to shutdown | `cache`, `dirty`, `disk`, `copy`; the flusher's and the main goroutine's place |
| `ToolCalls` | tools/call and getAuthenticator | `cache` = Authenticators; `readers`, `writer` = AuthMu; per call its step; `stats`, `metric` |
| `OAuth2Token` | Apply, getToken, fetchToken | `holder` the mutex, `cached` the token, `now` |
| `Chat` | the chat page and its storage | `store` = localStorage, newest first; `sessions`, `active`, `messages`, `loading` the page's state; `idRef` per instance of the page; per send its await, `base` (the messages it closed over) and `current` |
| `McpClient` | createMCPClient and the page's use of it | `ref` = mcpClientRef, `send` and `using` the page's send; per client `made`, `promise`, `es` the EventSource, `session` (with it messageUrl); `request` has id, phase and what is `due` from the server |
| `QueryCache` | a query of React Query, as the pages use it | `data` the cached copy, `fetching` and `answer` the fetch, `invalid`, `failed`; `at` numbers the server's changes |
| `SpecPage` | SpecDetail, with the server's part of its requests | `switches`, `settings` the files; `row` handleBulkToggle and toggles under way; `editing`, `form`; `save`, `mine` the mutation |
| `ListPages` | Specs and Resources | `records` the server's; `drawer`, `tab`, `field`, `reading` = FileReaders under way; `add`, `del` the mutations; `closing` the timers; `dialog` |
| `WebUI` | the pages in one browser | `page` |

`MCx` modules only add constants for TLC, but for `MCSSE`, which checks two views of
HandleSSE, `SSESession` and `Registry`, in one run (a behaviour is one of either; they share
no variables); `xProofs` modules hold theorems.

How they fit together. `Registry` and `SSESession` share the session: the first has the
part of HandleSSE between the endpoint event and Unsubscribe that talks to the registry,
the second everything else, with a registry notification reduced to a write
(`StartBeat`). `Registry` in turn reduces responses and heartbeats to a write that may not end
(`BeginTelling`). `SpecAdmin` ends each request in `Install`, which is `Registry`'s
`RebuildAll`; it then rebuilds the resources too, which is `ChangeSpec` of `Resources`.
RebuildResources takes the same steps as RebuildAll, notification included
(`registry/registry.go:81`), so `Registry` stands for both. Saves are single steps,
which is what `AtomicFile` implements as long as saves of one path do not overlap; for
the rest `SpecAdmin` has its own record of overlapping requests (`spoiled`). A record of
a resource is saved by its creator first and by updates, whose overlaps are `contested`.
`StatsStore` saves in one step for the same reason, and only its flusher writes that
file. `ToolCalls` counts where `StatsStore` has `IncrementStats`, and what succeeds or
fails in its `Build` step is, for OAuth2 specs, an `Apply` of `OAuth2Token`.

`SpecPage` and `ListPages` extend `QueryCache`, each page with a query of its own. The pages
have nothing in common, so a behaviour of `WebUI` is one of a single page; the switches and
the settings of a spec are two views of one page, where what the one changes is to the other
a change by others. `SpecPage` has the server's UpdateOperation in two steps, reading and
writing the file (`store/jsonstore.go:166`), because that is what the page's order of
requests must protect against; `SpecAdmin` has the rest of it. `McpClient` and `Chat` are the
two halves of a send: the first the connection, the second the messages.

The properties are placed with the hazards: section 3 says which run checks which.
History variables, marked so in the modules, remember what no variable of the
program does (what was promised, what overlapped); no action of the program reads
them.

### Choices that a reader should know

* **Go's memory.** `append(subs[:i], subs[i+1:]...)` is a move of array elements that
  loops on the same array may observe half done, in any order; `Registry` has one
  step per store. Elements are read as whole values. `append` beyond the capacity
  doubles it.
* **select.** On entry all ready cases are candidates, a send to a closed channel
  among them; when none is, the goroutine parks and the first event decides. Which
  parked sender is served first is left open. net/http recovers a panic in a handler
  and cuts that request off (`aborted`).
* **Files.** Whether a write or a removal fails is left open. A directory entry that
  is listed may be gone when it is read. In a rebuild, and when the statistics are loaded,
  a listing or a read may fail too (`ReadsFail`, `ListFails`, `Start`): the program then goes
  on without an error, with the old registry or with less than what is stored. Where a
  failing read is an error to the client, the request changes nothing but for what `Fail`
  leaves. A file is durable once renamed: loss of power is not modelled, kills of the process
  are.
* **Kills** hit between any two steps. Start-up reads the files before requests are
  served, as `cmd/serve.go` does.
* **Requests.** An admin may start any request at any time; the bulk switch of the UI
  is a sequence of single ones (`ui/src/pages/SpecDetail.tsx:182`). No handler saves
  `auth.json`, so the operator writes it (`PlaceAuth`, `EditAuth`).
* **The page.** Effects of a click run with it, as React does for discrete events. A
  chunk of a stream changes the display as its end does, so only the end is a step. A
  tab is one copy of the page at a time; two tabs would be two instances that share the
  storage, like an instance and a send that has outlived its own (`shared`). Writes of
  localStorage succeed.
* **React Query.** A fetch is asked for, answered by the server and received in three
  steps, so that others may change things in between. `invalidateQueries` gives up a fetch
  under way for a new one unless it is the first; `staleTime` and window focus are left
  open, so a page may fetch whenever it could. A fetch is tried again once (`ui/src/main.tsx`).
* **A request that fails** was not carried out, or carried out and its answer lost. One that
  the server carries out after the page gave it up is not modelled.
* **Fields.** Of the settings of a spec there are a name and a URL, of the drawer a name and
  a source. The others are treated as one of them is.
* **Upstream and token endpoint** answer, fail or time out as they like; times are
  not modelled except in `OAuth2Token`.

## 3. Runs

Passing runs.

| Run | Instance | Checks | States |
|---|---|---|---|
| `registry` | 3 sessions, 1 rebuilding goroutine, 2 rebuilds, symmetric | `SubscribersExact`: the slice is exactly the subscribed sessions whenever the lock is free. `BehindIsUnderWay`: who is behind has news under way, unless an Unsubscribe moved its channel under a running loop | 6.0 M |
| `sse` | 2 sessions, 2 requests, channel of 1; for the feed 2 sessions, 2 rebuilding goroutines | `RegisteredIsOpen`, `ParkedNeverAborted`: the order of the deferred calls; `AcceptedIsKept`; `RequestsAnswered`, `SessionsEnd`; `CatchesUp`: a client that reads its stream and is behind a rebuild catches up (of the two, one need not read) | 238 k |
| `specadmin` | 2 admins, 3 requests, 2 specs, 2 operations, 1 kill, reads that fail, symmetric | `PromisesKept`, `RegistryFollowsStore`, `OwnWriteInstalled` | 2.2 M |
| `resources` | 2 admins, 4 requests, 2 resources, 1 reader, 1 kill, symmetric | `ReadsFindContent`, `ContentHasOwner`: what failures, kills and removals leave; `AnswersHold`; `OwnChangeInstalled` | 2.9 M |
| `atomicfile` | 2 writers, a short and a long value, 4 inodes, symmetric | `IsRegister` (refinement of `FileRegister`, which holds what was saved last) | 71 k |
| `stats` | 2 handlers, 2 operations, 3 calls, 1 failing write, 1 kill, 1 SSE connection | `CleanIsSaved`, `DrainedShutdownSaves`, `SavedOnlyGrows`, `CountsReachFile`, `ShutdownEnds` | 50 k |
| `toolcalls` | 3 callers, 1 spec, a good and a malformed auth file, 3 calls, 1 change | `OneAuthenticator`, `BareOnlyWithoutFile`, `CountedOnce`, `CallsAnswered` | 21 k |
| `oauth2` | 2 callers, margin 3, timeout 1, lifetimes 2, 5 and the default 6, 6 ticks | `ReturnedIsFresh`, `OncePerLifetime`, `ApplyReturns` | 57 k |
| `chat` | 3 sends with a tool call each, 3 conversations of which 2 are kept, 2 instances of the page, symmetric | `AnswersStayHome`: a send stores in the conversation in which it was begun; `KeepsEarlier`: no save forgets | 2.6 M |
| `webui` | a page of a spec with 2 operations, 2 values, 2 changes, opened twice; lists with 2 files, 2 requests, 2 edits; 2 MCP clients with 2 sessions, 3 requests, both transports | `ShowsOwnChanges`, `BulkReaches`, `SaveKeepsOthers`, `NameIsUsers`; `OwnAnswer`, `InUse`, `RequestsSettle` | 1.1 M |

`registry`, `specadmin` and `chat` also check the module's type
invariant; those of all modules are proved. Where a property makes an
exception for what a history variable holds (`disturbed`, `spoiled`, `unsure`, `lapsed`,
`overlapped`, `lost`, `unloaded`, `contested`, `doomed`, `leaked`, `missed`, `mixed`, `strayed`,
`shared`, `alone`), the code does break the plain statement there, and TLC finds it when the
exception is taken out.

Why the bounds are enough. Three sessions are the fewest for which a shift by one
makes a loop skip a channel that it should visit; two rebuilds let a second
notification meet a full channel and `append` reuse and outgrow an array. A channel
of one slot and two requests fill it, park a sender and hand a slot over; the proofs
cover any capacity. Two admins on two specs overlap in every pair of steps; three
requests give create, change and removal of one spec, or a change of another during
them. Values of two lengths show both a short value over a long one and the
reverse; four inodes let a left-over temporary file be reused, renamed and made
again. Three calls let one be counted during a write, after a failed one and after
a kill. Four requests create, change and remove a resource, with another one before,
between or after; one reader is enough, since readers change nothing and do not meet.
Three sends fill two conversations and return to the first, or push one out of the
storage. Three callers are needed for a reader, a writer and one that waits. The
lifetimes lie under, over and well over the margin, and six ticks see a token
expire. Two changes of a spec meet each other and a fetch between them, also when the page
is closed and opened again; a row of two switches has a middle. Two files can be read in
either order around a typed name. Two clients and two sessions of each are one that is
replaced, or that reconnects; three requests give two that are pending at once next to the
initialize of a session. The proofs cover any number.

Violation runs, one per disagreement between the code and what is said of it.

| Run | Property | What happens |
|---|---|---|
| `sse_panic` | `NeverAborted` | "any goroutine blocked on HandleMessage ... is unblocked and can return" (`mcp/sse.go:59`). True of goroutines parked already (`ParkedNeverAborted`), but one still in Handle reaches its select after `close(outCh)` and may send on the closed channel. |
| `specadmin_delete` | `DeletedToolsGone` | "Delete spec → removes its tools from registry" (`PLAN.md:285`). A rebuild that read the spec before its removal installs last. |

Further disagreements met while modelling, for which there is no run:

* a session that unsubscribes during a notification loop moves the channels behind it
  down one slot, and the loop skips one (`registry/registry.go:66`, against `PLAN.md:188`,
  "sends ... to all connected SSE clients"): hence `disturbed` in the properties of
  `Registry`;
* two saves of one path share `path.tmp`, and one may rename what the other has just
  truncated (`store/jsonstore.go:96`, against `README.md:164`, "Files are written
  atomically"): hence `overlapped` in those of `AtomicFile`;
* in the chat page an exception erases the send's own messages from the stored
  conversation (`ui/src/pages/Chat.tsx:458`); message ids start again with each opening
  of the page, so that an answer overwrites an old message with its id (`:166`, `:416`);
  a conversation that the user turns to during a send is shown, and with the next send
  stored, with the other's messages (`:437`, `:448`);
* over SSE the page's MCP client resolves with the whole message where its callers look
  for the result, so that no tools reach the model (`ui/src/lib/mcp-client.ts:138`,
  against `PLAN.md:350`);
* a client that is still connecting when the transport is changed becomes the page's all the
  same (`ui/src/pages/Chat.tsx:205`, against `PLAN.md:349`); a connection is never closed
  when the page is left or its creation was rejected, and the page goes on with a client
  whose EventSource has closed, so that every request waits for its timeout: hence
  `strayed` in `InUse`, and a timer that runs whatever the connection does;
* a rebuild that cannot list the specs or the resources gives up and leaves what was served
  (`admin/specs.go:244`, `admin/resources.go:322`), and one that cannot read a spec's files or a
  resource's record goes on without it (`admin/specs.go:251`); the request is answered as done
  either way, and the registry is wrong until a later rebuild (against `PLAN.md:285`): hence
  `unsure` and `lapsed` in `SpecAdmin`, `missed` in `Resources`;
* a start that cannot read or decode the statistics begins with none and says nothing, and the
  next flush replaces the numbers in the file by smaller ones (`store/jsonstore.go:43-47`):
  hence `unloaded` in `SavedOnlyGrows`;
* the server limits neither the time a request's body may take nor that of a write to an SSE
  stream (`cmd/serve.go:149-152`, `mcp/sse.go:90-100`): a posted message whose body does not
  come is never answered, and a client that does not read is not told of a rebuild, nor does its
  session end, before it disconnects: hence "decoded" in `RequestsAnswered` and `Readers` in
  `CatchesUp`;
* a response is dropped when the channel stays full for 200 ms, and the request is answered 202
  all the same (`mcp/sse.go:145-149`; `improvement.MD:209` says so): such a request is
  `dropped` in `SSESession`, and `AcceptedIsKept` says nothing of it;
* a bulk switch that fails in the middle invalidates nothing, and the page goes on showing
  the switches of before (`ui/src/pages/SpecDetail.tsx:182-187`): hence `missed`; a switch
  asked for while another is under way may be undone by it (`store/jsonstore.go:166`):
  hence `alone`;
* a form opened right after a save is filled with the values of before, and saving it
  reverts them (`ui/src/pages/SpecDetail.tsx:32-40`): hence the copy's number in
  `SaveKeepsOthers`; the answer to a save closes whatever form is open by then (`:56`); a
  failing refetch takes the page away, and the open form with it (`:193`); saving the settings
  leaves the cached list of specs as it was;
* the two seconds after which the drawer is closed also close one that was opened again
  (`ui/src/pages/Specs.tsx:41`); a deletion that is done closes the dialog of another
  record (`:161`); a name typed while a file is read is overwritten (`:52`): hence the
  condition on `own`; a drawer opened again has the name of the upload before;
* "Avg Latency" sorts by the total (`ui/src/pages/Stats.tsx:84`); the frame shows the server
  as online after it has gone (`ui/src/components/Layout.tsx:38-39`);
* a rebuild between the endpoint event and Subscribe is announced to nobody
  (`mcp/sse.go:75`, against `PLAN.md:188`); `Registry` has the behaviour, its
  properties speak of rebuilds since the subscription;
* the select of HandleMessage may answer 202 for a session that has ended
  (`mcp/sse.go:139`, against `:142`); `AcceptedIsKept` is limited to connected clients;
* shutdown does not end SSE sessions, it waits for its deadline
  (`cmd/serve.go:225`, against `PLAN.md:583`): hence "drained" in `DrainedShutdownSaves`;
* a failed flush is forgotten until the next call (`store/jsonstore.go:79-83`, against
  `PLAN.md:150`): hence `lost` in the properties of `StatsStore`;
* `mcp_gateway_tool_calls_total` leaves out calls that fail before a response
  (`mcp/handlers.go:119-136`, against `telemetry/metrics.go:11`): `CountedOnce` has
  `<=` for the metric;
* an OAuth2 token is fetched even when the request carries its own Authorization
  (`auth/oauth2.go:56`, against `PLAN.md:217` and `:270`);
* two specs with the same operation identifier make one tool, and which spec serves it
  depends on the order of a rebuild (`registry/registry.go:27`); `passthrough_headers` are
  looked up as they are written but captured in canonical form (`auth/auth.go:51`); the
  mapper adds one to its byte limit (`proxy/mapper.go:19`); the registry is filled before the
  gauge of tools subscribes (`cmd/serve.go:78`);
* `improvement.MD` was written of an older state of the code. `:179` and `:320` say that
  getAuthenticator may build two authenticators; the present code looks again under the write
  lock, and `OneAuthenticator` is proved. `:125` says that concurrent callers may slip in
  between two locks of the OAuth2 token; the mutex is now held from the look to the answer
  (`auth/oauth2.go:67`), and `OncePerLifetime` and `ReturnedIsFresh` are proved. `:251` and
  `:321` say that counters are updated without a lock; `IncrementStats` holds statsMu. `:252`
  says that counts made before the first flush are dropped; they are added to what was loaded,
  and `CleanIsSaved` is proved. What `:69` and `:323` say of simultaneous rebuilds is true: it
  is the finding of `specadmin_delete`.

## 4. Fairness

Liveness is checked under weak fairness of each goroutine's own steps: the Go
scheduler runs what can run. Strong fairness is used where the code waits for
something that can come and go: `RLock`, `ClaimLock` and `Lock` (Go's mutexes hand
over to waiters), and `ReturnFromLoop` (HandleSSE's select picks at random among
ready cases, so a done context is not passed over for ever). Not assumed:

* that clients disconnect, post or list tools by themselves. A client that was told
  of a change asks for the tools (`CatchesUp`); that is what the message is for;
* that a client reads its stream: `FinishWrite` is fair only once it is gone, and in the feed
  `FinishTelling` only for the clients in `Readers`, of which alone `CatchesUp` speaks; nor that
  the body of a posted message arrives (`Decode`): `RequestsAnswered` begins with a decoded one;
* that writes of files succeed, or that the token endpoint answers: only that a
  request to it ends, since its client has a timeout. The upstream client has one
  too (`proxy/proxy.go:50`), so `Handle` and `SendFails \/ Respond` are fair;
* that the browser has a connection, or that a session is announced or answered on: only
  that its timers run out (`DelayOver`, `Timeout`) and its HTTP requests end (`HttpEnds`);
* that the process is terminated. Kills and restarts are bounded and never fair.

## 5. Proofs

Eight modules of proofs, for any sets of goroutines, clients and values and any bounds. Each
proves type correctness (`Spec => []TypeOK`), and:

* `SSEProofs`, of `SSESession`: `RegisteredStaysOpen`, `TeardownFreesParked`,
  `NoAcceptedResponseLost`. The invariant ties a session's place in HandleSSE to its
  entry in the map, its contexts and its channel; that a sender is parked only while
  neither context is done and the channel is open is what the second theorem needs;
  the third counts where an accepted response is: queued, in the loop's hands,
  delivered. Of `Registry`: `SubscribersAreExact`, `NewsIsUnderWay`. Both properties speak of
  what is the case between moves of the slice; the invariant `FeedInv` says, slot by slot,
  what the move under way will have left when it is over (`ListedOnce`), and that
  whoever is behind has a loop before it that will still find its channel, since the move is
  through with that slot or the loop runs on an older array (`NewsIsSafe`).
* `SpecAdminProofs`: `AnsweredIsStored`, `ServedIsStored`, `OwnRebuildIsCurrent`, and what is
  left of the property that `specadmin_delete` refutes: the tools of a deleted spec are gone
  once all requests are answered, unless the last rebuild was unsure of the spec or the Delete's
  own could not list the specs (`DeletedToolsAreGone`).
  `PromisesKept` speaks of specs at rest, so the invariant follows each undisturbed request
  through its handler: what it finds and has written at each step (`RequestsOnTheWay`), what
  its rebuild has read, of every spec that it is sure of (`SureIsUpToDate`), and that what is served is stored or about to be
  replaced (`ServedOrDue`).
* `StoreProofs`, of `AtomicFile`: `LastSaveIsRead`, and `FileIsRegister`, the refinement of
  `FileRegister`. While no saves have overlapped there is at most one writer, its
  inode is the one that the temporary name points to, and that is never the inode
  readers see. Of `StatsStore`: `CleanCacheIsSaved`, `ShutdownSavesCounts`, `SavedCountsGrow`.
  The file is at most the copy being written, the copy at most the cache, unless the file
  could not be loaded; a clean cache equals the copy while it is being written.
* `ToolCallsProofs`: `OneAuthenticatorPerSpec`, `CredentialsAreUsed`, `CallsCounted`. Who is past the
  write lock is the writer, and has seen the cache empty under it; so an
  authenticator is made only for a spec that has none, and nil is returned only to a
  caller for whom the file was absent or unusable when it was read. A call that found its
  tool is open on one spec until the step that counts it: counted and open calls together
  are the calls.
* `OAuth2TokenProofs`: `TokensAreFresh`, `TokensAreShared`. The one that looks or
  fetches holds the mutex, so a token found too old stays too old until the new one
  comes, within the timeout; the number of fetches is bounded by the time that the
  tokens before the last have used up.
* `ResourcesProofs`: `ContentFound`, `NoOrphans`. Nobody but its creator knows an
  identifier until its record is saved, and content is written before that; so a record
  is accompanied by its content wherever a copy of it is kept, until a removal puts it
  among the `doomed`. What a removal could not remove, and what a creation leaves, is
  `leaked` when the record goes. On that invariant rests another, `AInv`, for
  `AnswersAreKept` and `OwnChangesAreInstalled`: a resource at rest is what its last answer
  said, and each undisturbed request is followed to its answer as in `SpecAdminProofs`.
* `WebUIProofs`. The MCP client: `AnswersAreOwn`, `ConnectionInUse`. A number is below the
  counter once it is given out, so no two requests have the same one, and an answer settles
  only the request it is for. A client is made only when the page has none, and what drops
  the page's client closes it; so a connection that is neither the page's nor being made is
  one the page has lost sight of. The pages: `DetailShowsOwnChanges` and
  `ListShowsOwnChanges` from one invariant of `QueryCache`, `Fresh`: a copy on its way was
  made after the last change that the page has learnt of, and a query at rest has such a copy
  or will ask for one. `BulkIsDone`: a row that nothing has disturbed is the only one under
  way, so that the file is still what the server has read for it. `SavesKeepOthers`: whatever
  is younger than the last change of the settings, a copy, a form or a save on its way, agrees
  with them where the user has not edited. `NameStays`: while a name is the user's own, which is
  from when it was typed with no file being read, every file being read remembers a name. `WebInvariants` and `WebSavesKeepOthers` say the same of
  the UI as the run checks it: the page that is open keeps its invariant and the others are as
  they were at first.
* `ChatProofs`: `AnswersAreAtHome`, `KeepsWhatIsStored`. A message comes to the storage from
  what a send works on, there from what the page showed, there from the storage; `ChatInv`
  says of all of them that they belong to the conversation of the send or the session, unless
  the user has sent there with another's messages on the page (`mixed`); and that the one send
  of the open page shows its messages only where its conversation is, or one that the user has
  turned to since. Whatever a page shows meanwhile, only a later send of the user takes it over. A save stores what its send works on, so for the second theorem `KeepsInv` says that
  this holds all that is stored of the conversation, and so does the page at rest; and that
  only the message made ready for an answer is not complete, which a save leaves out. The
  filters of `chat-storage.ts` are written out in `Chat` (`Filtered`), because the prover has no
  theorems about `SelectSeq`.

With this every invariant and every action property that a passing run checks is a theorem.

The assumptions on constants are named in the modules: special values differ from ordinary
ones and from each other, callers and connections are finite in number, capacities and sizes
are positive, bounds are naturals. TLC evaluates them in every run.

Only model-checked: `CatchesUp`, `RequestsSettle` and every other liveness property, which is
out of the prover's reach, as is induction over data (where a proof needs the least element
of a set, `ChatProofs` takes it from the well-founded ordering of finite sets). No recursive
operators are used.

## 6. Not modelled

* Data: JSON, OpenAPI and schema conversion, headers, URLs, logging, HTML.
  They are translations without state. The ones with decisions worth checking are
  in the plan below.
* List and Get requests of the admin API, the statistics pages, the HTTP transport of
  MCP, initialize and ping: they read state that is modelled and change none.
* Configuration, certificates, the chat proxy, the embedded UI, encryption: read
  once, or calls of a library.
* The dashboard, the statistics page and the frame of the UI, which poll numbers and show
  them; the preview of a resource, the copy buttons, search and tags of a page (a filter is a
  choice of operations in `BulkToggle`).
* Metrics other than the counters that a property needs.

## 7. Plan

Done, in order of importance: `Registry`, `SSESession`, `SpecAdmin` with `AtomicFile`
and `FileRegister`, `StatsStore`, `ToolCalls`, `OAuth2Token`, `Resources`, `Chat`,
`McpClient`, `QueryCache` with `SpecPage` and `ListPages`, and proofs of all of them.

Next, models:

1. The path of a call: `Credentials` (capture, merge, precedence of inbound over
   configured), `ToolNames` (extraction, enabled operations, names that two specs
   share), `RequestBuilder` and `ResponseMapper` (path templates, missing parameters,
   byte limits) as operators that are compared with reference definitions on all small
   inputs; then `CallPath`, which composes them with `ToolCalls` and `OAuth2Token` (a
   spec's `Build` step is an `Apply`), so that one run does what `toolcalls` and `oauth2`
   do now and asks what holds only of the whole: a call that brings its own
   Authorization needs no token.
2. `Chat` and `McpClient` composed: a send whose tool calls are the requests of a client.
3. `Lifecycle`: start, gauge subscription, login sessions, shutdown order.
4. An abstract `ToolCatalog` which `SpecAdmin` implements when requests do not overlap.

Next, proofs: that `SpecAdmin` implements `ToolCatalog`, and the lemmas about the operators of
the call path.
