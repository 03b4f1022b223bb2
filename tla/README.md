# Watchup SDKs: a verification project

The Watchup SDKs capture errors, traces and events in an application and deliver them
to an ingest server. The repository holds one SDK per platform (browser, Node, React,
Next.js, React Native, Svelte, Python, Go, .NET) and a written contract
(`src/spec/README.md`) all of them follow. What must be right, and is hard to test, is
the delivery machinery: a bounded queue, a single drain loop, retries with backoff,
idempotency keys, shutdown, page unload and offline storage, each under concurrent
captures, lost answers and processes that die.

This directory models that machinery in TLA+, model-checks it with TLC on small
instances and proves its main invariants with TLAPS for every value of the constants.

## 1. Inventory

| Part | State | Operations | Talks to |
|---|---|---|---|
| Core delivery queue, `core/src/queue.ts` | pending items per kind, retry list, drain loop (`draining`, `rerun`, `forceNext`, its local list of chunks), overflow counters, retry timer, `paused`, `stopped` | `enqueue`, `flush`, `sendOne`, `scheduleRetry`, `pause`/`resume`, `start`/`stop`, `shutdown`, `takeAll`, `snapshot`/`restore` | clients call it; it calls `send` (transport), `onDiagnostic`, `onChange` |
| Chunker, `core/src/chunker.ts` | the open group of one call | `buildChunks`: greedy cut by bytes and count | queue |
| Item fitting and normalising, `core/src/truncate.ts`, `normalize.ts`, `utf8.ts`, `sql.ts` | none (pure) | truncation to a byte budget, redaction, depth and key limits | queue |
| Flags, `core/src/flags.ts` and the Python and Go ports | flag map, `fetchedAt` | `replace`, `isEnabled`, `getVariant`, expiry, periodic refresh | clients, the server |
| Browser client, `browser/src` | `closed`, the queue, chunks kept in `localStorage` | capture, `flush`, `shutdown`, unload (beacon, keepalive, `saveUnsent`), `resendUnsent` | core queue, the browser, the server |
| Browser auto capture and page views, `browser/src/history.ts`, `web-queue.ts` | the history patch and its listeners, console wrappers, error listeners, unsent views | subscribe, navigate, `drain`, `flushWeb` | browser client, other libraries |
| Web Vitals, `browser/src/perf.ts` | the values so far, which of them were reported | observers, `onFinalize`, the load event, cleanup | browser client, the page |
| Node client, lifecycle, `node/src/watchup.ts` | `closed`, listeners on `process` | `flush`, `shutdown`, SIGTERM/SIGINT/beforeExit and uncaught errors | core queue, the process |
| Node client, requests, `node/src/watchup.ts`, `context.ts` | default user, the scope of each request, errors reported before | middleware, error middleware, `setUser`, capture, traces; wrappers of Next.js and SvelteKit | core queue, frameworks |
| React Native client, `react-native/src` | `online`, `closed`, persisted snapshot | restore, persist on change, network changes, `shutdown` | core queue, AsyncStorage |
| React, Next.js bindings | shared clients with reference counts | `acquireClient`, `retainClient`, `releaseClient`, `register` | browser and node clients |
| Svelte binding, `svelte/src` | a handle per provider with its client and buffer, the active handle | `start`, `run`, `stop`, actions, the client hook | browser client |
| Python SDK, `python/watchup` | queue under a lock, worker thread, drain lock, flag store | capture, `flush`, `close`, fork handling, middleware | the server |
| Go SDK, `go` | queue under a mutex, worker goroutine | capture, `Flush`, `Close`, middleware | the server |
| .NET SDK, `dotnet/Watchup` | queue under a lock, hosted service | capture, `FlushAsync`, `StopAsync`, middleware | the server |
| Ingest server (external) | accepted idempotency keys | accept, reject, answer late or not at all | every transport |
| Mock ingest server, `tools/mock-ingest/server.mjs` | keys, accepted items, violations, a script of failures | `handleBatch` | the SDKs' tests |
| MCP server, `mcp/src/server.ts` | none; its configuration | tool calls as HTTP requests, pagination | an assistant, the API |
| `create-watchup` | the files of a project | detection, six installers, package installation | the developer, npm |
| Tools, e2e, fixtures | — | tools around the SDKs | — |

### What is hard

* **Interleaving.** JavaScript handlers interleave at every `await`; threads interleave
  anywhere their locks allow. A flush arrives while a drain runs; a timer fires while
  delivery is paused; `shutdown` checks the queue just after another flush emptied it.
* **Items in locals.** A drain holds chunks in local variables that no other operation
  sees (`takeAll`, `snapshot`, `restore`, `shutdown`).
* **Failure.** Answers are lost after the server accepted a batch; chunks are retried,
  dropped after `MAX_ATTEMPTS`, shed from a full queue; each loss must be reported once.
* **Crash and restart.** The React Native client and the browser keep chunks in storage
  that is written late, or not at all.
* **The end of a process.** Signals, uncaught errors, an empty event loop and the
  application itself each want to end a Node process, while a shutdown delivers.
* **Requests at once.** Context follows the code by `AsyncLocalStorage`, or is lost; an
  error passes several handlers; a response finishes, closes and fails in any order.
* **Before and after.** Calls arrive before there is a client, or when it is gone; a page is
  hidden before a value is final; an installer finds what an earlier run left.
* **Foreign wrappers.** Clients and other libraries wrap the same functions and unwrap
  them in another order.
* **Limits.** Queue size, chunk bytes, retry list, attempts, deadlines.

### What makes each part correct

* Queue: an item is in one place at a time and ends delivered or reported (section 3).
* Chunker: the requests hold every item once, in order, within the limits, and the running
  byte count is the size of the body.
* Flags: one flag and one user give one answer in every SDK; nothing older than the limit
  is served, and polls that do not overlap do not overtake each other.
* Node process: the SDK never ends it under its own delivery, and does not keep it alive.
* Requests: no item carries another request's user; one trace per request, one report per
  error.
* Clients: `shutdown` delivers or reports everything captured before it; captures after
  it are ignored; no client is shut down while somebody uses it.
* Storage: nothing stored is lost on a restart, and a resend keeps its idempotency key so
  that the server does not count an item twice.
* Vitals: each is reported once, and queued before the page it is about is sent.
* Svelte's handles: a call made before the client exists reaches it once, in order, with the
  user of then.
* Installer: however often it runs, nothing is there twice, no secret key is in a variable of
  client code, and what it calls complete is complete or told.
* Threaded SDKs: no deadlock between the queue lock, the drain lock and user callbacks;
  shutdown returns and accounts for what is left.

## 2. Modules

| Module | Models |
|---|---|
| `TelemetryDelivery` | what an SDK promises for every captured item: it settles once, in one way |
| `DeliveryQueue` | `core/src/queue.ts`, all of it, with `TelemetryDelivery` as its abstraction |
| `DeliveryQueueProofs` | its invariants and its refinement, proved for every value of the constants |
| `ClientRegistry`, `ClientRegistryProofs` | `react/src/registry.ts` with `react/src/WatchupProvider.tsx`, and proofs |
| `OfflineClient`, `OfflineClientProofs` | the React Native client over launches: queue, storage, network, server, and proofs |
| `BrowserClient`, `BrowserClientProofs` | the browser client over pages and tabs: queue, unload, `localStorage`, server, and proofs |
| `ThreadedQueue`, `ThreadedQueueProofs` | the queues of the Python, Go and .NET SDKs with their threads and shutdown, and proofs |
| `NodeProcess` | how a Node process with the SDK ends: `node/src/watchup.ts`, lifecycle |
| `NodeRequests`, `NodeRequestsProofs` | requests at once: `node/src/watchup.ts`, middleware and capture, with the Next.js and SvelteKit wrappers, and proofs |
| `Chunker`, `ChunkerProofs` | `core/src/truncate.ts` and `core/src/chunker.ts` with bytes, and proofs |
| `MockIngest` | `tools/mock-ingest/server.mjs`, fed by `Chunker`; proofs in `ChunkerProofs` |
| `AutoCapture` | wrappers around console, history and error handlers, error listeners, and page views, in a browser, React Native and Node |
| `WebVitals` | `browser/src/perf.ts` with the page and the client around it |
| `SvelteHandle` | `svelte/src/client.ts` with the provider, the active handle, actions and the client hook |
| `FlagCache` | decisions on flags in three languages, and the cache under refreshes |
| `McpServer` | `mcp/src/server.ts` |
| `Setup` | `create-watchup/src`: detection, the installers, a run that may stop anywhere |
| `PartsProofs` | proofs about `NodeProcess`, `FlagCache`, `Setup`, `AutoCapture`, `WebVitals` and `SvelteHandle` |
| `MC...` | small instances, and the part of `Next` a kind of client or application uses |
| `MCLifetimes` | `NodeProcess` or `ClientRegistry`, one at a time |
| `MCParts` | `Chunker` with `MockIngest`, `AutoCapture`, `FlagCache`, `WebVitals`, `SvelteHandle` or `Setup`, one at a time |
| `MCDocumented` | `OfflineClient`, `BrowserClient`, `NodeRequests`, `AutoCapture`, `FlagCache` and `Setup`, one after another, against sentences of the repository |

### How state and actions correspond to the code

**Granularity.** JavaScript runs one handler at a time, so an action
of every module but `ThreadedQueue` is everything a call or a callback does up to its
next `await`; the code after the `await` is an action of its own, and every other handler
may come between. In `ThreadedQueue` an action is a section under a lock, or what a thread
does between two of them.

**Time** is kept as what is left of each delay; `Tick` lets one unit pass, whenever it
likes: a timer may be late, as timers are.

**`DeliveryQueue`.** `pending`, `retry`, `overflow`, `rerun`, `forceNext`, `draining`,
`paused`, `stopped` are the fields of the class. `work` and `inFlight` are the locals of
`drain()`: the chunks of the round that wait behind the one being sent. `timer` is
`retryTimer` with the time it is set for. An item is its kind and its number; a chunk is
the set of its items, with its attempts and what is left of its backoff. `stamp` tells
which chunks were cut together. `Enqueue`, `Flush`, `Pause`, `Resume`, `Start`, `Stop`,
`Shutdown`, `TakeAll`, `Restore` are the public methods with all they call;
`RetryTimerFires` and `IntervalFires` the timer callbacks; `SendAccepted`,
`SendRejected`, `SendFailed` the three ends of an awaited send, each with the next send
that the loop starts in the same turn; `DrainContinues`, `ShutdownChecks` and
`ShutdownWakes` what follows the other awaits. Bytes are left out: they decide where a
chunk is cut and whether a capture asks for a flush, and both are left open, so every cut
the byte limit can cause is in the model.

**`ClientRegistry`.** `entries` is the map of the module, `refs` and `timer` the fields of
an entry, also of one that is no longer in the map (closures still hold it). A provider
renders (`acquireClient` in `useState`), is discarded or mounts (`retainClient`), remounts
(StrictMode) and unmounts (`releaseClient`).

**`OfflineClient`.** The queue is abstracted to pending, retry and one drain: a round cuts
one chunk, any part of the retries may be due. In exchange the model has what surrounds
it: `disk` and the storage calls that are queued in front of it (`writes`), the debounce
timer, launches and kills, the requests that were sent (`wire`: each may arrive now, later,
more than once or never) and the idempotency keys the server has accepted. The storage and the server
are external and modelled from how the code uses them: calls are executed in order, and may be
refused; a batch is ingested once per key, whenever the request arrives. `Loaded` is the end of
`restore()`: what was read joins the queue, or, after `Unreadable` (its `catch`: `getItem` failed or
found what is no snapshot), the stored snapshot is removed. `Kill` and `Shutdown` come in any
state. History variables say what the code cannot make good: `refused` (the storage did not take
its last call), `missed` (items an ended process had not stored, that could not be read, or that
the snapshot of a shutdown leaves out, `LeftOut`) and `recut` (the keys of chunks whose items a snapshot
left behind still calls pending: a snapshot's `upTo` says which chunks had been cut when it was taken).

**`BrowserClient`.** Each tab has a page that is gone, shown or hidden, with a client and its
queue, abstracted as in `OfflineClient`. `unsent` is the list in `localStorage` that all pages
share. `Hide` and `Leave` run `unload`: `takeAll` (`Taken`), then for each chunk a beacon, or
`saveUnsent` and a keepalive fetch; `FetchAnswered` is the `then` of that fetch. `Load` and `Show`
run `resendUnsent`. The browser is external: it takes or refuses a beacon as it likes, and may
discard a hidden page without telling it. The limit of the list is in chunks, and a write may be
refused, of which `saveUnsent` learns nothing. The storage calls of one handler are one step;
pages in several processes may interleave there too, and the list would then lose or repeat
entries: browsers give no lock, and the model does not go that far.

**`ThreadedQueue`.** One module for three programs, because they share one design:
`lock` around the queue, a drain lock held by the one thread that sends, a worker that
sleeps until the next flush or retry, a shutdown that stops the worker and drains until a
deadline. `sdk` says which of them a behaviour is about, and guards that mention it are
the places where they differ:

| | Python | Go | .NET |
|---|---|---|---|
| signals | `Event` | channel of one | counting semaphore |
| worker looks for the order to stop | before and after its sleep | as one channel of its select | the sleep, the wait for the drain lock and the send are cancelled |
| shutdown waits for the worker | no | yes | yes |
| its deadline starts | at the call | at the call (context) | when the worker is gone |
| a retry wakes the worker | yes | no, the ticker does | yes |
| `lock` can be taken twice by a thread | no | no | yes |
| fork | the child starts empty | – | – |

A section under `lock` is one step: the lock shows only when the application's handler
captures inside one (`stuck`). `Fork` goes on in the child, with the threads the child
does not have gone and what they held left to the parent.

**`NodeProcess`.** `hooks` are the client's listeners on `process`, `others` those of
everybody else. `closing` is where `queue.shutdown()` stands. Three callers can await a
shutdown and then end the process (`Caller`); a call that finds the client closed returns
at once (`returned`), the first one waits for the end (`awaits`). `SignalArrives` is all
that the emission of a signal does, with the application's listeners before or after the
SDK's; `Reraise` and `FatalExits` are the two `finally`; `LoopEmpty` is Node finding nothing
to do, with what `beforeExit` then does. The queue is what is fresh, sending or waiting.

**`NodeRequests`.** A request comes through Express, a wrapper of Next.js (`route`, `api`),
SvelteKit's `handle`, or is a job in `runWithContext` with a trace. `scopeUser` is
`scope.user`, `captured` the module's `WeakSet`, which takes objects only. A handler throws an error
object of its own, one that several requests share, or something that is no object
(`Text(r)`, a string): `captureError` remembers the first two kinds and reports the third each time
it is told. A step leaves what it captured in `sent`: the request it is for and the user it
carries. Responses end with `Finish` or `ClientLeaves`, also after the handler threw.
`ErrorMiddleware` runs in any context. In SvelteKit `SvelteFails` is a load function that throws inside
`resolve()`, and `SvelteCatches` follows a handle that let an error through to SvelteKit; both call
the error hook (`HandleError`), which ignores an expected error, a status below 500.

**`Chunker`.** Strings are lengths. One action per branch of the loop of `buildChunks`:
`CloseFull` (before an item), `Join`, `CloseOversized` (after it), `CloseLast`. `bytes` is the
running count, `BodyBytes` the size of the body that `assembleBody` makes. `Prepare` is
`enqueue`'s fitting (`FitItem`). `MockIngest` sends what `Chunker` made, again and again, to
the server, which keeps keys and a script of failures and complains (`Complaints`).

**`AutoCapture`.** `wraps` are the wrappers made so far, each with what it calls; `top` is
what the platform calls. `OpenBrowser`, `OpenNative` and `OpenNode` are the set-up in the
constructors, `Close...` the cleanup of `shutdown()`; other libraries wrap and unwrap in between.
`hearers` are the clients an uncaught error is told to: in a browser by their listeners, in
React Native by the one rejection tracker. Page views: `timers`
(`setTimeout` after a navigation), `buffer` (`WebQueue.views`), `flushes` (the loops of
`flushWeb`, with the batch in flight first).

**`FlagCache`.** `EnabledJs`, `EnabledPython`, `EnabledGo` and the variants are translated
separately, each from its source, and compared. An attribute of a context has a type (missing,
string, whole number, whole number held as a float, boolean) and what it reads as; `String()`,
`str()` and `fmt.Sprint` make text of it, each in its own way, and Python's `or` tests its truth.
`Bucket` gives the bucket of an id as the hash would. In the cache, `runtime` says how polls are
scheduled: an interval (Node, browser while shown) whatever became of the last poll, a ticker
whose loop waits for the answer (Go), a timer set when a poll has ended (Python).

**`WebVitals`.** `lcp`, `clsMax`, `session` and `inp` are the closure's variables, `done` its
`...Reported` flags and disconnected observers. `draining` holds the vitals in a drain's chunks,
from `StartDrain` to `EndDrain`. An observer's callback, the load event's timer, an interaction,
hiding the page and the cleanup are an action each. `Hide` runs every listener of the event in the
order they were registered: the vitals' first, then the client's, which sends the queue, but for
the chunks of a drain that runs (`takeAll`). `shifts`, `times`, `known` and `sent` are history.

**`SvelteHandle`.** A component is created (its script runs, the handle becomes the active
one), mounted (`start`, with the buffer replayed) or mounted without a key, and destroyed
(`stop`). A call goes through a handle some component holds, or the active one; `meant`
remembers what the application meant by it: the user it had set, and whether a capture is
due. `EndTrace` is the function `startTrace` returned, of the client or of the handle.

**`Setup`.** `cli` is a run: its framework, key, and the writes it has left; each write is an
action, so that `Interrupted` may come between any two. `files` says of each file whether it is
the developer's or which framework it works for; `env` what kind of key each variable holds; `notes`
(`NotesFor`) what the run tells the developer to do.
The installers are records, one per source file. `StartRun` is everything up to the first write:
detection, prompts, the registry check, the check of the key.

**`McpServer`.** `calls` are tool calls under way with their requests, `shown` the results in
order. The API behind it is external: it has `Total` items in a list and returns the page
it is asked for, or the whole list.

## 3. Runs

| Run | Question | Bounds |
|---|---|---|
| `queue_offline` | Where is each item, over captures, rounds, retries, pausing and a restored snapshot? Does the queue implement `TelemetryDelivery`? | 2 captures beside 2 stored items, 2 attempts, 1 retry chunk |
| `queue_ending` | Do flush, order, timers and shutdown do what they promise in a client that ends? Does every item settle, and shutdown return? | 2 captures, queue of 2, 3 attempts |
| `lifetimes` | Who ends a Node process, and is the delivery over by then? Does it end? Have providers one client per key, is none taken away, none left open? | no or 2 other listeners, 2 captures, 2 attempts, 2 signals; 3 providers, 2 keys, 3 clients |
| `offline` | Is the disk up to date? What may be ingested twice, and what may a shutdown leave out, with kills and shutdowns in any state? | 2 captures, 2 keys, 2 attempts, 1 end of the app, 1 write under way, storage may refuse and be unreadable |
| `browser` | Is a chunk ingested once over tabs and pages, and is everything accounted for? | 2 tabs, 2 pages, 2 captures, 2 attempts, a list of 1, storage may refuse |
| `threaded` | Three threads in every interleaving, three SDKs, forks: is every item kept once, every promise kept (`TelemetryDelivery`'s among them), does shutdown return? | 2 captures, queue of 1, 2 attempts, 1 retry chunk, 1 fork |
| `node_requests` | Whose user does an item carry, and is everything traced and reported once? | 2 requests, one through Express and one through anything else, a shared error, and a string |
| `parts` | Do requests fit and does the server take each item once? Do wrappers stay in order and views arrive? Are flags fresh and decided alike? Do vitals leave once? Do Svelte's handles keep what they are asked? Is what the installer leaves whole, and nothing there twice? | up to 3 items of 5 shapes, 2 sends of a request; 2 clients, 5 wrappers, 2 views; 2 versions, 2 extra refreshes, 4 ticks; 340 flags with 48 contexts of strings, numbers and booleans; 3 layout shifts, 2 times hidden; 2 Svelte providers, 3 calls, a buffer of 2, 1 trace; 4 projects, 2 runs of the installer, 1 edit |
| `node_signal` | Does the application own the exit if it listens? **No** | 1 other listener |
| `mcp_pages` | Are the pages of a list disjoint? **No** | 3 items, pages of 1 or 2 |
| `threaded_handler` | Does a capture return if the diagnostic handler captures? **No** | 3 captures |
| `documented` | Does any of nine sentences of READMEs and comments hold in every behaviour? **No** | 1 capture, 1 end of the app, 1 page, 1 request, 2 clients, 3 runs of the installer |

Why the bounds are enough for what the properties tell apart: two items are the least that
overflow a queue of one or two, stand in two chunks or in one, or differ in priority; two
attempts give a first send, a retry and a last failure; one waiting chunk is exceeded by the
second, as a list of one is; two tabs take from each other what each has stored, and one of
them can instead load twice; two clients of a key need a third to tell a new one from a
shared one; delays of 0, 1 and 2 are before, at and after a deadline of 1. In `threaded` the
application has one thread: with the worker and the closing thread three compete for each
lock. A second one only adds the order of two captures and of two flushes of the same kind.
Two signals are one during the shutdown the other began; two listeners are enough to be
counted beside the SDK's, which is gone when it counts. Two requests are the least that
can mix users, or throw one error. The byte limits of `parts` are scaled down so that each
of `fitItem`'s steps is needed by some item and one item is beyond all of them; three items
fill a request, overflow one and start the next. A cache that may be 2 old, polled
every 2, lets refreshes fail until it expires. Every bound is a constant named as one in its
module. Three shifts stay together, break the gap, or outgrow the window; a buffer of two is filled by the second call and overflows with the third; two runs
of the installer are one that stops half way and one that completes it, and one edit falls before,
between or after. The parts of `parts` share no state, so running one at a time loses nothing;
they are in one run because each is small.

What the parts of `Next` leave out in each run is what that kind of client does not do
(`MCDeliveryQueue`): `OfflineSpec` never shuts down; `EndSpec` (the next-state relation
`EndNext` of `DeliveryQueue`, with fairness) captures nothing and neither
pauses nor flushes once it has called `shutdown()`, as the clients set `closed` and remove
their listeners first, and its application does not call `flush()` after `shutdown()`.
The code gives no guarantee outside these limits, and section 5 says what happens there. The
other runs of the modules use the whole of `Next`, but `lifetimes`, whose providers' application leaves
shutdown to them (`SharedNext`).

`documented` is about sentences that the code does not keep. Each is a formula in the module of its
part, an invariant or, where the sentence is about a step, an action; `broken` collects those that a
state or a step has broken. The parts share no state and take turns: one moves until it has broken
all that is said of it, then the next does, so that one counterexample shows all nine cases one
after another. The property, `SomeSentenceHolds`, is the weakest claim the nine sentences make
together, that no behaviour breaks every one of them; its violation therefore says that each of
them is false, where a run per sentence would say so of one. TLC compares states by `View`, which
forgets what a part did before its last sentence broke. The installer's project has a layout of
unusual shape; the flag's context holds a boolean. Section 5 lists the sentences.

Deadlock is not checked where the system may come to rest: a client that is closed with
nothing left, a process that ended, an instance whose bounds are used up.

One more configuration belongs to no run and ends in a counterexample. It shows a limit of the
code that nothing in the repository promises otherwise, and is there for a reader to run:
`RegistryOrphan.cfg` (`MCClientRegistry`), where the application shuts a shared client down
itself; that client's timer then removes the entry of the next one. Modules also state a few
properties the runs do not ask for, because a stronger one does or a theorem covers them: each
module's `TypeOK`, `WithinBounds` and `TimersStayOff` of the queue, `OnePlace` of `OfflineClient`,
`OneCopy` and `SendsBound` of `BrowserClient` (proved, section 4), `AttemptsBound` of
`ThreadedQueue` and of the queue, `RefsCount` of the registry, `BytesExact` and `ChunksInOrder` of
`Chunker`.

### Properties worth naming

* `NothingLost`, `NothingTwice` (queue), `ItemsOnce` (threaded queue): the account of every
  item.
* `FlushPromise`: a call that joins a drain under way is served by another round.
* `RetryTimerArmed`, `WorkerNoticesRetry`: no retry waits without something that wakes the
  queue in time.
* `ShutdownAccounts`, `PromisesKept`: what is neither delivered nor reported nor counted when
  shutdown returns is only what the code cannot see from there.
* `KeepsPromise`: the queue implements `TelemetryDelivery`; so do the threaded queues, where it is
  part of `PromisesKept`.
* `DiskUpToDate`: the snapshot equals what a crash at rest would lose, unless the storage refused
  its last call.
* `NoDoubleIngest`: the browser's is that no item is ingested in two chunks. React Native's allows it
  where one of the two was cut after the snapshot that an ended process left (`recut`) and nowhere
  else: retries keep their keys through kills, launches, refused and unreadable storage. That the
  exception happens is a finding (`NeverCountedTwice`).
* `ShutdownStores`: what `shutdown()` leaves out of the snapshot is only what was not restored yet or
  could not be read, what the round under way holds offline, and what a process that ended
  before had not stored (`missed`); `ShutdownPersists`, without that exception, is another finding.
* `Accounted`: stored chunks move between the pages of a site without being forgotten, but for those
  the limit or the storage itself turned away.
* `InUseStaysOpen`, `IdleIsShutDown`: no mounted provider loses its client, and no idle client is
  leaked. Both rest on exact counts, which `CountIsExact` proves.
* `OrderlyEnd`: no second signal, fatal error or call of the application makes one of the
  SDK's handlers end the process under a delivery. It rests on `shutdown()` taking every
  listener off in the turn it is called.
* `NaturalEndSendsAll`, `ProcessEnds`: `beforeExit` sends what is left, and no timer keeps the
  process.
* `NoForeignUser`, `KeepsItsUser`: an error reported in the wrong context still has its
  request's user, and nobody else's.
* `TracedOnce`, `ReportedOnce`: one truthful trace of a request, one report of an error object, and
  at least one of anything else that is thrown.
* `ChunksFit`, `ServerAgrees`: items are cut to what a request may hold (`Fits`), what the SDK
  sends is what the server's checks allow (`KeepsContract`), and what it is told was accepted is
  accepted once (`AckedIsAccepted`).
* `CapturedOnce`, `ViewsOnce`: whoever wraps and unwraps, a call reaches each open client once,
  a navigation is told, and told once while no earlier patch stayed below a foreign wrapper, every open
  client of a browser hears of errors, and a page view is in one place.
* `VitalsReported`: a vital is reported once; what has a value when the page is hidden has left
  by then, unless a drain under way holds it; the layout shift score is the sum of a session window.
* `HandlesKeep`: what a handle is asked before it has a client is captured once, in order, with
  the user of then; an action never reaches a provider that is gone.
* `SetupOnce`, `SetupCompletes`: reruns add nothing twice and no secret key gets into client code; a run
  that says it is complete has written what it found missing, also what an earlier run left undone,
  or says so. It does not speak of a layout of unusual shape, of a `WatchupInit` of the developer's, nor
  of placeholders outside Next and SvelteKit, where the code is silent and the README is not (findings).
* `RuntimesAgree`: a flag is decided alike in three languages for contexts of strings and whole numbers
  whose id is neither empty nor 0 (`Plain`); for others see the findings.
* `PollsInOrder`: polls alone never roll flags back in Go and Python, whatever the interval and the
  timeout, and in Node only where two polls lie no more than a timeout apart.
* `StaleBounded`: flags are not served for longer than their age allows.

### Fairness

* `queue_ending`: every send is answered (the transports time out after 8 s, or the platform
  does), timers fire, time passes, the event loop runs what is ready, and a network that is
  lost comes back. The periodic flush is strongly fair while not paused: offline times are
  not so regular that every one of its ticks falls into one. Nothing is assumed of the
  application: it need not flush.
* `lifetimes`: a timer that is set and not cleared fires (`TimersFire`). In the process
  (`LoopRuns`) sends are answered, and the event loop runs what is ready. Nothing makes the
  application finish or a signal arrive: `ProcessEnds` speaks of a process that is done or told to
  end.
* `threaded`: threads that can run do, sends are answered, time passes. Strong fairness is
  assumed in two places. A thread that waits for the drain lock gets it when it is released
  again and again: Go's mutex and .NET's semaphore queue their waiters, and in Python the
  worker sleeps between two rounds. The worker's stop is strongly fair as a Go `select` takes
  each ready channel with equal probability; without this the worker could take its ticker for
  ever.

## 4. Proofs

TLC checks the instances above; TLAPS proves for every value of the constants that
satisfies the assumption of the module (`ConstantsOK` and `StoredOK`, `ChunkerConstants`,
`IngestConstants`, `RequestConstants`, `NodeConstants`, `FlagConstants`, `DefConstants`,
`CaptureConstants`, `VitalsConstants`, `HandleConstants`):

| Module | Theorem | States |
|---|---|---|
| `DeliveryQueue` | `TypeCorrect`, `NeverLost`, `NeverTwice`, `AttemptsBounded` | its types, where each item is, and how often it is sent, under the whole of `Next` |
| | `FlushKeepsPromise` | the promise of `flush()` |
| | `QueueKeepsPromise` | it implements `TelemetryDelivery` |
| | `BoundsHold` | the bounds of what waits, items and retries |
| | `SentInOrder` | what was cut together is sent in priority order |
| | `StoppedStaysOff` | a stopped queue has no timer |
| | `RetriesHaveTimers`, `EndHasTimers` | no retry waits without a timer, while a stopped queue is not started again |
| | `ShutdownCountsAll` | what `shutdown()` leaves is delivered, handed over, reported or counted |
| `ClientRegistry` | `CountIsExact` | reference counts are exact, also when the application shuts clients down |
| | `OneClientPerKey`, `InUseIsSafe` | one open client per key, and no timer closes one in use, if it does not |
| `OfflineClient` | `TypeCorrect` | its types |
| | `StoredAtRest` | at rest the disk is the queue, unless the storage refused its last call |
| | `NothingTwice` | only a chunk cut from what a snapshot left behind still calls pending is ingested beside another with its items |
| | `ShutdownKeepsAll` | what a shutdown leaves out of the snapshot it stored is only what `missed` names |
| | `ItemsInOnePlace` | no item is in two parts of the queue |
| `BrowserClient` | `TypeCorrect`, `IngestedOnce` | its types, and that no item is ingested twice |
| | `AllAccounted` | `Accounted`, whatever the storage refuses |
| | `OnePlaceEach`, `AttemptsTravel` | no chunk is in two places, and all pages together send it at most `MaxAttempts` times |
| `ThreadedQueue` | `TypeCorrect`, `EveryItemOnce`, `AttemptsBounded` | its types, where each item is, and how often it is sent |
| | `ThreadedKeepsPromise` | it implements `TelemetryDelivery` |
| | `PromisesAreKept` | that, and what `flush()` and `shutdown()` tell their callers |
| | `WorkerNotices` | the worker does not sleep past a retry |
| `NodeProcess` | `EndsInOrder`, `NaturalEndTriesAll` | nothing of the SDK ends the process under a delivery; an end by itself comes after it |
| `NodeRequests` | `UsersApart`, `UserKept` | no item carries another request's user, and what is captured for a request carries its own |
| | `RequestsTracedOnce`, `ErrorsReportedOnce` | one truthful trace of a request; one report of an error object, at least one of anything else |
| `Chunker` | `RequestsFit` | no request is above a limit, unless it is one item too large by itself |
| | `BytesAreExact` | the running count of bytes is the size of the body |
| | `RequestsInOrder` | the requests hold what was pending, each item once and in order |
| `MockIngest` | `ServerAgreesAlways` | the server complains of nothing the SDK sends, and accepts once what it acknowledges |
| `FlagCache` | `StaleWithinBounds`, `PollsKeepOrder` | how old flags may be, and that polls put them back only where Node's overlap, for any interval and timeout |
| | `DecisionsAgree` | JavaScript, Python and Go decide every flag alike for plain contexts |
| `Setup` | `SetsUpOnce`, `CompletesOrTells` | nothing is in a project twice, no secret key in client code; what a complete setup has, with the exceptions of `SetupCompletes` |
| `AutoCapture` | `CapturesOnce` | calls and errors reach the clients they are for, and once; navigations too, once while no earlier patch stayed below a foreign wrapper |
| | `ViewsKept` | a page view is in one place, and reaches the server at most once |
| `WebVitals` | `VitalsAlways` | vitals are reported once, and in time if no drain holds them, and the layout shift score is a session window's |
| `SvelteHandle` | `HandlesAlwaysKeep` | what is asked of a handle before its client exists is captured once, in order, for the user of then |

Every theorem is about the whole of a module's `Next`, with these exceptions. `EndSafely` is `Next`
without what no client that ends does (section 3). `StaysStopped`, which `EndNext` implies,
excludes only `start()` after `stop()`: a queue started again has its interval and no timer for an
old retry. The registry's theorems about clients in use are about applications that leave shutdown to the
providers. `ShutdownCountsAll` also assumes a queue that was restored from nothing, `Stored = NoSnapshot`, as
in the run that checks the property: of the clients only React Native's restores, and what its
shutdown leaves is `ShutdownKeepsAll`.

**The queue.** `NothingTwice` is not inductive by itself: a captured item could be one
the queue has seen (`IdsBelow` excludes it), and an answer could be for one of several chunks
in flight, or one without a loop (`OneInFlight`). `FlushPromise` needs what holds while
the loop runs: what was promised is still pending only if another round is asked for
(`PromiseKept`). A handler runs enqueue, shed, report and flush in one step, so the
proof states the account of items with `pending` and `overflow` as parameters
(`Placed`) and follows it through the handler: `FlushCallDrained`, `StartRoundDrained`,
`SendFirstDrained` and `FinishDrained` are lemmas about the operators the actions share,
and the proof of each action cites them. `CutsPartition` is what the proof knows of
chunking: a cut is a partition of what is pending.

`SendOrder` needs of a cut that its stamp is new, and of every waiting retry that its stamp is its
own (`StampsOK`): retries and later cuts are then never compared with each other, and within a cut
the blocks follow each other as their first items do (`CutsOrdered`). A retry timer is armed by
the last step of the drain that made the retry, and every step that clears it either has another
armed or leaves a reason: the loop runs, the queue is paused or stopped. `ShutdownAccounts` adds
to the invariant what holds between the awaits of `shutdown()` (`CloseOK`): the timers are off,
and while it looks at the queue or sleeps nothing drains and every overflow was reported.

`WithinBounds` rests on one lemma about counting (`DropFirst`): both `enforceBound` and the list of
retries leave out what has too few before it in a strict order, and what is left is no more than the
bound, because something of it has the fewest before it and all of those were left out.

The refinement maps waiting, accepted, lost and handed-over items to the queue's state;
each action is a move of `TelemetryDelivery` or a stutter, with `NothingTwice` for the
disjointness its moves need.

**The threaded queue.** `ItemsOnce` is first laid side by side (`Places`: hands, pending,
overflow, retries, work, in flight, settled), so that a step moves a set from one place to the
next. Two hands never hold one item (`HandsOK`), and chunks are out only while one thread, which
is in a flush, holds the drain lock (`DrainOK`): the answer of a send then cannot meet another
thread's round. A promise is about items with lower numbers than any capture to come, so the round
that served it keeps serving it (`PromiseOK`); shutdown has looked once unless it is .NET's with
no time left (`CloserOK`). `WorkerNoticesRetry` is inductive given the types: the worker's alarm
is the least of what it saw (`SoonestFound`, by well-founded induction on the numbers), and every
later retry signals, in the SDKs it speaks of. For `ThreadedKeepsPromise` `Places` says what
waits: what was captured and has not settled. A step then only has to show which of delivered,
lost and taken it makes larger (`SettlesSome`).

**The browser client.** The server knows keys; the property is about items. The invariant
is that a key names one set of items for ever (`KeysOwn`), over everything that was sent or
may still be: the queues of all tabs, the list, and the requests under way. Each operation of
the queue is a lemma about one tab's queue (`Moved`: it holds what it held, and only what was
pending may get a new name), which the actions of all tabs cite. `AllAccounted` follows what
each handler takes out of a queue into the list, the server, a report or `released`.

A chunk that the storage refused is in `released`, as one that the limit pushed out: the handler gives
both up.

`OneCopy` and `SendsBound` rest on one invariant (`CopiesOK`): a chunk that is somewhere was sent no
more often than it says. That bounds its sends only if no copy with fewer attempts waits
elsewhere, and that none does needs every key in use to be one that was given out.

**The offline client.** The same account of names with launches and kills in between. What may still be
restored is the image, the disk, and every write under way. The proof of `NoDoubleIngest` says of each
snapshot which chunks existed when it was taken (`upTo`): of these only one in `recut` has an item that
it calls pending, and when the process ends the chunks cut since are put into `recut`. Any other pair of
chunks shares no item, whether waiting, sent or in a snapshot (`KeysOK`). `DiskUpToDate` is not
inductive: writes are queued, so what agrees with the queue at rest is the last thing the
storage was asked for (`Saved`), which holds again after a refusal as soon as a later call succeeds.
`ShutdownStores` needs to know where every item is while `shutdown()` saves (`Saving`): what the
snapshot it asked for leaves out is delivered, reported or in `missed`, and only calls that were
there before it may still come to the disk. `OnePlace` rests on `Whole`: whatever a later process may
restore holds no item twice and only items captured before, and an item captured while the
storage is read has a later number than all of them (`PlacesOK`).

**Process, flags, installer.** `OrderlyEnd` rests on `Stage` (where `shutdown()` is, and
that an awaited send is under way) and `Waiters` (a caller that found the client closed ends
nothing); `NaturalEndSendsAll` on every item being somewhere and on the exit hook being there
while the client is open. `StaleBounded` needs what is true of answers under way: one that
tells of flags given up since was asked before (`AskedBefore`), and no request outlives its
timeout (`Young`). `PollsInOrder` needs that in Go and Python one poll is under way at a time
(`OnePoll`), that Node's are asked an interval apart (`PollsSpaced`), and that an answer older than the
cache was under way together with the one that filled it (`Overlap`), whatever the interval and
the timeout are.
`SetupOnce` is about any number of runs, interrupted anywhere: each write looks first, and the
installers' keys belong where they are put (`InstallersKeys`). `SetupCompletes` needs an account
of the middle of a run (`RunInv`): every write of the framework is still to come, or its file is in
place or told of (`Settled`), which no later write and no edit of the developer's during the run
undoes.

**Auto capture.** `CapturedOnce` speaks of what a call runs through, a chain of wrappers that
ends at the platform's function. It ends because a wrapper calls an older one (`WrapsOver`), from
which the recursive function `Below` exists (`FallsExist`, by a least counterexample), goes down
(`FallsBound`) and does not change when wrappers are added (`FallsAgree`). `WrapFacts` and
`UnwrapFacts` then say what the two operations do to every chain. The invariant: a client has one
wrapper in each of its slots, in the chain while it is open (`Wrapped`); the patch in use is in the
chain, and alone there while none stayed behind (`Patched`); who listens is who is open (`Heard`).

`ViewsOnce` counts; the proof says instead where a view is (`ViewInv`): what was seen is in one
buffer, one flush, at the server or given up (`Placed`), what is somewhere was seen (`Seen`), no
view is twice in a buffer or in the batches of a flush (`Apart`), and only the clients of a browser
that are open hold any (`Viewers`). `BatchesCut` says what the proof knows of cutting: the batches
hold the views they were cut from, each in one of them, whatever the size. What the actions share
(`FlushPlaces`, `AnswerPlaces`, `HidePlaces`, `ViewWaits`) are lemmas.

**Flags.** `RuntimesAgree` compares three ways to write one decision. For the rules it is a matter
of sequences and sets (`RulesAgree`), once the texts the three languages make of an attribute are
the same (`PrintAlike`, which is what `Plain` contexts give). For the variants JavaScript's
definition adds the weights up (`Cumulative`) and Python's and Go's walk the variants with a
running sum (`Loop`): that the recursive functions exist (`WeightsAdd`, `LoopSteps`) and that the
walk stops at the first variant whose cumulative weight exceeds the bucket (`LoopFinds`) is shown
by least counterexamples, which stand in for an induction. `DefConstants` assumes of the flags
that variants have weights that are numbers from 0 (`types.ts`, `FeatureFlag`), and nothing about
their sum.

**Vitals.** A span is in `done` exactly when it was reported, once, and what was reported is
queued, in a drain or sent (`CountedOnce`): every listener reports through `ReportAnd`, so one
lemma (`ReportCounts`) does for all; what was reported leaves the queue for a drain or for the
server, never for nothing. That the score is a window's needs to know which window is open: the
session is the sum of the last shifts from one on that follow each other closely enough
(`SessionOpen`), to which the next shift is added (`ShiftAdds`), or it opens the next.

**The Svelte handle.** A buffered call has a user only when the buffer is worked off, so the
invariant speaks of what replaying it would give (`UsersKept`): after its first calls, the user that
the application had set before the next, and after all of them, the user set last. `Replay` is a
recursive function; that it exists, that a call appended changes nothing before it (`ReplayMore`) and
what it captures (`ReplayGives`) is shown by least counterexamples (`StepsExist`). Numbers of calls
rise in the buffer and in what was captured (`CallsOrdered`), which is the order, and what is due is
in one of them (`NoneMissing`). Every call, also the lazy end of a trace, goes through `Run`, and one
lemma (`RunKeeps`) does for all; once the buffer was full only the order is left.

**The registry.** The invariant adds that a mounted provider holds a client that exists
(`HoldersHold`) and that clients not made yet are blank (`FutureIsBlank`). Without
`AppShutsDown` a stronger one holds, that an open client is its key's entry
(`OpenIsRegistered`): it is what the timer's deletion by key relies on, and what the
application breaks in `RegistryOrphan.cfg`.

**The chunker.** `ChunksFit` speaks of finished requests; what makes it inductive is the
open one (`OpenFits`: it only breaks the byte limit with a single item) and that the running
count is exact (`BytesExact`), so that a test of the count is a test of the body. A request is
a range of the pending sequence (`ChunksInOrder`), which keeps the proof free of
concatenation. The hard step is a kind's first item in a group, which has no comma. That a fitted
item is within the budget is a lemma (`ItemsFit`). `ServerAgrees` needs that the server's limits
are no smaller than the SDK's, which `IngestConstants` states of the numbers in `constants.ts:16-18`
and `server.mjs:22-24`, that requests with different keys hold different items (`RangesApart`), and
that whatever was acknowledged is recorded (`ServerHas`).

**Requests.** Any number of requests, kinds, codes and shared errors; only that the users and
errors differ is assumed (`RequestConstants`). What a step sent says nothing of the next one, so
the users rest on the scopes: whatever `scopeUser` and `startUser` hold for a request is its own
user, the default or nobody, and `globalUser` is the default or nobody (`UsersInv`). Traces: a
request that ended is recorded, so that its trace cannot be recorded again, and what may end it
has left the fact that makes the trace true (`TracesInv`). Reports: an error object is in `captured`
exactly if it was reported, once, and nothing else is in it (`ReportsInv`), which is all that three
reporters of one error share; of what is no object the proof only knows that who handled it has
reported it. The proofs go action by action; `UserKept` follows from what each action sends.

Only model-checked: liveness and everything under fairness. Out of the prover's reach are
liveness, `ENABLED`, and induction over data where a least counterexample does not replace it.

## 5. What the checks show

Disagreements between the code and what the repository says of it, each shown by a
counterexample (the findings of `PROJECT.json`):

1. Node: the signal handler counts the application's listeners when its own is already
   removed, so an application with exactly one handler is sent the signal again after the
   SDK's shutdown (`node_signal`).
2. MCP server: `watchup_list_projects` and `watchup_list_alerts` name a next page, and that page
   is the first one again (`mcp_pages`).
3. A diagnostic handler that captures blocks its thread for ever in Python and Go, and every
   thread that captures after it (`threaded_handler`).

The other nine are the sentences of `documented`, in the order in which its parts move:

| Property | What is said | What happens |
|---|---|---|
| `NeverCountedTwice` | "so nothing is double-counted" (`react-native/README.md:54`) | The key of a chunk cut from `pending` is in memory only. An app killed after the server accepted the chunk, and before the snapshot without its items is stored, sends them again under another key. |
| `ShutdownPersists` | "persist anything left for next launch" (`react-native/src/client.ts:256`) | A shutdown before the storage has answered overwrites what was to be restored; offline it leaves out the chunks of a drain under way. |
| `RefusedIsKept` | "Returns false if it could not be stored" (`browser/src/unsent.ts:36`) | `saveUnsent` answers `true` when `localStorage` is full or blocked, and the caller, who would report the loss, does not. |
| `HandlersReportOnce` | "An error is reported once even if it passes through several handlers" (`node/src/watchup.ts:230`) | What is thrown and is no object, a string for one, is reported by each handler. |
| `NeverDoubleCounted` | instances "never double-count" (`browser/src/history.ts:4-6`) | When another library wrapped `pushState` after the SDK and the last client leaves, the patch stays below; the next client patches again and every navigation counts twice. |
| `RuntimesIdentical` | "Local evaluation identical to the JavaScript SDKs" (`python/watchup/flags.py:4`) | A boolean reads `True` in Python and `true` elsewhere; a user id of 0 is no id in Python. |
| `PublicKeysPlaced` | "A public `wup_pub_` key is written only to the browser variable" (`create-watchup/README.md:23`) | For Node and Express it is written to `WATCHUP_API_KEY`, with a note that a secret one is better. |
| `NextWired` | the component is "wired into your root layout" (`create-watchup/README.md:15`) | A layout of unusual shape is neither changed nor mentioned, and a `WatchupInit` of the developer's own is taken for the SDK's. |
| `PlaceholdersNoted` | a variable without a key "gets a placeholder and a note" (`create-watchup/README.md:25`) | React, React Native, Node and Express give no note. |

Behaviour that no property contradicts but a maintainer should know:

* `pause()` does not hold a drain that runs: its remaining chunks are sent.
* `shutdown()` of a paused queue whose retry falls due before the deadline loops without
  sending, for ever: the due time it compares with the deadline never changes. No client of
  this repository gets there, as React Native's calls it only when online.
* `restore()` may exceed the bound on waiting chunks; the next failed send enforces it.
* A provider that renders while its client's shutdown timer runs and mounts after it
  fired holds a closed client.
* Browser: the chunks of a drain that runs when the page is left are not handed to
  `sendBeacon` and not stored. The limit of the list pushes the oldest chunks out without a
  diagnostic. What becomes of a beacon nobody learns.
* A React Native app that is killed during a drain loses what the drain had taken out of the last
  snapshot. A snapshot that cannot be read is removed and nobody is told.
* Browser: the answer `false` of `saveUnsent` cannot happen: no chunk is larger than the list's limit.
* Python's shutdown does not wait for its worker: a round the worker starts after
  shutdown's last is not in the count. In all three threaded SDKs an item whose capture passed the
  closed test may join the queue after the last look.
* Python's `flush()` and Go's `Close` wait for the round under way whatever the timeout is.
* In .NET and Go a cancelled send counts as an attempt.
* A forked Python child reports the parent's overflow a second time.
* `shutdown()` of the core queue may return 0 while a chunk is in flight, when an
  application's own flush starts between the awaited drain and the test after it.
* A handler of the core queue's diagnostics that flushes when an overflow is reported starts a
  second drain beside the first: `running` is not set yet (`queue.ts:247`).
* The registry's timer deletes by key and can remove the entry of another client, when the
  application shut the first one down itself.
* Node: `clearUser()` in a request with a default user still sends the default user. The trace
  of `requestMiddleware` has the user of its scope only. A Pages Router route whose client
  leaves has no trace. `captureRequestError` runs outside the request's context. The set of
  reported errors belongs to the module: a second client does not report what the first did.
* React Native: the rejection tracker is replaced by each client and never restored: only the
  client opened last hears of rejections, also when it is closed and others are not; a closed
  client left in the chain of error handlers still stores its queue on a fatal error.
* Page views: the batches of `flushWeb` that are still to be sent when the page ends are lost.
* Flags: at a rollout of 50 % with two variants of 50 the second is never served, since the
  rollout and the variants use one bucket. An empty user id is bucketed by its email in Python and
  Go and not at all in JavaScript; a whole number that Python holds as a float reads otherwise. A
  flag without `rollout_percentage` is at 100 % in Python only. The browser's refreshes have no
  timeout, so an old answer may replace a new one. Nobody is told when the cache expires, and
  `getVariant` reads it twice. Python's timeout is one per socket operation.
* MCP server: tools that send their `limit` to an API that honours it never see more than
  `limit` items, and never set `has_more`; a create call that timed out and is repeated
  creates twice.
* Web Vitals: `shutdown()` before the page is hidden loses the values that are not final.
* Svelte: `context.ts` forgets the active client when an inner provider is destroyed, though the
  outer one is mounted. Calls to a handle after `stop()`, or without an API key, fill its buffer
  for good. A `clearUser()` that finds the buffer full is dropped, and what is captured later has
  the user from before it. A trace begun before there was a client has the user of its end, and
  its `end()` called twice records it twice, where the client's own counts once.
* `create-watchup`: a placeholder is never replaced by a later run with a key. When the installation
  fails the notes are lost with it; the next run repeats those that still apply.

## 6. Plan

Done: the queue with its abstraction, the registry, the offline, browser and threaded clients,
the Node process and its requests, the chunker, each with proofs of its main properties; the
mock server, auto capture, flags, the MCP server, Web Vitals, the Svelte handle, the installer.

Left, in order:

1. Handlers of the JavaScript queue's diagnostics, which call back into it.
2. The middleware of the Python, Go and .NET SDKs, after the pattern of `NodeRequests`.

## 7. Not modelled

Contents of items (what the capture methods add beyond the user, redaction, SQL scrubbing, stack
traces), formatting and logging; HTTP details below "accepted, rejected, retry later"; React
hooks, the Svelte flag stores and the other providers around a client; the Python, Go and .NET
framework adapters and their copies of the contract; parsing of flags and their subscribers; the
argument schemas of the MCP server; release tools, tests, fixtures and samples. The list of
components in `PROJECT.json` gives the reason for each.
