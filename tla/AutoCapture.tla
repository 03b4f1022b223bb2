---------------------------- MODULE AutoCapture ----------------------------
(***************************************************************************)
(* What the clients hang into the platform to capture by themselves, when  *)
(* several clients and other libraries do so in any order: wrapped console *)
(* methods, history.pushState (browser/src/history.ts), React Native's     *)
(* global error handler and rejection tracker (error-capture.ts), the      *)
(* browser's error listeners, and the page views that the browser sends of *)
(* its own (browser/src/web-queue.ts).                                     *)
(*                                                                         *)
(* Abstractions.  One console method stands for all.  A wrapper is its     *)
(* owner and what it calls; a wrapper's `active` flag is the client not    *)
(* being closed.  Other libraries only take a wrapper off that is on top.  *)
(* A view is its number.  What the native handler does after a fatal error *)
(* beyond capturing it (it stores the queue) is left out.                  *)
(***************************************************************************)
EXTENDS Integers, Sequences, FiniteSets, FiniteSetsExt, SequencesExt

CONSTANTS
  Clients,
  Other,          \* other libraries
  Page,           \* the owner of the history patch
  MaxBatch,       \* views of a batch: MAX_QUEUED_VIEWS is never reached
  MaxWraps,       \* bound: wrappers
  MaxTimers,      \* bound: timers of a client
  MaxViews        \* bound: page views

ASSUME CaptureConstants ==
  /\ {MaxBatch, MaxWraps, MaxTimers, MaxViews} \subseteq Nat /\ MaxBatch > 0 /\ MaxTimers > 0
  /\ Clients \cap {Other, Page} = {} /\ Other # Page

VARIABLES
  platform,   \* "browser", "native" or "node"
  status,     \* a client is new, open or closed
  wraps,      \* every wrapper: where, whose, and what it calls
  top,        \* what the platform calls: a wrapper, or 0 for its own function
  listeners,  \* clients told of navigations  (history.ts: listeners)
  patch,      \* the history patch in use, or 0  (history.ts: restore)
  hearers,    \* clients told of uncaught errors by listeners, or by the tracker
  left,       \* history: slots where a wrapper stayed below another's
  timers,     \* setTimeout(trackWebView) of a client
  buffer,     \* a client's unsent views  (WebQueue.views)
  flushes,    \* the flushWeb loops under way: the batches left, the first in flight
  seen,       \* how many views there were
  arrived,    \* history: how often a view reached the server
  dropped     \* history: views a request failed with

chainVars == <<wraps, top, left>>
patchVars == <<listeners, patch>>
viewVars == <<timers, buffer, flushes, seen, arrived, dropped>>
captureVars == <<platform, status, chainVars, patchVars, hearers, viewVars>>

SlotNames == {"console", "history", "errors"}
Slots == {"console"} \cup [browser |-> {"history"}, native |-> {"errors"}, node |-> {}][platform]
Opened == {c \in Clients : status[c] = "open"}

(***************************************************************************)
(* Wrappers                                                                *)
(***************************************************************************)

\* The wrappers a call of wrapper i runs through, itself first.
Below[i \in 0 .. Len(wraps)] == IF i = 0 THEN {} ELSE {i} \cup Below[wraps[i].inner]

\* The wrappers a call of a slot runs through.
Chain(slot) == Below[top[slot]]

Of(slot, by) == {i \in DOMAIN wraps : wraps[i].slot = slot /\ wraps[i].by = by}

\* by wraps the slots of a sequence, which are different.
Wrap(slots, by) ==
  LET n == Len(wraps) IN
  /\ n + Len(slots) <= MaxWraps
  /\ wraps' = wraps \o [i \in DOMAIN slots |->
                 [slot |-> slots[i], by |-> by[i], inner |-> top[slots[i]]]]
  /\ top' = [s \in DOMAIN top |->
               IF Contains(slots, s) THEN n + CHOOSE i \in DOMAIN slots : slots[i] = s ELSE top[s]]
  /\ UNCHANGED left

\* Mutant of Removed: the function that was wrapped is put back whoever is on top.
RemovedBlindly(slot, i) == wraps[i].inner

\* What a slot calls after the wrapper i was to be removed: only the wrapper on
\* top can be.
Removed(slot, i) == IF top[slot] = i THEN wraps[i].inner ELSE top[slot]

\* The wrappers in a set, one per slot, are removed.
Unwrap(set) ==
  /\ top' = [s \in DOMAIN top |->
               IF \E i \in set : wraps[i].slot = s
               THEN Removed(s, CHOOSE i \in set : wraps[i].slot = s) ELSE top[s]]
  /\ left' = left \cup {wraps[i].slot : i \in {j \in set : top[wraps[j].slot] # j}}
  /\ UNCHANGED wraps

\* Mutant of Installs: every client that subscribes patches history.
InstallsAlways == TRUE

\* onLocationChange: history is patched for the first listener only.
Installs == listeners = {}

(***************************************************************************)
(* Page views                                                              *)
(***************************************************************************)

\* Mutant of Rest: the views that were drained stay in the queue.
RestKept(c) == buffer[c]

\* drain: nothing is left of what the batches were made of.
Rest(c) == <<>>

\* The batches have as many views as their bytes allow, at most MaxBatch.
Batches(views, size) ==
  LET n == Len(views) IN
  [b \in 1 .. (n + size - 1) \div size |-> SubSeq(views, (b - 1) * size + 1, Min({b * size, n}))]

\* flushWeb: the views are drained at once, and the batches sent one after the other.
FlushWeb(c, views) ==
  /\ buffer' = [buffer EXCEPT ![c] = Rest(c)]
  /\ \E size \in 1 .. MaxBatch :
       flushes' = flushes \cup (IF views = <<>> THEN {} ELSE {[by |-> c, batches |-> Batches(views, size)]})

\* Mutant of AtShutdown: the views are left to the interval, which has stopped.
NothingSent(c) == UNCHANGED <<buffer, flushes>>

AtShutdown(c) == FlushWeb(c, buffer[c])

(***************************************************************************)
(* Actions                                                                 *)
(***************************************************************************)

Opening(c) == status[c] = "new" /\ status' = [status EXCEPT ![c] = "open"] /\ UNCHANGED platform
CloseClient(c) == status[c] = "open" /\ status' = [status EXCEPT ![c] = "closed"] /\ UNCHANGED platform

\* captureGlobalErrors of the browser: two listeners, put on and taken off together.
ListensForErrors(c) == hearers' = hearers \cup {c}
DeafToErrors(c) == hearers' = hearers \ {c}

\* captureUnhandledRejections: the tracker replaces the one there was, and stays when
\* its client is shut down.
TracksRejections(c) == hearers' = {c}

\* A client is constructed in a browser: setupAutoCapture with the first page view,
\* and setupConsoleCapture.
OpenBrowser(c) ==
  /\ platform = "browser" /\ Opening(c)
  /\ ListensForErrors(c)
  /\ IF Installs
     THEN Wrap(<<"history", "console">>, <<Page, c>>) /\ patch' = Len(wraps) + 1
     ELSE Wrap(<<"console">>, <<c>>) /\ UNCHANGED patch
  /\ listeners' = listeners \cup {c}
  /\ timers' = [timers EXCEPT ![c] = 1]
  /\ UNCHANGED <<buffer, flushes, seen, arrived, dropped>>

\* React Native: the global handler, the tracker, and the console.
OpenNative(c) ==
  /\ platform = "native" /\ Opening(c)
  /\ Wrap(<<"errors", "console">>, <<c, c>>)
  /\ TracksRejections(c)
  /\ UNCHANGED <<patchVars, viewVars>>

\* Node: the console.  Uncaught errors are in NodeProcess.
OpenNode(c) ==
  /\ platform = "node" /\ Opening(c)
  /\ Wrap(<<"console">>, <<c>>)
  /\ UNCHANGED <<patchVars, hearers, viewVars>>

\* shutdown in a browser: the cleanup functions, then the views.
CloseBrowser(c) ==
  /\ platform = "browser" /\ CloseClient(c)
  /\ DeafToErrors(c)
  /\ LET last == listeners = {c} IN
     /\ Unwrap(Of("console", c) \cup (IF last THEN {patch} ELSE {}))
     /\ patch' = IF last THEN 0 ELSE patch
  /\ listeners' = listeners \ {c}
  /\ AtShutdown(c)
  /\ UNCHANGED <<timers, seen, arrived, dropped>>

CloseNative(c) ==
  /\ platform = "native" /\ CloseClient(c)
  /\ Unwrap(Of("errors", c) \cup Of("console", c))
  /\ UNCHANGED <<patchVars, hearers, viewVars>>

CloseNode(c) ==
  /\ platform = "node" /\ CloseClient(c)
  /\ Unwrap(Of("console", c))
  /\ UNCHANGED <<patchVars, hearers, viewVars>>

\* Another library wraps a function, and takes its wrapper off again.
OtherWraps(slot) ==
  /\ slot \in Slots /\ Wrap(<<slot>>, <<Other>>)
  /\ UNCHANGED <<platform, status, patchVars, hearers, viewVars>>
OtherUnwraps(slot) ==
  /\ slot \in Slots /\ top[slot] \in Of(slot, Other) /\ Unwrap({top[slot]})
  /\ UNCHANGED <<platform, status, patchVars, hearers, viewVars>>

\* A navigation: every patch in the chain tells every listener, popstate does once.
Emits == Cardinality(Chain("history") \cap Of("history", Page))
Navigate(n) ==
  /\ platform = "browser" /\ listeners # {} /\ n > 0
  /\ \A c \in Clients : timers[c] + n <= MaxTimers
  /\ timers' = [c \in Clients |-> IF c \in listeners THEN timers[c] + n ELSE timers[c]]
  /\ UNCHANGED <<platform, status, chainVars, patchVars, hearers, buffer, flushes, seen, arrived, dropped>>
PushState == Navigate(Emits)
PopState == Navigate(1)

\* trackWebView: a closed client does nothing, a full batch is sent.
ViewTimerFires(c) ==
  /\ timers[c] > 0
  /\ timers' = [timers EXCEPT ![c] = @ - 1]
  /\ IF status[c] = "closed" THEN UNCHANGED <<buffer, flushes, seen>>
     ELSE LET views == Append(buffer[c], seen + 1) IN
          /\ seen < MaxViews /\ seen' = seen + 1
          /\ IF Len(views) >= MaxBatch THEN FlushWeb(c, views)
             ELSE buffer' = [buffer EXCEPT ![c] = views] /\ UNCHANGED flushes
  /\ UNCHANGED <<platform, status, chainVars, patchVars, hearers, arrived, dropped>>

\* The interval or flush().
SendViews(c) ==
  /\ status[c] = "open" /\ buffer[c] # <<>> /\ FlushWeb(c, buffer[c])
  /\ UNCHANGED <<platform, status, chainVars, patchVars, hearers, timers, seen, arrived, dropped>>

\* A batch reaches the server, or is lost: nothing is sent again.
Received(views) == [v \in DOMAIN arrived |-> IF v \in views THEN arrived[v] + 1 ELSE arrived[v]]
BatchAnswered(f, ok) ==
  /\ f \in flushes
  /\ IF ok THEN arrived' = Received(ToSet(Head(f.batches))) /\ UNCHANGED dropped
     ELSE dropped' = dropped \cup ToSet(Head(f.batches)) /\ UNCHANGED arrived
  /\ flushes' = (flushes \ {f})
       \cup (IF Len(f.batches) = 1 THEN {} ELSE {[f EXCEPT !.batches = Tail(@)]})
  /\ UNCHANGED <<platform, status, chainVars, patchVars, hearers, timers, buffer, seen>>

\* The page is hidden: every batch is a beacon, or a fetch of its own when the
\* browser refuses it.
HidePage(c, taken) ==
  /\ status[c] = "open" /\ buffer[c] # <<>>
  /\ \E size \in 1 .. MaxBatch : LET batches == Batches(buffer[c], size) IN
     /\ arrived' = Received(UNION {ToSet(batches[b]) : b \in DOMAIN batches \cap taken})
     /\ flushes' = flushes \cup {[by |-> c, batches |-> <<batches[b]>>] : b \in DOMAIN batches \ taken}
  /\ buffer' = [buffer EXCEPT ![c] = Rest(c)]
  /\ UNCHANGED <<platform, status, chainVars, patchVars, hearers, timers, seen, dropped>>

CaptureInit ==
  /\ platform \in {"browser", "native", "node"}
  /\ status = [c \in Clients |-> "new"]
  /\ wraps = <<>> /\ top = [s \in SlotNames |-> 0] /\ left = {}
  /\ listeners = {} /\ patch = 0 /\ hearers = {}
  /\ timers = [c \in Clients |-> 0] /\ buffer = [c \in Clients |-> <<>>] /\ flushes = {}
  /\ seen = 0 /\ arrived = [v \in 1 .. MaxViews |-> 0] /\ dropped = {}

CaptureNext ==
  \/ \E c \in Clients : OpenBrowser(c) \/ OpenNative(c) \/ OpenNode(c)
  \/ \E c \in Clients : CloseBrowser(c) \/ CloseNative(c) \/ CloseNode(c)
  \/ \E c \in Clients : ViewTimerFires(c) \/ SendViews(c)
  \/ \E s \in SlotNames : OtherWraps(s) \/ OtherUnwraps(s)
  \/ PushState \/ PopState
  \/ \E f \in flushes, ok \in BOOLEAN : BatchAnswered(f, ok)
  \/ \E c \in Clients : \E taken \in SUBSET (1 .. MaxBatch) : HidePage(c, taken)

CaptureSpec == CaptureInit /\ [][CaptureNext]_captureVars

(***************************************************************************)
(* Properties                                                              *)
(***************************************************************************)

\* A console call, or an error that reaches React Native's global handler, runs
\* exactly once through the wrapper of every open client, whoever wrapped and
\* unwrapped before and after it.
CallsOnce ==
  \A c \in Opened, s \in Slots \ {"history"} : Cardinality(Chain(s) \cap Of(s, c)) = 1

\* A pushState is told to the listeners, and told once unless the last client of
\* before left its patch below a wrapper of another library.
NavigationsOnce ==
  listeners # {} => Emits >= 1 /\ (Emits = 1 \/ "history" \in left)

\* "History is patched once per page no matter how many clients subscribe" so that
\* clients "never double-count" (history.ts:4-6), whoever else wraps it.
NeverDoubleCounted == listeners # {} => Emits = 1

\* In a browser every open client hears of an uncaught error and no closed one does.
\* React Native has one tracker: of several open clients, only that opened last.
ErrorsHeard ==
  /\ platform = "browser" => hearers = Opened
  /\ platform = "native" => Cardinality(hearers) = (IF \A c \in Clients : status[c] = "new" THEN 0 ELSE 1)

\* What happens reaches every open client that is to capture it, and reaches it once,
\* a pushState as far as NavigationsOnce says.  captureError then reports an error
\* object to the first client only.
CapturedOnce == CallsOnce /\ NavigationsOnce /\ ErrorsHeard

\* A page view reaches the server at most once and is accounted for: it waits with
\* one client that is not shut down, is on its way, has arrived, or was given up.
Waiting(v) == {c \in Clients : Contains(buffer[c], v)}
Sending(v) == {f \in flushes : \E b \in DOMAIN f.batches : Contains(f.batches[b], v)}
ViewsOnce ==
  /\ \A v \in 1 .. seen :
       Cardinality(Waiting(v)) + Cardinality(Sending(v)) + arrived[v] + (IF v \in dropped THEN 1 ELSE 0) = 1
  /\ \A c \in Clients : status[c] = "closed" => buffer[c] = <<>>
=============================================================================
