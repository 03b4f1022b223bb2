--------------------------- MODULE DeliveryQueue ---------------------------
(***************************************************************************)
(* The delivery queue shared by the TypeScript SDKs: core/src/queue.ts.    *)
(*                                                                         *)
(* Captured items wait in `pending`.  A flush starts the drain loop, which *)
(* cuts everything pending into chunks and sends them one at a time, after *)
(* the chunks whose retry is due.  A chunk the network or the server       *)
(* refused for now goes to `retry` with a backoff; a chunk the server      *)
(* rejected, or that failed MaxAttempts times, is dropped with a           *)
(* diagnostic.  JavaScript runs one handler at a time, so an action is     *)
(* everything a call or a callback does up to its next await.              *)
(*                                                                         *)
(* Abstractions.  An item is its kind and its place in the capture order;  *)
(* its bytes decide only where chunks are cut (any cut the byte limit can  *)
(* cause is allowed) and whether the byte threshold asks for a flush (a    *)
(* free choice).  A chunk is identified by the items in it.  Times are     *)
(* kept as what is left of them, and Tick lets one unit pass.              *)
(***************************************************************************)
EXTENDS Integers, FiniteSets

CONSTANTS
  MaxItems,        \* items in one chunk               (options.maxItems)
  MaxQueueItems,   \* items in pending                 (options.maxQueueItems)
  MaxAttempts,     \* sends of one chunk               (options.maxAttempts)
  MaxRetryChunks,  \* chunks waiting for a retry       (LIMITS.MAX_RETRY_CHUNKS)
  BaseBackoff,     \* first backoff                    (options.baseBackoffMs)
  MaxBackoff,      \* longest backoff                  (options.maxBackoffMs)
  MaxRetryAfter,   \* cap on a Retry-After             (LIMITS.MAX_RETRY_AFTER_MS)
  ShutdownTimeout, \* what shutdown() is given         (timeoutMs)
  MaxCaptures,     \* bound: items captured in a behaviour
  Captures,        \* bound: the kinds that are captured
  MaxStored,       \* bound: items an earlier process left
  Stored           \* what an earlier process left: [pending, retry]

Kind == {"errors", "traces", "events"}

\* Ids of new items count from 1; those of restored ones are at most 0.
OldItem == [id : 1 - MaxStored .. 0, kind : Kind]
Item    == [id : 1 - MaxStored .. MaxCaptures, kind : Kind]
Chunk   == [items : SUBSET Item, attempts : Nat, wait : Nat, stamp : Nat]

NoSnapshot == [pending |-> {}, retry |-> {}]

ASSUME ConstantsOK ==
  /\ {MaxItems, MaxAttempts, MaxQueueItems} \subseteq Nat \ {0}
  /\ {MaxRetryChunks, BaseBackoff, MaxBackoff, MaxRetryAfter,
      ShutdownTimeout, MaxCaptures, MaxStored} \subseteq Nat
  /\ Captures \subseteq Kind

\* A snapshot holds items of an earlier process, each in one place, and
\* chunks that may be sent again.
ASSUME StoredOK ==
  /\ Stored.pending \in SUBSET OldItem
  /\ Stored.retry \in SUBSET Chunk
  /\ IsFiniteSet(Stored.retry)
  /\ \A c \in Stored.retry :
       /\ c.items \in SUBSET OldItem
       /\ c.items # {} /\ c.items \cap Stored.pending = {}
       /\ c.attempts < MaxAttempts
       /\ c.wait = 0
       /\ c.stamp \in 1 .. Cardinality(Stored.retry)
       /\ \A d \in Stored.retry :
            c # d => c.items \cap d.items = {} /\ c.stamp # d.stamp

NoTimer == -1

ItemsIn(chunks) == UNION {c.items : c \in chunks}

VARIABLES
  pending,    \* items waiting to be cut into chunks          (this.pending)
  overflow,   \* items shed by the bound, not yet reported    (this.overflow)
  retry,      \* chunks waiting for their next attempt        (this.retry)
  draining,   \* the drain loop executes                      (this.draining)
  rerun,      \* the loop is asked for another round          (this.rerun)
  forceNext,  \* that round sends retries that are not due    (this.forceNext)
  work,       \* chunks of this round not sent yet            (drain's [...due, ...fresh])
  inFlight,   \* the chunk whose send is awaited, if any      (sendOne's chunk)
  paused,     \* delivery is held                             (this.paused)
  stopped,    \* no timers                                    (this.stopped)
  interval,   \* the periodic flush is set                    (this.cancelInterval)
  timer,      \* time left on the retry timer                 (this.retryTimerAt)
  closing,    \* where shutdown() is
  deadline,   \* time left before its deadline
  nap,        \* time left of its sleep
  stamp,      \* numbers chunks in the order they join retry or work
  stored,     \* the snapshot not restored yet
  captures,   \* how many items were captured
  captured,   \* history: the items captured, or left by an earlier process
  delivered,  \* history: items the server accepted
  reported,   \* history: items lost, with a diagnostic that says so
  taken,      \* history: items handed to the caller of takeAll
  promised,   \* history: items pending when a flush of this drain was called
  leftOver    \* history: items shutdown() reported as undelivered

queueVars    == <<pending, overflow, retry, stamp>>
drainVars    == <<draining, rerun, forceNext, work, inFlight>>
controlVars  == <<paused, stopped, interval>>
shutdownVars == <<closing, deadline, nap, leftOver>>
historyVars  == <<delivered, reported, taken, promised>>
captureVars  == <<captures, captured, stored>>
vars == <<queueVars, drainVars, controlVars, timer, shutdownVars,
          historyVars, captureVars>>

Closing == {"no", "flushing", "checking", "sleeping", "done"}

TypeOK ==
  /\ {pending, overflow, captured, delivered, reported, taken, promised, leftOver}
       \subseteq SUBSET Item
  /\ {retry, work, inFlight} \subseteq SUBSET Chunk
  /\ {draining, rerun, forceNext, paused, stopped, interval} \subseteq BOOLEAN
  /\ timer \in Nat \cup {NoTimer}
  /\ closing \in Closing
  /\ {deadline, nap, stamp, captures} \subseteq Nat
  /\ stored \in {Stored, NoSnapshot}

(***************************************************************************)
(* Orders and cuts                                                         *)
(***************************************************************************)
Rank(kind) == CASE kind = "errors" -> 1 [] kind = "traces" -> 2 [] OTHER -> 3

\* Send order: errors, then traces, then events, oldest first (KIND_ORDER).
Before(i, j) ==
  \/ Rank(i.kind) < Rank(j.kind)
  \/ i.kind = j.kind /\ i.id < j.id

\* Shed order of a full queue: events, then traces, then errors, oldest first.
ShedBefore(i, j) ==
  \/ Rank(i.kind) > Rank(j.kind)
  \/ i.kind = j.kind /\ i.id < j.id

\* What enforceBound removes from p.
Excess(p) ==
  {i \in p : Cardinality({j \in p : ShedBefore(j, i)}) < Cardinality(p) - MaxQueueItems}

\* Mutant of Block: the group is not cleared between two chunks.
BlockNotCleared(p, starts, s) == {i \in p : i = s \/ Before(s, i)}

\* The items of p from s up to the next start.
Block(p, starts, s) ==
  {i \in p : /\ i = s \/ Before(s, i)
             /\ ~ \E t \in starts : Before(s, t) /\ (t = i \/ Before(t, i))}

\* Every way buildChunks may cut p: runs of the send order, of at most
\* MaxItems items; the byte limit may end a run anywhere.
Cuts(p) ==
  {{[items |-> Block(p, starts, s), attempts |-> 0, wait |-> 0, stamp |-> stamp + 1]
      : s \in starts} :
   starts \in {S \in SUBSET p :
                 /\ \A i \in p : \E s \in S : i \in Block(p, S, s)
                 /\ \A s \in S : Cardinality(Block(p, S, s)) <= MaxItems}}

\* Mutant of Sooner: a cut's chunks in reverse.
SoonerReversed(c, d) ==
  \/ c.stamp < d.stamp
  \/ c.stamp = d.stamp /\ \E i \in c.items : \A j \in d.items : Before(j, i)

\* Chunks are sent and dropped in the order they were queued; the chunks of
\* one cut in the send order of their items.
Sooner(c, d) ==
  \/ c.stamp < d.stamp
  \/ c.stamp = d.stamp /\ \E i \in c.items : \A j \in d.items : Before(i, j)

IsFirst(c, chunks) == c \in chunks /\ \A d \in chunks \ {c} : Sooner(c, d)

\* What retry loses when it grows past its bound: its oldest chunks.
Surplus(r) ==
  {c \in r : Cardinality({d \in r : Sooner(d, c)}) < Cardinality(r) - MaxRetryChunks}

\* Exponential backoff with jitter, or the server's Retry-After.
Exponential(attempt) ==
  LET exp == BaseBackoff * 2 ^ (attempt - 1)
  IN  IF exp < MaxBackoff THEN exp ELSE MaxBackoff

Jittered(attempt) ==
  {d \in 0 .. MaxBackoff : d <= Exponential(attempt) /\ Exponential(attempt) <= 2 * d}

\* Mutants: a dropped chunk without a diagnostic; a round that leaves the retries
\* to a forced one.
UnreportedItems(chunks) == {}
DueWhenForced(force) == {c \in retry : force}

OutOfAttempts(c) == c.attempts >= MaxAttempts

Attempted(c) == [c EXCEPT !.attempts = @ + 1]

\* The retries a round takes: those whose time has come, or all of them.
Due(force) == {c \in retry : force \/ c.wait = 0}

\* The items a chunk_dropped diagnostic is about.
DroppedItems(chunks) == ItemsIn(chunks)

\* Mutant of Armed: an armed timer is kept though a retry is due before it.
ArmedOnce(r, t) ==
  IF stopped' \/ r = {} \/ t # NoTimer THEN t
  ELSE CHOOSE w \in {c.wait : c \in r} : \A c \in r : w <= c.wait

\* Where scheduleRetry leaves the timer.
Armed(r, t) ==
  IF stopped' \/ r = {} THEN t
  ELSE LET next == CHOOSE w \in {c.wait : c \in r} : \A c \in r : w <= c.wait
       IN  IF t # NoTimer /\ t <= next THEN t ELSE next

(***************************************************************************)
(* The drain loop                                                          *)
(***************************************************************************)

\* The loop ends: nothing is left of this round and nobody asked for another.
Finish(p, r, t) ==
  /\ draining' = FALSE
  /\ inFlight' = {} /\ work' = {}
  /\ pending' = p /\ retry' = r
  /\ timer' = Armed(r, t)
  /\ stamp' = IF r = {} THEN 0 ELSE stamp

\* The first chunk of `chunks` goes out.
SendFirst(chunks) ==
  \E c \in chunks :
    /\ IsFirst(c, chunks)
    /\ inFlight' = {Attempted(c)}
    /\ work' = chunks \ {c}

\* One round from its start to its first await: report what overflowed, take
\* the retries that are due (all of them when forced), cut what is pending,
\* send the first chunk.  p, o and t are pending, overflow and the timer as
\* the handler that starts the round leaves them.
StartRound(p, o, t, force) ==
  LET due == Due(force)
  IN  /\ overflow' = {} /\ reported' = reported \cup o
      /\ rerun' = FALSE /\ forceNext' = FALSE
      /\ \/ p = {} /\ due = {} /\ Finish({}, retry, t)
         \/ /\ p # {} \/ due # {}
            /\ draining' = TRUE
            /\ pending' = {} /\ retry' = retry \ due
            /\ timer' = t
            /\ stamp' = IF p = {} THEN stamp ELSE stamp + 1
            /\ \E fresh \in Cuts(p) : SendFirst(due \cup fresh)

\* Mutant of JoinDrain: the running loop is not told.
JoinSilently(force) == UNCHANGED <<rerun, forceNext>>

\* A flush while the loop runs asks it for another round.
JoinDrain(force) == rerun' = TRUE /\ forceNext' = (forceNext \/ force)

\* flush(): nothing while paused; join the drain that runs; or start one.
FlushCall(p, o, t, force) ==
  \/ /\ paused'
     /\ pending' = p /\ overflow' = o /\ timer' = t
     /\ UNCHANGED <<retry, stamp, drainVars, reported, promised>>
  \/ /\ ~paused' /\ draining
     /\ JoinDrain(force)
     /\ promised' = promised \cup p
     /\ pending' = p /\ overflow' = o /\ timer' = t
     /\ UNCHANGED <<retry, stamp, draining, work, inFlight, reported>>
  \/ /\ ~paused' /\ ~draining
     /\ promised' = p
     /\ StartRound(p, o, t, force)

\* Mutants of FlushAnswered: the caller does not await the drain; or awaits one
\* that has ended.
NeverAwaits == TRUE
AlwaysAwaits == FALSE

\* A caller that awaits flush() goes on at once when it was paused or had
\* nothing to send.
FlushAnswered == paused' \/ ~draining'

(***************************************************************************)
(* Capture and flush                                                       *)
(***************************************************************************)

\* enqueue(): add the item, shed what the bound does not allow, and flush if
\* a threshold is reached.  bytesFull: pendingBytes >= maxBytes.
ErrorFlushThreshold == (MaxItems + 1) \div 2

Enqueue(kind) ==
  LET item == [id |-> captures + 1, kind |-> kind]
      all  == pending \cup {item}
      kept == all \ Excess(all)
      shed == overflow \cup Excess(all)
  IN  /\ captures < MaxCaptures
      /\ captures' = captures + 1
      /\ captured' = captured \cup {item}
      /\ UNCHANGED <<controlVars, shutdownVars, delivered, taken, stored>>
      /\ \E bytesFull \in BOOLEAN :
           LET full == /\ ~stopped
                       /\ \/ Cardinality(kept) >= MaxItems
                          \/ bytesFull
                          \/ Cardinality({i \in kept : i.kind = "errors"}) >= ErrorFlushThreshold
           IN  \/ full /\ FlushCall(kept, shed, timer, FALSE)
               \/ /\ ~full
                  /\ pending' = kept /\ overflow' = shed
                  /\ UNCHANGED <<retry, stamp, drainVars, timer, reported, promised>>

\* flush() called by the application, a beforeExit hook or a client's timer.
Flush(force) ==
  /\ UNCHANGED <<controlVars, shutdownVars, delivered, taken, captureVars>>
  /\ FlushCall(pending, overflow, timer, force)

\* The periodic timer of start().
IntervalFires == interval /\ Flush(FALSE)

\* The callback of scheduleRetry's timer.
RetryTimerFires ==
  /\ timer = 0
  /\ UNCHANGED <<controlVars, shutdownVars, delivered, taken, captureVars>>
  /\ FlushCall(pending, overflow, NoTimer, FALSE)

(***************************************************************************)
(* sendOne's answer and the loop's next step                               *)
(***************************************************************************)
AnswerUnchanged == UNCHANGED <<pending, overflow, work, draining, rerun, forceNext,
                               controlVars, timer, shutdownVars, taken, promised,
                               captureVars>>

SendAccepted ==
  /\ inFlight # {}
  /\ delivered' = delivered \cup ItemsIn(inFlight)
  /\ inFlight' = {}
  /\ UNCHANGED <<retry, stamp, reported>>
  /\ AnswerUnchanged

\* A status that is not worth a retry.
SendRejected ==
  /\ inFlight # {}
  /\ reported' = reported \cup ItemsIn(inFlight)
  /\ inFlight' = {}
  /\ UNCHANGED <<retry, stamp, delivered>>
  /\ AnswerUnchanged

\* A retryable status, a network error or a timeout: drop a chunk that is out
\* of attempts, else queue it for a retry and keep retry within its bound.
SendFailed ==
  \E c \in inFlight :
    /\ inFlight' = {}
    /\ UNCHANGED delivered
    /\ AnswerUnchanged
    /\ \/ /\ OutOfAttempts(c)
          /\ reported' = reported \cup c.items
          /\ UNCHANGED <<retry, stamp>>
       \/ /\ ~ OutOfAttempts(c)
          /\ \E delay \in Jittered(c.attempts) \cup 0 .. MaxRetryAfter :
               LET grown == retry \cup {[c EXCEPT !.wait = delay, !.stamp = stamp + 1]}
               IN  /\ retry' = grown \ Surplus(grown)
                   /\ reported' = reported \cup DroppedItems(Surplus(grown))
          /\ stamp' = stamp + 1

\* The drain loop resumes after a send: the next chunk, another round, or the
\* end, which settles the promise a shutdown awaits.
DrainContinues ==
  /\ draining /\ inFlight = {}
  /\ UNCHANGED <<controlVars, deadline, nap, leftOver, delivered, taken, promised,
                 captureVars>>
  /\ \/ /\ work # {}
        /\ SendFirst(work)
        /\ UNCHANGED <<queueVars, draining, rerun, forceNext, timer, reported>>
     \/ work = {} /\ rerun /\ StartRound(pending, overflow, timer, forceNext)
     \/ /\ work = {} /\ ~rerun
        /\ Finish(pending, retry, timer)
        /\ UNCHANGED <<overflow, rerun, forceNext, reported>>
  /\ closing' = IF closing = "flushing" /\ ~draining' THEN "checking" ELSE closing

(***************************************************************************)
(* Pausing, timers                                                         *)
(***************************************************************************)
Pause ==
  /\ paused' = TRUE
  /\ UNCHANGED <<queueVars, drainVars, stopped, interval, timer, shutdownVars,
                 historyVars, captureVars>>

\* resume(): deliver everything that waits, whatever its backoff.
Resume ==
  /\ paused' = FALSE
  /\ UNCHANGED <<stopped, interval, shutdownVars, delivered, taken, captureVars>>
  /\ FlushCall(pending, overflow, timer, TRUE)

Start ==
  /\ closing = "no"
  /\ stopped' = FALSE /\ interval' = TRUE
  /\ UNCHANGED <<queueVars, drainVars, paused, timer, shutdownVars, historyVars,
                 captureVars>>

StopTimers == stopped' = TRUE /\ interval' = FALSE

Stop ==
  /\ StopTimers /\ timer' = NoTimer
  /\ UNCHANGED <<queueVars, drainVars, paused, shutdownVars, historyVars, captureVars>>

\* Time passes for every delay that has not run out.
Later(n) == IF n > 0 THEN n - 1 ELSE n

Tick ==
  /\ \/ \E c \in retry : c.wait > 0
     \/ timer > 0 \/ deadline > 0 \/ nap > 0
  /\ retry' = {[c EXCEPT !.wait = Later(@)] : c \in retry}
  /\ timer' = Later(timer)
  /\ deadline' = Later(deadline)
  /\ nap' = Later(nap)
  /\ UNCHANGED <<pending, overflow, stamp, drainVars, controlVars, closing, leftOver,
                 historyVars, captureVars>>

(***************************************************************************)
(* shutdown()                                                              *)
(***************************************************************************)

\* stop(), then the first await of the loop's flush().
Shutdown ==
  /\ closing = "no"
  /\ StopTimers
  /\ deadline' = ShutdownTimeout
  /\ UNCHANGED <<paused, nap, leftOver, delivered, taken, captureVars>>
  /\ FlushCall(pending, overflow, NoTimer, FALSE)
  /\ closing' = IF FlushAnswered THEN "checking" ELSE "flushing"

\* After the flush: done, or sleep until the next retry.  A retry time and a
\* deadline that have both passed may have passed in either order.
ShutdownChecks ==
  /\ closing = "checking"
  /\ \/ /\ \/ retry = {}
           \/ \A c \in retry : c.wait > deadline
           \/ deadline = 0
        /\ closing' = "done"
        /\ leftOver' = pending \cup ItemsIn(retry)
        /\ UNCHANGED nap
     \/ /\ closing' = "sleeping"
        /\ \E c \in retry : /\ \A d \in retry : c.wait <= d.wait
                            /\ c.wait <= deadline
                            /\ nap' = c.wait
        /\ UNCHANGED leftOver
  /\ UNCHANGED <<queueVars, drainVars, controlVars, timer, deadline, historyVars,
                 captureVars>>

ShutdownWakes ==
  /\ closing = "sleeping" /\ nap = 0
  /\ UNCHANGED <<controlVars, deadline, nap, leftOver, delivered, taken, captureVars>>
  /\ FlushCall(pending, overflow, timer, FALSE)
  /\ closing' = IF FlushAnswered THEN "checking" ELSE "flushing"

(***************************************************************************)
(* Unload and persistence                                                  *)
(***************************************************************************)

\* takeAll(): hand every pending item and every retry to the caller.
TakeAll ==
  /\ taken' = taken \cup pending \cup ItemsIn(retry)
  /\ pending' = {} /\ retry' = {}
  /\ timer' = NoTimer
  /\ UNCHANGED <<overflow, stamp, drainVars, controlVars, shutdownVars, delivered,
                 reported, promised, captureVars>>

\* restore(): the snapshot's items go ahead of anything queued now, its
\* chunks become due retries, and the item bound is enforced.
Restore ==
  LET all == stored.pending \cup pending
  IN  /\ stored # NoSnapshot
      /\ stored' = NoSnapshot
      /\ pending' = all \ Excess(all)
      /\ overflow' = overflow \cup Excess(all)
      /\ retry' = retry \cup {[c EXCEPT !.stamp = @ + stamp] : c \in stored.retry}
      /\ stamp' = stamp + Cardinality(stored.retry)
      /\ UNCHANGED <<drainVars, controlVars, timer, shutdownVars, historyVars, captures, captured>>

(***************************************************************************)
(* The specification                                                       *)
(***************************************************************************)
Init ==
  /\ pending = {} /\ overflow = {} /\ retry = {} /\ stamp = 0
  /\ draining = FALSE /\ rerun = FALSE /\ forceNext = FALSE
  /\ work = {} /\ inFlight = {}
  /\ paused = FALSE /\ stopped = FALSE /\ interval = FALSE
  /\ timer = NoTimer
  /\ closing = "no" /\ deadline = 0 /\ nap = 0 /\ leftOver = {}
  /\ delivered = {} /\ reported = {} /\ taken = {} /\ promised = {}
  /\ stored = Stored
  /\ captures = 0
  /\ captured = Stored.pending \cup ItemsIn(Stored.retry)

\* What every client uses: capture, the retry timer, the answers.
Deliver ==
  \/ \E kind \in Captures : Enqueue(kind)
  \/ RetryTimerFires
  \/ SendAccepted
  \/ SendRejected
  \/ SendFailed
  \/ DrainContinues
  \/ Tick

\* flush() called from outside.
FlushCalls == \E force \in BOOLEAN : Flush(force)

\* The periodic flush of a client that lets the queue keep it.
Periodic == Start \/ IntervalFires \/ Stop

\* A client that goes offline and online.
Offline == Pause \/ Resume

\* A client that ends: the loop of shutdown().
Close == Shutdown \/ ShutdownChecks \/ ShutdownWakes

Next ==
  \/ Deliver
  \/ FlushCalls
  \/ Periodic
  \/ Offline
  \/ Close
  \/ TakeAll
  \/ Restore

Spec == Init /\ [][Next]_vars

\* A client that ends.  It sets `closed` before it calls shutdown(): from then
\* on it captures nothing, its unload handler is gone, and so is the listener
\* that pauses and resumes delivery.  It does not call shutdown() while offline.
Closed == closing' # "no" => ~ paused' /\ UNCHANGED <<captured, taken>>

\* A client that flushes, loses and regains the network, unloads and ends, and
\* whose application does not call flush() once it has ended.  It never starts
\* the timers again once they are stopped.
EndNext ==
  \/ (Deliver \/ Close \/ TakeAll) /\ Closed
  \/ closing = "no" /\ (FlushCalls \/ (Start /\ ~ stopped) \/ IntervalFires \/ Stop \/ Offline)

EndSafely == Init /\ [][EndNext]_vars

(***************************************************************************)
(* Properties                                                              *)
(***************************************************************************)
Lost == reported \cup overflow

Waiting ==
  pending \cup stored.pending \cup ItemsIn(retry) \cup ItemsIn(work)
    \cup ItemsIn(inFlight) \cup ItemsIn(stored.retry)

\* Every item that was captured is somewhere: waiting, in a chunk, accepted by
\* the server, handed over by takeAll, or counted as lost.  No move between
\* pending, the drain loop's locals and retry forgets one.
NothingLost == captured = Waiting \cup delivered \cup taken \cup Lost

\* ... and in one place only: an item is never in two chunks, never queued
\* again after the server accepted its chunk, never reported lost and
\* delivered, and never counted in two diagnostics.
Apart(chunks) == \A c, d \in chunks : c # d => c.items \cap d.items = {}

NothingTwice ==
  LET r == ItemsIn(retry)
      w == ItemsIn(work)
      f == ItemsIn(inFlight)
      s == ItemsIn(stored.retry)
  IN  /\ Apart(retry) /\ Apart(work) /\ Apart(inFlight) /\ Apart(stored.retry)
      /\ pending \cap (stored.pending \cup r \cup w \cup f \cup s) = {}
      /\ stored.pending \cap (r \cup w \cup f \cup s) = {}
      /\ r \cap (w \cup f \cup s) = {}
      /\ w \cap (f \cup s) = {}
      /\ f \cap s = {}
      /\ Waiting \cap (delivered \cup taken \cup Lost) = {}
      /\ delivered \cap (taken \cup Lost) = {}
      /\ taken \cap Lost = {}
      /\ reported \cap overflow = {}

\* A chunk is sent at most MaxAttempts times, over its retries, forced
\* flushes, resumes and restarts.
AttemptsBound ==
  /\ \A c \in retry \cup work : c.attempts < MaxAttempts
  /\ \A c \in inFlight : c.attempts <= MaxAttempts

\* The promise of flush() (queue.ts:234-238): when the drain a call started or
\* joined has ended, nothing that was pending at the call is still unsent.
FlushPromise == ~ draining => promised \cap pending = {}

\* Chunks cut together go out in priority order: no first attempt while
\* something of a higher priority from the same cut waits behind it.
SendOrder ==
  \A c \in inFlight, d \in work :
    c.stamp = d.stamp => \A i \in c.items, j \in d.items : Before(i, j)

\* A retry that waits while nothing drains has a timer that fires in time
\* (restore() arms none: its caller flushes).
RetryTimerArmed ==
  ~ draining /\ ~ paused /\ ~ stopped /\ stored = Stored =>
    \A c \in retry : timer # NoTimer /\ timer <= c.wait

\* The items that wait keep to their bound (queue.ts, enforceBound), and the list
\* of retries to its own (constants.ts:24-25), which restore() does not enforce on
\* what it adds.
PendingBounded == Cardinality(pending) <= MaxQueueItems

RetryBounded ==
  Cardinality(retry) <= MaxRetryChunks + Cardinality(Stored.retry \ stored.retry)

WithinBounds == PendingBounded /\ RetryBounded

\* stop() holds: neither a drain that was running nor a later flush arms a
\* timer, so the process can exit.
TimersStayOff == stopped => timer = NoTimer /\ ~ interval

\* When shutdown() returns, everything the application captured was accepted,
\* reported lost or counted as undelivered: the process may exit.
ShutdownAccounts ==
  [][closing # "done" /\ closing' = "done" =>
       captured' \subseteq delivered' \cup taken' \cup reported' \cup leftOver']_vars

\* Every captured item settles: the server accepts it, a diagnostic says it
\* was lost, or takeAll hands it over, unless the queue is stopped first.
EverythingSettles ==
  \A n \in 1 .. MaxCaptures :
    captures >= n ~> stopped \/ \E i \in delivered \cup reported \cup taken : i.id = n

\* shutdown() returns.
ShutdownReturns == closing = "flushing" ~> closing = "done"

\* What the queue promises, without its mechanism.
Promise == INSTANCE TelemetryDelivery
             WITH waiting <- Waiting, accepted <- delivered,
                  lost <- Lost, handed <- taken

KeepsPromise == Promise!Spec

=============================================================================
