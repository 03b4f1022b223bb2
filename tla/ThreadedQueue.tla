---------------------------- MODULE ThreadedQueue ----------------------------
(***************************************************************************)
(* The delivery queues of the SDKs with threads: python/watchup/_queue.py, *)
(* go/queue.go and dotnet/Watchup/DeliveryQueue.cs, with the part of their *)
(* clients that captures, flushes and shuts down.                          *)
(*                                                                         *)
(* Application threads capture and flush while a worker sends in the       *)
(* background and one more thread shuts the client down.  `lock` protects  *)
(* the queue; `drain` is held by the one thread that sends.  The three     *)
(* share this design and differ in how the worker sleeps and stops, in     *)
(* cancellation, and in whether a thread may take `lock` twice: `sdk` says *)
(* which one a behaviour is about.                                         *)
(*                                                                         *)
(* Abstractions.  A section under `lock` is one step: the lock shows only  *)
(* when the application's handler captures inside one.  An item is a       *)
(* number; which items a full queue sheds (by kind), where chunks are cut  *)
(* and in which order they go out are left open: DeliveryQueue has them.   *)
(* Times are kept as what is left of them, and Tick lets one unit pass.    *)
(***************************************************************************)
EXTENDS Integers, FiniteSets

CONSTANTS
  App,             \* application threads
  Sdks,            \* the SDKs looked at
  Reentering,      \* those whose on_diagnostic handler captures
  MaxItems,        \* items in one chunk                 (max_items)
  MaxQueueItems,   \* items in pending                   (max_queue_items)
  MaxAttempts,     \* sends of one chunk                 (max_attempts)
  MaxRetryChunks,  \* chunks waiting for a retry         (MAX_RETRY_CHUNKS)
  MaxDelay,        \* longest backoff or Retry-After     (max_backoff)
  Interval,        \* the worker's period                (flush_interval)
  Timeout,         \* what shutdown is given             (shutdown_timeout)
  MaxCaptures,     \* bound: items captured
  MaxForks         \* bound: forks (Python)

Sdk == {"python", "go", "dotnet"}
Worker == "worker"
Closer == "closer"
Thread == App \cup {Worker, Closer}
None == "none"

ASSUME ConstantsOK ==
  /\ App \cap {Worker, Closer, None} = {}
  /\ Reentering \subseteq Sdks /\ Sdks \subseteq Sdk
  /\ {MaxItems, MaxQueueItems, MaxAttempts, Interval} \subseteq Nat \ {0}
  /\ {MaxRetryChunks, MaxDelay, Timeout, MaxCaptures, MaxForks} \subseteq Nat

Item == 1 .. MaxCaptures
Chunk == [items : SUBSET Item, attempts : Nat, wait : Nat, stamp : Nat]
ItemsIn(chunks) == UNION {c.items : c \in chunks}

VARIABLES
  sdk,       \* which SDK this is
  pc,        \* where each thread is
  hand,      \* the item an application thread captures
  closed,    \* the client refuses captures            (_closed, closed, _disposed)
  stop,      \* the worker is told to stop             (_stop, stop, _loopCts)
  wake,      \* signals to the worker                  (_wake, wake, _wake)
  alarm,     \* time left of the worker's sleep
  stuck,     \* a thread waits for the lock it holds
  pending,   \* items not cut yet                      (_pending)
  overflow,  \* items shed, not reported yet           (_overflow)
  retry,     \* chunks waiting for a retry             (_retry)
  stamp,     \* numbers the chunks of retry
  drainer,   \* who holds the drain lock               (_drain_lock, drainMu, _drain)
  work,      \* its chunks not sent yet                (flush's due + fresh)
  inFlight,  \* the chunk it sends
  deadline,  \* time left for shutdown
  nap,       \* time left of its sleep
  leftOver,  \* items shutdown counted as undelivered
  promised,  \* history: what a thread's flush or shutdown is to settle
  delivered, \* history: items the server accepted
  reported,  \* history: items lost with a diagnostic
  taken,     \* history: items a fork left to the parent
  captures, forks

queueVars   == <<pending, overflow, retry, stamp>>
drainVars   == <<drainer, work, inFlight>>
workerVars  == <<stop, wake, alarm>>
closerVars  == <<deadline, nap, leftOver>>
historyVars == <<promised, delivered, reported, taken>>
boundVars   == <<captures, forks>>
vars == <<sdk, pc, hand, closed, stuck, queueVars, drainVars, workerVars, closerVars,
          historyVars, boundVars>>

AppPc    == {"idle", "capturing", "flushing"}
WorkerPc == {"looping", "sleeping", "flushing", "gone"}
CloserPc == {"idle", "joining", "flushing", "checking", "sleeping", "counting", "done"}

TypeOK ==
  /\ sdk \in Sdks
  /\ pc \in [Thread -> AppPc \cup WorkerPc \cup CloserPc]
  /\ (\A t \in App : pc[t] \in AppPc) /\ pc[Worker] \in WorkerPc /\ pc[Closer] \in CloserPc
  /\ hand \in [App -> SUBSET Item] /\ promised \in [Thread -> SUBSET Item]
  /\ {closed, stop, stuck} \subseteq BOOLEAN
  /\ {wake, alarm, stamp, deadline, nap, captures, forks} \subseteq Nat
  /\ {pending, overflow, leftOver, delivered, reported, taken} \subseteq SUBSET Item
  /\ {retry, work, inFlight} \subseteq SUBSET Chunk
  /\ drainer \in Thread \cup {None}

Goes(t, place) == pc' = [pc EXCEPT ![t] = place]

(***************************************************************************)
(* Captures                                                                *)
(***************************************************************************)

\* _wake.set() and a send on a channel of one are one signal, however often
\* they are repeated; a semaphore counts.
Signalled == IF sdk = "dotnet" THEN wake + 1 ELSE 1

\* Mutant of Bounded: what is shed is not counted.
BoundedSilently(all, kept, shed) ==
  /\ kept \subseteq all /\ shed = {}
  /\ Cardinality(all \ kept) = IF Cardinality(all) > MaxQueueItems
                                 THEN Cardinality(all) - MaxQueueItems ELSE 0

\* _enforce_bound: the excess is shed.
Bounded(all, kept, shed) ==
  /\ kept \subseteq all /\ shed = all \ kept
  /\ Cardinality(shed) = IF Cardinality(all) > MaxQueueItems
                           THEN Cardinality(all) - MaxQueueItems ELSE 0

\* track(): the client is open; the item is made.
CaptureBegins(t) ==
  /\ pc[t] = "idle" /\ ~ closed /\ captures < MaxCaptures
  /\ captures' = captures + 1
  /\ hand' = [hand EXCEPT ![t] = {captures + 1}]
  /\ Goes(t, "capturing")
  /\ UNCHANGED <<sdk, closed, stuck, queueVars, drainVars, workerVars, closerVars,
                 historyVars, forks>>

\* enqueue(): the item joins the queue.  A chunk's worth of items wakes the
\* worker; their bytes, or errors among them, may do so earlier.
CaptureEnds(t) ==
  LET all == pending \cup hand[t]
  IN  /\ pc[t] = "capturing" /\ ~ stuck
      /\ \E kept, shed \in SUBSET all :
           /\ Bounded(all, kept, shed)
           /\ pending' = kept /\ overflow' = overflow \cup shed
           /\ \/ wake' = Signalled
              \/ Cardinality(kept) < MaxItems /\ UNCHANGED wake
      /\ hand' = [hand EXCEPT ![t] = {}]
      /\ Goes(t, "idle")
      /\ UNCHANGED <<sdk, closed, stuck, retry, stamp, drainVars, stop, alarm, closerVars,
                     historyVars, boundVars>>

(***************************************************************************)
(* flush                                                                   *)
(***************************************************************************)

\* flush() of the application.
FlushCalled(t) ==
  /\ pc[t] = "idle"
  /\ Goes(t, "flushing")
  /\ promised' = [promised EXCEPT ![t] = pending]
  /\ UNCHANGED <<sdk, hand, closed, stuck, queueVars, drainVars, workerVars, closerVars,
                 delivered, reported, taken, boundVars>>

\* Every way to cut p into chunks.
Cuts(p) ==
  {{[items |-> s, attempts |-> 0, wait |-> 0, stamp |-> 0] : s \in P} :
   P \in {Q \in SUBSET (SUBSET p \ {{}}) :
            /\ UNION Q = p
            /\ \A s \in Q : Cardinality(s) <= MaxItems
            /\ \A s, u \in Q : s # u => s \cap u = {}}}

\* The drain lock is free.
DrainFree == drainer = None

\* Mutants: of Due, retries are left for a forced flush; of NotDue, a chunk
\* that is taken stays in the list.
DueWhenForced == {}
AllKept == retry

Due == {c \in retry : c.wait = 0}
NotDue == retry \ Due

\* The application's handler captures while the thread reports with `lock` held:
\* a Python Lock or a Go Mutex cannot be taken again, and the thread waits for
\* itself.  A .NET monitor can: the item joins the queue as any other.
HandlerBlocks == sdk \in Reentering \ {"dotnet"} /\ ~ closed

\* In .NET the worker's flush ends when it is cancelled before it has the lock.
Flushes(t) ==
  /\ pc[t] = "flushing" /\ drainer # t /\ ~ stuck
  /\ ~ (sdk = "dotnet" /\ t = Worker /\ stop)

\* The thread gets the drain lock and, with `lock`, reports what was shed, takes
\* the retries that are due and cuts what is pending.
FlushStarts(t) ==
  /\ Flushes(t) /\ DrainFree
  /\ drainer' = t
  /\ reported' = reported \cup overflow /\ overflow' = {}
  /\ \/ /\ HandlerBlocks /\ overflow # {}
        /\ stuck' = TRUE
        /\ UNCHANGED <<pending, retry, stamp, work>>
     \/ /\ ~ HandlerBlocks \/ overflow = {}
        /\ \E fresh \in Cuts(pending) : work' = Due \cup fresh
        /\ retry' = NotDue
        /\ stamp' = IF retry' = {} THEN 0 ELSE stamp
        /\ pending' = {}
        /\ UNCHANGED stuck
  /\ UNCHANGED <<sdk, pc, hand, closed, inFlight, workerVars, closerVars, promised, delivered,
                 taken, boundVars>>

\* The next chunk goes out.
SendStarts ==
  /\ drainer # None /\ ~ stuck /\ inFlight = {}
  /\ \E c \in work : /\ inFlight' = {[c EXCEPT !.attempts = @ + 1]}
                     /\ work' = work \ {c}
  /\ UNCHANGED <<sdk, pc, hand, closed, stuck, queueVars, drainer, workerVars, closerVars,
                 historyVars, boundVars>>

\* The token or context of the send is cancelled: the loop's in .NET, the one
\* given to Close in Go.  (That of .NET's shutdown outlives the deadline by a
\* millisecond, so an answer may still come.)
Cancelled ==
  \/ sdk = "dotnet" /\ drainer = Worker /\ stop
  \/ sdk = "go" /\ drainer = Closer /\ deadline = 0

AnswerUnchanged == UNCHANGED <<sdk, pc, hand, closed, pending, overflow, drainer, work, stop,
                               alarm, closerVars, promised, taken, boundVars>>

SendAccepted ==
  /\ inFlight # {} /\ ~ Cancelled
  /\ delivered' = delivered \cup ItemsIn(inFlight)
  /\ inFlight' = {}
  /\ AnswerUnchanged /\ UNCHANGED <<stuck, retry, stamp, wake, reported>>

\* A status that is not worth a retry.
SendRejected ==
  /\ inFlight # {} /\ ~ Cancelled
  /\ reported' = reported \cup ItemsIn(inFlight)
  /\ inFlight' = {}
  /\ AnswerUnchanged /\ UNCHANGED <<stuck, retry, stamp, wake, delivered>>

\* Mutant of RetrySignal: an added retry does not wake the worker.
RetrySilent == wake

OutOfAttempts(c) == c.attempts >= MaxAttempts

\* The oldest chunks of a list of retries that is too long.
Surplus(r) ==
  {c \in r : Cardinality({d \in r : d.stamp < c.stamp}) < Cardinality(r) - MaxRetryChunks}

\* Python and .NET wake the worker, whose sleep may be too long for the new
\* retry; in Go it sees it when its ticker fires.
RetrySignal == IF sdk = "go" THEN wake ELSE Signalled

\* No answer, or one worth a retry.  What the list has no room for is reported
\* with `lock` held, too.  (The handler runs after the other reports as well,
\* with no lock: its capture is then as one of any other thread.)
SendFailed ==
  \E c \in inFlight :
    /\ inFlight' = {}
    /\ AnswerUnchanged /\ UNCHANGED delivered
    /\ \/ /\ OutOfAttempts(c)
          /\ reported' = reported \cup c.items
          /\ UNCHANGED <<stuck, retry, stamp, wake>>
       \/ /\ ~ OutOfAttempts(c)
          /\ \E delay \in 0 .. MaxDelay :
               LET grown == retry \cup {[c EXCEPT !.wait = delay, !.stamp = stamp + 1]}
               IN  /\ retry' = grown \ Surplus(grown)
                   /\ reported' = reported \cup ItemsIn(Surplus(grown))
                   /\ stuck' = (HandlerBlocks /\ Surplus(grown) # {})
          /\ stamp' = stamp + 1
          /\ wake' = RetrySignal

\* Mutant of RoundOver: the drain lock is released between two chunks.
RoundHalfOver == inFlight = {}

\* Every chunk of the round was sent.
RoundOver == work = {} /\ inFlight = {}

\* The thread releases the drain lock, and flush() returns.
FlushEnds(t) ==
  /\ drainer = t /\ ~ stuck /\ RoundOver
  /\ drainer' = None
  /\ Goes(t, IF t \in App THEN "idle" ELSE IF t = Worker THEN "looping" ELSE "checking")
  /\ promised' = IF t \in App THEN [promised EXCEPT ![t] = {}] ELSE promised
  /\ UNCHANGED <<sdk, hand, closed, stuck, queueVars, work, inFlight, workerVars, closerVars,
                 delivered, reported, taken, boundVars>>

(***************************************************************************)
(* The worker                                                              *)
(***************************************************************************)

WorkerUnchanged == UNCHANGED <<sdk, hand, closed, stop, stuck, queueVars, drainVars, closerVars,
                               historyVars, boundVars>>

\* The soonest retry, or no later than at.
Soonest(at) == CHOOSE w \in 0 .. at : /\ \A c \in retry : w <= c.wait
                                      /\ w = at \/ \E c \in retry : w = c.wait

\* Mutant of SeesStop: the worker does not look.
MissesStop == FALSE

SeesStop == stop

\* The top of the loop.  Go looks at the stop channel only when it waits, and
\* its ticker keeps its own time.
WorkerLooks ==
  /\ pc[Worker] = "looping" /\ ~ stuck
  /\ \/ /\ SeesStop /\ sdk # "go"
        /\ Goes(Worker, "gone")
        /\ UNCHANGED alarm
     \/ /\ ~ SeesStop \/ sdk = "go"
        /\ Goes(Worker, "sleeping")
        /\ \E w \in 0 .. Soonest(Interval) :
             /\ sdk # "go" => w = Soonest(Interval)
             /\ alarm' = w
  /\ UNCHANGED wake /\ WorkerUnchanged

\* The sleep ends with a signal or with the time.  Go takes any of its channels
\* that are ready; .NET a signal if there is one.
WorkerWakes ==
  /\ pc[Worker] = "sleeping"
  /\ SeesStop => sdk = "go"
  /\ \/ wake > 0 /\ wake' = IF sdk = "dotnet" THEN wake - 1 ELSE 0
     \/ alarm = 0 /\ (sdk = "go" \/ wake = 0) /\ UNCHANGED wake
  /\ alarm' = 0
  /\ Goes(Worker, "flushing")
  /\ WorkerUnchanged

\* ... or with the order to stop, at which Python looks when something else
\* has ended the sleep.
WorkerStops ==
  /\ pc[Worker] = "sleeping" /\ SeesStop
  /\ sdk = "python" => wake > 0 \/ alarm = 0
  /\ wake' = IF sdk = "python" THEN 0 ELSE wake
  /\ alarm' = 0
  /\ Goes(Worker, "gone")
  /\ WorkerUnchanged

\* .NET: the wait for the drain lock is cancelled.
WorkerCancelled ==
  /\ sdk = "dotnet" /\ pc[Worker] = "flushing" /\ drainer # Worker /\ SeesStop
  /\ Goes(Worker, "gone")
  /\ UNCHANGED <<wake, alarm>> /\ WorkerUnchanged

(***************************************************************************)
(* Shutdown                                                                *)
(***************************************************************************)

\* shutdown(), Close(), DisposeAsync(): captures are refused from here on, and
\* the worker is told to stop.  Python goes on at once, the others wait for it.
ShutdownCalled ==
  /\ pc[Closer] = "idle"
  /\ closed' = TRUE /\ stop' = TRUE
  /\ wake' = IF sdk = "python" THEN 1 ELSE wake
  /\ Goes(Closer, IF sdk = "python" THEN "flushing" ELSE "joining")
  /\ deadline' = Timeout
  /\ promised' = [promised EXCEPT ![Closer] =
                    pending \cup overflow \cup ItemsIn(retry \cup work \cup inFlight)]
  /\ UNCHANGED <<sdk, hand, stuck, queueVars, drainVars, alarm, nap, leftOver, delivered,
                 reported, taken, boundVars>>

CloserUnchanged == UNCHANGED <<sdk, hand, closed, stuck, queueVars, drainVars, workerVars,
                               historyVars, boundVars>>

\* Mutant of WorkerGone: shutdown does not wait for the worker it stopped.
WorkerTold == stop

WorkerGone == pc[Worker] = "gone"

\* .NET makes its deadline only now.
WorkerJoined ==
  /\ pc[Closer] = "joining" /\ WorkerGone
  /\ Goes(Closer, "flushing")
  /\ deadline' = IF sdk = "dotnet" THEN Timeout ELSE deadline
  /\ UNCHANGED <<nap, leftOver>> /\ CloserUnchanged

\* .NET: the deadline comes while shutdown waits for the drain lock.
ShutdownGivesUp ==
  /\ sdk = "dotnet" /\ pc[Closer] = "flushing" /\ drainer # Closer /\ deadline = 0
  /\ Goes(Closer, "counting")
  /\ UNCHANGED closerVars /\ CloserUnchanged

\* Shutdown waits for the next retry when that comes before the deadline.
ShutdownChecks ==
  LET next == Soonest(MaxDelay)
  IN  /\ pc[Closer] = "checking" /\ ~ stuck
      /\ \/ /\ retry = {} \/ next > deadline \/ deadline = 0
            /\ Goes(Closer, "counting")
            /\ UNCHANGED nap
         \/ /\ retry # {} /\ next <= deadline
            /\ Goes(Closer, "sleeping")
            /\ nap' = next
      /\ UNCHANGED <<deadline, leftOver>> /\ CloserUnchanged

\* In Go the end of the context ends the sleep, too.
ShutdownWakes ==
  /\ pc[Closer] = "sleeping"
  /\ \/ nap = 0 /\ Goes(Closer, "flushing")
     \/ sdk = "go" /\ deadline = 0 /\ Goes(Closer, "counting")
  /\ nap' = 0
  /\ UNCHANGED <<deadline, leftOver>> /\ CloserUnchanged

\* Shutdown returns how much is left.
ShutdownCounts ==
  /\ pc[Closer] = "counting" /\ ~ stuck
  /\ leftOver' = pending \cup ItemsIn(retry)
  /\ Goes(Closer, "done")
  /\ UNCHANGED <<deadline, nap>> /\ CloserUnchanged

(***************************************************************************)
(* Time and forks                                                          *)
(***************************************************************************)

Later(n) == IF n = 0 THEN 0 ELSE n - 1

\* One unit of time.
Tick ==
  /\ \/ \E n \in {alarm, nap, deadline} : n > 0
     \/ \E c \in retry : c.wait > 0
  /\ retry' = {[c EXCEPT !.wait = Later(@)] : c \in retry}
  /\ alarm' = Later(alarm) /\ nap' = Later(nap) /\ deadline' = Later(deadline)
  /\ UNCHANGED <<sdk, pc, hand, closed, stop, wake, stuck, pending, overflow, stamp, drainVars,
                 leftOver, historyVars, boundVars>>

\* _after_fork_in_child: a thread between two calls forks, and the behaviour
\* goes on in the child.  That has no other thread, and leaves the items to the
\* parent; the ones shed stay counted in both.
Fork(t) ==
  /\ sdk = "python" /\ forks < MaxForks
  /\ pc[t] = "idle" /\ pc[Closer] = "idle"
  /\ forks' = forks + 1
  /\ taken' = taken \cup pending \cup ItemsIn(retry \cup work \cup inFlight)
                    \cup UNION {hand[u] : u \in App}
  /\ pc' = [u \in Thread |-> IF u = Worker THEN "looping" ELSE "idle"]
  /\ hand' = [u \in App |-> {}] /\ promised' = [u \in Thread |-> {}]
  /\ pending' = {} /\ retry' = {} /\ stamp' = 0
  /\ drainer' = None /\ work' = {} /\ inFlight' = {}
  /\ wake' = 0 /\ alarm' = 0 /\ stuck' = FALSE
  /\ UNCHANGED <<sdk, closed, stop, overflow, closerVars, delivered, reported, captures>>

(***************************************************************************)
(* The specification                                                       *)
(***************************************************************************)
Init ==
  /\ sdk \in Sdks
  /\ pc = [t \in Thread |-> IF t = Worker THEN "looping" ELSE "idle"]
  /\ hand = [t \in App |-> {}] /\ promised = [t \in Thread |-> {}]
  /\ closed = FALSE /\ stop = FALSE /\ stuck = FALSE
  /\ wake = 0 /\ alarm = 0 /\ deadline = 0 /\ nap = 0 /\ leftOver = {}
  /\ pending = {} /\ overflow = {} /\ retry = {} /\ stamp = 0
  /\ drainer = None /\ work = {} /\ inFlight = {}
  /\ delivered = {} /\ reported = {} /\ taken = {}
  /\ captures = 0 /\ forks = 0

Answer == SendAccepted \/ SendRejected \/ SendFailed
WorkerRuns == WorkerLooks \/ WorkerWakes \/ WorkerStops \/ WorkerCancelled
CloserRuns == WorkerJoined \/ ShutdownGivesUp \/ ShutdownChecks \/ ShutdownWakes \/ ShutdownCounts

Next ==
  \/ \E t \in App : CaptureBegins(t) \/ CaptureEnds(t) \/ FlushCalled(t) \/ Fork(t)
  \/ \E t \in Thread : FlushStarts(t) \/ FlushEnds(t)
  \/ SendStarts \/ Answer \/ WorkerRuns \/ ShutdownCalled \/ CloserRuns \/ Tick

\* Threads that can run do, a send is answered or times out, time passes, and a
\* thread that waits for the drain lock gets it when it is released again and
\* again: a Go mutex and a .NET semaphore queue their waiters, and in Python the
\* worker sleeps between two rounds.  A Go select takes each channel that is ready
\* with the same probability, so the worker does not miss the stop channel for ever.
Fairness ==
  /\ \A t \in App : WF_vars(CaptureEnds(t))
  /\ \A t \in Thread : SF_vars(FlushStarts(t)) /\ WF_vars(FlushEnds(t))
  /\ WF_vars(SendStarts) /\ WF_vars(Answer) /\ WF_vars(Tick)
  /\ WF_vars(WorkerRuns) /\ SF_vars(WorkerStops) /\ WF_vars(CloserRuns)

Spec == Init /\ [][Next]_vars
FairSpec == Spec /\ Fairness

(***************************************************************************)
(* Properties                                                              *)
(***************************************************************************)
InHand == UNION {hand[t] : t \in App}
InDrain == ItemsIn(work \cup inFlight)
Settled == delivered \cup reported \cup taken

\* No item vanishes: whatever threads, failures, full queues, shutdowns and
\* forks do, it is on its way, in the queue, delivered, reported or the parent's.
NothingLost ==
  1 .. captures = InHand \cup pending \cup overflow \cup ItemsIn(retry) \cup InDrain \cup Settled

\* "An item moves from the pending queue into exactly one chunk"
\* (spec/README.md:149), and what is delivered, reported or left to the parent
\* is never sent again.
NothingTwice ==
  LET parts == <<InHand, pending, overflow, ItemsIn(retry), ItemsIn(work), ItemsIn(inFlight),
                 Settled>>
      chunks == retry \cup work \cup inFlight
  IN  /\ \A m, n \in DOMAIN parts : m # n => parts[m] \cap parts[n] = {}
      /\ \A c, d \in chunks : c # d => c.items \cap d.items = {}
      /\ delivered \cap (reported \cup taken) = {} /\ reported \cap taken = {}

\* The account of every item: each is in one place, and in one only.
ItemsOnce == NothingLost /\ NothingTwice

\* No chunk is sent more than MaxAttempts times.
AttemptsBound == \A c \in retry \cup work \cup inFlight : c.attempts <= MaxAttempts

\* When flush() returns, every item queued before the call has been attempted,
\* by whichever thread (_queue.py:5-7).
FlushPromise ==
  [][\A t \in App : FlushEnds(t) =>
       promised[t] \cap (pending \cup ItemsIn(work \cup inFlight)) = {}]_vars

\* The worker never sleeps past a retry, also one that another thread's flush
\* added while it slept.  (Go's worker may, by one interval: queue.go:284-292
\* signals nothing.)
WorkerNoticesRetry ==
  sdk # "go" /\ pc[Worker] = "sleeping" /\ ~ stop /\ wake = 0 =>
    \A c \in retry : alarm <= c.wait

\* What was in the queue when shutdown was called is, when it returns, delivered,
\* reported or counted as left over, unless a thread is sending it that shutdown
\* does not wait for: one of the application's or Python's own worker, which
\* may start a round after shutdown's.  Only .NET can give up before its first
\* round, and then does not report what was shed.
ShutdownAccounts ==
  [][ShutdownCounts =>
       LET open == promised[Closer] \ (Settled \cup leftOver')
           unwaited == App \cup (IF sdk = "python" THEN {Worker} ELSE {})
       IN  /\ open \subseteq (IF drainer \in unwaited THEN InDrain ELSE {})
                             \cup (IF sdk = "dotnet" /\ deadline = 0 THEN overflow ELSE {})
           /\ promised[Closer] \cap pending = {} \/ (sdk = "dotnet" /\ deadline = 0)]_vars

\* What the SDK promises for every item captured, as TelemetryDelivery states it:
\* it waits until it settles, once.  What a full queue sheds is lost when it is
\* shed, and reported later; what a fork leaves to the parent is handed over.
Waiting == InHand \cup pending \cup ItemsIn(retry) \cup InDrain
Lost == overflow \cup reported

Promise == INSTANCE TelemetryDelivery
             WITH captured <- 1 .. captures, waiting <- Waiting, accepted <- delivered,
                  lost <- Lost, handed <- taken

KeepsPromise == Promise!Spec

\* The SDK keeps its promise for the items, and what flush() and shutdown() tell
\* their callers is so when they return.
PromisesKept == KeepsPromise /\ FlushPromise /\ ShutdownAccounts

\* Shutdown returns: no worker, no lock and no retry keeps it.
ShutdownReturns == pc[Closer] # "idle" ~> pc[Closer] = "done"

\* While the client is open every item captured is in the end delivered,
\* reported or its parent's: none waits in the queue for ever.
EverythingSettles == \A i \in Item : captures >= i ~> i \in Settled \/ closed

\* track() returns, on every thread (_queue.py:4, queue.go:3).
CaptureReturns == \A t \in App : pc[t] = "capturing" ~> pc[t] # "capturing"

=============================================================================
