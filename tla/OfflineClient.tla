---------------------------- MODULE OfflineClient ----------------------------
(***************************************************************************)
(* The React Native client over launches of its app: the delivery queue,   *)
(* the stored snapshot, the network and the server                         *)
(* (react-native/src/client.ts on core/src/queue.ts; the storage and the   *)
(* server are external).                                                   *)
(*                                                                         *)
(* The client stores a snapshot of pending and retry a while after every   *)
(* change, and after its own flushes; the next launch restores it.  The    *)
(* app may be killed at any moment.  The server ingests a chunk once per   *)
(* idempotency key, and its answer may be lost.                            *)
(*                                                                         *)
(* Abstractions.  DeliveryQueue models the queue in detail; here a round   *)
(* cuts all pending items into one chunk, any part of the retries may be   *)
(* due, and the bounds on items and retries are left out.  The storage     *)
(* does what it is asked in order, as AsyncStorage does.                   *)
(***************************************************************************)
EXTENDS Integers, Sequences, FiniteSets

CONSTANTS
  MaxAttempts,   \* sends of one chunk (LIMITS.MAX_ATTEMPTS)
  MaxCaptures,   \* bound: items captured
  MaxEnds,       \* bound: how often the app ends
  MaxWrites,     \* bound: storage writes that wait
  MaxKeys,       \* bound: chunks cut
  StorageFails   \* the storage may refuse a write

ASSUME ConstantsOK ==
  /\ MaxAttempts \in Nat \ {0}
  /\ {MaxCaptures, MaxEnds, MaxWrites, MaxKeys} \subseteq Nat
  /\ StorageFails \in BOOLEAN

Item == 1 .. MaxCaptures
Key == 1 .. MaxKeys
Chunk == [key : Key, items : SUBSET Item, attempts : 0 .. MaxAttempts]
\* upTo is history: the chunks that were cut when the snapshot was taken.
Snapshot == [pending : SUBSET Item, retry : SUBSET Chunk, upTo : 0 .. MaxKeys]
Empty == [pending |-> {}, retry |-> {}, upTo |-> 0]

VARIABLES
  up,          \* the app runs
  online,      \* what NetInfo last said; the queue is paused when it is FALSE
  closed,      \* shutdown() was called                       (this.closed)
  closing,     \* where shutdown() is
  ahead,       \* while it saves: the storage calls it waits for
  image,       \* what restore() read, until it is restored
  loading,     \* restore() has not ended
  unreadable,  \* ... and getItem or JSON.parse has failed
  persistTimer,\* the debounce timer is set                   (this.persistTimer)
  pending,     \* items not cut yet                           (queue.pending)
  retry,       \* chunks waiting for a retry                  (queue.retry)
  work,        \* chunks of the running round not sent yet    (drain's locals)
  inFlight,    \* the chunk whose send is awaited
  rerun,       \* another round is asked for                  (queue.rerun)
  forceNext,   \* with all retries                            (queue.forceNext)
  awaited,     \* a flush() of the client awaits the drain
  disk,        \* the stored snapshot
  writes,      \* storage calls not executed yet
  wire,        \* requests that were sent: each may reach the server, now or never
  accepted,    \* keys the server accepted
  reported,    \* items lost with a diagnostic
  captures,    \* items captured so far
  keys,        \* chunks cut so far
  ends,        \* how often the app ended
  refused,     \* history: the storage refused the last call that it executed
  missed,      \* history: items that a process left behind when it ended, that
               \* could not be read, or that the snapshot of a shutdown leaves out
  recut        \* history: keys of chunks with items that the snapshot which a
               \* process left behind still calls pending

drainVars   == <<work, inFlight, rerun, forceNext, awaited>>
queueVars   == <<pending, retry, keys>>
clientVars  == <<online, closed, closing, ahead, image, loading, unreadable>>
storeVars   == <<disk, writes, persistTimer, refused>>
historyVars == <<captures, reported, ends, missed, recut>>
vars == <<up, drainVars, queueVars, clientVars, storeVars, wire, accepted, historyVars>>

Closing == {"no", "queue", "saving", "done"}

ItemsIn(chunks) == UNION {c.items : c \in chunks}
SnapshotItems(s) == s.pending \cup ItemsIn(s.retry)

TypeOK ==
  /\ {up, online, closed, loading, unreadable, refused} \subseteq BOOLEAN
  /\ {persistTimer, rerun, forceNext, awaited} \subseteq BOOLEAN
  /\ closing \in Closing
  /\ ahead \in 0 .. MaxWrites /\ (ahead > 0 <=> closing = "saving")
  /\ {image, disk} \subseteq Snapshot
  /\ {pending, reported, missed} \subseteq SUBSET Item
  /\ {retry, work, inFlight, wire} \subseteq SUBSET Chunk
  /\ Cardinality(inFlight) <= 1
  /\ writes \in Seq(Snapshot)
  /\ {accepted, recut} \subseteq SUBSET Key
  /\ <<captures, keys>> \in (0 .. MaxCaptures) \X (0 .. MaxKeys)
  /\ ends \in 0 .. MaxEnds

Draining == inFlight # {}

(***************************************************************************)
(* Storage                                                                 *)
(***************************************************************************)

\* Mutant of TakeSnapshot: chunks are stored as the items in them.
TakeItems(p, r) == [pending |-> p \cup ItemsIn(r), retry |-> {}, upTo |-> keys]

\* snapshot(): what is pending and what waits for a retry, nothing else.
TakeSnapshot(p, r) == [pending |-> p, retry |-> r, upTo |-> keys]

\* persistNow(): the timer is cleared and the snapshot handed to the storage.
PersistNow(p, r) ==
  /\ persistTimer' = FALSE
  /\ Len(writes) < MaxWrites
  /\ writes' = Append(writes, TakeSnapshot(p, r))

\* Mutant of Changed: only a capture schedules a write.
ChangeUnseen == FALSE

\* onChange is called.
Changed == TRUE

\* The storage executes its next call, or refuses it.
WriteLands ==
  /\ writes # <<>>
  /\ writes' = Tail(writes)
  /\ \/ disk' = Head(writes) /\ refused' = FALSE
     \/ StorageFails /\ refused' = TRUE /\ UNCHANGED disk
  /\ ahead' = IF ahead > 0 THEN ahead - 1 ELSE 0
  /\ closing' = IF ahead = 1 THEN "done" ELSE closing
  /\ UNCHANGED <<up, drainVars, queueVars, online, closed, image, loading, unreadable,
                 persistTimer, wire, accepted, historyVars>>

PersistTimerFires ==
  /\ up /\ persistTimer
  /\ PersistNow(pending, retry)
  /\ UNCHANGED <<up, drainVars, queueVars, clientVars, disk, refused, wire,
                 accepted, historyVars>>

(***************************************************************************)
(* The queue: rounds and answers                                           *)
(***************************************************************************)

\* The chunk goes out.
Send(c, rest) ==
  LET sent == [c EXCEPT !.attempts = @ + 1]
  IN  /\ inFlight' = {sent}
      /\ wire' = wire \cup {sent}
      /\ work' = rest

\* newBatchId(): a key no chunk ever had.
FreshKey == keys + 1

\* What a round leaves in retry.
NotDue(r, due) == r \ due

\* A round starts with p pending: the retries that are due and what is pending
\* go out one after the other; with nothing to send the drain ends, and a
\* client that awaits it stores what is left.
Round(p, r, force, waits, timer) ==
  \E due \in SUBSET r :
    LET fresh == IF p = {} THEN {} ELSE {[key |-> FreshKey, items |-> p, attempts |-> 0]}
        all   == due \cup fresh
    IN  /\ force => due = r
        /\ rerun' = FALSE /\ forceNext' = FALSE
        /\ \/ /\ all # {}
              /\ keys < MaxKeys \/ fresh = {}
              /\ keys' = keys + Cardinality(fresh)
              /\ pending' = {} /\ retry' = NotDue(r, due)
              /\ \E c \in all : Send(c, all \ {c})
              /\ awaited' = waits
              /\ persistTimer' = timer
              /\ UNCHANGED writes
           \/ /\ all = {}
              /\ inFlight' = {} /\ work' = {}
              /\ pending' = {} /\ retry' = r
              /\ awaited' = FALSE
              /\ IF waits THEN PersistNow({}, r) ELSE persistTimer' = timer /\ UNCHANGED writes
              /\ UNCHANGED <<keys, wire>>

\* A flush of the queue with p pending and r waiting for a retry; waits says
\* that the client stores a snapshot after it.
FlushCall(p, r, force, waits, timer) ==
  \/ /\ ~ online'
     /\ pending' = p /\ retry' = r
     /\ IF waits THEN PersistNow(p, r) ELSE persistTimer' = timer /\ UNCHANGED writes
     /\ UNCHANGED <<drainVars, keys, wire>>
  \/ /\ online' /\ Draining
     /\ rerun' = TRUE /\ forceNext' = (forceNext \/ force)
     /\ awaited' = (awaited \/ waits)
     /\ pending' = p /\ retry' = r
     /\ persistTimer' = timer
     /\ UNCHANGED <<work, inFlight, keys, wire, writes>>
  \/ /\ online' /\ ~ Draining
     /\ Round(p, r, force, waits, timer)

\* After an answer that leaves r in retry: the next chunk; or onChange, and
\* another round or the end of the drain.
Continue(r) ==
  IF work # {}
    THEN /\ \E c \in work : Send(c, work \ {c})
         /\ retry' = r
         /\ UNCHANGED <<pending, keys, rerun, forceNext, awaited, persistTimer, writes>>
    ELSE LET timer == persistTimer \/ Changed
         IN  IF rerun
               THEN Round(pending, r, forceNext, awaited, timer)
               ELSE /\ inFlight' = {} /\ awaited' = FALSE
                    /\ retry' = r
                    /\ IF awaited THEN PersistNow(pending, r)
                                  ELSE persistTimer' = timer /\ UNCHANGED writes
                    /\ UNCHANGED <<pending, keys, work, rerun, forceNext, wire>>

AnswerUnchanged ==
  UNCHANGED <<up, clientVars, disk, refused, accepted, captures, ends, missed, recut>>

\* The server's answer to a request it ingested, now or before.
Accepted ==
  /\ up
  /\ \E c \in inFlight : c.key \in accepted
  /\ Continue(retry)
  /\ UNCHANGED reported /\ AnswerUnchanged

\* The server rejected the chunk for good.
Rejected ==
  /\ up
  /\ \E c \in inFlight : c.key \notin accepted /\ reported' = reported \cup c.items
  /\ Continue(retry)
  /\ AnswerUnchanged

OutOfAttempts(c) == c.attempts >= MaxAttempts

\* No answer in time, or one that asks for a retry.
Failed ==
  /\ up
  /\ \E c \in inFlight :
       IF OutOfAttempts(c)
         THEN Continue(retry) /\ reported' = reported \cup c.items
         ELSE Continue(retry \cup {c}) /\ UNCHANGED reported
  /\ AnswerUnchanged

\* A request reaches the server, perhaps after the client gave up on it,
\* perhaps as one of several copies.  One that is lost stays on the wire.
ServerReceives ==
  /\ \E c \in wire : accepted' = accepted \cup {c.key}
  /\ UNCHANGED <<up, drainVars, queueVars, clientVars, storeVars, wire, historyVars>>

(***************************************************************************)
(* The client                                                              *)
(***************************************************************************)
CallUnchanged ==
  UNCHANGED <<up, image, loading, unreadable, disk, refused, accepted, reported, ends, recut>>

\* track, captureLog, captureError, the end of a trace: one more item is queued,
\* onChange schedules a write, and a full queue flushes itself.
Capture ==
  /\ up /\ ~ closed /\ captures < MaxCaptures
  /\ captures' = captures + 1
  /\ UNCHANGED <<online, closed, closing, ahead, missed>> /\ CallUnchanged
  /\ \/ FlushCall(pending \cup {captures + 1}, retry, FALSE, FALSE, TRUE)
     \/ /\ pending' = pending \cup {captures + 1}
        /\ persistTimer' = TRUE
        /\ UNCHANGED <<retry, keys, drainVars, wire, writes>>

\* The client's interval and the queue's retry timer.
QueueFlush ==
  /\ up /\ ~ closed
  /\ UNCHANGED <<online, closed, closing, ahead, captures, missed>> /\ CallUnchanged
  /\ FlushCall(pending, retry, FALSE, FALSE, persistTimer)

\* flush() of the application, at any time, or on the way to and from the
\* background.
ClientFlush ==
  /\ up
  /\ UNCHANGED <<online, closed, closing, ahead, captures, missed>> /\ CallUnchanged
  /\ FlushCall(pending, retry, FALSE, TRUE, persistTimer)

\* NetInfo: pause, or resume with every retry.
NetworkChange ==
  /\ up /\ ~ closed
  /\ online' = ~ online
  /\ IF online'
       THEN FlushCall(pending, retry, TRUE, TRUE, persistTimer)
       ELSE UNCHANGED <<queueVars, drainVars, wire, writes, persistTimer>>
  /\ UNCHANGED <<closed, closing, ahead, captures, missed>> /\ CallUnchanged

\* The catch of restore(): what cannot be read is removed, and nobody told.
Unreadable ==
  /\ StorageFails /\ up /\ loading /\ ~ unreadable
  /\ unreadable' = TRUE
  /\ image' = Empty
  /\ missed' = missed \cup SnapshotItems(image)
  /\ Len(writes) < MaxWrites /\ writes' = Append(writes, Empty)
  /\ UNCHANGED <<up, drainVars, queueVars, online, closed, closing, ahead, loading, persistTimer,
                 disk, refused, wire, accepted, captures, reported, ends, recut>>

\* restore() ends: what it read joins the queue, and `ready` flushes, unless
\* the client is closed by then.
Loaded ==
  LET p == image.pending \cup pending
      r == retry \cup image.retry
  IN  /\ up /\ loading
      /\ loading' = FALSE /\ unreadable' = FALSE /\ image' = Empty
      /\ UNCHANGED <<up, online, closed, closing, ahead, disk, refused, accepted, historyVars>>
      /\ IF closed
           THEN /\ pending' = p /\ retry' = r
                /\ UNCHANGED <<keys, drainVars, wire, writes, persistTimer>>
           ELSE FlushCall(p, r, FALSE, TRUE, persistTimer)

\* What a snapshot taken now leaves out: the round that runs, and what is not
\* restored yet.
LeftOut == ItemsIn(work \cup inFlight) \cup SnapshotItems(image)

\* shutdown(): deliver for two seconds when online, then store what is left.
Shutdown ==
  /\ up /\ ~ closed
  /\ closed' = TRUE
  /\ UNCHANGED <<online, captures>> /\ CallUnchanged
  /\ \/ /\ online
        /\ closing' = "queue" /\ ahead' = 0 /\ UNCHANGED missed
        /\ FlushCall(pending, retry, FALSE, FALSE, persistTimer)
     \/ /\ ~ online
        /\ closing' = "saving"
        /\ PersistNow(pending, retry)
        /\ ahead' = Len(writes')
        /\ missed' = missed \cup LeftOut
        /\ UNCHANGED <<queueVars, drainVars, wire>>

\* Mutant of FlushEnded: shutdown does not await the drain.
FlushNotAwaited == TRUE

\* queue.shutdown() awaits the flush it calls.
FlushEnded == ~ Draining

\* queue.shutdown() flushes again when the next retry is due.
ShutdownRetries ==
  /\ up /\ closing = "queue" /\ FlushEnded /\ retry # {}
  /\ UNCHANGED <<online, closed, closing, ahead, captures, missed>> /\ CallUnchanged
  /\ FlushCall(pending, retry, FALSE, FALSE, persistTimer)

\* ... until nothing is left or its time is over.
ShutdownSaves ==
  /\ up /\ closing = "queue" /\ FlushEnded
  /\ closing' = "saving"
  /\ PersistNow(pending, retry)
  /\ ahead' = Len(writes')
  /\ missed' = missed \cup SnapshotItems(image)
  /\ UNCHANGED <<online, closed, captures, queueVars, drainVars, wire>> /\ CallUnchanged

(***************************************************************************)
(* Launches                                                                *)
(***************************************************************************)

\* Chunks cut after the snapshot s with items that s calls pending.
CutSince(s) == {c \in wire : c.key > s.upTo /\ c.items \cap s.pending # {}}

\* The process is gone, and with it everything that is not on the disk.
ProcessEnds ==
  /\ ends < MaxEnds /\ ends' = ends + 1
  /\ up' = FALSE
  /\ online' = TRUE /\ closed' = FALSE /\ closing' = "no" /\ ahead' = 0
  /\ image' = Empty /\ loading' = FALSE /\ unreadable' = FALSE
  /\ missed' = missed \cup ((pending \cup ItemsIn(retry) \cup LeftOut) \ SnapshotItems(disk))
  /\ recut' = recut \cup {c.key : c \in CutSince(disk)}
  /\ pending' = {} /\ retry' = {}
  /\ work' = {} /\ inFlight' = {}
  /\ rerun' = FALSE /\ forceNext' = FALSE /\ awaited' = FALSE
  /\ persistTimer' = FALSE /\ writes' = <<>>
  /\ UNCHANGED <<keys, disk, refused, wire, accepted, captures, reported>>

\* The system or the user kills the app, or it crashes.
Kill == up /\ closing # "done" /\ ProcessEnds

\* The app ends once shutdown() has returned.
Exit == closing = "done" /\ ProcessEnds

\* The constructor: restore() asks the storage.
Launch ==
  /\ ~ up
  /\ up' = TRUE /\ loading' = TRUE /\ image' = disk
  /\ UNCHANGED <<online, closed, closing, ahead, unreadable, drainVars, queueVars, storeVars, wire,
                 accepted, historyVars>>

(***************************************************************************)
(* The specification                                                       *)
(***************************************************************************)
Init ==
  /\ up = FALSE /\ online = TRUE /\ closed = FALSE /\ closing = "no" /\ ahead = 0
  /\ image = Empty /\ loading = FALSE /\ unreadable = FALSE
  /\ pending = {} /\ retry = {} /\ work = {} /\ inFlight = {}
  /\ rerun = FALSE /\ forceNext = FALSE /\ awaited = FALSE
  /\ persistTimer = FALSE /\ writes = <<>> /\ disk = Empty /\ refused = FALSE
  /\ wire = {} /\ accepted = {}
  /\ reported = {} /\ captures = 0 /\ keys = 0 /\ ends = 0
  /\ missed = {} /\ recut = {}

Queue == Capture \/ QueueFlush \/ ClientFlush \/ Accepted \/ Rejected \/ Failed
Store == WriteLands \/ PersistTimerFires \/ Unreadable \/ Loaded
Ending == Shutdown \/ ShutdownRetries \/ ShutdownSaves \/ Exit

Next == Queue \/ Store \/ ServerReceives \/ NetworkChange \/ Ending \/ Kill \/ Launch
Spec == Init /\ [][Next]_vars

(***************************************************************************)
(* Properties                                                              *)
(***************************************************************************)
\* The chunks the server ingested, each once: what it tells apart is the key.
Ingested == {<<c.key, c.items>> : c \in {d \in wire : d.key \in accepted}}
Delivered == UNION {b[2] : b \in Ingested}

\* Of two ingested chunks that share an item, one was cut after the snapshot
\* that a process which was killed left on the disk: not lost answers, retries,
\* late requests, launches, refused writes nor any shutdown make the server count
\* an item twice.  So a restored retry keeps its key and its items
\* (README.md:54); NeverCountedTwice says what the README promises.
NoDoubleIngest ==
  \A b, c \in Ingested : b # c /\ b[2] \cap c[2] # {} => {b[1], c[1]} \cap recut # {}

\* "... so nothing is double-counted" (README.md:54).
NeverCountedTwice == \A b, c \in Ingested : b # c => b[2] \cap c[2] = {}

\* In the process an item is in one place: a restored snapshot, a round that
\* takes retries and a flush that joins it never duplicate one.
OnePlace ==
  LET parts == <<pending, ItemsIn(retry), ItemsIn(work), ItemsIn(inFlight), SnapshotItems(image)>>
  IN  /\ \A m, n \in DOMAIN parts : m # n => parts[m] \cap parts[n] = {}
      /\ \A c, d \in retry \cup work : c # d => c.items \cap d.items = {}

\* Nothing is being sent, stored or waited for.
AtRest == up /\ ~ loading /\ ~ closed /\ ~ Draining /\ ~ persistTimer /\ writes = <<>>

\* At rest, the disk holds exactly what the queue would lose in a crash, unless
\* the storage refused its last call.
DiskUpToDate == AtRest /\ ~ refused => disk.pending = pending /\ disk.retry = retry

\* When shutdown() returns, every item captured until then, by this process and
\* by those before it, is delivered, reported, or in the snapshot that shutdown()
\* stored, if the storage took it; or it is one of those that an ended process
\* had not stored, that could not be read, or that the snapshot leaves out: what
\* was not restored yet, and offline the round that runs.  ShutdownPersists says what client.ts:256
\* promises.
ShutdownStores ==
  [][closing # "done" /\ closing' = "done" /\ ~ refused' =>
       1 .. captures' \subseteq SnapshotItems(disk') \cup Delivered' \cup reported' \cup missed']_vars

\* A step keeps "Stop listeners, attempt delivery, and persist anything left for
\* next launch" (client.ts:256).
ShutdownPersists ==
  closing # "done" /\ closing' = "done" =>
    1 .. captures' \subseteq SnapshotItems(disk') \cup Delivered' \cup reported'

=============================================================================
