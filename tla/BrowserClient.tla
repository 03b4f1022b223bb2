---------------------------- MODULE BrowserClient ----------------------------
(***************************************************************************)
(* The browser client over the pages of a site: the delivery queue of each *)
(* page, what happens when a page is hidden or left, the list of chunks    *)
(* the pages share in localStorage, and the server                         *)
(* (browser/src/watchup.ts and unsent.ts on core/src/queue.ts; the browser *)
(* and the server are external).                                           *)
(*                                                                         *)
(* A page that is hidden or left takes everything out of its queue and     *)
(* hands it to sendBeacon.  What the browser refuses is stored, and        *)
(* fetched as well in case the page survives.  The next page that loads or *)
(* is shown takes the stored chunks and sends them again, with their keys. *)
(* A beacon has no answer; the server ingests a chunk once per key.        *)
(*                                                                         *)
(* Abstractions.  DeliveryQueue models the queue in detail; here a round   *)
(* cuts all pending items into one chunk, any part of the retries may be   *)
(* due, and the bounds on items and retries are left out.  A handler is    *)
(* one step, its storage calls included, though other pages run beside it. *)
(* The list's byte limit is a number of chunks, at least one: a chunk is   *)
(* never larger than the limit, so saveUnsent never answers FALSE and the  *)
(* diagnostic for that answer (watchup.ts:494) is left out.  A server that *)
(* rejects a chunk rejects every copy of it.                               *)
(***************************************************************************)
EXTENDS Integers, Sequences, FiniteSets, SequencesExt

CONSTANTS
  Tab,           \* the tabs a site is open in
  MaxAttempts,   \* sends of one chunk         (LIMITS.MAX_ATTEMPTS)
  MaxStored,     \* chunks localStorage keeps  (MAX_STORED_BYTES)
  StorageFails,  \* localStorage may be full or blocked
  MaxCaptures,   \* bound: items captured
  MaxKeys,       \* bound: chunks cut
  MaxLoads       \* bound: pages loaded

ASSUME ConstantsOK ==
  /\ {MaxAttempts, MaxStored} \subseteq Nat \ {0}
  /\ {MaxCaptures, MaxKeys, MaxLoads} \subseteq Nat
  /\ StorageFails \in BOOLEAN

Item == 1 .. MaxCaptures
Key == 1 .. MaxKeys
Chunk == [key : Key, items : SUBSET Item, attempts : 0 .. MaxAttempts]
Request == [key : Key, items : SUBSET Item]
Queue == [pending : SUBSET Item, retry : SUBSET Chunk, work : SUBSET Chunk,
          sending : SUBSET Chunk, rerun : BOOLEAN]
Empty == [pending |-> {}, retry |-> {}, work |-> {}, sending |-> {}, rerun |-> FALSE]

VARIABLES
  page,      \* a tab's page: gone, shown or hidden
  closing,   \* where its client's shutdown() is   (closed)
  queue,     \* its client's delivery queue; `sending` is the send awaited
  fetching,  \* keys of its unload fetches that have no answer yet
  unsent,    \* the stored list                    (__wup_unsent_v1)
  wire,      \* requests that were sent: each may reach the server, now or never
  accepted,  \* keys the server accepted
  rejected,  \* keys the server rejected
  captures,  \* items captured so far
  keys,      \* chunks cut so far
  loads,     \* pages loaded so far
  reported,  \* history: items lost with a diagnostic
  released,  \* history: items the browser took as a beacon, the list's limit
             \* pushed out, the storage refused, or a page still had when it ended
  sends      \* history: how often queues sent each chunk

clientVars  == <<page, closing, fetching, loads>>
serverVars  == <<accepted, rejected>>
vars == <<clientVars, queue, unsent, wire, serverVars, captures, keys, reported,
          released, sends>>

ItemsIn(chunks) == UNION {c.items : c \in chunks}
KeysIn(chunks) == {c.key : c \in chunks}
Requests(chunks) == {[key |-> c.key, items |-> c.items] : c \in chunks}

\* Everything a queue holds, and what of it the drain loop holds.
Draining(q) == q.work \cup q.sending
QueueItems(q) == q.pending \cup ItemsIn(q.retry \cup Draining(q))

TypeOK ==
  /\ page \in [Tab -> {"gone", "shown", "hidden"}]
  /\ closing \in [Tab -> {"no", "flushing", "done"}]
  /\ queue \in [Tab -> Queue]
  /\ \A t \in Tab : Cardinality(queue[t].sending) <= 1
  /\ \A t \in Tab : queue[t].sending = {} => queue[t].work = {} /\ ~ queue[t].rerun
  /\ fetching \in [Tab -> SUBSET Key]
  /\ unsent \in Seq(Chunk) /\ Len(unsent) <= MaxStored
  /\ wire \subseteq Request
  /\ {accepted, rejected} \subseteq SUBSET Key
  /\ sends \in [Key -> Nat]
  /\ <<captures, keys, loads>> \in (0 .. MaxCaptures) \X (0 .. MaxKeys) \X (0 .. MaxLoads)
  /\ {reported, released} \subseteq SUBSET Item

(***************************************************************************)
(* The queue of a page                                                     *)
(***************************************************************************)

\* cut(): all that is pending becomes a chunk with a key no chunk ever had.
Cut(p) == IF p = {} THEN {} ELSE {[key |-> keys + 1, items |-> p, attempts |-> 0]}

CutUsed(p) ==
  /\ keys < MaxKeys \/ p = {}
  /\ keys' = keys + Cardinality(Cut(p))

\* The page's queue becomes q; what it sends goes out.
Becomes(t, q) ==
  LET out == q.sending \ queue[t].sending
  IN  /\ queue' = [queue EXCEPT ![t] = q]
      /\ wire' = wire \cup Requests(out)
      /\ sends' = [k \in Key |-> sends[k] + IF k \in KeysIn(out) THEN 1 ELSE 0]

\* The queue q after c of its chunks, the next of `chunks`, went out.
Sending(q, c, chunks) ==
  [q EXCEPT !.sending = {[c EXCEPT !.attempts = @ + 1]}, !.work = chunks \ {c}]

\* A round: the retries that are due and what is pending are sent one by one.
Round(t, q) ==
  /\ CutUsed(q.pending)
  /\ \E due \in SUBSET q.retry :
       LET all  == due \cup Cut(q.pending)
           left == [q EXCEPT !.pending = {}, !.retry = @ \ due, !.rerun = FALSE]
       IN  \/ all = {} /\ Becomes(t, left)
           \/ \E c \in all : Becomes(t, Sending(left, c, all))

\* flush(): join the drain that runs, or start one.
FlushCall(t, q) ==
  IF q.sending # {}
    THEN Becomes(t, [q EXCEPT !.rerun = TRUE]) /\ UNCHANGED keys
    ELSE Round(t, q)

\* After an answer, which left the queue as q: the next chunk, another round,
\* or the end of the drain.
Continue(t, q) ==
  \/ \E c \in q.work : Becomes(t, Sending(q, c, q.work)) /\ UNCHANGED keys
  \/ q.work = {} /\ q.rerun /\ Round(t, q)
  \/ q.work = {} /\ ~ q.rerun /\ Becomes(t, q) /\ UNCHANGED keys

Answered(t) == [queue[t] EXCEPT !.sending = {}]

AnswerUnchanged ==
  UNCHANGED <<clientVars, unsent, serverVars, captures, released>>

Accepted(t) ==
  /\ \E c \in queue[t].sending : c.key \in accepted
  /\ Continue(t, Answered(t))
  /\ UNCHANGED reported /\ AnswerUnchanged

Rejected(t) ==
  /\ \E c \in queue[t].sending : c.key \in rejected /\ reported' = reported \cup c.items
  /\ Continue(t, Answered(t))
  /\ AnswerUnchanged

OutOfAttempts(c) == c.attempts >= MaxAttempts

\* No answer, a network error, or a status that asks for a retry.
Failed(t) ==
  /\ \E c \in queue[t].sending :
       IF OutOfAttempts(c)
         THEN Continue(t, Answered(t)) /\ reported' = reported \cup c.items
         ELSE /\ Continue(t, [Answered(t) EXCEPT !.retry = @ \cup {c}])
              /\ UNCHANGED reported
  /\ AnswerUnchanged

\* captureError, captureLog, the end of a trace: one more item is queued, and a full
\* queue flushes itself.  An error seen before and a log below the level queue nothing.
Capture(t) ==
  /\ page[t] # "gone" /\ closing[t] = "no" /\ captures < MaxCaptures
  /\ captures' = captures + 1
  /\ LET q == [queue[t] EXCEPT !.pending = @ \cup {captures + 1}]
     IN  FlushCall(t, q) \/ (Becomes(t, q) /\ UNCHANGED keys)
  /\ UNCHANGED <<clientVars, unsent, serverVars, reported, released>>

\* The client's interval, the queue's retry timer, flush() of the application.
Flush(t) ==
  /\ page[t] # "gone" /\ closing[t] = "no"
  /\ FlushCall(t, queue[t])
  /\ UNCHANGED <<clientVars, unsent, serverVars, captures, reported, released>>

(***************************************************************************)
(* Hidden, left, shown and loaded pages                                    *)
(***************************************************************************)

\* The entries of a list whose key is not one of `gone`, in their order.
Without(list, gone) ==
  LET kept == {n \in DOMAIN list : list[n].key \notin gone}
      place(m) == CHOOSE n \in kept : Cardinality({k \in kept : k <= n}) = m
  IN  [m \in 1 .. Cardinality(kept) |-> list[place(m)]]

\* saveUnsent() of one chunk after the other: each replaces the entry of its
\* key, and the limit pushes the oldest out.
Saved(list, order) ==
  LET all == Without(list, KeysIn(ToSet(order))) \o order
  IN  SubSeq(all, IF Len(all) > MaxStored THEN Len(all) - MaxStored + 1 ELSE 1, Len(all))

\* takeAll(): the retries and what is pending.  The drain's chunks stay.
Taken(q) == q.retry \cup Cut(q.pending)

\* unload(): the browser takes some chunks as beacons; the others are stored,
\* as far as the storage lets it, and fetched.  Of the queue the drain loop's
\* part stays, unless the page has ended.
Unload(t, ended) ==
  LET q == queue[t]
  IN  \E beacons \in SUBSET Taken(q) :
        LET refused == Taken(q) \ beacons
        IN  \E kept \in SUBSET refused : \E order \in SetToSeqs(kept) :
              /\ StorageFails \/ kept = refused
              /\ unsent' = Saved(unsent, order)
              /\ released' = released
                   \cup ItemsIn((Taken(q) \cup ToSet(unsent)) \ ToSet(unsent'))
                   \cup IF ended THEN ItemsIn(Draining(q)) ELSE {}
              /\ wire' = wire \cup Requests(Taken(q))
              /\ fetching' = [fetching EXCEPT ![t] = IF ended THEN {} ELSE @ \cup KeysIn(refused)]
              /\ queue' = [queue EXCEPT ![t] =
                   IF ended THEN Empty ELSE [q EXCEPT !.pending = {}, !.retry = @ \ Taken(q)]]
              /\ CutUsed(q.pending)
              /\ UNCHANGED <<sends, closing>>

PageUnchanged == UNCHANGED <<loads, serverVars, captures, reported>>

\* A page ends without its handler.
Ended(t) ==
  /\ closing' = [closing EXCEPT ![t] = "no"]
  /\ queue' = [queue EXCEPT ![t] = Empty]
  /\ fetching' = [fetching EXCEPT ![t] = {}]
  /\ released' = released \cup QueueItems(queue[t])
  /\ UNCHANGED <<unsent, wire, keys, sends>>

\* visibilitychange to hidden: a client that is shut down does not listen.
Hide(t) ==
  /\ page[t] = "shown"
  /\ page' = [page EXCEPT ![t] = "hidden"]
  /\ \/ closing[t] = "no" /\ Unload(t, FALSE)
     \/ /\ closing[t] # "no"
        /\ UNCHANGED <<queue, unsent, wire, fetching, keys, sends, closing, released>>
  /\ PageUnchanged

\* pagehide, and the page is gone: with it the chunks of a drain that runs, or
\* all that a client that is shut down has.
Leave(t) ==
  /\ page[t] # "gone"
  /\ page' = [page EXCEPT ![t] = "gone"]
  /\ \/ closing[t] = "no" /\ Unload(t, TRUE)
     \/ closing[t] # "no" /\ Ended(t)
  /\ PageUnchanged

\* The browser discards a page without telling it.
Discard(t) ==
  /\ page[t] = "hidden"
  /\ page' = [page EXCEPT ![t] = "gone"]
  /\ Ended(t)
  /\ PageUnchanged

\* Mutant of Restored: the items are queued, not the chunks.
RestoredItems(q, list) == [q EXCEPT !.pending = @ \cup ItemsIn(ToSet(list))]

\* restore(): the stored chunks become retries, with their keys and attempts.
Restored(q, list) == [q EXCEPT !.retry = @ \cup ToSet(list)]

\* What takeUnsent() leaves in the storage.
Remaining(list) == <<>>

\* resendUnsent(): the stored chunks join the queue, which is flushed.
Resend(t) ==
  \/ /\ unsent = <<>>
     /\ UNCHANGED <<queue, unsent, wire, keys, sends>>
  \/ /\ unsent # <<>>
     /\ unsent' = Remaining(unsent)
     /\ FlushCall(t, Restored(queue[t], unsent))

\* visibilitychange to visible.
Show(t) ==
  /\ page[t] = "hidden"
  /\ page' = [page EXCEPT ![t] = "shown"]
  /\ \/ closing[t] = "no" /\ Resend(t)
     \/ closing[t] # "no" /\ UNCHANGED <<queue, unsent, wire, keys, sends>>
  /\ UNCHANGED <<fetching, closing, released>> /\ PageUnchanged

\* The constructor, in a new page.
Load(t) ==
  /\ page[t] = "gone" /\ loads < MaxLoads
  /\ loads' = loads + 1
  /\ page' = [page EXCEPT ![t] = "shown"]
  /\ Resend(t)
  /\ UNCHANGED <<fetching, closing, serverVars, captures, reported, released>>

\* Mutant of MayForget: the answer is not looked at.
ForgetsAnyway(key) == TRUE

\* An entry of the list goes when its fetch was accepted (res.ok).
MayForget(key) == key \in accepted

\* The answer of an unload's fetch: forgetUnsent().  One that failed changes
\* nothing.
FetchAnswered(t) ==
  /\ \E key \in fetching[t] :
       /\ MayForget(key)
       /\ fetching' = [fetching EXCEPT ![t] = @ \ {key}]
       /\ unsent' = Without(unsent, {key})
  /\ UNCHANGED <<page, closing, loads, queue, wire, serverVars, captures, keys, reported,
                 released, sends>>

(***************************************************************************)
(* shutdown() of a client                                                  *)
(***************************************************************************)

\* Listeners and timers off, and a flush.
Shutdown(t) ==
  /\ page[t] # "gone" /\ closing[t] = "no"
  /\ closing' = [closing EXCEPT ![t] = "flushing"]
  /\ FlushCall(t, queue[t])
  /\ UNCHANGED <<page, fetching, loads, unsent, serverVars, captures, reported, released>>

\* Flush again for what waits for a retry ...
ShutdownRetries(t) ==
  /\ closing[t] = "flushing"
  /\ queue[t].sending = {} /\ queue[t].retry # {}
  /\ FlushCall(t, queue[t])
  /\ UNCHANGED <<clientVars, unsent, serverVars, captures, reported, released>>

\* ... or report what is left.
ShutdownEnds(t) ==
  /\ closing[t] = "flushing"
  /\ queue[t].sending = {}
  /\ closing' = [closing EXCEPT ![t] = "done"]
  /\ reported' = reported \cup QueueItems(queue[t])
  /\ UNCHANGED <<page, fetching, loads, queue, unsent, wire, serverVars, captures, keys,
                 released, sends>>

(***************************************************************************)
(* The server                                                              *)
(***************************************************************************)

\* A request arrives, perhaps long after its page is gone, perhaps as one of
\* several copies.
ServerReceives ==
  /\ \E r \in wire :
       \/ /\ r.key \notin rejected
          /\ accepted' = accepted \cup {r.key}
          /\ UNCHANGED rejected
       \/ /\ r.key \notin accepted
          /\ rejected' = rejected \cup {r.key}
          /\ UNCHANGED accepted
  /\ UNCHANGED <<clientVars, queue, unsent, wire, captures, keys, reported, released, sends>>

(***************************************************************************)
(* The specification                                                       *)
(***************************************************************************)
Init ==
  /\ page = [t \in Tab |-> "gone"] /\ closing = [t \in Tab |-> "no"]
  /\ queue = [t \in Tab |-> Empty] /\ fetching = [t \in Tab |-> {}]
  /\ unsent = <<>> /\ wire = {}
  /\ accepted = {} /\ rejected = {}
  /\ captures = 0 /\ keys = 0 /\ loads = 0
  /\ reported = {} /\ released = {}
  /\ sends = [k \in Key |-> 0]

Deliver(t) == Capture(t) \/ Flush(t) \/ Accepted(t) \/ Rejected(t) \/ Failed(t)
Visibility(t) == Load(t) \/ Hide(t) \/ Show(t) \/ Leave(t) \/ Discard(t) \/ FetchAnswered(t)
Close(t) == Shutdown(t) \/ ShutdownRetries(t) \/ ShutdownEnds(t)

Next ==
  \/ \E t \in Tab : Deliver(t) \/ Visibility(t) \/ Close(t)
  \/ ServerReceives

Spec == Init /\ [][Next]_vars

(***************************************************************************)
(* Properties                                                              *)
(***************************************************************************)
\* The chunks the server ingested, each once.
Ingested == {r \in wire : r.key \in accepted}

\* No item is ingested twice: not over the beacon, the unload's fetch, the
\* resends of other pages and the retries of each (browser/README.md:58, "with
\* its original idempotency key").
NoDoubleIngest == \A r, s \in Ingested : r # s => r.items \cap s.items = {}

\* A chunk is in one place: in the queue of one page, or in the stored list, so
\* that two pages never deliver the same chunk and none reports it twice.
Places == [t \in Tab |-> queue[t].retry \cup Draining(queue[t])]

OneCopy ==
  /\ \A t \in Tab : \A c \in Places[t] :
       /\ c.key \notin KeysIn(ToSet(unsent))
       /\ \A u \in Tab : \A d \in Places[u] : c.key = d.key => t = u /\ c = d
  /\ \A m, n \in DOMAIN unsent : unsent[m].key = unsent[n].key => m = n

\* The queues of all pages together send a chunk at most MaxAttempts times: its
\* attempts travel with it through the storage.
SendsBound == \A k \in Key : sends[k] <= MaxAttempts

\* Nothing that was captured vanishes, except what the limit of the list pushed out,
\* what the storage refused (RefusedIsKept), and what a page that ended had in its
\* drain (or had at all, when it was shut down or discarded).  What the browser took
\* as a beacon is the browser's.
Accounted ==
  1 .. captures \subseteq
    (UNION {QueueItems(queue[t]) : t \in Tab}) \cup ItemsIn(ToSet(unsent))
      \cup ItemsIn(Ingested) \cup reported \cup released

\* A step keeps "Returns false if it could not be stored" (unsent.ts:36), which is what
\* the caller's diagnostic rests on: a chunk the browser refused is stored, or a
\* diagnostic tells that it could not be.
RefusedIsKept ==
  \A t \in Tab : \A k \in fetching'[t] \ fetching[t] :
    \/ k \in KeysIn(ToSet(unsent'))
    \/ \A r \in wire' : r.key = k => r.items \subseteq reported'

=============================================================================
