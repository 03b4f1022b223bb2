------------------------- MODULE OfflineClientProofs -------------------------
(***************************************************************************)
(* Proofs about OfflineClient, for every value of its constants.           *)
(***************************************************************************)
EXTENDS OfflineClient, FiniteSetTheorems, TLAPS

(***************************************************************************)
(* What chunks hold                                                        *)
(***************************************************************************)

\* The requests that chunks are sent as, however often.
Names(S) == {<<c.key, c.items>> : c \in S}

LEMMA ItemsInUnion == \A A, B : ItemsIn(A \cup B) = ItemsIn(A) \cup ItemsIn(B)
  BY DEF ItemsIn

LEMMA NamesUnion == \A A, B : Names(A \cup B) = Names(A) \cup Names(B)
  BY DEF Names

LEMMA EmptyHolds == ItemsIn({}) = {} /\ Names({}) = {} /\ Empty \in Snapshot /\ SnapshotItems(Empty) = {}
  BY ConstantsOK DEF ItemsIn, Names, Empty, Snapshot, SnapshotItems

LEMMA OneHolds == \A c : ItemsIn({c}) = c.items /\ Names({c}) = {<<c.key, c.items>>}
  BY DEF ItemsIn, Names

LEMMA ItemsInType ==
  ASSUME NEW S \in SUBSET Chunk
  PROVE  ItemsIn(S) \subseteq Item
  BY DEF ItemsIn, Chunk

LEMMA SnapshotFields ==
  ASSUME NEW s \in Snapshot
  PROVE  s.pending \in SUBSET Item /\ s.retry \in SUBSET Chunk
  BY DEF Snapshot

LEMMA TakenIs ==
  ASSUME NEW p \in SUBSET Item, NEW r \in SUBSET Chunk, keys \in 0 .. MaxKeys
  PROVE  /\ TakeSnapshot(p, r) \in Snapshot
         /\ TakeSnapshot(p, r).pending = p /\ TakeSnapshot(p, r).retry = r
         /\ TakeSnapshot(p, r).upTo = keys
  BY DEF TakeSnapshot, Snapshot

(***************************************************************************)
(* The queue                                                               *)
(***************************************************************************)

Sendable(S) == S \in SUBSET Chunk /\ \A c \in S : c.attempts < MaxAttempts

\* The queue, left by a handler with p pending and the chunks S, has run its
\* flush: what it held it still holds, and only what was pending may have got a
\* new name.
Moved(p, S) ==
  /\ Sendable(retry') /\ Sendable(work')
  /\ inFlight' \in SUBSET Chunk /\ \A c, d \in inFlight' : c = d
  /\ inFlight' = {} => work' = {}
  /\ wire \subseteq wire' /\ wire' \subseteq wire \cup inFlight' /\ inFlight' \subseteq wire'
  /\ {rerun', forceNext', awaited'} \subseteq BOOLEAN
  /\ pending' \cup ItemsIn(retry' \cup work' \cup inFlight') = p \cup ItemsIn(S)
  /\ \/ /\ keys' = keys /\ pending' = p
        /\ Names(retry' \cup work' \cup inFlight') = Names(S)
     \/ /\ keys' = keys + 1 /\ keys + 1 \in Key /\ pending' = {}
        /\ Names(retry' \cup work' \cup inFlight') = Names(S) \cup {<<keys + 1, p>>}

\* ... and the client has stored what it left, or will.
Stores(p, r, waits, timer) ==
  \/ inFlight' # {} /\ writes' = writes /\ persistTimer' \in {timer, persistTimer}
  \/ /\ pending' = p /\ retry' = r
     /\ IF waits THEN PersistNow(p, r) ELSE persistTimer' = timer /\ UNCHANGED writes

\* A chunk that goes out once more is the same request.
LEMMA SendKeeps ==
  ASSUME NEW all, Sendable(all), NEW c \in all, Send(c, all \ {c})
  PROVE  /\ Sendable(work') /\ inFlight' \in SUBSET Chunk
         /\ inFlight' # {} /\ \A d, e \in inFlight' : d = e
         /\ wire' = wire \cup inFlight'
         /\ ItemsIn(work' \cup inFlight') = ItemsIn(all)
         /\ Names(work' \cup inFlight') = Names(all)
<1> DEFINE sent == [c EXCEPT !.attempts = @ + 1]
<1>1. inFlight' = {sent} /\ wire' = wire \cup {sent} /\ work' = all \ {c}
  BY DEF Send
<1>2. sent \in Chunk /\ sent.key = c.key /\ sent.items = c.items
  BY ConstantsOK DEF Sendable, Chunk
<1> HIDE DEF sent
<1>3. Names({sent}) = Names({c}) /\ ItemsIn({sent}) = ItemsIn({c})
  BY <1>2, OneHolds
<1>4. /\ ItemsIn(work' \cup inFlight') = ItemsIn(all \ {c}) \cup ItemsIn({c})
      /\ Names(work' \cup inFlight') = Names(all \ {c}) \cup Names({c})
  BY <1>1, <1>3, ItemsInUnion, NamesUnion
<1>5. all = (all \ {c}) \cup {c}
  OBVIOUS
<1>6. /\ ItemsIn(all) = ItemsIn(all \ {c}) \cup ItemsIn({c})
      /\ Names(all) = Names(all \ {c}) \cup Names({c})
  BY <1>5, ItemsInUnion, NamesUnion
<1>7. Sendable(work') /\ inFlight' \in SUBSET Chunk
  BY <1>1, <1>2 DEF Sendable
<1> QED BY <1>1, <1>4, <1>6, <1>7

LEMMA RoundMoved ==
  ASSUME NEW p \in SUBSET Item, NEW r, Sendable(r), NEW force, NEW waits \in BOOLEAN, NEW timer,
         keys \in 0 .. MaxKeys, Round(p, r, force, waits, timer)
  PROVE  Moved(p, r) /\ Stores(p, r, waits, timer)
<1> DEFINE fresh == IF p = {} THEN {} ELSE {[key |-> FreshKey, items |-> p, attempts |-> 0]}
<1>1. PICK due \in SUBSET r :
        /\ rerun' = FALSE /\ forceNext' = FALSE
        /\ \/ /\ due \cup fresh # {}
              /\ keys < MaxKeys \/ fresh = {}
              /\ keys' = keys + Cardinality(fresh)
              /\ pending' = {} /\ retry' = r \ due
              /\ \E c \in due \cup fresh : Send(c, (due \cup fresh) \ {c})
              /\ awaited' = waits
              /\ persistTimer' = timer
              /\ UNCHANGED writes
           \/ /\ due \cup fresh = {}
              /\ inFlight' = {} /\ work' = {}
              /\ pending' = {} /\ retry' = r
              /\ awaited' = FALSE
              /\ IF waits THEN PersistNow({}, r) ELSE persistTimer' = timer /\ UNCHANGED writes
              /\ UNCHANGED <<keys, wire>>
  BY DEF Round, NotDue
<1>2. CASE /\ due \cup fresh = {}
           /\ inFlight' = {} /\ work' = {}
           /\ pending' = {} /\ retry' = r
           /\ awaited' = FALSE
           /\ IF waits THEN PersistNow({}, r) ELSE persistTimer' = timer /\ UNCHANGED writes
           /\ UNCHANGED <<keys, wire>>
  <2>1. p = {}
    BY <1>2
  <2>2. Stores(p, r, waits, timer)
    BY <1>2, <2>1 DEF Stores
  <2>3. retry' \cup work' \cup inFlight' = r
    BY <1>2
  <2>4. Moved(p, r)
    BY <1>1, <1>2, <2>1, <2>3 DEF Moved, Sendable
  <2> QED BY <2>2, <2>4
<1>3. CASE /\ keys < MaxKeys \/ fresh = {}
           /\ keys' = keys + Cardinality(fresh)
           /\ pending' = {} /\ retry' = r \ due
           /\ \E c \in due \cup fresh : Send(c, (due \cup fresh) \ {c})
           /\ awaited' = waits
           /\ persistTimer' = timer
           /\ UNCHANGED writes
  <2>1. /\ Sendable(fresh) /\ ItemsIn(fresh) = p
        /\ \/ p = {} /\ keys' = keys /\ Names(fresh) = {}
           \/ keys' = keys + 1 /\ keys + 1 \in Key /\ Names(fresh) = {<<keys + 1, p>>}
    <3>1. CASE p = {}
      <4>1. fresh = {}
        BY <3>1
      <4> QED BY <1>3, <3>1, <4>1, EmptyHolds, FS_EmptySet DEF Sendable
    <3>2. CASE p # {}
      <4> DEFINE c == [key |-> FreshKey, items |-> p, attempts |-> 0]
      <4>1. fresh = {c}
        BY <3>2
      <4>2. keys + 1 \in Key /\ keys' = keys + 1
        <5>1. Cardinality(fresh) = 1
          BY <4>1, FS_Singleton
        <5>2. keys < MaxKeys /\ keys' = keys + 1
          BY <1>3, <4>1, <5>1
        <5> QED BY <5>2, ConstantsOK DEF Key
      <4>3. c \in Chunk /\ c.attempts < MaxAttempts /\ c.key = keys + 1 /\ c.items = p
        BY <4>2, ConstantsOK DEF Chunk, FreshKey
      <4> HIDE DEF c
      <4> QED BY <4>1, <4>2, <4>3, OneHolds DEF Sendable
    <3> QED BY <3>1, <3>2
  <2> HIDE DEF fresh
  <2>2. PICK c \in due \cup fresh : Send(c, (due \cup fresh) \ {c})
    BY <1>3
  <2>3. Sendable(due \cup fresh) /\ Sendable(r \ due)
    BY <2>1 DEF Sendable
  <2>4. /\ Sendable(work') /\ inFlight' \in SUBSET Chunk
        /\ inFlight' # {} /\ \A d, e \in inFlight' : d = e
        /\ wire' = wire \cup inFlight'
        /\ ItemsIn(work' \cup inFlight') = ItemsIn(due \cup fresh)
        /\ Names(work' \cup inFlight') = Names(due \cup fresh)
    BY <2>2, <2>3, SendKeeps
  <2>5. /\ ItemsIn(retry' \cup work' \cup inFlight') = ItemsIn(r) \cup ItemsIn(fresh)
        /\ Names(retry' \cup work' \cup inFlight') = Names(r) \cup Names(fresh)
    <3>1. retry' \cup work' \cup inFlight' = (r \ due) \cup (work' \cup inFlight')
      BY <1>3
    <3>2. r = (r \ due) \cup due
      OBVIOUS
    <3>3. ItemsIn(r) = ItemsIn(r \ due) \cup ItemsIn(due) /\ Names(r) = Names(r \ due) \cup Names(due)
      BY <3>2, ItemsInUnion, NamesUnion
    <3> QED BY <2>4, <3>1, <3>3, ItemsInUnion, NamesUnion
  <2>6. Moved(p, r)
    BY <1>1, <1>3, <2>1, <2>3, <2>4, <2>5 DEF Moved
  <2>7. Stores(p, r, waits, timer)
    BY <1>3, <2>4 DEF Stores
  <2> QED BY <2>6, <2>7
<1> QED BY <1>1, <1>2, <1>3

\* The queue between two handlers.
QueueOK ==
  /\ pending \in SUBSET Item /\ keys \in 0 .. MaxKeys /\ wire \in SUBSET Chunk
  /\ Sendable(retry) /\ Sendable(work)
  /\ inFlight \in SUBSET Chunk /\ \A c, d \in inFlight : c = d
  /\ inFlight = {} => work = {}
  /\ inFlight \subseteq wire
  /\ {rerun, forceNext, awaited, persistTimer} \subseteq BOOLEAN

LEMMA FlushMoved ==
  ASSUME QueueOK, NEW p \in SUBSET Item, NEW r, Sendable(r), NEW force \in BOOLEAN,
         NEW waits \in BOOLEAN, NEW timer, FlushCall(p, r, force, waits, timer)
  PROVE  /\ Moved(p, r \cup work \cup inFlight) /\ Stores(p, r, waits, timer)
         /\ inFlight # {} => inFlight' # {}
<1>1. CASE /\ pending' = p /\ retry' = r
           /\ IF waits THEN PersistNow(p, r) ELSE persistTimer' = timer /\ UNCHANGED writes
           /\ UNCHANGED <<drainVars, keys, wire>>
  BY <1>1 DEF QueueOK, Moved, Stores, drainVars
<1>2. CASE /\ inFlight # {}
           /\ rerun' = TRUE /\ forceNext' = (forceNext \/ force)
           /\ awaited' = (awaited \/ waits)
           /\ pending' = p /\ retry' = r
           /\ persistTimer' = timer
           /\ UNCHANGED <<work, inFlight, keys, wire, writes>>
  BY <1>2 DEF QueueOK, Moved, Stores
<1>3. CASE inFlight = {} /\ Round(p, r, force, waits, timer)
  <2>1. r \cup work \cup inFlight = r
    BY <1>3 DEF QueueOK
  <2> QED BY <1>3, <2>1, RoundMoved DEF QueueOK
<1> QED BY <1>1, <1>2, <1>3 DEF FlushCall, Draining

LEMMA ContinueMoved ==
  ASSUME QueueOK, NEW r, Sendable(r), Continue(r)
  PROVE  Moved(pending, r \cup work) /\ Stores(pending, r, awaited, TRUE)
<1>1. CASE /\ work # {} /\ \E c \in work : Send(c, work \ {c})
           /\ retry' = r
           /\ UNCHANGED <<pending, keys, rerun, forceNext, awaited, persistTimer, writes>>
  <2>1. PICK c \in work : Send(c, work \ {c})
    BY <1>1
  <2>2. /\ Sendable(work') /\ inFlight' \in SUBSET Chunk
        /\ inFlight' # {} /\ \A d, e \in inFlight' : d = e
        /\ wire' = wire \cup inFlight'
        /\ ItemsIn(work' \cup inFlight') = ItemsIn(work)
        /\ Names(work' \cup inFlight') = Names(work)
    BY <2>1, SendKeeps DEF QueueOK
  <2>3. /\ ItemsIn(retry' \cup work' \cup inFlight') = ItemsIn(r \cup work)
        /\ Names(retry' \cup work' \cup inFlight') = Names(r \cup work)
    <3>1. retry' \cup work' \cup inFlight' = r \cup (work' \cup inFlight')
      BY <1>1
    <3>2. /\ ItemsIn(retry' \cup work' \cup inFlight') = ItemsIn(r) \cup ItemsIn(work' \cup inFlight')
          /\ Names(retry' \cup work' \cup inFlight') = Names(r) \cup Names(work' \cup inFlight')
      BY <3>1, ItemsInUnion, NamesUnion
    <3>3. ItemsIn(r \cup work) = ItemsIn(r) \cup ItemsIn(work) /\ Names(r \cup work) = Names(r) \cup Names(work)
      BY ItemsInUnion, NamesUnion
    <3> QED BY <2>2, <3>2, <3>3
  <2>4. Moved(pending, r \cup work)
    BY <1>1, <2>2, <2>3 DEF Moved, QueueOK
  <2>5. Stores(pending, r, awaited, TRUE)
    BY <1>1, <2>2 DEF Stores
  <2> QED BY <2>4, <2>5
<1>2. CASE work = {} /\ Round(pending, r, forceNext, awaited, persistTimer \/ Changed)
  <2>1. r \cup work = r /\ (persistTimer \/ Changed) = TRUE
    BY <1>2 DEF Changed
  <2> QED BY <1>2, <2>1, RoundMoved DEF QueueOK
<1>3. CASE /\ work = {} /\ inFlight' = {} /\ awaited' = FALSE
           /\ retry' = r
           /\ IF awaited THEN PersistNow(pending, r)
                         ELSE persistTimer' = (persistTimer \/ Changed) /\ UNCHANGED writes
           /\ UNCHANGED <<pending, keys, work, rerun, forceNext, wire>>
  <2>1. r \cup work = r /\ (persistTimer \/ Changed) = TRUE
    BY <1>3 DEF Changed
  <2>2. Stores(pending, r, awaited, TRUE)
    BY <1>3, <2>1 DEF Stores
  <2>3. retry' \cup work' \cup inFlight' = r
    BY <1>3
  <2>4. Moved(pending, r \cup work)
    BY <1>3, <2>1, <2>3 DEF Moved, QueueOK, Sendable
  <2> QED BY <2>2, <2>4
<1> QED BY <1>1, <1>2, <1>3 DEF Continue

\* A handler that leaves the queue alone, but may store it.
LEMMA QuietMoved ==
  ASSUME QueueOK, UNCHANGED <<queueVars, drainVars, wire>>
  PROVE  Moved(pending, retry \cup work \cup inFlight)
  BY DEF QueueOK, Moved, queueVars, drainVars

(***************************************************************************)
(* Types, and what holds whatever the app does                             *)
(***************************************************************************)

\* A client that does not run holds nothing; one that has loaded has restored
\* what it read; nothing that is stored is out of attempts.
Shape ==
  /\ ~ up => /\ pending = {} /\ retry = {} /\ inFlight = {} /\ ~ loading
             /\ writes = <<>> /\ closing = "no" /\ ~ persistTimer
  /\ ~ loading => image = Empty
  /\ closed <=> closing # "no"
  /\ ahead <= Len(writes)
  /\ Sendable(image.retry) /\ Sendable(disk.retry)
  /\ \A n \in DOMAIN writes : Sendable(writes[n].retry)

TInv == TypeOK /\ QueueOK /\ Shape

\* A snapshot joins the list of writes.
LEMMA PersistAppends ==
  ASSUME writes \in Seq(Snapshot), keys \in 0 .. MaxKeys,
         NEW p \in SUBSET Item, NEW r, Sendable(r), PersistNow(p, r),
         \A n \in DOMAIN writes : Sendable(writes[n].retry)
  PROVE  /\ writes' \in Seq(Snapshot) /\ Len(writes') = Len(writes) + 1 /\ Len(writes') \in 1 .. MaxWrites
         /\ writes'[Len(writes')] = TakeSnapshot(p, r)
         /\ \A n \in DOMAIN writes : writes'[n] = writes[n]
         /\ DOMAIN writes' = DOMAIN writes \cup {Len(writes')}
         /\ \A n \in DOMAIN writes' : Sendable(writes'[n].retry)
         /\ persistTimer' = FALSE
<1>1. /\ persistTimer' = FALSE /\ Len(writes) < MaxWrites
      /\ writes' = Append(writes, TakeSnapshot(p, r))
  BY DEF PersistNow
<1>2. TakeSnapshot(p, r) \in Snapshot /\ TakeSnapshot(p, r).retry = r
  BY TakenIs DEF Sendable
<1>3. /\ writes' \in Seq(Snapshot) /\ Len(writes') = Len(writes) + 1 /\ Len(writes) \in Nat
      /\ writes'[Len(writes')] = TakeSnapshot(p, r)
      /\ \A n \in DOMAIN writes : writes'[n] = writes[n]
      /\ DOMAIN writes' = DOMAIN writes \cup {Len(writes')}
  BY <1>1, <1>2
<1>4. Len(writes') \in 1 .. MaxWrites
  BY <1>1, <1>3, ConstantsOK
<1>5. \A n \in DOMAIN writes' : Sendable(writes'[n].retry)
  BY <1>2, <1>3
<1> QED BY <1>1, <1>3, <1>4, <1>5

LEMMA StoresType ==
  ASSUME TInv, NEW p \in SUBSET Item, NEW r, Sendable(r), NEW waits \in BOOLEAN, NEW timer \in BOOLEAN,
         Stores(p, r, waits, timer)
  PROVE  /\ writes' \in Seq(Snapshot) /\ persistTimer' \in BOOLEAN /\ Len(writes) <= Len(writes')
         /\ \A n \in DOMAIN writes' : Sendable(writes'[n].retry)
<1>0. /\ writes \in Seq(Snapshot) /\ Len(writes) \in Nat /\ \A n \in DOMAIN writes : Sendable(writes[n].retry)
      /\ keys \in 0 .. MaxKeys
  BY DEF TInv, TypeOK, Shape, QueueOK
<1>1. CASE PersistNow(p, r)
  <2>1. /\ writes' \in Seq(Snapshot) /\ Len(writes') = Len(writes) + 1
        /\ \A n \in DOMAIN writes' : Sendable(writes'[n].retry)
        /\ persistTimer' = FALSE
    BY <1>0, <1>1, PersistAppends
  <2>2. Len(writes) <= Len(writes')
    BY <1>0, <2>1
  <2>3. persistTimer' \in BOOLEAN
    BY <2>1
  <2> QED BY <2>1, <2>2, <2>3, Zenon
<1>2. CASE writes' = writes /\ persistTimer' \in {timer, persistTimer}
  BY <1>0, <1>2 DEF TInv, QueueOK
<1> QED BY <1>1, <1>2 DEF Stores

\* One handler of a client that runs.
LEMMA HandlerType ==
  ASSUME TInv, NEW p \in SUBSET Item, NEW r, Sendable(r), NEW waits \in BOOLEAN, NEW timer \in BOOLEAN,
         NEW S, Moved(p, S), Stores(p, r, waits, timer),
         up' = TRUE, {online', closed', loading', unreadable'} \subseteq BOOLEAN,
         image' \in {image, Empty}, ~ loading' => image' = Empty,
         closing' \in Closing, closed' <=> closing' # "no",
         ahead' \in 0 .. MaxWrites, ahead' > 0 <=> closing' = "saving", ahead' <= Len(writes'),
         {reported', missed'} \subseteq SUBSET Item, captures' \in 0 .. MaxCaptures,
         UNCHANGED <<disk, refused, accepted, ends, recut>>
  PROVE  TInv'
<1>1. /\ writes' \in Seq(Snapshot) /\ persistTimer' \in BOOLEAN
      /\ \A n \in DOMAIN writes' : Sendable(writes'[n].retry)
  BY StoresType
<1>2. /\ Sendable(retry') /\ Sendable(work')
      /\ inFlight' \in SUBSET Chunk /\ \A c, d \in inFlight' : c = d
      /\ inFlight' = {} => work' = {}
      /\ wire' \subseteq wire \cup inFlight' /\ inFlight' \subseteq wire'
      /\ {rerun', forceNext', awaited'} \subseteq BOOLEAN
      /\ pending' \in {p, {}}
      /\ keys' = keys \/ (keys' = keys + 1 /\ keys + 1 \in Key)
  BY DEF Moved
<1>3. keys' \in 0 .. MaxKeys
  BY <1>2, ConstantsOK DEF TInv, QueueOK, Key
<1>4. QueueOK'
  BY <1>1, <1>2, <1>3 DEF TInv, QueueOK
<1>5. Cardinality(inFlight') <= 1
  <2>1. CASE inFlight' = {}
    BY <2>1, FS_EmptySet
  <2>2. CASE inFlight' # {}
    <3>1. PICK c \in inFlight' : TRUE
      BY <2>2
    <3>2. inFlight' = {c}
      BY <1>2
    <3>3. Cardinality({c}) = 1
      BY FS_Singleton
    <3> QED BY <3>2, <3>3
  <2> QED BY <2>1, <2>2
<1>6. image' \in Snapshot /\ Sendable(image'.retry)
  <2>1. Empty \in Snapshot /\ Empty.retry = {}
    BY EmptyHolds DEF Empty
  <2> QED BY <2>1 DEF TInv, TypeOK, Shape, Sendable
<1>7. TypeOK'
  BY <1>1, <1>2, <1>3, <1>4, <1>5, <1>6 DEF TInv, TypeOK, QueueOK, Sendable
<1>8. Shape'
  BY <1>1, <1>6 DEF TInv, Shape
<1> QED BY <1>4, <1>7, <1>8 DEF TInv

(***************************************************************************)
(* The handlers                                                            *)
(***************************************************************************)

\* A call has left the queue with what it held, and what it captured.
Called(p, waits, timer) ==
  /\ Moved(p, retry \cup work \cup inFlight) /\ Stores(p, retry, waits, timer)
  /\ inFlight # {} => inFlight' # {}
  /\ \/ captures' = captures /\ p = pending /\ timer = persistTimer
     \/ /\ captures' = captures + 1 /\ captures' \in 1 .. MaxCaptures
        /\ p = pending \cup {captures'} /\ timer = TRUE /\ ~ closed

\* Captures, flushes, network changes and the timer of the snapshot.
LEMMA CallIs ==
  ASSUME TInv,
         Capture \/ QueueFlush \/ ClientFlush \/ NetworkChange \/ ShutdownRetries \/ PersistTimerFires
  PROVE  /\ up /\ up' = TRUE /\ online' \in BOOLEAN
         /\ UNCHANGED <<closed, closing, ahead, image, loading, unreadable, disk, refused, accepted, reported,
                         ends, missed, recut>>
         /\ \E p \in SUBSET Item, waits \in BOOLEAN, timer \in BOOLEAN : Called(p, waits, timer)
<1>0. /\ QueueOK /\ pending \in SUBSET Item /\ Sendable(retry) /\ persistTimer \in BOOLEAN
      /\ captures \in 0 .. MaxCaptures /\ {up, online} \subseteq BOOLEAN
  BY DEF TInv, QueueOK, TypeOK
<1>1. /\ up /\ up' = TRUE /\ online' \in BOOLEAN
      /\ UNCHANGED <<closed, closing, ahead, image, loading, unreadable, disk, refused, accepted, reported,
                         ends, missed, recut>>
  <2>1. CASE Capture
    BY <1>0, <2>1 DEF Capture, CallUnchanged
  <2>2. CASE QueueFlush
    BY <1>0, <2>2 DEF QueueFlush, CallUnchanged
  <2>3. CASE ClientFlush
    BY <1>0, <2>3 DEF ClientFlush, CallUnchanged
  <2>4. CASE NetworkChange
    BY <1>0, <2>4 DEF NetworkChange, CallUnchanged
  <2>5. CASE ShutdownRetries
    BY <1>0, <2>5 DEF ShutdownRetries, CallUnchanged
  <2>6. CASE PersistTimerFires
    BY <1>0, <2>6 DEF PersistTimerFires, clientVars, historyVars
  <2> QED BY <2>1, <2>2, <2>3, <2>4, <2>5, <2>6
<1>2. ASSUME captures' = captures, NEW force \in BOOLEAN, NEW waits \in BOOLEAN,
             FlushCall(pending, retry, force, waits, persistTimer)
      PROVE  Called(pending, waits, persistTimer)
  <2>1. /\ Moved(pending, retry \cup work \cup inFlight) /\ Stores(pending, retry, waits, persistTimer)
        /\ inFlight # {} => inFlight' # {}
    BY <1>0, <1>2, FlushMoved
  <2> QED BY <1>2, <2>1 DEF Called
<1>3. ASSUME captures' = captures, NEW waits \in BOOLEAN, UNCHANGED <<queueVars, drainVars, wire>>,
             IF waits THEN PersistNow(pending, retry) ELSE persistTimer' = persistTimer /\ UNCHANGED writes
      PROVE  Called(pending, waits, persistTimer)
  <2>1. Stores(pending, retry, waits, persistTimer)
    BY <1>3 DEF Stores, queueVars
  <2>2. inFlight' = inFlight
    BY <1>3 DEF drainVars
  <2>3. Moved(pending, retry \cup work \cup inFlight)
    BY <1>0, <1>3, QuietMoved
  <2> QED BY <1>3, <2>1, <2>2, <2>3 DEF Called
<1>4. CASE QueueFlush
  <2>1. captures' = captures /\ FlushCall(pending, retry, FALSE, FALSE, persistTimer)
    BY <1>4 DEF QueueFlush
  <2> QED BY <1>0, <1>1, <1>2, <2>1
<1>5. CASE ClientFlush
  <2>1. captures' = captures /\ FlushCall(pending, retry, FALSE, TRUE, persistTimer)
    BY <1>5 DEF ClientFlush
  <2> QED BY <1>0, <1>1, <1>2, <2>1
<1>6. CASE ShutdownRetries
  <2>1. captures' = captures /\ FlushCall(pending, retry, FALSE, FALSE, persistTimer)
    BY <1>6 DEF ShutdownRetries
  <2> QED BY <1>0, <1>1, <1>2, <2>1
<1>7. CASE NetworkChange
  <2>1. captures' = captures
    BY <1>7 DEF NetworkChange
  <2>2. CASE FlushCall(pending, retry, TRUE, TRUE, persistTimer)
    BY <1>0, <1>1, <1>2, <2>1, <2>2
  <2>3. CASE UNCHANGED <<queueVars, drainVars, wire, writes, persistTimer>>
    <3>1. IF FALSE THEN PersistNow(pending, retry) ELSE persistTimer' = persistTimer /\ UNCHANGED writes
      BY <2>3
    <3>2. FALSE \in BOOLEAN /\ UNCHANGED <<queueVars, drainVars, wire>>
      BY <2>3
    <3>3. Called(pending, FALSE, persistTimer)
      BY <1>3, <2>1, <3>1, <3>2
    <3> QED BY <1>0, <1>1, <3>2, <3>3
  <2> QED BY <1>7, <2>2, <2>3 DEF NetworkChange
<1>8. CASE PersistTimerFires
  <2>1. /\ captures' = captures /\ UNCHANGED <<queueVars, drainVars, wire>> /\ TRUE \in BOOLEAN
        /\ IF TRUE THEN PersistNow(pending, retry) ELSE persistTimer' = persistTimer /\ UNCHANGED writes
    BY <1>8 DEF PersistTimerFires, historyVars
  <2>2. Called(pending, TRUE, persistTimer)
    BY <1>3, <2>1
  <2> QED BY <1>0, <1>1, <2>1, <2>2
<1>9. CASE Capture
  <2> DEFINE p == pending \cup {captures + 1}
  <2>1. /\ captures < MaxCaptures /\ captures' = captures + 1 /\ ~ closed
        /\ \/ FlushCall(p, retry, FALSE, FALSE, TRUE)
           \/ /\ pending' = p /\ persistTimer' = TRUE
              /\ UNCHANGED <<retry, keys, drainVars, wire, writes>>
    BY <1>9 DEF Capture
  <2>2. captures' \in 1 .. MaxCaptures /\ p \in SUBSET Item
    BY <1>0, <2>1, ConstantsOK DEF Item
  <2> HIDE DEF p
  <2>3. ASSUME FlushCall(p, retry, FALSE, FALSE, TRUE) PROVE Called(p, FALSE, TRUE)
    <3>1. /\ Moved(p, retry \cup work \cup inFlight) /\ Stores(p, retry, FALSE, TRUE)
          /\ inFlight # {} => inFlight' # {}
      BY <1>0, <2>2, <2>3, FlushMoved
    <3> QED BY <2>1, <2>2, <3>1 DEF Called, p
  <2>4. ASSUME /\ pending' = p /\ persistTimer' = TRUE
               /\ UNCHANGED <<retry, keys, drainVars, wire, writes>>
        PROVE  Called(p, FALSE, TRUE)
    <3>1. Moved(p, retry \cup work \cup inFlight) /\ inFlight' = inFlight
      BY <1>0, <2>4 DEF QueueOK, Moved, drainVars
    <3>2. Stores(p, retry, FALSE, TRUE)
      BY <2>4 DEF Stores
    <3> QED BY <2>1, <2>2, <3>1, <3>2 DEF Called, p
  <2>5. Called(p, FALSE, TRUE)
    BY <2>1, <2>3, <2>4
  <2> QED BY <1>1, <2>2, <2>5
<1> QED BY <1>4, <1>5, <1>6, <1>7, <1>8, <1>9

\* The three answers to a send.
LEMMA AnswerIs ==
  ASSUME TInv, Accepted \/ Rejected \/ Failed
  PROVE  /\ up /\ UNCHANGED <<up, clientVars, disk, refused, accepted, captures, ends, missed, recut>>
         /\ \E c \in inFlight : \E r \in {retry, retry \cup {c}} :
              /\ Sendable(r) /\ inFlight = {c} /\ c \in Chunk
              /\ Moved(pending, r \cup work) /\ Stores(pending, r, awaited, TRUE)
              /\ \/ reported' = reported /\ (c.key \in accepted \/ r = retry \cup {c})
                 \/ reported' = reported \cup c.items
<1>0. /\ QueueOK /\ Sendable(retry) /\ inFlight \in SUBSET Chunk
      /\ \A c, d \in inFlight : c = d
  BY DEF TInv, QueueOK
<1>1. up /\ UNCHANGED <<up, clientVars, disk, refused, accepted, captures, ends, missed, recut>>
  BY DEF Accepted, Rejected, Failed, AnswerUnchanged
<1>2. PICK c \in inFlight :
        \/ /\ Continue(retry)
           /\ \/ c.key \in accepted /\ reported' = reported
              \/ reported' = reported \cup c.items
        \/ ~ OutOfAttempts(c) /\ Continue(retry \cup {c}) /\ reported' = reported
  BY DEF Accepted, Rejected, Failed
<1>3. inFlight = {c} /\ c \in Chunk
  BY <1>0
<1>4. CASE /\ Continue(retry)
           /\ \/ c.key \in accepted /\ reported' = reported
              \/ reported' = reported \cup c.items
  <2>1. Moved(pending, retry \cup work) /\ Stores(pending, retry, awaited, TRUE)
    BY <1>0, <1>4, ContinueMoved
  <2> QED BY <1>0, <1>1, <1>3, <1>4, <2>1
<1>5. CASE ~ OutOfAttempts(c) /\ Continue(retry \cup {c}) /\ reported' = reported
  <2>1. Sendable(retry \cup {c})
    BY <1>0, <1>3, <1>5, ConstantsOK DEF Sendable, OutOfAttempts, Chunk
  <2>2. Moved(pending, (retry \cup {c}) \cup work) /\ Stores(pending, retry \cup {c}, awaited, TRUE)
    BY <1>0, <1>5, <2>1, ContinueMoved
  <2> QED BY <1>1, <1>3, <1>5, <2>1, <2>2
<1> QED BY <1>2, <1>4, <1>5

\* The snapshot that was read joins the queue.
LEMMA LoadedIs ==
  ASSUME TInv, Loaded
  PROVE  LET p == image.pending \cup pending
             r == retry \cup image.retry
         IN  /\ up /\ loading /\ up' = TRUE /\ loading' = FALSE /\ unreadable' = FALSE /\ image' = Empty
             /\ UNCHANGED <<online, closed, closing, ahead, disk, refused, accepted, historyVars>>
             /\ p \in SUBSET Item /\ Sendable(r)
             /\ Moved(p, r \cup work \cup inFlight)
             /\ \E waits \in BOOLEAN : /\ Stores(p, r, waits, persistTimer)
                                       /\ waits \/ closed
<1> DEFINE p == image.pending \cup pending
           r == retry \cup image.retry
<1>1. /\ up /\ loading /\ up' = up /\ loading' = FALSE /\ unreadable' = FALSE /\ image' = Empty
      /\ UNCHANGED <<online, closed, closing, ahead, disk, refused, accepted, historyVars>>
      /\ IF closed
           THEN /\ pending' = p /\ retry' = r
                /\ UNCHANGED <<keys, drainVars, wire, writes, persistTimer>>
           ELSE FlushCall(p, r, FALSE, TRUE, persistTimer)
  BY DEF Loaded
<1>2. up' = TRUE
  BY <1>1 DEF TInv, TypeOK
<1>3. p \in SUBSET Item /\ Sendable(r)
  <2>1. image.pending \in SUBSET Item /\ image.retry \in SUBSET Chunk
    BY SnapshotFields DEF TInv, TypeOK
  <2> QED BY <2>1 DEF TInv, QueueOK, Shape, Sendable
<1>4. QueueOK
  BY DEF TInv
<1> HIDE DEF p, r
<1>5. CASE closed /\ pending' = p /\ retry' = r /\ UNCHANGED <<keys, drainVars, wire, writes, persistTimer>>
  <2>1. Stores(p, r, FALSE, persistTimer)
    BY <1>5 DEF Stores
  <2>2. Moved(p, r \cup work \cup inFlight)
    BY <1>3, <1>4, <1>5 DEF QueueOK, Moved, drainVars
  <2> QED BY <1>1, <1>2, <1>3, <1>5, <2>1, <2>2 DEF p, r
<1>6. CASE FlushCall(p, r, FALSE, TRUE, persistTimer)
  <2>1. Moved(p, r \cup work \cup inFlight) /\ Stores(p, r, TRUE, persistTimer)
    BY <1>3, <1>4, <1>6, FlushMoved
  <2> QED BY <1>1, <1>2, <1>3, <2>1 DEF p, r
<1> QED BY <1>1, <1>5, <1>6

\* shutdown(), and the step to its save, write what is left, or leave it to the
\* queue.
LEMMA SaveIs ==
  ASSUME TInv, Shutdown \/ ShutdownSaves
  PROVE  /\ up /\ up' = TRUE /\ closed' = TRUE
         /\ UNCHANGED <<online, image, loading, unreadable, disk, refused, accepted, reported, captures, ends, recut>>
         /\ Moved(pending, retry \cup work \cup inFlight)
         /\ \/ /\ closing' = "queue" /\ ahead' = 0 /\ online /\ ~ closed /\ missed' = missed
               /\ Stores(pending, retry, FALSE, persistTimer)
            \/ /\ closing' = "saving" /\ ahead' = Len(writes') /\ PersistNow(pending, retry)
               /\ Stores(pending, retry, TRUE, persistTimer)
               /\ UNCHANGED <<queueVars, drainVars, wire>>
               /\ missed' \in {missed \cup SnapshotItems(image), missed \cup LeftOut}
               /\ LeftOut \subseteq missed'
<1>0. /\ QueueOK /\ Sendable(retry) /\ pending \in SUBSET Item /\ {up, closed} \subseteq BOOLEAN
      /\ inFlight = {} => LeftOut = SnapshotItems(image)
  <2>1. inFlight = {} => work \cup inFlight = {}
    BY DEF TInv, QueueOK
  <2> QED BY <2>1, EmptyHolds DEF TInv, QueueOK, TypeOK, LeftOut
<1>1. ASSUME PersistNow(pending, retry), UNCHANGED <<queueVars, drainVars, wire>>
      PROVE  /\ Stores(pending, retry, TRUE, persistTimer)
             /\ Moved(pending, retry \cup work \cup inFlight)
  <2>1. Stores(pending, retry, TRUE, persistTimer)
    BY <1>1 DEF Stores, queueVars
  <2> QED BY <1>0, <1>1, <2>1, QuietMoved
<1>2. CASE Shutdown
  <2>1. /\ up /\ up' = TRUE /\ closed' = TRUE /\ ~ closed
        /\ UNCHANGED <<online, image, loading, unreadable, disk, refused, accepted, reported, captures, ends, recut>>
    BY <1>0, <1>2 DEF Shutdown, CallUnchanged
  <2>2. CASE /\ online /\ closing' = "queue" /\ ahead' = 0 /\ missed' = missed
             /\ FlushCall(pending, retry, FALSE, FALSE, persistTimer)
    <3>1. /\ Moved(pending, retry \cup work \cup inFlight)
          /\ Stores(pending, retry, FALSE, persistTimer)
      BY <1>0, <2>2, FlushMoved
    <3> QED BY <2>1, <2>2, <3>1
  <2>3. CASE /\ ~ online /\ closing' = "saving" /\ PersistNow(pending, retry)
             /\ ahead' = Len(writes') /\ UNCHANGED <<queueVars, drainVars, wire>>
             /\ missed' = missed \cup LeftOut
    BY <1>1, <2>1, <2>3
  <2> QED BY <1>2, <2>2, <2>3 DEF Shutdown
<1>3. CASE ShutdownSaves
  <2>1. /\ up /\ up' = TRUE /\ closing = "queue" /\ inFlight = {}
        /\ UNCHANGED <<online, closed, image, loading, unreadable, disk, refused, accepted, reported, captures, ends,
                       recut>>
        /\ closing' = "saving" /\ ahead' = Len(writes') /\ PersistNow(pending, retry)
        /\ UNCHANGED <<queueVars, drainVars, wire>> /\ missed' = missed \cup SnapshotItems(image)
    BY <1>0, <1>3 DEF ShutdownSaves, FlushEnded, Draining, CallUnchanged
  <2>2. closed /\ closed' = TRUE
    BY <1>0, <2>1 DEF TInv, Shape
  <2>3. LeftOut \subseteq missed'
    BY <1>0, <2>1
  <2> QED BY <1>1, <2>1, <2>2, <2>3
<1> QED BY <1>2, <1>3

(***************************************************************************)
(* Type correctness                                                        *)
(***************************************************************************)

LEMMA LeftOutType == TInv => LeftOut \subseteq Item
<1> SUFFICES ASSUME TInv PROVE LeftOut \subseteq Item
  OBVIOUS
<1>1. work \cup inFlight \in SUBSET Chunk /\ image.retry \in SUBSET Chunk /\ image.pending \in SUBSET Item
  BY SnapshotFields DEF TInv, QueueOK, Sendable, TypeOK
<1> QED BY <1>1, ItemsInType DEF LeftOut, SnapshotItems

\* The process ends.
LEMMA EndType ==
  ASSUME TInv, ProcessEnds
  PROVE  TInv'
<1>1. Empty \in Snapshot /\ Sendable(Empty.retry) /\ Sendable({})
  BY EmptyHolds DEF Empty, Sendable
<1>2. /\ <<>> \in Seq(Snapshot) /\ Len(<<>>) = 0 /\ DOMAIN <<>> = {} /\ Cardinality({}) = 0
      /\ 0 \in 0 .. MaxWrites
  BY FS_EmptySet, ConstantsOK
<1>3. /\ up' = FALSE /\ online' = TRUE /\ closed' = FALSE /\ closing' = "no" /\ ahead' = 0
      /\ image' = Empty /\ loading' = FALSE /\ unreadable' = FALSE /\ pending' = {} /\ retry' = {}
      /\ work' = {} /\ inFlight' = {}
      /\ rerun' = FALSE /\ forceNext' = FALSE /\ awaited' = FALSE
      /\ persistTimer' = FALSE /\ writes' = <<>>
      /\ UNCHANGED <<keys, disk, refused, wire, accepted, captures, reported>>
  BY DEF ProcessEnds
<1>4. ends' \in 0 .. MaxEnds
  BY ConstantsOK DEF ProcessEnds, TInv, TypeOK
<1>5. TypeOK'
  <2>0. refused' \in BOOLEAN
    BY <1>3 DEF TInv, TypeOK
  <2>1. /\ {up', online', closed', loading', unreadable', refused'} \subseteq BOOLEAN
        /\ {persistTimer', rerun', forceNext', awaited'} \subseteq BOOLEAN
    BY <1>3, <2>0, Zenon
  <2>5. missed' \in SUBSET Item /\ recut' \in SUBSET Key
    <3>1. missed' = missed \cup ((pending \cup ItemsIn(retry) \cup LeftOut) \ SnapshotItems(disk))
      BY DEF ProcessEnds
    <3>2. pending \cup ItemsIn(retry) \cup LeftOut \subseteq Item
      BY LeftOutType, ItemsInType DEF TInv, TypeOK, QueueOK, Sendable
    <3>3. \A c \in CutSince(disk) : c.key \in Key
      BY DEF TInv, QueueOK, CutSince, Chunk
    <3> QED BY <3>1, <3>2, <3>3 DEF ProcessEnds, TInv, TypeOK
  <2>4. closing' \in Closing /\ ahead' \in 0 .. MaxWrites /\ (ahead' > 0 <=> closing' = "saving")
    BY <1>2, <1>3 DEF Closing
  <2>2. /\ {image', disk'} \subseteq Snapshot
        /\ {pending', reported'} \subseteq SUBSET Item
        /\ {retry', work', inFlight', wire'} \subseteq SUBSET Chunk
        /\ accepted' \in SUBSET Key
        /\ <<captures', keys'>> \in (0 .. MaxCaptures) \X (0 .. MaxKeys)
    BY <1>1, <1>3 DEF TInv, TypeOK
  <2>3. Cardinality(inFlight') <= 1 /\ writes' \in Seq(Snapshot)
    BY <1>2, <1>3
  <2> QED BY <1>4, <2>1, <2>2, <2>3, <2>4, <2>5 DEF TypeOK
<1>6. QueueOK'
  BY <1>1, <1>3 DEF TInv, QueueOK
<1>7. Shape'
  BY <1>1, <1>2, <1>3 DEF TInv, Shape
<1> QED BY <1>5, <1>6, <1>7 DEF TInv

\* The storage executes a call.
LEMMA WriteType ==
  ASSUME TInv, WriteLands
  PROVE  /\ TInv'
         /\ UNCHANGED <<up, drainVars, queueVars, online, closed, image, loading, unreadable,
                        persistTimer, wire, accepted, historyVars>>
         /\ writes # <<>> /\ Len(writes) \in Nat \ {0} /\ Len(writes') = Len(writes) - 1
         /\ \A n \in DOMAIN writes' : n + 1 \in DOMAIN writes /\ writes'[n] = writes[n + 1]
         /\ (disk' = writes[1] /\ refused' = FALSE) \/ (disk' = disk /\ refused' = TRUE)
         /\ ahead' = IF ahead > 0 THEN ahead - 1 ELSE 0
         /\ closing' = IF ahead = 1 THEN "done" ELSE closing
<1>1. writes \in Seq(Snapshot) /\ writes # <<>> /\ writes' = Tail(writes)
  BY DEF WriteLands, TInv, TypeOK
<1>2. /\ Len(writes) \in Nat \ {0} /\ writes' \in Seq(Snapshot) /\ Len(writes') = Len(writes) - 1
      /\ \A n \in DOMAIN writes' : n + 1 \in DOMAIN writes /\ writes'[n] = writes[n + 1]
      /\ Head(writes) = writes[1] /\ Head(writes) \in Snapshot /\ 1 \in DOMAIN writes
  BY <1>1
<1>3. /\ UNCHANGED <<up, drainVars, queueVars, online, closed, image, loading, unreadable,
                     persistTimer, wire, accepted, historyVars>>
      /\ ahead' = IF ahead > 0 THEN ahead - 1 ELSE 0
      /\ closing' = IF ahead = 1 THEN "done" ELSE closing
      /\ \/ disk' = Head(writes) /\ refused' = FALSE
         \/ refused' = TRUE /\ disk' = disk
  BY DEF WriteLands
<1>4. /\ (disk' = writes[1] /\ refused' = FALSE) \/ (disk' = disk /\ refused' = TRUE)
      /\ disk' \in Snapshot /\ refused' \in BOOLEAN /\ Sendable(disk'.retry)
  BY <1>2, <1>3 DEF TInv, TypeOK, Shape
<1>5. /\ ahead' \in 0 .. MaxWrites /\ closing' \in Closing /\ ahead' <= Len(writes')
      /\ ahead' > 0 <=> closing' = "saving"
      /\ closing' # "no" <=> closing # "no"
  <2>1. /\ ahead \in 0 .. MaxWrites /\ MaxWrites \in Nat /\ closing \in Closing
        /\ ahead > 0 <=> closing = "saving" /\ ahead <= Len(writes)
    BY ConstantsOK DEF TInv, TypeOK, Shape
  <2>2. CASE ahead = 0
    BY <1>2, <1>3, <2>1, <2>2
  <2>3. CASE ahead = 1
    BY <1>2, <1>3, <2>1, <2>3 DEF Closing
  <2>4. CASE ahead > 1
    BY <1>2, <1>3, <2>1, <2>4
  <2> QED BY <2>1, <2>2, <2>3, <2>4
<1>6. TypeOK'
  BY <1>2, <1>3, <1>4, <1>5 DEF TInv, TypeOK, drainVars, queueVars, historyVars
<1>7. QueueOK'
  BY <1>3 DEF TInv, QueueOK, drainVars, queueVars
<1>8. up /\ up'
  BY <1>1, <1>3 DEF TInv, Shape, TypeOK
<1>9. Shape'
  <2>1. \A n \in DOMAIN writes' : Sendable(writes'[n].retry)
    BY <1>2 DEF TInv, Shape
  <2>2. closed' <=> closing' # "no"
    BY <1>3, <1>5 DEF TInv, Shape
  <2> QED BY <1>3, <1>4, <1>5, <1>8, <2>1, <2>2 DEF TInv, Shape
<1> QED BY <1>1, <1>2, <1>3, <1>4, <1>6, <1>7, <1>9 DEF TInv

LEMMA CallType ==
  ASSUME TInv,
         Capture \/ QueueFlush \/ ClientFlush \/ NetworkChange \/ ShutdownRetries \/ PersistTimerFires
  PROVE  TInv'
<1>1. /\ up' = TRUE /\ online' \in BOOLEAN
      /\ UNCHANGED <<closed, closing, ahead, image, loading, unreadable, disk, refused, accepted, reported,
                         ends, missed, recut>>
  BY CallIs
<1>2. PICK p \in SUBSET Item, waits \in BOOLEAN, timer \in BOOLEAN : Called(p, waits, timer)
  BY CallIs
<1>3. Moved(p, retry \cup work \cup inFlight) /\ Stores(p, retry, waits, timer)
  BY <1>2 DEF Called
<1>4. captures' \in 0 .. MaxCaptures
  BY <1>2 DEF Called, TInv, TypeOK
<1>5. /\ {closed, loading, unreadable} \subseteq BOOLEAN /\ (~ loading => image = Empty)
      /\ closing \in Closing /\ (closed <=> closing # "no")
      /\ ahead \in 0 .. MaxWrites /\ (ahead > 0 <=> closing = "saving") /\ ahead <= Len(writes)
      /\ {reported, missed} \subseteq SUBSET Item /\ Sendable(retry)
      /\ Len(writes) \in Nat
  BY DEF TInv, TypeOK, Shape, QueueOK
<1>6. /\ writes' \in Seq(Snapshot) /\ Len(writes) <= Len(writes')
  BY <1>3, <1>5, StoresType
<1>7. ahead' <= Len(writes')
  BY <1>1, <1>5, <1>6
<1>8. /\ {closed', loading', unreadable'} \subseteq BOOLEAN /\ (~ loading' => image' = Empty)
      /\ closing' \in Closing /\ (closed' <=> closing' # "no")
      /\ ahead' \in 0 .. MaxWrites /\ (ahead' > 0 <=> closing' = "saving")
      /\ {reported', missed'} \subseteq SUBSET Item /\ image' \in {image, Empty}
  BY <1>1, <1>5
<1> QED BY <1>1, <1>3, <1>4, <1>5, <1>7, <1>8, HandlerType

LEMMA AnswerType ==
  ASSUME TInv, Accepted \/ Rejected \/ Failed
  PROVE  TInv'
<1>1. up /\ UNCHANGED <<up, clientVars, disk, refused, accepted, captures, ends, missed, recut>>
  BY AnswerIs
<1>2. PICK c \in inFlight : \E r \in {retry, retry \cup {c}} :
              /\ Sendable(r) /\ inFlight = {c} /\ c \in Chunk
              /\ Moved(pending, r \cup work) /\ Stores(pending, r, awaited, TRUE)
              /\ \/ reported' = reported /\ (c.key \in accepted \/ r = retry \cup {c})
                 \/ reported' = reported \cup c.items
  BY AnswerIs
<1>3. PICK r \in {retry, retry \cup {c}} :
              /\ Sendable(r) /\ c \in Chunk
              /\ Moved(pending, r \cup work) /\ Stores(pending, r, awaited, TRUE)
              /\ \/ reported' = reported
                 \/ reported' = reported \cup c.items
  BY <1>2
<1>4. {reported', missed'} \subseteq SUBSET Item
  <2>1. c.items \in SUBSET Item
    BY <1>3 DEF Chunk
  <2> QED BY <1>1, <1>3, <2>1 DEF TInv, TypeOK
<1>5. /\ {online, closed, loading, unreadable} \subseteq BOOLEAN /\ (~ loading => image = Empty)
      /\ closing \in Closing /\ (closed <=> closing # "no")
      /\ ahead \in 0 .. MaxWrites /\ (ahead > 0 <=> closing = "saving") /\ ahead <= Len(writes)
      /\ Len(writes) \in Nat /\ pending \in SUBSET Item /\ awaited \in BOOLEAN
      /\ captures \in 0 .. MaxCaptures
  BY DEF TInv, TypeOK, Shape, QueueOK
<1>6. writes' \in Seq(Snapshot) /\ Len(writes) <= Len(writes')
  <2>1. TRUE \in BOOLEAN
    OBVIOUS
  <2> QED BY <1>3, <1>5, <2>1, StoresType
<1>7. ahead' <= Len(writes')
  BY <1>1, <1>5, <1>6 DEF clientVars
<1>8. /\ {online', closed', loading', unreadable'} \subseteq BOOLEAN /\ (~ loading' => image' = Empty)
      /\ closing' \in Closing /\ (closed' <=> closing' # "no")
      /\ ahead' \in 0 .. MaxWrites /\ (ahead' > 0 <=> closing' = "saving")
      /\ image' \in {image, Empty} /\ captures' \in 0 .. MaxCaptures
  BY <1>1, <1>5 DEF clientVars
<1>9. up' = TRUE /\ TRUE \in BOOLEAN
  BY <1>1 DEF TInv, TypeOK
<1> QED BY <1>1, <1>3, <1>4, <1>5, <1>7, <1>8, <1>9, HandlerType

LEMMA LoadedType ==
  ASSUME TInv, Loaded
  PROVE  TInv'
<1> DEFINE p == image.pending \cup pending
           r == retry \cup image.retry
<1>1. /\ up' = TRUE /\ loading' = FALSE /\ unreadable' = FALSE /\ image' = Empty
      /\ UNCHANGED <<online, closed, closing, ahead, disk, refused, accepted, historyVars>>
      /\ p \in SUBSET Item /\ Sendable(r)
      /\ Moved(p, r \cup work \cup inFlight)
      /\ \E waits \in BOOLEAN : Stores(p, r, waits, persistTimer)
  BY LoadedIs
<1> HIDE DEF p, r
<1>2. PICK waits \in BOOLEAN : Stores(p, r, waits, persistTimer)
  BY <1>1
<1>3. /\ {online, closed} \subseteq BOOLEAN /\ persistTimer \in BOOLEAN
      /\ closing \in Closing /\ (closed <=> closing # "no")
      /\ ahead \in 0 .. MaxWrites /\ (ahead > 0 <=> closing = "saving") /\ ahead <= Len(writes)
      /\ Len(writes) \in Nat /\ captures \in 0 .. MaxCaptures /\ {reported, missed} \subseteq SUBSET Item
  BY DEF TInv, TypeOK, Shape, QueueOK
<1>4. writes' \in Seq(Snapshot) /\ Len(writes) <= Len(writes')
  BY <1>1, <1>2, <1>3, StoresType
<1>5. ahead' <= Len(writes')
  BY <1>1, <1>3, <1>4
<1>6. /\ {online', closed', loading', unreadable'} \subseteq BOOLEAN /\ (~ loading' => image' = Empty)
      /\ closing' \in Closing /\ (closed' <=> closing' # "no")
      /\ ahead' \in 0 .. MaxWrites /\ (ahead' > 0 <=> closing' = "saving")
      /\ image' \in {image, Empty} /\ captures' \in 0 .. MaxCaptures /\ {reported', missed'} \subseteq SUBSET Item
      /\ ends' = ends /\ recut' = recut
  BY <1>1, <1>3 DEF historyVars
<1> QED BY <1>1, <1>2, <1>3, <1>5, <1>6, HandlerType

LEMMA SaveType ==
  ASSUME TInv, Shutdown \/ ShutdownSaves
  PROVE  TInv'
<1>1. /\ up' = TRUE /\ closed' = TRUE
      /\ UNCHANGED <<online, image, loading, unreadable, disk, refused, accepted, reported, captures, ends, recut>>
      /\ Moved(pending, retry \cup work \cup inFlight)
  BY SaveIs
<1>2. /\ {online, loading, unreadable} \subseteq BOOLEAN /\ persistTimer \in BOOLEAN /\ (~ loading => image = Empty)
      /\ captures \in 0 .. MaxCaptures /\ reported \in SUBSET Item /\ keys \in 0 .. MaxKeys
      /\ pending \in SUBSET Item /\ Sendable(retry) /\ MaxWrites \in Nat
      /\ Len(writes) \in Nat /\ writes \in Seq(Snapshot)
      /\ \A n \in DOMAIN writes : Sendable(writes[n].retry)
  BY ConstantsOK DEF TInv, TypeOK, Shape, QueueOK
<1>3. \E waits \in BOOLEAN : Stores(pending, retry, waits, persistTimer)
  BY SaveIs
<1>4. PICK waits \in BOOLEAN : Stores(pending, retry, waits, persistTimer)
  BY <1>3
<1>5. Len(writes') \in Nat
  <2>1. writes' \in Seq(Snapshot)
    BY <1>2, <1>4, StoresType
  <2> QED BY <2>1
<1>6. /\ closing' \in Closing /\ closing' # "no"
      /\ ahead' \in 0 .. MaxWrites /\ (ahead' > 0 <=> closing' = "saving") /\ ahead' <= Len(writes')
  <2>1. CASE closing' = "queue" /\ ahead' = 0
    BY <1>2, <1>5, <2>1 DEF Closing
  <2>2. CASE closing' = "saving" /\ ahead' = Len(writes') /\ PersistNow(pending, retry)
    <3>1. Len(writes') \in 1 .. MaxWrites
      BY <1>2, <2>2, PersistAppends
    <3> QED BY <1>2, <2>2, <3>1 DEF Closing
  <2> QED BY <2>1, <2>2, SaveIs
<1>8. missed' \in SUBSET Item
  <2>1. missed \cup LeftOut \subseteq Item /\ SnapshotItems(image) \subseteq LeftOut
    BY LeftOutType DEF TInv, TypeOK, LeftOut
  <2> QED BY <2>1, SaveIs
<1>7. /\ {online', closed', loading', unreadable'} \subseteq BOOLEAN /\ (~ loading' => image' = Empty)
      /\ (closed' <=> closing' # "no")
      /\ image' \in {image, Empty} /\ captures' \in 0 .. MaxCaptures /\ {reported', missed'} \subseteq SUBSET Item
  BY <1>1, <1>2, <1>6, <1>8
<1> QED BY <1>1, <1>2, <1>4, <1>6, <1>7, HandlerType

LEMMA UnreadableType ==
  ASSUME TInv, Unreadable
  PROVE  /\ TInv' /\ up /\ loading
         /\ image' = Empty /\ missed' = missed \cup SnapshotItems(image)
         /\ UNCHANGED <<up, drainVars, queueVars, online, closed, closing, ahead, loading, persistTimer,
                        disk, refused, wire, accepted, captures, reported, ends, recut>>
         /\ writes \in Seq(Snapshot) /\ writes' = Append(writes, Empty)
<1>1. /\ up /\ loading /\ unreadable' = TRUE /\ image' = Empty
      /\ missed' = missed \cup SnapshotItems(image)
      /\ Len(writes) < MaxWrites /\ writes' = Append(writes, Empty)
      /\ UNCHANGED <<up, drainVars, queueVars, online, closed, closing, ahead, loading, persistTimer,
                     disk, refused, wire, accepted, captures, reported, ends, recut>>
  BY DEF Unreadable
<1>2. Empty \in Snapshot /\ Sendable(Empty.retry)
  BY EmptyHolds DEF Empty, Sendable
<1>3. writes \in Seq(Snapshot) /\ \A n \in DOMAIN writes : Sendable(writes[n].retry)
  BY DEF TInv, TypeOK, Shape
<1>4. writes' \in Seq(Snapshot) /\ Len(writes') = Len(writes) + 1 /\ Len(writes) \in Nat
      /\ \A n \in DOMAIN writes' : Sendable(writes'[n].retry)
  BY <1>1, <1>2, <1>3
<1>5. missed' \in SUBSET Item
  <2>1. missed \in SUBSET Item /\ SnapshotItems(image) \subseteq LeftOut
    BY DEF TInv, TypeOK, LeftOut
  <2> QED BY <1>1, <2>1, LeftOutType
<1>6. TypeOK'
  BY <1>1, <1>2, <1>4, <1>5 DEF TInv, TypeOK, drainVars, queueVars
<1>7. QueueOK'
  BY <1>1 DEF TInv, QueueOK, drainVars, queueVars
<1>8. Shape'
  <2>1. ahead' <= Len(writes')
    BY <1>1, <1>4, ConstantsOK DEF TInv, Shape, TypeOK
  <2> QED BY <1>1, <1>2, <1>4, <2>1 DEF TInv, Shape, drainVars, queueVars
<1> QED BY <1>1, <1>3, <1>6, <1>7, <1>8 DEF TInv

LEMMA RestType ==
  ASSUME TInv, ServerReceives \/ Launch \/ UNCHANGED vars
  PROVE  TInv'
<1>1. CASE ServerReceives
  <2>1. /\ accepted' \subseteq Key
        /\ UNCHANGED <<up, drainVars, queueVars, clientVars, storeVars, wire, historyVars>>
    BY <1>1 DEF ServerReceives, TInv, TypeOK, Chunk
  <2> QED BY <2>1 DEF TInv, TypeOK, QueueOK, Shape, drainVars, queueVars, clientVars, storeVars, historyVars
<1>2. CASE Launch
  <2>1. /\ ~ up /\ up' = TRUE /\ loading' = TRUE /\ image' = disk
        /\ UNCHANGED <<online, closed, closing, ahead, unreadable, drainVars, queueVars, storeVars, wire,
                       accepted, historyVars>>
    BY <1>2 DEF Launch
  <2>2. TypeOK'
    BY <2>1 DEF TInv, TypeOK, drainVars, queueVars, storeVars, historyVars
  <2>3. QueueOK'
    BY <2>1 DEF TInv, QueueOK, drainVars, queueVars, storeVars
  <2>4. Shape'
    BY <2>1 DEF TInv, Shape, drainVars, queueVars, storeVars
  <2> QED BY <2>2, <2>3, <2>4 DEF TInv
<1>3. CASE UNCHANGED vars
  BY <1>3 DEF TInv, TypeOK, QueueOK, Shape, vars, drainVars, queueVars, clientVars, storeVars, historyVars
<1> QED BY <1>1, <1>2, <1>3

LEMMA InitType == Init => TInv
<1> SUFFICES ASSUME Init PROVE TInv
  OBVIOUS
<1>1. Empty \in Snapshot /\ Sendable(Empty.retry) /\ Sendable({})
  BY EmptyHolds DEF Empty, Sendable
<1>2. /\ <<>> \in Seq(Snapshot) /\ Len(<<>>) = 0 /\ DOMAIN <<>> = {} /\ Cardinality({}) = 0
      /\ 0 \in 0 .. MaxWrites /\ 0 \in 0 .. MaxKeys /\ 0 \in 0 .. MaxCaptures /\ 0 \in 0 .. MaxEnds
  BY FS_EmptySet, ConstantsOK
<1>3. TypeOK
  <2>1. /\ {up, online, closed, loading, unreadable, refused} \subseteq BOOLEAN
        /\ {persistTimer, rerun, forceNext, awaited} \subseteq BOOLEAN
    BY Zenon DEF Init
  <2>2. closing \in Closing /\ ahead \in 0 .. MaxWrites /\ (ahead > 0 <=> closing = "saving")
    BY <1>2 DEF Init, Closing
  <2>3. /\ {image, disk} \subseteq Snapshot
        /\ {pending, reported, missed} \subseteq SUBSET Item
        /\ {retry, work, inFlight, wire} \subseteq SUBSET Chunk
        /\ {accepted, recut} \subseteq SUBSET Key
        /\ <<captures, keys>> \in (0 .. MaxCaptures) \X (0 .. MaxKeys)
        /\ ends \in 0 .. MaxEnds
    BY <1>1, <1>2 DEF Init
  <2>4. Cardinality(inFlight) <= 1 /\ writes \in Seq(Snapshot)
    BY <1>2 DEF Init
  <2> QED BY <2>1, <2>2, <2>3, <2>4 DEF TypeOK
<1>4. QueueOK
  BY <1>1, <1>2 DEF Init, QueueOK
<1>5. Shape
  BY <1>1, <1>2 DEF Init, Shape
<1> QED BY <1>3, <1>4, <1>5 DEF TInv

LEMMA StepType == TInv /\ [Next]_vars => TInv'
<1> SUFFICES ASSUME TInv, [Next]_vars PROVE TInv'
  OBVIOUS
<1>1. \/ Capture \/ QueueFlush \/ ClientFlush \/ NetworkChange \/ ShutdownRetries \/ PersistTimerFires
      \/ Accepted \/ Rejected \/ Failed
      \/ Loaded \/ Unreadable \/ WriteLands \/ Shutdown \/ ShutdownSaves
      \/ ProcessEnds
      \/ ServerReceives \/ Launch \/ UNCHANGED vars
  BY DEF Next, Queue, Store, Ending, Exit, Kill
<1> QED BY <1>1, CallType, AnswerType, LoadedType, UnreadableType, SaveType, WriteType, EndType, RestType

\* Over launches, kills, restores and lost answers the client keeps its state
\* well formed: it awaits at most one send, a client that does not run holds
\* nothing, and no chunk is stored or kept that may not be sent again.
THEOREM TypeCorrect == Spec => []TypeOK
<1>1. TInv => TypeOK
  BY DEF TInv
<1> QED BY InitType, StepType, <1>1, PTL DEF Spec

(***************************************************************************)
(* One place for every item, whatever the app does                         *)
(***************************************************************************)

Distinct(S) == \A c, d \in S : c # d => c.items \cap d.items = {}

\* No item is at once pending, in retry, in the work of the round and in flight,
\* nor in two chunks.
Apart(p, r, w, f) ==
  /\ p \cap ItemsIn(r) = {} /\ p \cap ItemsIn(w) = {} /\ p \cap ItemsIn(f) = {}
  /\ ItemsIn(r) \cap ItemsIn(w) = {} /\ ItemsIn(r) \cap ItemsIn(f) = {}
  /\ ItemsIn(w) \cap ItemsIn(f) = {}
  /\ Distinct(r \cup w)

\* What the queue holds in chunks.
Live == retry \cup work \cup inFlight

\* A snapshot holds each of the first n items at most once, and no other.
Whole(s, n) ==
  /\ s.pending \cap ItemsIn(s.retry) = {} /\ Distinct(s.retry)
  /\ SnapshotItems(s) \subseteq 1 .. n

\* What is restored is not in the queue yet: an item captured since has a later
\* number.
PlacesOK ==
  /\ Apart(pending, retry, work, inFlight)
  /\ pending \cup ItemsIn(Live) \subseteq 1 .. captures
  /\ SnapshotItems(image) \cap (pending \cup ItemsIn(Live)) = {}
  /\ Whole(image, captures) /\ Whole(disk, captures)
  /\ \A n \in DOMAIN writes : Whole(writes[n], captures)

LEMMA LiveItems == ItemsIn(Live) = ItemsIn(retry) \cup ItemsIn(work) \cup ItemsIn(inFlight)
<1>1. ItemsIn((retry \cup work) \cup inFlight) = ItemsIn(retry \cup work) \cup ItemsIn(inFlight)
  BY ItemsInUnion
<1> QED BY <1>1, ItemsInUnion DEF Live

LEMMA PartsDistinct ==
  ASSUME NEW S, Distinct(S), NEW A \in SUBSET S, NEW B \in SUBSET S, A \cap B = {}
  PROVE  ItemsIn(A) \cap ItemsIn(B) = {} /\ Distinct(A)
<1>1. \A c \in A, d \in B : c.items \cap d.items = {}
  BY DEF Distinct
<1>2. Distinct(A)
  BY DEF Distinct
<1> QED BY <1>1, <1>2 DEF ItemsIn

LEMMA JoinDistinct ==
  ASSUME NEW A, Distinct(A), NEW B, Distinct(B), ItemsIn(A) \cap ItemsIn(B) = {}
  PROVE  Distinct(A \cup B)
<1>1. \A c \in A, d \in B : c.items \cap d.items = {} /\ d.items \cap c.items = {}
  BY DEF ItemsIn
<1> QED BY <1>1 DEF Distinct

LEMMA OneDistinct == \A c : Distinct({c})
  BY DEF Distinct

\* The chunk that goes out shares nothing with the rest of the round.
LEMMA SendApart ==
  ASSUME NEW all, Sendable(all), Distinct(all), NEW c \in all, Send(c, all \ {c})
  PROVE  /\ ItemsIn(work') \cap ItemsIn(inFlight') = {} /\ Distinct(work') /\ work' \subseteq all
         /\ ItemsIn(work' \cup inFlight') = ItemsIn(all)
<1> DEFINE sent == [c EXCEPT !.attempts = @ + 1]
<1>1. inFlight' = {sent} /\ work' = all \ {c}
  BY DEF Send
<1>2. sent.items = c.items
  BY DEF Sendable, Chunk
<1> HIDE DEF sent
<1>3. ItemsIn(inFlight') = ItemsIn({c})
  BY <1>1, <1>2, OneHolds
<1>4. all \ {c} \in SUBSET all /\ {c} \in SUBSET all /\ (all \ {c}) \cap {c} = {}
  OBVIOUS
<1>5. ItemsIn(all \ {c}) \cap ItemsIn({c}) = {} /\ Distinct(all \ {c})
  BY <1>4, PartsDistinct
<1>6. ItemsIn(work' \cup inFlight') = ItemsIn(all)
  BY SendKeeps
<1> QED BY <1>1, <1>3, <1>5, <1>6

LEMMA RoundApart ==
  ASSUME NEW p \in SUBSET Item, NEW r, Sendable(r), NEW force, NEW waits \in BOOLEAN, NEW timer,
         keys \in 0 .. MaxKeys, Round(p, r, force, waits, timer),
         p \cap ItemsIn(r) = {}, Distinct(r)
  PROVE  Apart(pending', retry', work', inFlight')
<1> DEFINE fresh == IF p = {} THEN {} ELSE {[key |-> FreshKey, items |-> p, attempts |-> 0]}
<1>1. PICK due \in SUBSET r :
        \/ /\ due \cup fresh # {}
           /\ keys < MaxKeys \/ fresh = {}
           /\ keys' = keys + Cardinality(fresh)
           /\ pending' = {} /\ retry' = r \ due
           /\ \E c \in due \cup fresh : Send(c, (due \cup fresh) \ {c})
        \/ inFlight' = {} /\ work' = {} /\ pending' = {} /\ retry' = r
  BY DEF Round, NotDue
<1>2. CASE inFlight' = {} /\ work' = {} /\ pending' = {} /\ retry' = r
  <2>1. retry' \cup work' = r
    BY <1>2
  <2> QED BY <1>2, <2>1, EmptyHolds DEF Apart
<1>3. CASE /\ keys < MaxKeys \/ fresh = {}
           /\ pending' = {} /\ retry' = r \ due
           /\ \E c \in due \cup fresh : Send(c, (due \cup fresh) \ {c})
  <2>1. Sendable(fresh) /\ ItemsIn(fresh) = p /\ Distinct(fresh)
    <3>1. CASE p = {}
      <4>1. fresh = {}
        BY <3>1
      <4> QED BY <3>1, <4>1, EmptyHolds DEF Sendable, Distinct
    <3>2. CASE p # {}
      <4> DEFINE c == [key |-> FreshKey, items |-> p, attempts |-> 0]
      <4>1. fresh = {c}
        BY <3>2
      <4>2. keys + 1 \in Key
        <5>1. keys < MaxKeys
          BY <1>3, <4>1
        <5> QED BY <5>1, ConstantsOK DEF Key
      <4>3. c \in Chunk /\ c.attempts < MaxAttempts /\ c.items = p
        BY <4>2, ConstantsOK DEF Chunk, FreshKey
      <4> HIDE DEF c
      <4> QED BY <4>1, <4>3, OneHolds, OneDistinct DEF Sendable
    <3> QED BY <3>1, <3>2
  <2> HIDE DEF fresh
  <2>2. PICK c \in due \cup fresh : Send(c, (due \cup fresh) \ {c})
    BY <1>3
  <2>3. /\ ItemsIn(due) \cap ItemsIn(r \ due) = {} /\ Distinct(due) /\ Distinct(r \ due)
    <3>1. due \in SUBSET r /\ r \ due \in SUBSET r /\ due \cap (r \ due) = {} /\ (r \ due) \cap due = {}
      OBVIOUS
    <3> QED BY <3>1, PartsDistinct
  <2>4. ItemsIn(due) \subseteq ItemsIn(r) /\ ItemsIn(r \ due) \subseteq ItemsIn(r)
    BY DEF ItemsIn
  <2>5. ItemsIn(due \cup fresh) = ItemsIn(due) \cup p
    BY <2>1, ItemsInUnion
  <2>6. Sendable(due \cup fresh) /\ Distinct(due \cup fresh)
    <3>1. ItemsIn(due) \cap ItemsIn(fresh) = {}
      BY <2>1, <2>4
    <3>2. Distinct(due \cup fresh)
      BY <2>1, <2>3, <3>1, JoinDistinct
    <3> QED BY <2>1, <3>2 DEF Sendable
  <2>7. /\ ItemsIn(work') \cap ItemsIn(inFlight') = {} /\ Distinct(work')
        /\ ItemsIn(work' \cup inFlight') = ItemsIn(due) \cup p
    BY <2>2, <2>5, <2>6, SendApart
  <2>8. ItemsIn(work') \cup ItemsIn(inFlight') = ItemsIn(due) \cup p
    BY <2>7, ItemsInUnion
  <2>9. ItemsIn(r \ due) \cap (ItemsIn(due) \cup p) = {}
    BY <2>3, <2>4
  <2>10. ItemsIn(retry') \cap ItemsIn(work') = {} /\ ItemsIn(retry') \cap ItemsIn(inFlight') = {}
    BY <1>3, <2>8, <2>9
  <2>11. Distinct(retry' \cup work')
    BY <1>3, <2>3, <2>7, <2>10, JoinDistinct
  <2> QED BY <1>3, <2>7, <2>10, <2>11 DEF Apart
<1> QED BY <1>1, <1>2, <1>3

LEMMA FlushApart ==
  ASSUME QueueOK, NEW p \in SUBSET Item, NEW r, Sendable(r), NEW force \in BOOLEAN,
         NEW waits \in BOOLEAN, NEW timer, FlushCall(p, r, force, waits, timer),
         Apart(p, r, work, inFlight)
  PROVE  Apart(pending', retry', work', inFlight')
<1>1. CASE pending' = p /\ retry' = r /\ UNCHANGED <<work, inFlight>>
  BY <1>1
<1>2. CASE inFlight = {} /\ Round(p, r, force, waits, timer)
  <2>1. r \cup work = r
    BY <1>2 DEF QueueOK
  <2>2. p \cap ItemsIn(r) = {} /\ Distinct(r)
    BY <2>1 DEF Apart
  <2> QED BY <1>2, <2>2, RoundApart DEF QueueOK
<1> QED BY <1>1, <1>2 DEF FlushCall, Draining, drainVars

\* What was in flight has been answered.
LEMMA ContinueApart ==
  ASSUME QueueOK, NEW r, Sendable(r), Continue(r), Apart(pending, r, work, {})
  PROVE  Apart(pending', retry', work', inFlight')
<1>0. /\ pending \cap ItemsIn(r) = {} /\ pending \cap ItemsIn(work) = {}
      /\ ItemsIn(r) \cap ItemsIn(work) = {} /\ Distinct(r \cup work)
  BY DEF Apart
<1>1. CASE /\ work # {} /\ \E c \in work : Send(c, work \ {c})
           /\ retry' = r /\ pending' = pending
  <2>1. PICK c \in work : Send(c, work \ {c})
    BY <1>1
  <2>2. work \in SUBSET (r \cup work) /\ {} \in SUBSET (r \cup work) /\ work \cap {} = {}
    OBVIOUS
  <2>3. Distinct(work) /\ Sendable(work)
    BY <1>0, <2>2, PartsDistinct DEF QueueOK
  <2>4. /\ ItemsIn(work') \cap ItemsIn(inFlight') = {} /\ work' \subseteq work
        /\ ItemsIn(work' \cup inFlight') = ItemsIn(work)
    BY <2>1, <2>3, SendApart
  <2>5. ItemsIn(work') \cup ItemsIn(inFlight') = ItemsIn(work)
    BY <2>4, ItemsInUnion
  <2>6. Distinct(retry' \cup work')
    BY <1>0, <1>1, <2>4 DEF Distinct
  <2>7. /\ pending' \cap ItemsIn(retry') = {} /\ pending' \cap ItemsIn(work') = {}
        /\ pending' \cap ItemsIn(inFlight') = {}
        /\ ItemsIn(retry') \cap ItemsIn(work') = {} /\ ItemsIn(retry') \cap ItemsIn(inFlight') = {}
    BY <1>0, <1>1, <2>5
  <2> QED BY <2>4, <2>6, <2>7 DEF Apart
<1>2. CASE work = {} /\ Round(pending, r, forceNext, awaited, persistTimer \/ Changed)
  <2>1. r \cup work = r
    BY <1>2
  <2> QED BY <1>0, <1>2, <2>1, RoundApart DEF QueueOK
<1>3. CASE work = {} /\ inFlight' = {} /\ retry' = r /\ UNCHANGED <<pending, work>>
  BY <1>3
<1> QED BY <1>1, <1>2, <1>3 DEF Continue

\* Captures, flushes, network changes and the timer of the snapshot.
LEMMA CallApart ==
  ASSUME TInv, PlacesOK,
         Capture \/ QueueFlush \/ ClientFlush \/ NetworkChange \/ ShutdownRetries \/ PersistTimerFires
  PROVE  Apart(pending', retry', work', inFlight')
<1>0. QueueOK /\ pending \in SUBSET Item /\ Sendable(retry) /\ captures \in 0 .. MaxCaptures
  BY DEF TInv, QueueOK, TypeOK
<1>1. Apart(pending, retry, work, inFlight)
  BY DEF PlacesOK
<1>2. ASSUME NEW force \in BOOLEAN, NEW waits \in BOOLEAN, NEW timer,
             FlushCall(pending, retry, force, waits, timer)
      PROVE  Apart(pending', retry', work', inFlight')
  BY <1>0, <1>1, <1>2, FlushApart
<1>3. CASE UNCHANGED <<queueVars, drainVars>>
  BY <1>1, <1>3 DEF queueVars, drainVars
<1>4. CASE QueueFlush \/ ClientFlush \/ ShutdownRetries
  BY <1>2, <1>4 DEF QueueFlush, ClientFlush, ShutdownRetries
<1>5. CASE NetworkChange
  BY <1>2, <1>3, <1>5 DEF NetworkChange
<1>6. CASE PersistTimerFires
  BY <1>3, <1>6 DEF PersistTimerFires
<1>7. CASE Capture
  <2> DEFINE p == pending \cup {captures + 1}
  <2>1. /\ captures < MaxCaptures
        /\ \/ FlushCall(p, retry, FALSE, FALSE, TRUE)
           \/ pending' = p /\ UNCHANGED <<retry, drainVars>>
    BY <1>7 DEF Capture
  <2>2. p \in SUBSET Item /\ captures + 1 \notin 1 .. captures
    BY <1>0, <2>1, ConstantsOK DEF Item
  <2>3. captures + 1 \notin ItemsIn(retry) \cup ItemsIn(work) \cup ItemsIn(inFlight)
    BY <2>2, LiveItems DEF PlacesOK
  <2>4. Apart(p, retry, work, inFlight)
    BY <1>1, <2>3 DEF Apart
  <2> HIDE DEF p
  <2>5. CASE FlushCall(p, retry, FALSE, FALSE, TRUE)
    BY <1>0, <2>2, <2>4, <2>5, FlushApart
  <2>6. CASE pending' = p /\ UNCHANGED <<retry, drainVars>>
    BY <2>4, <2>6 DEF drainVars
  <2> QED BY <2>1, <2>5, <2>6
<1> QED BY <1>4, <1>5, <1>6, <1>7

\* The queue, its items apart, and what the storage is asked to keep of them.
LEMMA PlacesKept ==
  ASSUME TInv, PlacesOK, NEW p \in SUBSET Item, NEW r, Sendable(r), NEW waits, NEW timer, NEW S,
         Moved(p, S), Stores(p, r, waits, timer), Apart(pending', retry', work', inFlight'),
         captures' \in Nat, captures <= captures', disk' = disk,
         p \cup ItemsIn(S) \subseteq 1 .. captures',
         \/ image' = image /\ SnapshotItems(image) \cap (p \cup ItemsIn(S)) = {}
         \/ image' = Empty
  PROVE  PlacesOK'
<1>1. pending' \cup ItemsIn(Live') = p \cup ItemsIn(S)
  BY DEF Moved, Live
<1>2. ASSUME NEW s, Whole(s, captures) PROVE Whole(s, captures')
  <2>1. 1 .. captures \subseteq 1 .. captures'
    BY DEF TInv, TypeOK
  <2> QED BY <1>2, <2>1 DEF Whole
<1>3. Whole(image', captures') /\ SnapshotItems(image') \cap (pending' \cup ItemsIn(Live')) = {}
  <2>1. CASE image' = image /\ SnapshotItems(image) \cap (p \cup ItemsIn(S)) = {}
    BY <1>1, <1>2, <2>1 DEF PlacesOK
  <2>2. CASE image' = Empty
    <3>1. SnapshotItems(Empty) = {} /\ Empty.retry = {} /\ Empty.pending = {}
      BY EmptyHolds DEF Empty
    <3> QED BY <2>2, <3>1 DEF Whole, Distinct
  <2> QED BY <2>1, <2>2
<1>4. \A n \in DOMAIN writes' : Whole(writes'[n], captures')
  <2>1. \A n \in DOMAIN writes : Whole(writes[n], captures')
    BY <1>2 DEF PlacesOK
  <2>2. CASE writes' = writes
    BY <2>1, <2>2
  <2>3. CASE pending' = p /\ retry' = r /\ PersistNow(p, r)
    <3>1. /\ writes'[Len(writes')] = TakeSnapshot(p, r)
          /\ \A n \in DOMAIN writes : writes'[n] = writes[n]
          /\ DOMAIN writes' = DOMAIN writes \cup {Len(writes')}
      <4>1. writes \in Seq(Snapshot) /\ \A n \in DOMAIN writes : Sendable(writes[n].retry)
        BY DEF TInv, TypeOK, Shape
      <4> QED BY <2>3, <4>1, PersistAppends DEF TInv, QueueOK
    <3>2. TakeSnapshot(p, r).pending = p /\ TakeSnapshot(p, r).retry = r
      BY TakenIs DEF Sendable, TInv, QueueOK
    <3>3. p \cap ItemsIn(r) = {} /\ Distinct(r)
      <4>1. r \in SUBSET (r \cup work') /\ {} \in SUBSET (r \cup work') /\ r \cap {} = {}
        OBVIOUS
      <4> QED BY <2>3, <4>1, PartsDistinct DEF Apart
    <3>4. p \cup ItemsIn(r) \subseteq 1 .. captures'
      <4>1. ItemsIn(r) \subseteq ItemsIn(Live')
        BY <2>3 DEF ItemsIn, Live
      <4> QED BY <1>1, <2>3, <4>1
    <3>5. Whole(TakeSnapshot(p, r), captures')
      BY <3>2, <3>3, <3>4 DEF Whole, SnapshotItems
    <3>6. ASSUME NEW n \in DOMAIN writes' PROVE Whole(writes'[n], captures')
      <4>1. CASE n \in DOMAIN writes
        BY <2>1, <3>1, <4>1, Zenon
      <4>2. CASE n = Len(writes')
        BY <3>1, <3>5, <4>2, Zenon
      <4> QED BY <3>1, <4>1, <4>2, Zenon
    <3> QED BY <3>6
  <2> QED BY <2>2, <2>3 DEF Stores
<1>5. pending' \cup ItemsIn(Live') \subseteq 1 .. captures' /\ Whole(disk', captures')
  BY <1>1, <1>2 DEF PlacesOK
<1> QED BY <1>3, <1>4, <1>5 DEF PlacesOK

LEMMA CallPlaces ==
  ASSUME TInv, PlacesOK,
         Capture \/ QueueFlush \/ ClientFlush \/ NetworkChange \/ ShutdownRetries \/ PersistTimerFires
  PROVE  PlacesOK'
<1>1. image' = image /\ disk' = disk
  BY CallIs
<1>2. PICK p \in SUBSET Item, waits \in BOOLEAN, timer \in BOOLEAN : Called(p, waits, timer)
  BY CallIs
<1>3. Moved(p, Live) /\ Stores(p, retry, waits, timer)
  BY <1>2 DEF Called, Live
<1>4. Apart(pending', retry', work', inFlight')
  BY CallApart
<1>5. captures \in Nat /\ Sendable(retry)
  BY DEF TInv, TypeOK, QueueOK
<1>6. /\ captures' \in Nat /\ captures <= captures' /\ p \cup ItemsIn(Live) \subseteq 1 .. captures'
      /\ SnapshotItems(image) \cap (p \cup ItemsIn(Live)) = {}
  <2>1. CASE captures' = captures /\ p = pending
    BY <1>5, <2>1 DEF PlacesOK
  <2>2. CASE captures' = captures + 1 /\ p = pending \cup {captures'}
    <3>1. captures' \notin 1 .. captures /\ 1 .. captures \subseteq 1 .. captures' /\ captures' \in 1 .. captures'
      BY <1>5, <2>2
    <3>2. SnapshotItems(image) \subseteq 1 .. captures
      BY DEF PlacesOK, Whole
    <3> QED BY <1>5, <2>2, <3>1, <3>2 DEF PlacesOK
  <2> QED BY <1>2, <2>1, <2>2 DEF Called
<1> HIDE DEF Live
<1> QED BY <1>1, <1>3, <1>4, <1>5, <1>6, PlacesKept

LEMMA AnswerPlaces ==
  ASSUME TInv, PlacesOK, Accepted \/ Rejected \/ Failed
  PROVE  PlacesOK'
<1>0. /\ QueueOK /\ pending \in SUBSET Item /\ captures \in Nat
      /\ Apart(pending, retry, work, inFlight)
  BY DEF TInv, QueueOK, TypeOK, PlacesOK
<1>1. image' = image /\ disk' = disk /\ captures' = captures
  BY AnswerIs DEF clientVars
<1>2. PICK c \in inFlight : Continue(retry) \/ (~ OutOfAttempts(c) /\ Continue(retry \cup {c}))
  BY DEF Accepted, Rejected, Failed
<1>3. PICK r \in {retry, retry \cup {c}} : Sendable(r) /\ Continue(r)
  <2>1. Sendable(retry) /\ (~ OutOfAttempts(c) => Sendable(retry \cup {c}))
    BY <1>0, ConstantsOK DEF QueueOK, Sendable, OutOfAttempts, Chunk
  <2> QED BY <1>2, <2>1
<1>4. ItemsIn({c}) \subseteq ItemsIn(inFlight)
  BY DEF ItemsIn
<1>5. Apart(pending, r, work, {})
  <2>1. CASE r = retry
    BY <1>0, <2>1, EmptyHolds DEF Apart
  <2>2. CASE r = retry \cup {c}
    <3>1. ItemsIn(r) = ItemsIn(retry) \cup ItemsIn({c})
      BY <2>2, ItemsInUnion
    <3>2. ItemsIn(retry \cup work) \cap ItemsIn({c}) = {}
      BY <1>0, <1>4, ItemsInUnion DEF Apart
    <3>3. Distinct((retry \cup work) \cup {c})
      BY <1>0, <3>2, OneDistinct, JoinDistinct DEF Apart
    <3>4. r \cup work = (retry \cup work) \cup {c}
      BY <2>2
    <3>5. /\ pending \cap ItemsIn(r) = {} /\ pending \cap ItemsIn(work) = {}
          /\ ItemsIn(r) \cap ItemsIn(work) = {}
      BY <1>0, <1>4, <3>1 DEF Apart
    <3> QED BY <3>3, <3>4, <3>5, EmptyHolds DEF Apart
  <2> QED BY <2>1, <2>2
<1>6. Apart(pending', retry', work', inFlight')
  BY <1>0, <1>3, <1>5, ContinueApart
<1>7. Moved(pending, r \cup work) /\ Stores(pending, r, awaited, TRUE)
  BY <1>0, <1>3, ContinueMoved
<1>8. pending \cup ItemsIn(r \cup work) \subseteq pending \cup ItemsIn(Live)
  BY <1>3 DEF ItemsIn, Live
<1>9. /\ pending \cup ItemsIn(r \cup work) \subseteq 1 .. captures'
      /\ SnapshotItems(image) \cap (pending \cup ItemsIn(r \cup work)) = {}
  BY <1>1, <1>8 DEF PlacesOK
<1>10. captures' \in Nat /\ captures <= captures'
  BY <1>0, <1>1
<1> HIDE DEF Live
<1> QED BY <1>0, <1>1, <1>3, <1>6, <1>7, <1>9, <1>10, PlacesKept

LEMMA LoadedPlaces ==
  ASSUME TInv, PlacesOK, Loaded
  PROVE  PlacesOK'
<1> DEFINE p == image.pending \cup pending
           r == retry \cup image.retry
<1>0. QueueOK /\ captures \in Nat
  BY DEF TInv, TypeOK
<1>1. /\ image' = Empty /\ disk' = disk /\ captures' = captures
      /\ p \in SUBSET Item /\ Sendable(r)
      /\ Moved(p, r \cup work \cup inFlight)
      /\ \E waits \in BOOLEAN : Stores(p, r, waits, persistTimer)
  BY LoadedIs DEF historyVars
<1>2. SnapshotItems(image) = image.pending \cup ItemsIn(image.retry)
  BY DEF SnapshotItems
<1>3. /\ ItemsIn(Live) = ItemsIn(retry) \cup ItemsIn(work) \cup ItemsIn(inFlight)
      /\ ItemsIn(r) = ItemsIn(retry) \cup ItemsIn(image.retry)
      /\ ItemsIn(retry \cup work) = ItemsIn(retry) \cup ItemsIn(work)
      /\ ItemsIn(r \cup work \cup inFlight) = ItemsIn(Live) \cup ItemsIn(image.retry)
  <2>1. r \cup work \cup inFlight = Live \cup image.retry
    BY DEF Live
  <2> QED BY <2>1, LiveItems, ItemsInUnion
<1>4. /\ Apart(pending, retry, work, inFlight)
      /\ image.pending \cap ItemsIn(image.retry) = {} /\ Distinct(image.retry)
      /\ (image.pending \cup ItemsIn(image.retry)) \cap (pending \cup ItemsIn(Live)) = {}
      /\ (image.pending \cup ItemsIn(image.retry)) \cup (pending \cup ItemsIn(Live)) \subseteq 1 .. captures
  BY <1>2 DEF PlacesOK, Whole
<1>5. Apart(p, r, work, inFlight)
  <2>1. ItemsIn(retry \cup work) \cap ItemsIn(image.retry) = {}
    BY <1>3, <1>4
  <2>2. Distinct((retry \cup work) \cup image.retry)
    BY <1>4, <2>1, JoinDistinct DEF Apart
  <2>3. r \cup work = (retry \cup work) \cup image.retry
    OBVIOUS
  <2>4. /\ p \cap ItemsIn(r) = {} /\ p \cap ItemsIn(work) = {} /\ p \cap ItemsIn(inFlight) = {}
        /\ ItemsIn(r) \cap ItemsIn(work) = {} /\ ItemsIn(r) \cap ItemsIn(inFlight) = {}
        /\ ItemsIn(work) \cap ItemsIn(inFlight) = {}
    BY <1>3, <1>4 DEF Apart
  <2> QED BY <2>2, <2>3, <2>4 DEF Apart
<1>6. p \cup ItemsIn(r \cup work \cup inFlight) \subseteq 1 .. captures'
  BY <1>1, <1>3, <1>4
<1> HIDE DEF p, r
<1>7. Apart(pending', retry', work', inFlight')
  <2>1. CASE pending' = p /\ retry' = r /\ UNCHANGED drainVars
    BY <1>5, <2>1 DEF drainVars
  <2>2. CASE FlushCall(p, r, FALSE, TRUE, persistTimer)
    BY <1>0, <1>1, <1>5, <2>2, FlushApart
  <2> QED BY <2>1, <2>2 DEF Loaded, p, r
<1>8. PICK waits \in BOOLEAN : Stores(p, r, waits, persistTimer)
  BY <1>1
<1>9. captures' \in Nat /\ captures <= captures'
  BY <1>0, <1>1
<1> QED BY <1>1, <1>6, <1>7, <1>8, <1>9, PlacesKept

LEMMA SavePlaces ==
  ASSUME TInv, PlacesOK, Shutdown \/ ShutdownSaves
  PROVE  PlacesOK'
<1>0. QueueOK /\ captures \in Nat /\ pending \in SUBSET Item /\ Sendable(retry)
  BY DEF TInv, TypeOK, QueueOK
<1>1. /\ image' = image /\ disk' = disk /\ captures' = captures
      /\ Moved(pending, Live)
      /\ \E waits \in BOOLEAN : Stores(pending, retry, waits, persistTimer)
  BY SaveIs DEF Live
<1>2. Apart(pending, retry, work, inFlight)
  BY DEF PlacesOK
<1>3. Apart(pending', retry', work', inFlight')
  <2>1. CASE FlushCall(pending, retry, FALSE, FALSE, persistTimer)
    BY <1>0, <1>2, <2>1, FlushApart
  <2>2. CASE UNCHANGED <<queueVars, drainVars>>
    BY <1>2, <2>2 DEF queueVars, drainVars
  <2> QED BY <2>1, <2>2 DEF Shutdown, ShutdownSaves
<1>4. PICK waits \in BOOLEAN : Stores(pending, retry, waits, persistTimer)
  BY <1>1
<1>5. /\ pending \cup ItemsIn(Live) \subseteq 1 .. captures'
      /\ SnapshotItems(image) \cap (pending \cup ItemsIn(Live)) = {}
  BY <1>1 DEF PlacesOK
<1> HIDE DEF Live
<1>6. captures' \in Nat /\ captures <= captures'
  BY <1>0, <1>1
<1> QED BY <1>0, <1>1, <1>3, <1>4, <1>5, <1>6, PlacesKept

\* The storage could not be read: what it held is gone.
LEMMA UnreadablePlaces ==
  ASSUME TInv, PlacesOK, Unreadable
  PROVE  PlacesOK'
<1>1. /\ image' = Empty /\ UNCHANGED <<pending, retry, work, inFlight, captures, disk>>
      /\ writes \in Seq(Snapshot) /\ writes' = Append(writes, Empty)
  BY UnreadableType DEF drainVars, queueVars
<1>2. SnapshotItems(Empty) = {} /\ Empty.retry = {} /\ Empty.pending = {} /\ ItemsIn({}) = {}
  BY EmptyHolds DEF Empty
<1>3. Whole(Empty, captures)
  BY <1>2 DEF Whole, Distinct
<1>4. \A n \in DOMAIN writes' : writes'[n] = Empty \/ (n \in DOMAIN writes /\ writes'[n] = writes[n])
  BY <1>1, EmptyHolds
<1> QED BY <1>1, <1>2, <1>3, <1>4 DEF PlacesOK, Live

\* The process ends: what it held is gone.
LEMMA EmptyPlaces ==
  ASSUME captures' \in Nat, pending' = {}, retry' = {}, work' = {}, inFlight' = {}, image' = Empty,
         writes' = <<>>, Whole(disk', captures')
  PROVE  PlacesOK'
<1>1. SnapshotItems(Empty) = {} /\ Empty.retry = {} /\ Empty.pending = {} /\ ItemsIn({}) = {}
  BY EmptyHolds DEF Empty
<1>2. Apart({}, {}, {}, {}) /\ Whole(Empty, captures')
  BY <1>1 DEF Apart, Whole, Distinct
<1>3. Live' = {}
  BY DEF Live
<1>4. DOMAIN writes' = {}
  OBVIOUS
<1> QED BY <1>1, <1>2, <1>3, <1>4 DEF PlacesOK

LEMMA RestPlaces ==
  ASSUME TInv, PlacesOK, WriteLands \/ ProcessEnds \/ ServerReceives \/ Launch \/ UNCHANGED vars
  PROVE  PlacesOK'
<1>1. CASE WriteLands
  <2>1. /\ UNCHANGED <<drainVars, queueVars, image, historyVars>>
        /\ \A n \in DOMAIN writes' : n + 1 \in DOMAIN writes /\ writes'[n] = writes[n + 1]
    BY <1>1, WriteType
  <2>2. (disk' = writes[1] /\ 1 \in DOMAIN writes) \/ disk' = disk
    <3>1. writes \in Seq(Snapshot)
      BY DEF TInv, TypeOK
    <3> QED BY <1>1, <3>1 DEF WriteLands
  <2>3. Whole(disk', captures) /\ \A n \in DOMAIN writes' : Whole(writes'[n], captures)
    BY <2>1, <2>2 DEF PlacesOK
  <2>4. UNCHANGED <<pending, retry, work, inFlight, image, captures>>
    BY <2>1 DEF drainVars, queueVars, historyVars
  <2> QED BY <2>3, <2>4 DEF PlacesOK, Live
<1>2. CASE ProcessEnds
  <2>1. captures' = captures /\ captures \in Nat /\ disk' = disk
    BY <1>2 DEF ProcessEnds, TInv, TypeOK
  <2>2. Whole(disk', captures')
    BY <2>1 DEF PlacesOK
  <2> QED BY <1>2, <2>1, <2>2, EmptyPlaces DEF ProcessEnds
<1>3. CASE Launch
  <2>1. /\ pending = {} /\ retry = {} /\ work = {} /\ inFlight = {} /\ image' = disk
        /\ UNCHANGED <<pending, retry, work, inFlight, captures, disk, writes>>
    BY <1>3 DEF Launch, TInv, Shape, QueueOK, drainVars, queueVars, storeVars, historyVars
  <2>2. Live' = {} /\ ItemsIn({}) = {}
    BY <2>1, EmptyHolds DEF Live
  <2> QED BY <2>1, <2>2 DEF PlacesOK
<1>4. CASE ServerReceives \/ UNCHANGED vars
  <2>1. UNCHANGED <<pending, retry, work, inFlight, captures, image, disk, writes>>
    BY <1>4 DEF ServerReceives, vars, drainVars, queueVars, clientVars, storeVars, historyVars
  <2> QED BY <2>1 DEF PlacesOK, Live
<1> QED BY <1>1, <1>2, <1>3, <1>4

LEMMA PlacesInit == Init => PlacesOK
<1> SUFFICES ASSUME Init PROVE PlacesOK
  OBVIOUS
<1>1. SnapshotItems(Empty) = {} /\ Empty.retry = {} /\ Empty.pending = {} /\ ItemsIn({}) = {}
  BY EmptyHolds DEF Empty
<1>2. Apart({}, {}, {}, {}) /\ Whole(Empty, captures)
  BY <1>1 DEF Apart, Whole, Distinct
<1>3. Live = {} /\ DOMAIN writes = {}
  BY DEF Live, Init
<1> QED BY <1>1, <1>2, <1>3 DEF PlacesOK, Init

LEMMA PlacesStep == TInv /\ PlacesOK /\ [Next]_vars => PlacesOK'
<1> SUFFICES ASSUME TInv, PlacesOK, [Next]_vars PROVE PlacesOK'
  OBVIOUS
<1>1. \/ Capture \/ QueueFlush \/ ClientFlush \/ NetworkChange \/ ShutdownRetries \/ PersistTimerFires
      \/ Accepted \/ Rejected \/ Failed
      \/ Loaded \/ Unreadable \/ WriteLands \/ Shutdown \/ ShutdownSaves
      \/ ProcessEnds
      \/ ServerReceives \/ Launch \/ UNCHANGED vars
  BY DEF Next, Queue, Store, Ending, Exit, Kill
<1> QED BY <1>1, CallPlaces, AnswerPlaces, LoadedPlaces, UnreadablePlaces, SavePlaces, RestPlaces

LEMMA PlacesInvariant == Spec => [](TInv /\ PlacesOK)
<1>1. Init => TInv /\ PlacesOK
  BY InitType, PlacesInit
<1>2. TInv /\ PlacesOK /\ [Next]_vars => (TInv /\ PlacesOK)'
  BY StepType, PlacesStep
<1> QED BY <1>1, <1>2, PTL DEF Spec

\* Whatever the app does, and over kills, launches and a storage that refuses
\* writes, an item is in one place of the process: no flush, restore or answer
\* puts it into a second chunk (restore() and drain() of core/src/queue.ts).
THEOREM ItemsInOnePlace == Spec => []OnePlace
<1>1. TInv /\ PlacesOK => OnePlace
  <2> SUFFICES ASSUME PlacesOK PROVE OnePlace
    OBVIOUS
  <2> DEFINE parts == <<pending, ItemsIn(retry), ItemsIn(work), ItemsIn(inFlight), SnapshotItems(image)>>
  <2>1. /\ parts[1] = pending /\ parts[2] = ItemsIn(retry) /\ parts[3] = ItemsIn(work)
        /\ parts[4] = ItemsIn(inFlight) /\ parts[5] = SnapshotItems(image) /\ DOMAIN parts = 1 .. 5
    OBVIOUS
  <2> HIDE DEF parts
  <2>2. SnapshotItems(image) \cap (pending \cup ItemsIn(retry) \cup ItemsIn(work) \cup ItemsIn(inFlight)) = {}
    BY LiveItems DEF PlacesOK
  <2>3. \A m, n \in 1 .. 5 : m < n => parts[m] \cap parts[n] = {}
    <3>1. /\ parts[1] \cap parts[2] = {} /\ parts[1] \cap parts[3] = {} /\ parts[1] \cap parts[4] = {}
          /\ parts[2] \cap parts[3] = {} /\ parts[2] \cap parts[4] = {} /\ parts[3] \cap parts[4] = {}
      BY <2>1 DEF PlacesOK, Apart
    <3>2. /\ parts[1] \cap parts[5] = {} /\ parts[2] \cap parts[5] = {} /\ parts[3] \cap parts[5] = {}
          /\ parts[4] \cap parts[5] = {}
      BY <2>1, <2>2
    <3> QED BY <3>1, <3>2
  <2>4. \A m, n \in DOMAIN parts : m # n => parts[m] \cap parts[n] = {}
    <3> SUFFICES ASSUME NEW m \in 1 .. 5, NEW n \in 1 .. 5, m # n PROVE parts[m] \cap parts[n] = {}
      BY <2>1
    <3>1. m < n \/ n < m
      OBVIOUS
    <3> QED BY <2>3, <3>1
  <2>5. \A c, d \in retry \cup work : c # d => c.items \cap d.items = {}
    BY DEF PlacesOK, Apart, Distinct
  <2> QED BY <2>4, <2>5 DEF OnePlace, parts
<1> QED BY <1>1, PlacesInvariant, PTL

(***************************************************************************)
(* Names: what the server tells apart                                      *)
(***************************************************************************)

\* What the next restore brings back, and what the storage holds or will hold.
Restoring == IF up THEN image ELSE disk
Stored == {disk} \cup {writes[n] : n \in DOMAIN writes}
StoredRetries == UNION {s.retry : s \in Stored}
Named == Names(wire \cup Live \cup image.retry \cup StoredRetries)

\* The names in use are the first k, the items the first n; of two that share an
\* item, one is in R.
Owned(N, k, n, R) ==
  /\ \A b \in N : b[1] \in 1 .. k /\ b[2] \subseteq 1 .. n
  /\ \A b, c \in N : b # c => b[1] # c[1] /\ (b[2] \cap c[2] = {} \/ b[1] \in R \/ c[1] \in R)

\* Of the names up to k, those that have an item of p are in R.
Known(N, k, p, R) == \A b \in N : b[1] <= k /\ b[2] \cap p # {} => b[1] \in R

\* A chunk has an item that is pending, or that a snapshot taken after it was
\* cut calls pending, only if it was cut after the snapshot of a killed process.
KeysOK ==
  /\ Owned(Named, keys, captures, recut)
  /\ Known(Named, keys, pending \cup Restoring.pending, recut)
  /\ \A s \in Stored : s.upTo <= keys /\ Known(Named, s.upTo, s.pending, recut)

LEMMA FourNames ==
  \A A, B, C, D : Names(A \cup B \cup C \cup D) = Names(A) \cup Names(B) \cup Names(C) \cup Names(D)
<1> SUFFICES ASSUME NEW A, NEW B, NEW C, NEW D
             PROVE  Names(((A \cup B) \cup C) \cup D) = Names(A) \cup Names(B) \cup Names(C) \cup Names(D)
  OBVIOUS
<1>1. /\ Names(((A \cup B) \cup C) \cup D) = Names((A \cup B) \cup C) \cup Names(D)
      /\ Names((A \cup B) \cup C) = Names(A \cup B) \cup Names(C)
      /\ Names(A \cup B) = Names(A) \cup Names(B)
  BY NamesUnion
<1> QED BY <1>1

LEMMA NamedIs ==
  Named = Names(wire) \cup Names(Live) \cup Names(image.retry) \cup Names(StoredRetries)
<1>1. Named = Names(wire \cup Live \cup image.retry \cup StoredRetries)
  BY DEF Named
<1> QED BY <1>1, FourNames, SMTT(40)

LEMMA NamesGrow == \A A, B : A \subseteq B => Names(A) \subseteq Names(B)
  BY DEF Names

\* A flush stores what was stored, and perhaps what it left.
LEMMA StoresWhat ==
  ASSUME TInv, NEW p \in SUBSET Item, NEW r, Sendable(r), NEW waits, NEW timer,
         Stores(p, r, waits, timer), disk' = disk
  PROVE  /\ \A n \in DOMAIN writes : n \in DOMAIN writes' /\ writes'[n] = writes[n]
         /\ \/ Stored' = Stored
            \/ pending' = p /\ retry' = r /\ Stored' = Stored \cup {TakeSnapshot(p, r)}
<1>1. CASE writes' = writes
  BY <1>1 DEF Stored
<1>2. CASE pending' = p /\ retry' = r /\ PersistNow(p, r)
  <2>1. writes \in Seq(Snapshot) /\ keys \in 0 .. MaxKeys /\ \A n \in DOMAIN writes : Sendable(writes[n].retry)
    BY DEF TInv, TypeOK, Shape, QueueOK
  <2>2. /\ writes'[Len(writes')] = TakeSnapshot(p, r)
        /\ \A n \in DOMAIN writes : writes'[n] = writes[n]
        /\ DOMAIN writes' = DOMAIN writes \cup {Len(writes')}
    BY <1>2, <2>1, PersistAppends
  <2>3. {writes'[n] : n \in DOMAIN writes'} = {writes[n] : n \in DOMAIN writes} \cup {TakeSnapshot(p, r)}
    <3>1. {writes'[n] : n \in DOMAIN writes'} = {writes'[n] : n \in DOMAIN writes} \cup {writes'[Len(writes')]}
      BY <2>2
    <3>2. {writes'[n] : n \in DOMAIN writes} = {writes[n] : n \in DOMAIN writes}
      BY <2>2
    <3> QED BY <2>2, <3>1, <3>2
  <2>4. Stored' = Stored \cup {TakeSnapshot(p, r)}
    BY <2>3 DEF Stored
  <2> QED BY <1>2, <2>2, <2>4
<1> QED BY <1>1, <1>2 DEF Stores

\* A flush with p pending names p, or nothing.
LEMMA MovedKeys ==
  ASSUME TInv, PlacesOK', KeysOK, NEW p \in SUBSET Item, NEW r, Sendable(r), NEW waits, NEW timer, NEW S,
         Moved(p, S), Stores(p, r, waits, timer), Names(S) \subseteq Named,
         UNCHANGED <<disk, recut>>, image' \in {image, Empty}, up', captures' \in {captures, captures + 1},
         Known(Named, keys, p \cup image'.pending, recut), p \subseteq 1 .. captures'
  PROVE  KeysOK'
<1>0. keys \in Nat /\ captures \in Nat /\ keys \in 0 .. MaxKeys
  BY DEF TInv, TypeOK, QueueOK
<1>1. /\ wire' \subseteq wire \cup inFlight'
      /\ pending' \cup ItemsIn(Live') = p \cup ItemsIn(S)
      /\ \/ keys' = keys /\ pending' = p /\ Names(Live') = Names(S)
         \/ keys' = keys + 1 /\ pending' = {} /\ Names(Live') = Names(S) \cup {<<keys + 1, p>>}
  BY DEF Moved, Live
<1>2. \/ Stored' = Stored
      \/ pending' = p /\ retry' = r /\ Stored' = Stored \cup {TakeSnapshot(p, r)}
  BY StoresWhat
<1>3. TakeSnapshot(p, r).pending = p /\ TakeSnapshot(p, r).retry = r /\ TakeSnapshot(p, r).upTo = keys
  BY <1>0, TakenIs DEF Sendable
<1>4. Named' \subseteq Named \cup Names(Live')
  <2>1. Names(wire') \subseteq Names(wire) \cup Names(Live')
    <3>1. Names(wire') \subseteq Names(wire \cup Live')
      BY <1>1, NamesGrow DEF Live
    <3> QED BY <3>1, NamesUnion
  <2>2. Names(image'.retry) \subseteq Names(image.retry)
    BY NamesGrow DEF Empty
  <2>3. Names(StoredRetries') \subseteq Names(StoredRetries) \cup Names(Live')
    <3>1. CASE Stored' = Stored
      BY <3>1 DEF StoredRetries
    <3>2. CASE retry' = r /\ Stored' = Stored \cup {TakeSnapshot(p, r)}
      <4>1. StoredRetries' = StoredRetries \cup r
        BY <1>3, <3>2 DEF StoredRetries
      <4>2. r \subseteq Live'
        BY <3>2 DEF Live
      <4>3. Names(r) \subseteq Names(Live')
        BY <4>2, NamesGrow
      <4> QED BY <4>1, <4>3, NamesUnion
    <3> QED BY <1>2, <3>1, <3>2
  <2>4. Named' = Names(wire') \cup Names(Live') \cup Names(image'.retry) \cup Names(StoredRetries')
    <3>1. Named' = Names(wire' \cup Live' \cup image'.retry \cup StoredRetries')
      BY DEF Named
    <3> QED BY <3>1, FourNames, SMTT(40)
  <2> QED BY <2>1, <2>2, <2>3, <2>4, NamedIs
<1>5. \A b \in Named : b[1] \in 1 .. keys /\ b[2] \subseteq 1 .. captures'
  BY <1>0 DEF KeysOK, Owned
<1>6. \A b, c \in Named : b # c => b[1] # c[1] /\ (b[2] \cap c[2] = {} \/ b[1] \in recut \/ c[1] \in recut)
  BY DEF KeysOK, Owned
<1>7. \A s \in Stored : s.upTo <= keys /\ s.upTo \in Nat /\ Known(Named, s.upTo, s.pending, recut)
  <2>1. ASSUME NEW s \in Stored PROVE s.upTo \in Nat
    <3>1. s \in Snapshot
      BY DEF TInv, TypeOK, Stored
    <3> QED BY <3>1 DEF Snapshot
  <2> QED BY <2>1 DEF KeysOK
<1>8. Restoring' = image'
  BY DEF Restoring
<1>9. CASE keys' = keys /\ pending' = p /\ Names(Live') = Names(S)
  <2>1. Named' \subseteq Named
    BY <1>4, <1>9
  <2>2. Owned(Named', keys', captures', recut')
    BY <1>5, <1>6, <1>9, <2>1 DEF Owned
  <2>3. Known(Named', keys', pending' \cup image'.pending, recut')
    BY <1>9, <2>1 DEF Known
  <2>4. ASSUME NEW s \in Stored' PROVE s.upTo <= keys' /\ Known(Named', s.upTo, s.pending, recut')
    <3>1. CASE s \in Stored
      BY <1>7, <1>9, <2>1, <3>1 DEF Known
    <3>2. CASE s = TakeSnapshot(p, r)
      BY <1>0, <1>3, <1>9, <2>1, <3>2 DEF Known
    <3> QED BY <1>2, <3>1, <3>2
  <2> QED BY <1>8, <2>2, <2>3, <2>4 DEF KeysOK
<1>10. CASE keys' = keys + 1 /\ pending' = {} /\ Names(Live') = Names(S) \cup {<<keys + 1, p>>}
  <2> DEFINE new == <<keys + 1, p>>
  <2>0. new[1] = keys + 1 /\ new[2] = p
    OBVIOUS
  <2>1. Named' \subseteq Named \cup {new}
    BY <1>4, <1>10
  <2> HIDE DEF new
  <2>2. \A b \in Named : b[1] # new[1] /\ (b[2] \cap new[2] = {} \/ b[1] \in recut)
    BY <1>0, <1>5, <2>0 DEF Known
  <2>3. Owned(Named', keys', captures', recut')
    <3>1. new[1] \in 1 .. keys' /\ new[2] \subseteq 1 .. captures' /\ 1 .. keys \subseteq 1 .. keys'
      BY <1>0, <1>10, <2>0
    <3>3. \A b \in Named' : b[1] \in 1 .. keys' /\ b[2] \subseteq 1 .. captures'
      BY <1>5, <2>1, <3>1
    <3>2. \A b, c \in Named' : b # c => b[1] # c[1] /\ (b[2] \cap c[2] = {} \/ b[1] \in recut \/ c[1] \in recut)
      BY <1>6, <2>1, <2>2
    <3> QED BY <3>2, <3>3 DEF Owned
  <2>4. Known(Named', keys', pending' \cup image'.pending, recut')
    <3>1. p \cap image'.pending = {}
      <4>1. p \subseteq pending' \cup ItemsIn(Live')
        BY <1>1
      <4>2. image'.pending \cap (pending' \cup ItemsIn(Live')) = {}
        BY DEF PlacesOK, SnapshotItems
      <4> QED BY <4>1, <4>2
    <3>2. \A b \in Named : b[1] <= keys
      BY <1>0, <1>5
    <3> QED BY <1>10, <2>0, <2>1, <3>1, <3>2 DEF Known
  <2>5. ASSUME NEW s \in Stored' PROVE s.upTo <= keys' /\ Known(Named', s.upTo, s.pending, recut')
    <3>1. CASE s \in Stored
      <4>1. s.upTo <= keys /\ s.upTo \in Nat /\ Known(Named, s.upTo, s.pending, recut)
        BY <1>7, <3>1
      <4>2. s.upTo <= keys' /\ ~ (new[1] <= s.upTo)
        BY <1>0, <1>10, <2>0, <4>1
      <4> QED BY <2>1, <4>1, <4>2 DEF Known
    <3>2. CASE s = TakeSnapshot(p, r) /\ pending' = p
      <4>1. s.upTo = keys /\ s.pending = {}
        BY <1>3, <1>10, <3>2
      <4>2. keys <= keys'
        BY <1>0, <1>10
      <4> QED BY <4>1, <4>2 DEF Known
    <3> QED BY <1>2, <3>1, <3>2
  <2> QED BY <1>8, <2>3, <2>4, <2>5 DEF KeysOK
<1> QED BY <1>1, <1>9, <1>10

LEMMA CallKeys ==
  ASSUME TInv, PlacesOK, PlacesOK', KeysOK,
         Capture \/ QueueFlush \/ ClientFlush \/ NetworkChange \/ ShutdownRetries \/ PersistTimerFires
  PROVE  KeysOK'
<1>1. up /\ up' = TRUE /\ UNCHANGED <<image, disk, recut>>
  BY CallIs
<1>2. PICK p \in SUBSET Item, waits \in BOOLEAN, timer \in BOOLEAN : Called(p, waits, timer)
  BY CallIs
<1>3. Moved(p, Live) /\ Stores(p, retry, waits, timer)
  BY <1>2 DEF Called, Live
<1>4. Known(Named, keys, pending \cup image.pending, recut) /\ captures \in Nat /\ pending \subseteq 1 .. captures
  BY <1>1 DEF KeysOK, Restoring, TInv, TypeOK, PlacesOK
<1>5. /\ Known(Named, keys, p \cup image'.pending, recut) /\ p \subseteq 1 .. captures'
      /\ captures' \in {captures, captures + 1}
  <2>1. CASE captures' = captures /\ p = pending
    BY <1>1, <1>4, <2>1
  <2>2. CASE captures' = captures + 1 /\ p = pending \cup {captures'}
    <3>1. \A b \in Named : captures' \notin b[2]
      BY <1>4, <2>2 DEF KeysOK, Owned
    <3>2. captures' \in 1 .. captures' /\ 1 .. captures \subseteq 1 .. captures'
      BY <1>4, <2>2
    <3> QED BY <1>1, <1>4, <2>2, <3>1, <3>2 DEF Known
  <2> QED BY <1>2, <2>1, <2>2 DEF Called
<1>6. Names(Live) \subseteq Named /\ Sendable(retry)
  BY NamedIs DEF TInv, QueueOK
<1> HIDE DEF Live
<1> QED BY <1>1, <1>3, <1>5, <1>6, MovedKeys

LEMMA AnswerKeys ==
  ASSUME TInv, PlacesOK, PlacesOK', KeysOK, Accepted \/ Rejected \/ Failed
  PROVE  KeysOK'
<1>1. up /\ UNCHANGED <<up, image, disk, recut, captures>>
  BY AnswerIs DEF clientVars
<1>2. PICK c \in inFlight : \E r \in {retry, retry \cup {c}} :
              /\ Sendable(r) /\ Moved(pending, r \cup work) /\ Stores(pending, r, awaited, TRUE)
  BY AnswerIs
<1>3. PICK r \in {retry, retry \cup {c}} :
              /\ Sendable(r) /\ Moved(pending, r \cup work) /\ Stores(pending, r, awaited, TRUE)
  BY <1>2
<1>4. Names(r \cup work) \subseteq Named
  <2>1. r \cup work \subseteq Live
    BY <1>3 DEF Live
  <2> QED BY <2>1, NamesGrow, NamedIs
<1>5. /\ Known(Named, keys, pending \cup image.pending, recut) /\ pending \subseteq 1 .. captures
      /\ pending \in SUBSET Item
  BY <1>1 DEF KeysOK, Restoring, TInv, QueueOK, PlacesOK
<1> QED BY <1>1, <1>3, <1>4, <1>5, MovedKeys

LEMMA LoadedKeys ==
  ASSUME TInv, PlacesOK, PlacesOK', KeysOK, Loaded
  PROVE  KeysOK'
<1> DEFINE p == image.pending \cup pending
           r == retry \cup image.retry
<1>1. /\ up /\ up' = TRUE /\ image' = Empty /\ UNCHANGED <<disk, recut, captures>>
      /\ p \in SUBSET Item /\ Sendable(r)
      /\ Moved(p, r \cup work \cup inFlight)
  BY LoadedIs DEF historyVars
<1>2. PICK waits \in BOOLEAN : Stores(p, r, waits, persistTimer)
  BY LoadedIs
<1>3. Names(r \cup work \cup inFlight) \subseteq Named
  <2>1. r \cup work \cup inFlight = Live \cup image.retry
    BY DEF Live
  <2> QED BY <2>1, NamesUnion, NamedIs
<1>4. p \subseteq 1 .. captures
  BY DEF PlacesOK, Whole, SnapshotItems
<1>5. Known(Named, keys, p \cup Empty.pending, recut)
  <2>1. p \cup Empty.pending = pending \cup Restoring.pending
    BY <1>1 DEF Empty, Restoring
  <2> QED BY <2>1 DEF KeysOK
<1> HIDE DEF p, r
<1> QED BY <1>1, <1>2, <1>3, <1>4, <1>5, MovedKeys

LEMMA SaveKeys ==
  ASSUME TInv, PlacesOK, PlacesOK', KeysOK, Shutdown \/ ShutdownSaves
  PROVE  KeysOK'
<1>1. up /\ up' = TRUE /\ UNCHANGED <<image, disk, recut, captures>> /\ Moved(pending, Live)
  BY SaveIs DEF Live
<1>2. PICK waits \in BOOLEAN : Stores(pending, retry, waits, persistTimer)
  BY SaveIs
<1>3. /\ Known(Named, keys, pending \cup image.pending, recut) /\ pending \subseteq 1 .. captures
      /\ pending \in SUBSET Item /\ Sendable(retry) /\ Names(Live) \subseteq Named
  BY <1>1, NamedIs DEF KeysOK, Restoring, TInv, QueueOK, PlacesOK
<1> HIDE DEF Live
<1> QED BY <1>1, <1>2, <1>3, MovedKeys

\* Nothing gets a new name, and of the snapshots some may be gone.
LEMMA QuietKeys ==
  ASSUME KeysOK, Named' \subseteq Named, UNCHANGED <<keys, captures, recut>>,
         pending' \cup Restoring'.pending \subseteq pending \cup Restoring.pending,
         \A s \in Stored' : s \in Stored \/ s = Empty, keys \in Nat
  PROVE  KeysOK'
<1>1. Owned(Named', keys', captures', recut')
  BY DEF KeysOK, Owned
<1>2. Known(Named', keys', pending' \cup Restoring'.pending, recut')
  BY DEF KeysOK, Known
<1>3. ASSUME NEW s \in Stored' PROVE s.upTo <= keys' /\ Known(Named', s.upTo, s.pending, recut')
  <2>1. CASE s \in Stored
    BY <2>1 DEF KeysOK, Known
  <2>2. CASE s = Empty
    BY <2>2 DEF Known, Empty
  <2> QED BY <2>1, <2>2
<1> QED BY <1>1, <1>2, <1>3 DEF KeysOK

LEMMA RestKeys ==
  ASSUME TInv, KeysOK, Unreadable \/ WriteLands \/ ServerReceives \/ Launch \/ UNCHANGED vars
  PROVE  KeysOK'
<1>0. keys \in Nat
  BY DEF TInv, QueueOK
<1>1. CASE Unreadable
  <2>1. /\ up /\ up' = up /\ image' = Empty /\ UNCHANGED <<disk, wire, Live, pending, keys, captures, recut>>
        /\ writes \in Seq(Snapshot) /\ writes' = Append(writes, Empty) /\ Empty \in Snapshot
    BY <1>1, UnreadableType, EmptyHolds DEF drainVars, queueVars, Live
  <2>2. \A n \in DOMAIN writes' : writes'[n] = Empty \/ (n \in DOMAIN writes /\ writes'[n] = writes[n])
    BY <2>1
  <2>3. \A s \in Stored' : s \in Stored \/ s = Empty
    BY <2>1, <2>2 DEF Stored
  <2>4. StoredRetries' \subseteq StoredRetries
    BY <2>3 DEF Empty, StoredRetries
  <2>5. Named' \subseteq Named
    BY <2>1, <2>4, NamesGrow DEF Named, Empty
  <2>6. Restoring'.pending = {}
    BY <2>1 DEF Restoring, Empty
  <2> QED BY <1>0, <2>1, <2>3, <2>5, <2>6, QuietKeys
<1>2. CASE WriteLands
  <2>1. /\ UNCHANGED <<up, image, wire, Live, pending, keys, captures, recut>>
        /\ \A n \in DOMAIN writes' : n + 1 \in DOMAIN writes /\ writes'[n] = writes[n + 1]
        /\ disk' = writes[1] \/ disk' = disk
        /\ Len(writes) \in Nat \ {0} /\ up
    BY <1>2, WriteType DEF drainVars, queueVars, historyVars, Live, TInv, Shape
  <2>2. 1 \in DOMAIN writes
    BY <2>1 DEF TInv, TypeOK
  <2>3. Stored' \subseteq Stored
    BY <2>1, <2>2 DEF Stored
  <2>4. Named' \subseteq Named
    <3>1. StoredRetries' \subseteq StoredRetries
      BY <2>3 DEF StoredRetries
    <3> QED BY <2>1, <3>1, NamesGrow DEF Named
  <2>5. Restoring' = Restoring
    BY <2>1 DEF Restoring
  <2> QED BY <1>0, <2>1, <2>3, <2>4, <2>5, QuietKeys
<1>3. CASE Launch
  <2>1. /\ ~ up /\ up' = TRUE /\ image' = disk
        /\ UNCHANGED <<disk, writes, wire, Live, pending, keys, captures, recut>>
    BY <1>3 DEF Launch, drainVars, queueVars, storeVars, historyVars, Live
  <2>2. Stored' = Stored /\ Restoring' = Restoring
    BY <2>1 DEF Stored, Restoring
  <2>3. image'.retry \subseteq StoredRetries /\ StoredRetries' = StoredRetries
    BY <2>1, <2>2 DEF Stored, StoredRetries
  <2>4. Named' \subseteq Named
    BY <2>1, <2>3, NamesGrow DEF Named
  <2> QED BY <1>0, <2>1, <2>2, <2>4, QuietKeys
<1>4. CASE ServerReceives \/ UNCHANGED vars
  <2>1. UNCHANGED <<up, disk, image, writes, wire, retry, work, inFlight, pending, keys, captures, recut>>
    BY <1>4 DEF ServerReceives, vars, drainVars, queueVars, clientVars, storeVars, historyVars
  <2>2. Named' = Named /\ Stored' = Stored /\ Restoring' = Restoring
    BY <2>1 DEF Named, Live, Stored, StoredRetries, Restoring
  <2> QED BY <1>0, <2>1, <2>2, QuietKeys
<1> QED BY <1>1, <1>2, <1>3, <1>4

\* A killed process leaves a snapshot: the chunks cut since are remembered.
LEMMA EndKeys ==
  ASSUME TInv, PlacesOK, KeysOK, ProcessEnds
  PROVE  KeysOK'
<1>0. keys \in Nat /\ disk.upTo \in Nat /\ wire \in SUBSET Chunk
  BY DEF TInv, TypeOK, QueueOK, Snapshot
<1>1. /\ up' = FALSE /\ pending' = {} /\ retry' = {} /\ work' = {} /\ inFlight' = {}
      /\ image' = Empty /\ writes' = <<>>
      /\ UNCHANGED <<keys, disk, wire, captures>>
      /\ recut' = recut \cup {c.key : c \in CutSince(disk)}
  BY DEF ProcessEnds
<1>2. Stored' = {disk} /\ Restoring' = disk /\ Live' = {} /\ image'.retry = {}
  <2>1. DOMAIN writes' = {}
    BY <1>1
  <2> QED BY <1>1, <2>1 DEF Stored, Restoring, Live, Empty
<1>3. Named' = Names(wire) \cup Names(disk.retry) /\ Named' \subseteq Named
  <2>1. wire' \cup Live' \cup image'.retry \cup StoredRetries' = wire \cup disk.retry
    BY <1>1, <1>2 DEF StoredRetries
  <2>2. Names(wire \cup disk.retry) = Names(wire) \cup Names(disk.retry)
    BY NamesUnion
  <2>3. wire \cup disk.retry \subseteq wire \cup Live \cup image.retry \cup StoredRetries
    BY DEF Stored, StoredRetries
  <2> QED BY <2>1, <2>2, <2>3, NamesGrow DEF Named
<1>4. Owned(Named', keys', captures', recut')
  BY <1>1, <1>3 DEF KeysOK, Owned
<1>5. ASSUME NEW b \in Named', b[2] \cap disk.pending # {} PROVE b[1] \in recut'
  <2>1. CASE b \in Names(wire)
    <3>1. PICK c \in wire : b = <<c.key, c.items>>
      BY <2>1 DEF Names
    <3>2. b[1] = c.key /\ b[2] = c.items /\ c.key \in Nat
      BY <1>0, <3>1 DEF Chunk, Key
    <3>3. CASE c.key > disk.upTo
      BY <1>1, <1>5, <3>2, <3>3 DEF CutSince
    <3>4. CASE c.key <= disk.upTo
      <4>1. disk \in Stored /\ b \in Named
        BY <1>3 DEF Stored
      <4>2. Known(Named, disk.upTo, disk.pending, recut)
        BY <4>1 DEF KeysOK
      <4>3. b[1] <= disk.upTo
        BY <3>2, <3>4
      <4>4. b[1] \in recut
        BY <1>5, <4>1, <4>2, <4>3 DEF Known
      <4> QED BY <1>1, <4>4
    <3> QED BY <1>0, <3>2, <3>3, <3>4
  <2>2. CASE b \in Names(disk.retry)
    <3>1. PICK c \in disk.retry : b = <<c.key, c.items>>
      BY <2>2 DEF Names
    <3>2. b[2] = c.items /\ c.items \subseteq ItemsIn(disk.retry)
      BY <3>1 DEF ItemsIn
    <3>3. disk.pending \cap ItemsIn(disk.retry) = {}
      BY DEF PlacesOK, Whole
    <3> QED BY <1>5, <3>2, <3>3
  <2> QED BY <1>3, <2>1, <2>2
<1>6. Known(Named', keys', pending' \cup Restoring'.pending, recut')
  BY <1>1, <1>2, <1>5 DEF Known
<1>7. \A s \in Stored' : s.upTo <= keys' /\ Known(Named', s.upTo, s.pending, recut')
  <2>1. disk.upTo <= keys
    BY DEF KeysOK, Stored
  <2> QED BY <1>1, <1>2, <1>5, <2>1 DEF Known
<1> QED BY <1>4, <1>6, <1>7 DEF KeysOK

LEMMA KeysInit == Init => KeysOK
<1> SUFFICES ASSUME Init PROVE KeysOK
  OBVIOUS
<1>1. disk = Empty /\ writes = <<>> /\ image = Empty /\ wire = {} /\ retry = {} /\ work = {} /\ inFlight = {}
      /\ pending = {} /\ keys = 0
  BY DEF Init
<1>2. Stored = {Empty} /\ Empty.retry = {} /\ Empty.pending = {} /\ Empty.upTo = 0 /\ Restoring = Empty
  <2>1. DOMAIN writes = {}
    BY <1>1
  <2> QED BY <1>1, <2>1 DEF Stored, Restoring, Empty
<1>3. wire \cup Live \cup image.retry \cup StoredRetries = {}
  BY <1>1, <1>2 DEF Live, StoredRetries
<1>4. Named = {}
  BY <1>3, EmptyHolds DEF Named
<1> QED BY <1>1, <1>2, <1>4 DEF KeysOK, Owned, Known

LEMMA KeysStep == TInv /\ PlacesOK /\ PlacesOK' /\ KeysOK /\ [Next]_vars => KeysOK'
<1> SUFFICES ASSUME TInv, PlacesOK, PlacesOK', KeysOK, [Next]_vars PROVE KeysOK'
  OBVIOUS
<1>1. \/ Capture \/ QueueFlush \/ ClientFlush \/ NetworkChange \/ ShutdownRetries \/ PersistTimerFires
      \/ Accepted \/ Rejected \/ Failed
      \/ Loaded \/ Shutdown \/ ShutdownSaves
      \/ ProcessEnds
      \/ Unreadable \/ WriteLands \/ ServerReceives \/ Launch \/ UNCHANGED vars
  BY DEF Next, Queue, Store, Ending, Exit, Kill
<1> QED BY <1>1, CallKeys, AnswerKeys, LoadedKeys, SaveKeys, EndKeys, RestKeys

\* Whatever the app does, and over kills at any moment, launches, retries, lost
\* and late answers and a storage that refuses calls, the server ingests an item
\* twice only in a chunk that was cut after the snapshot which a killed process
\* left: a restored chunk has the key and the items it was sent with.
THEOREM NothingTwice == Spec => []NoDoubleIngest
<1>1. KeysOK => NoDoubleIngest
  <2> SUFFICES ASSUME KeysOK, NEW b \in Ingested, NEW c \in Ingested, b # c, b[2] \cap c[2] # {}
               PROVE  {b[1], c[1]} \cap recut # {}
    BY DEF NoDoubleIngest
  <2>1. b \in Named /\ c \in Named
    BY DEF Ingested, Named, Names
  <2> QED BY <2>1 DEF KeysOK, Owned
<1>2. TInv /\ PlacesOK /\ (TInv /\ PlacesOK)' /\ KeysOK /\ [Next]_vars => KeysOK'
  BY KeysStep
<1> QED BY <1>1, <1>2, KeysInit, PlacesInvariant, PTL DEF Spec

(***************************************************************************)
(* What the storage holds                                                  *)
(***************************************************************************)

Same(s) == s.pending = pending /\ s.retry = retry

\* The last thing the storage was asked to keep is what the queue holds, unless
\* the storage has refused it.
LastSame == IF writes = <<>> THEN ~ refused => Same(disk) ELSE Same(writes[Len(writes)])

\* Between drains this is so, or the timer is set.
Saved == up /\ ~ loading /\ ~ closed /\ ~ Draining /\ ~ persistTimer => LastSame

\* What a handler leaves when it leaves no drain and no timer.
LEMMA StoredLast ==
  ASSUME TInv, NEW p \in SUBSET Item, NEW r, Sendable(r), NEW waits \in BOOLEAN, NEW timer \in BOOLEAN,
         Stores(p, r, waits, timer), UNCHANGED <<disk, refused>>, inFlight' = {}, persistTimer' = FALSE,
         ~ waits /\ ~ timer => p = pending /\ r = retry /\ LastSame
  PROVE  LastSame'
<1>1. /\ pending' = p /\ retry' = r
      /\ IF waits THEN PersistNow(p, r) ELSE persistTimer' = timer /\ UNCHANGED writes
  BY DEF Stores
<1>2. CASE waits
  <2>1. /\ writes \in Seq(Snapshot) /\ \A n \in DOMAIN writes : Sendable(writes[n].retry)
        /\ PersistNow(p, r) /\ keys \in 0 .. MaxKeys
    BY <1>1, <1>2 DEF TInv, TypeOK, Shape, QueueOK
  <2>2. writes' \in Seq(Snapshot) /\ Len(writes') \in 1 .. MaxWrites /\ writes'[Len(writes')] = TakeSnapshot(p, r)
    BY <2>1, PersistAppends
  <2>3. writes' # <<>>
    BY <2>2
  <2>4. TakeSnapshot(p, r).pending = p /\ TakeSnapshot(p, r).retry = r
    BY <2>1, TakenIs DEF Sendable
  <2> QED BY <1>1, <2>2, <2>3, <2>4 DEF LastSame, Same
<1>3. CASE ~ waits
  <2>1. timer = FALSE /\ writes' = writes
    BY <1>1, <1>3
  <2> QED BY <1>1, <1>3, <2>1 DEF LastSame, Same
<1> QED BY <1>2, <1>3

LEMMA CallSaved ==
  ASSUME TInv, Saved,
         Capture \/ QueueFlush \/ ClientFlush \/ NetworkChange \/ ShutdownRetries \/ PersistTimerFires
  PROVE  Saved'
<1>1. up /\ up' = TRUE /\ UNCHANGED <<closed, loading, disk, refused>>
  BY CallIs
<1>2. PICK p \in SUBSET Item, waits \in BOOLEAN, timer \in BOOLEAN : Called(p, waits, timer)
  BY CallIs
<1>3. Sendable(retry)
  BY DEF TInv, QueueOK
<1>4. ASSUME ~ loading', ~ closed', inFlight' = {}, persistTimer' = FALSE PROVE LastSame'
  <2>1. Stores(p, retry, waits, timer) /\ inFlight = {} /\ (timer = TRUE \/ (p = pending /\ timer = persistTimer))
    BY <1>2, <1>4 DEF Called
  <2>2. ~ timer => LastSame /\ p = pending
    BY <1>1, <1>4, <2>1 DEF Saved, Draining
  <2> QED BY <1>1, <1>3, <1>4, <2>1, <2>2, StoredLast
<1>5. persistTimer' \in BOOLEAN
  BY CallType DEF TInv, QueueOK
<1> QED BY <1>4, <1>5 DEF Saved, Draining

LEMMA AnswerSaved ==
  ASSUME TInv, Accepted \/ Rejected \/ Failed
  PROVE  Saved'
<1>1. UNCHANGED <<disk, refused>>
  BY AnswerIs
<1>2. PICK c \in inFlight : \E r \in {retry, retry \cup {c}} :
              Sendable(r) /\ Stores(pending, r, awaited, TRUE)
  BY AnswerIs
<1>3. PICK r \in {retry, retry \cup {c}} : Sendable(r) /\ Stores(pending, r, awaited, TRUE)
  BY <1>2
<1>4. ASSUME inFlight' = {}, persistTimer' = FALSE PROVE LastSame'
  <2>1. pending \in SUBSET Item /\ awaited \in BOOLEAN /\ TRUE \in BOOLEAN
    BY DEF TInv, TypeOK, QueueOK
  <2> QED BY <1>1, <1>3, <1>4, <2>1, StoredLast
<1>5. persistTimer' \in BOOLEAN
  BY AnswerType DEF TInv, QueueOK
<1> QED BY <1>4, <1>5 DEF Saved, Draining

LEMMA LoadedSaved ==
  ASSUME TInv, Loaded
  PROVE  Saved'
<1> DEFINE p == image.pending \cup pending
           r == retry \cup image.retry
<1>1. /\ UNCHANGED <<closed, disk, refused>>
      /\ p \in SUBSET Item /\ Sendable(r)
      /\ \E waits \in BOOLEAN : /\ Stores(p, r, waits, persistTimer)
                                /\ waits \/ closed
  BY LoadedIs
<1> HIDE DEF p, r
<1>2. PICK waits \in BOOLEAN : Stores(p, r, waits, persistTimer) /\ (waits \/ closed)
  BY <1>1
<1>3. ASSUME ~ closed', inFlight' = {}, persistTimer' = FALSE PROVE LastSame'
  <2>1. persistTimer \in BOOLEAN /\ waits
    BY <1>1, <1>2, <1>3 DEF TInv, QueueOK
  <2> QED BY <1>1, <1>2, <1>3, <2>1, StoredLast
<1>4. persistTimer' \in BOOLEAN
  BY LoadedType DEF TInv, QueueOK
<1> QED BY <1>3, <1>4 DEF Saved, Draining

LEMMA WriteSaved ==
  ASSUME TInv, Saved, WriteLands
  PROVE  Saved'
<1>1. /\ UNCHANGED <<up, inFlight, pending, retry, loading, closed, persistTimer>>
      /\ writes \in Seq(Snapshot) /\ writes # <<>> /\ Len(writes) \in Nat \ {0} /\ Len(writes') = Len(writes) - 1
      /\ writes' \in Seq(Snapshot)
      /\ \A n \in DOMAIN writes' : n + 1 \in DOMAIN writes /\ writes'[n] = writes[n + 1]
      /\ disk' = writes[1] \/ refused' = TRUE
  BY WriteType DEF drainVars, queueVars, TInv, TypeOK
<1>2. ASSUME LastSame PROVE LastSame'
  <2>1. Same(writes[Len(writes)])
    BY <1>1, <1>2 DEF LastSame
  <2>2. CASE Len(writes) = 1
    <3>1. writes' = <<>>
      BY <1>1, <2>2
    <3> QED BY <1>1, <2>1, <2>2, <3>1 DEF LastSame, Same
  <2>3. CASE Len(writes) # 1
    <3>1. writes' # <<>> /\ Len(writes') \in DOMAIN writes' /\ Len(writes') + 1 = Len(writes)
      BY <1>1, <2>3
    <3>2. writes'[Len(writes')] = writes[Len(writes)]
      BY <1>1, <3>1
    <3> QED BY <1>1, <2>1, <3>1, <3>2 DEF LastSame, Same
  <2> QED BY <2>2, <2>3
<1> QED BY <1>1, <1>2 DEF Saved, Draining

LEMMA RestSaved ==
  ASSUME TInv, Saved,
         Unreadable \/ Shutdown \/ ShutdownSaves \/ ProcessEnds \/ ServerReceives \/ Launch \/ UNCHANGED vars
  PROVE  Saved'
<1>1. CASE Unreadable
  BY <1>1, UnreadableType DEF Saved
<1>2. CASE Shutdown \/ ShutdownSaves
  BY <1>2, SaveIs DEF Saved
<1>3. CASE ProcessEnds
  BY <1>3 DEF ProcessEnds, Saved
<1>4. CASE Launch
  BY <1>4 DEF Launch, Saved
<1>5. CASE ServerReceives \/ UNCHANGED vars
  <2>1. UNCHANGED <<up, loading, closed, inFlight, persistTimer, writes, disk, refused, pending, retry>>
    BY <1>5 DEF ServerReceives, vars, drainVars, queueVars, clientVars, storeVars
  <2> QED BY <2>1 DEF Saved, LastSame, Same, Draining
<1> QED BY <1>1, <1>2, <1>3, <1>4, <1>5

LEMMA SavedStep == TInv /\ Saved /\ [Next]_vars => Saved'
<1> SUFFICES ASSUME TInv, Saved, [Next]_vars PROVE Saved'
  OBVIOUS
<1>1. \/ Capture \/ QueueFlush \/ ClientFlush \/ NetworkChange \/ ShutdownRetries \/ PersistTimerFires
      \/ Accepted \/ Rejected \/ Failed
      \/ Loaded \/ WriteLands
      \/ Unreadable \/ Shutdown \/ ShutdownSaves \/ ProcessEnds \/ ServerReceives \/ Launch \/ UNCHANGED vars
  BY DEF Next, Queue, Store, Ending, Exit, Kill
<1> QED BY <1>1, CallSaved, AnswerSaved, LoadedSaved, WriteSaved, RestSaved

\* When the client of an app is idle, the disk holds exactly what the queue would
\* lose in a crash (onChange and the flushes store a snapshot), unless the
\* storage refused its last call: whatever happened before, kills and earlier
\* refusals included.
THEOREM StoredAtRest == Spec => []DiskUpToDate
<1>1. Saved => DiskUpToDate
  BY DEF DiskUpToDate, AtRest, Saved, LastSame, Same
<1>2. Init => Saved
  BY DEF Init, Saved
<1>3. TInv /\ PlacesOK /\ Saved /\ [Next]_vars => Saved'
  BY SavedStep
<1> QED BY <1>1, <1>2, <1>3, PlacesInvariant, PTL DEF Spec

(***************************************************************************)
(* What becomes of every item                                              *)
(***************************************************************************)

\* Every item is somewhere.
Found(n, p, S, image0, delivered, lost) ==
  1 .. n \subseteq p \cup ItemsIn(S) \cup SnapshotItems(image0) \cup delivered \cup lost

AllFound == Found(captures, pending, Live, Restoring, Delivered, reported \cup missed)

\* The snapshot that a shutdown waits for holds all that is not settled.
Saving ==
  closing = "saving" =>
    1 .. captures \subseteq SnapshotItems(writes[ahead]) \cup Delivered \cup reported \cup missed

LEMMA SecondOfNames == \A S : UNION {b[2] : b \in {<<c.key, c.items>> : c \in S}} = ItemsIn(S)
<1> SUFFICES ASSUME NEW S
             PROVE  UNION {b[2] : b \in {<<c.key, c.items>> : c \in S}} = ItemsIn(S)
  OBVIOUS
<1> DEFINE N == {<<c.key, c.items>> : c \in S}
<1>1. ASSUME NEW b \in N PROVE b[2] \in {c.items : c \in S}
  <2>1. PICK c \in S : b = <<c.key, c.items>>
    OBVIOUS
  <2>2. b[2] = c.items
    BY <2>1
  <2> QED BY <2>2
<1>2. ASSUME NEW c \in S PROVE c.items \in {b[2] : b \in N}
  <2>1. <<c.key, c.items>> \in N /\ <<c.key, c.items>>[2] = c.items
    OBVIOUS
  <2> QED BY <2>1
<1> HIDE DEF N
<1>3. {b[2] : b \in N} = {c.items : c \in S}
  BY <1>1, <1>2
<1> QED BY <1>3 DEF N, ItemsIn

LEMMA DeliveredIs == Delivered = ItemsIn({c \in wire : c.key \in accepted})
  BY SecondOfNames DEF Delivered, Ingested

LEMMA DeliveredGrows ==
  ASSUME wire \subseteq wire', accepted \subseteq accepted'
  PROVE  Delivered \subseteq Delivered'
<1>1. {c \in wire : c.key \in accepted} \subseteq {c \in wire' : c.key \in accepted'}
  OBVIOUS
<1>2. Delivered' = ItemsIn({c \in wire' : c.key \in accepted'})
  BY SecondOfNames DEF Delivered, Ingested
<1> QED BY <1>1, <1>2, DeliveredIs DEF ItemsIn

LEMMA MovedFound ==
  ASSUME NEW p, NEW S, Moved(p, S), accepted' = accepted,
         Found(captures', p, S, Restoring', Delivered, reported' \cup missed')
  PROVE  AllFound'
<1>1. pending' \cup ItemsIn(Live') = p \cup ItemsIn(S) /\ wire \subseteq wire'
  BY DEF Moved, Live
<1>2. Delivered \subseteq Delivered'
  BY <1>1, DeliveredGrows
<1>3. Found(captures', pending', Live', Restoring', Delivered', reported' \cup missed')
  <2>1. 1 .. captures' \subseteq (p \cup ItemsIn(S)) \cup SnapshotItems(Restoring') \cup Delivered \cup (reported' \cup missed')
    BY DEF Found
  <2> QED BY <1>1, <1>2, <2>1 DEF Found
<1> QED BY <1>3 DEF AllFound

LEMMA CallFound ==
  ASSUME TInv, AllFound,
         Capture \/ QueueFlush \/ ClientFlush \/ NetworkChange \/ ShutdownRetries \/ PersistTimerFires
  PROVE  AllFound'
<1>1. up /\ up' = TRUE /\ UNCHANGED <<image, accepted, reported, missed>>
  BY CallIs
<1>2. PICK p \in SUBSET Item, waits \in BOOLEAN, timer \in BOOLEAN : Called(p, waits, timer)
  BY CallIs
<1>3. Moved(p, Live)
  BY <1>2 DEF Called, Live
<1>4. Restoring' = Restoring
  BY <1>1 DEF Restoring
<1>5. Found(captures', p, Live, Restoring', Delivered, reported' \cup missed')
  <2>1. CASE captures' = captures /\ p = pending
    BY <1>1, <1>4, <2>1 DEF AllFound
  <2>2. CASE captures' = captures + 1 /\ p = pending \cup {captures'}
    <3>1. captures \in Nat
      BY DEF TInv, TypeOK
    <3>2. 1 .. captures' = (1 .. captures) \cup {captures'}
      BY <2>2, <3>1
    <3> QED BY <1>1, <1>4, <2>2, <3>2 DEF AllFound, Found
  <2> QED BY <1>2, <2>1, <2>2 DEF Called
<1> HIDE DEF Live
<1> QED BY <1>1, <1>3, <1>5, MovedFound

LEMMA AnswerFound ==
  ASSUME TInv, AllFound, Accepted \/ Rejected \/ Failed
  PROVE  AllFound'
<1>1. up /\ UNCHANGED <<up, image, accepted, captures, missed>>
  BY AnswerIs DEF clientVars
<1>2. PICK c \in inFlight : \E r \in {retry, retry \cup {c}} :
              /\ Sendable(r) /\ inFlight = {c} /\ c \in Chunk
              /\ Moved(pending, r \cup work) /\ Stores(pending, r, awaited, TRUE)
              /\ \/ reported' = reported /\ (c.key \in accepted \/ r = retry \cup {c})
                 \/ reported' = reported \cup c.items
  BY AnswerIs
<1>3. PICK r \in {retry, retry \cup {c}} :
              /\ inFlight = {c}
              /\ Moved(pending, r \cup work)
              /\ \/ reported' = reported /\ (c.key \in accepted \/ r = retry \cup {c})
                 \/ reported' = reported \cup c.items
  BY <1>2
<1>4. Restoring' = Restoring
  BY <1>1 DEF Restoring
<1>5. ItemsIn(Live) = ItemsIn(retry) \cup ItemsIn(work) \cup c.items
  BY <1>3, LiveItems, OneHolds
<1>6. ItemsIn(r \cup work) = ItemsIn(r) \cup ItemsIn(work) /\ ItemsIn(retry \cup {c}) = ItemsIn(retry) \cup c.items
  <2>1. ItemsIn(r \cup work) = ItemsIn(r) \cup ItemsIn(work) /\ ItemsIn(retry \cup {c}) = ItemsIn(retry) \cup ItemsIn({c})
    BY ItemsInUnion
  <2> QED BY <2>1, OneHolds
<1>7. c.key \in accepted => c.items \subseteq Delivered
  <2>1. c \in wire
    BY <1>2 DEF TInv, QueueOK
  <2> QED BY <2>1, DeliveredIs DEF ItemsIn
<1>8. 1 .. captures \subseteq pending \cup ItemsIn(Live) \cup SnapshotItems(Restoring) \cup Delivered
                         \cup (reported \cup missed)
  BY DEF AllFound, Found
<1>9. ItemsIn(retry) \subseteq ItemsIn(r)
  BY <1>3, <1>6
<1>10. c.items \subseteq ItemsIn(r) \cup Delivered \cup reported'
  <2>1. CASE c.key \in accepted
    BY <1>7, <2>1
  <2>2. CASE r = retry \cup {c}
    BY <1>6, <2>2
  <2>3. CASE reported' = reported \cup c.items
    BY <2>3
  <2> QED BY <1>3, <2>1, <2>2, <2>3
<1>11. reported \cup missed \subseteq reported' \cup missed'
  BY <1>1, <1>3
<1>12. 1 .. captures \subseteq
          pending \cup (ItemsIn(r) \cup ItemsIn(work)) \cup SnapshotItems(Restoring) \cup Delivered
            \cup (reported' \cup missed')
  BY <1>5, <1>8, <1>9, <1>10, <1>11
<1>13. Found(captures', pending, r \cup work, Restoring', Delivered, reported' \cup missed')
  BY <1>1, <1>4, <1>6, <1>12 DEF Found
<1> QED BY <1>1, <1>3, <1>13, MovedFound

LEMMA LoadedFound ==
  ASSUME TInv, AllFound, Loaded
  PROVE  AllFound'
<1> DEFINE p == image.pending \cup pending
           r == retry \cup image.retry
<1>1. /\ up /\ up' = TRUE /\ image' = Empty /\ UNCHANGED <<accepted, captures, reported, missed>>
      /\ Moved(p, r \cup work \cup inFlight)
  BY LoadedIs DEF historyVars
<1>2. Restoring = image /\ Restoring' = Empty /\ SnapshotItems(Empty) = {}
  BY <1>1, EmptyHolds DEF Restoring
<1>3. ItemsIn(r \cup work \cup inFlight) = ItemsIn(Live) \cup ItemsIn(image.retry)
  <2>1. r \cup work \cup inFlight = Live \cup image.retry
    BY DEF Live
  <2> QED BY <2>1, ItemsInUnion
<1>4. 1 .. captures \subseteq
        pending \cup ItemsIn(Live) \cup (image.pending \cup ItemsIn(image.retry)) \cup Delivered
        \cup (reported \cup missed)
  BY <1>2 DEF AllFound, Found, SnapshotItems
<1>5. Found(captures', p, r \cup work \cup inFlight, Restoring', Delivered, reported' \cup missed')
  BY <1>1, <1>2, <1>3, <1>4 DEF Found
<1> HIDE DEF p, r
<1> QED BY <1>1, <1>5, MovedFound

LEMMA SaveFound ==
  ASSUME TInv, AllFound, Shutdown \/ ShutdownSaves
  PROVE  AllFound'
<1>1. /\ up /\ up' = TRUE /\ UNCHANGED <<image, accepted, captures, reported>>
      /\ Moved(pending, Live)
  BY SaveIs DEF Live
<1>2. Restoring' = Restoring
  BY <1>1 DEF Restoring
<1>3. Found(captures', pending, Live, Restoring', Delivered, reported' \cup missed')
  <2>1. missed \subseteq missed'
    BY SaveIs
  <2> QED BY <1>1, <1>2, <2>1 DEF AllFound, Found
<1> HIDE DEF Live
<1> QED BY <1>1, <1>3, MovedFound

LEMMA UnreadableFound ==
  ASSUME TInv, AllFound, Unreadable
  PROVE  AllFound'
<1>1. /\ up /\ UNCHANGED <<up, Live, pending, captures, Delivered, reported>>
      /\ image' = Empty /\ missed' = missed \cup SnapshotItems(image)
  BY UnreadableType DEF Live, drainVars, queueVars, Delivered, Ingested
<1>2. Restoring = image
  BY <1>1 DEF Restoring
<1> QED BY <1>1, <1>2 DEF AllFound, Found

\* What is not on the disk when the process ends is missed.
LEMMA EndFound ==
  ASSUME TInv, AllFound, ProcessEnds
  PROVE  AllFound'
<1>1. /\ up' = FALSE /\ UNCHANGED <<disk, wire, accepted, captures, reported>>
      /\ missed' = missed \cup ((pending \cup ItemsIn(retry) \cup LeftOut) \ SnapshotItems(disk))
  BY DEF ProcessEnds
<1>2. Restoring' = disk
  BY <1>1 DEF Restoring
<1>3. Delivered' = Delivered
  BY <1>1 DEF Delivered, Ingested
<1>4. pending \cup ItemsIn(Live) \cup SnapshotItems(Restoring)
        \subseteq (pending \cup ItemsIn(retry) \cup LeftOut) \cup SnapshotItems(disk)
  <2>1. ItemsIn(work \cup inFlight) = ItemsIn(work) \cup ItemsIn(inFlight)
    BY ItemsInUnion
  <2>2. SnapshotItems(Restoring) \subseteq SnapshotItems(image) \cup SnapshotItems(disk)
    BY DEF Restoring
  <2> QED BY <2>1, <2>2, LiveItems DEF LeftOut
<1>5. 1 .. captures \subseteq SnapshotItems(disk) \cup Delivered \cup (reported \cup missed')
  BY <1>1, <1>4 DEF AllFound, Found
<1> QED BY <1>1, <1>2, <1>3, <1>5 DEF AllFound, Found

LEMMA QuietFound ==
  ASSUME TInv, AllFound, WriteLands \/ ServerReceives \/ Launch \/ UNCHANGED vars
  PROVE  AllFound'
<1>1. /\ Restoring' = Restoring /\ accepted \subseteq accepted'
      /\ UNCHANGED <<retry, work, inFlight, wire, pending, captures, reported, missed>>
  <2>1. CASE WriteLands
    <3>1. up
      BY <2>1 DEF WriteLands, TInv, Shape
    <3> QED BY <2>1, <3>1 DEF WriteLands, Restoring, drainVars, queueVars, historyVars
  <2>2. CASE ServerReceives
    BY <2>2 DEF ServerReceives, Restoring, drainVars, queueVars, clientVars, storeVars, historyVars
  <2>3. CASE Launch
    BY <2>3 DEF Launch, Restoring, drainVars, queueVars, historyVars
  <2>4. CASE UNCHANGED vars
    BY <2>4 DEF vars, Restoring, drainVars, queueVars, clientVars, storeVars, historyVars
  <2> QED BY <2>1, <2>2, <2>3, <2>4
<1>2. Delivered \subseteq Delivered' /\ Live' = Live
  BY <1>1, DeliveredGrows DEF Live
<1> QED BY <1>1, <1>2 DEF AllFound, Found

LEMMA FoundInit == Init => AllFound /\ Saving
<1> SUFFICES ASSUME Init PROVE AllFound /\ Saving
  OBVIOUS
<1>1. 1 .. captures = {} /\ closing = "no"
  BY DEF Init
<1> QED BY <1>1 DEF AllFound, Found, Saving

LEMMA FoundStep == TInv /\ AllFound /\ [Next]_vars => AllFound'
<1> SUFFICES ASSUME TInv, AllFound, [Next]_vars PROVE AllFound'
  OBVIOUS
<1>1. \/ Capture \/ QueueFlush \/ ClientFlush \/ NetworkChange \/ ShutdownRetries \/ PersistTimerFires
      \/ Accepted \/ Rejected \/ Failed
      \/ Loaded \/ Unreadable \/ Shutdown \/ ShutdownSaves \/ ProcessEnds
      \/ WriteLands \/ ServerReceives \/ Launch \/ UNCHANGED vars
  BY DEF Next, Queue, Store, Ending, Exit, Kill
<1> QED BY <1>1, CallFound, AnswerFound, LoadedFound, UnreadableFound, SaveFound, EndFound, QuietFound

\* A shutdown that begins to save.
LEMMA SaveSaving ==
  ASSUME TInv, AllFound, Shutdown \/ ShutdownSaves
  PROVE  Saving'
<1>1. CASE closing' = "queue"
  BY <1>1 DEF Saving
<1>2. CASE /\ closing' = "saving" /\ ahead' = Len(writes') /\ PersistNow(pending, retry)
           /\ UNCHANGED <<queueVars, drainVars, wire>>
           /\ LeftOut \subseteq missed'
  <2>1. /\ up /\ UNCHANGED <<captures, reported, accepted, wire>> /\ missed \subseteq missed'
        /\ pending \in SUBSET Item /\ Sendable(retry) /\ keys \in 0 .. MaxKeys
        /\ writes \in Seq(Snapshot) /\ \A n \in DOMAIN writes : Sendable(writes[n].retry)
    BY <1>2, SaveIs DEF TInv, TypeOK, QueueOK, Shape
  <2>2. writes'[Len(writes')] = TakeSnapshot(pending, retry)
    BY <1>2, <2>1, PersistAppends
  <2>3. SnapshotItems(writes'[ahead']) = pending \cup ItemsIn(retry)
    BY <1>2, <2>1, <2>2, TakenIs DEF SnapshotItems, Sendable
  <2>4. Delivered' = Delivered /\ Restoring = image
    BY <2>1 DEF Delivered, Ingested, Restoring
  <2>5. ItemsIn(Live) \cup SnapshotItems(image) \subseteq ItemsIn(retry) \cup LeftOut
    <3>1. ItemsIn(work \cup inFlight) = ItemsIn(work) \cup ItemsIn(inFlight)
      BY ItemsInUnion
    <3> QED BY <3>1, LiveItems DEF LeftOut
  <2>6. 1 .. captures \subseteq pending \cup (ItemsIn(retry) \cup LeftOut) \cup Delivered \cup (reported \cup missed)
    BY <2>4, <2>5 DEF AllFound, Found
  <2> QED BY <1>2, <2>1, <2>3, <2>4, <2>6 DEF Saving
<1> QED BY <1>1, <1>2, SaveIs

\* Until its snapshot is written, no step takes anything from it, and nothing new
\* is captured.
LEMMA KeepSaving ==
  ASSUME TInv, Saving, UNCHANGED <<closing, ahead>>, closed => captures' = captures,
         \A n \in DOMAIN writes : n \in DOMAIN writes' /\ writes'[n] = writes[n],
         wire \subseteq wire', accepted \subseteq accepted', reported \subseteq reported', missed \subseteq missed'
  PROVE  Saving'
<1> SUFFICES ASSUME closing = "saving"
             PROVE  1 .. captures' \subseteq SnapshotItems(writes'[ahead']) \cup Delivered' \cup reported' \cup missed'
  BY DEF Saving
<1>1. closed /\ ahead \in DOMAIN writes
  BY DEF TInv, TypeOK, Shape
<1>2. Delivered \subseteq Delivered'
  BY DeliveredGrows
<1> QED BY <1>1, <1>2 DEF Saving

LEMMA SavingStep ==
  ASSUME TInv, AllFound, Saving, [Next]_vars
  PROVE  Saving'
<1>1. CASE Capture \/ QueueFlush \/ ClientFlush \/ NetworkChange \/ ShutdownRetries \/ PersistTimerFires
  <2>1. UNCHANGED <<closing, ahead, disk, accepted, reported, missed>>
    BY <1>1, CallIs
  <2>2. PICK p \in SUBSET Item, waits \in BOOLEAN, timer \in BOOLEAN : Called(p, waits, timer)
    BY <1>1, CallIs
  <2>3. Stores(p, retry, waits, timer) /\ wire \subseteq wire' /\ (closed => captures' = captures) /\ Sendable(retry)
    BY <2>2 DEF Called, Moved, TInv, QueueOK
  <2>4. \A n \in DOMAIN writes : n \in DOMAIN writes' /\ writes'[n] = writes[n]
    BY <2>1, <2>3, StoresWhat
  <2> QED BY <2>1, <2>3, <2>4, KeepSaving
<1>2. CASE Accepted \/ Rejected \/ Failed
  <2>1. UNCHANGED <<closing, ahead, disk, accepted, captures, missed>>
    BY <1>2, AnswerIs DEF clientVars
  <2>2. PICK c \in inFlight : \E r \in {retry, retry \cup {c}} :
           /\ Sendable(r) /\ Moved(pending, r \cup work) /\ Stores(pending, r, awaited, TRUE)
           /\ reported \subseteq reported'
    BY <1>2, AnswerIs
  <2>3. PICK r \in {retry, retry \cup {c}} :
           /\ Sendable(r) /\ Moved(pending, r \cup work) /\ Stores(pending, r, awaited, TRUE)
           /\ reported \subseteq reported'
    BY <2>2
  <2>4. \A n \in DOMAIN writes : n \in DOMAIN writes' /\ writes'[n] = writes[n]
    BY <2>1, <2>3, StoresWhat DEF TInv, QueueOK
  <2> QED BY <2>1, <2>3, <2>4, KeepSaving DEF Moved
<1>3. CASE Loaded
  <2> DEFINE p == image.pending \cup pending
             r == retry \cup image.retry
  <2>1. /\ UNCHANGED <<closing, ahead, disk, accepted, captures, reported, missed>>
        /\ p \in SUBSET Item /\ Sendable(r) /\ Moved(p, r \cup work \cup inFlight)
        /\ \E waits \in BOOLEAN : Stores(p, r, waits, persistTimer)
    BY <1>3, LoadedIs DEF historyVars
  <2> HIDE DEF p, r
  <2>2. PICK waits \in BOOLEAN : Stores(p, r, waits, persistTimer)
    BY <2>1
  <2>3. \A n \in DOMAIN writes : n \in DOMAIN writes' /\ writes'[n] = writes[n]
    BY <2>1, <2>2, StoresWhat
  <2> QED BY <2>1, <2>3, KeepSaving DEF Moved
<1>4. CASE Unreadable
  <2>1. /\ UNCHANGED <<closing, ahead, accepted, captures, reported, wire>> /\ missed \subseteq missed'
        /\ writes \in Seq(Snapshot) /\ writes' = Append(writes, Empty)
    BY <1>4, UnreadableType
  <2>2. \A n \in DOMAIN writes : n \in DOMAIN writes' /\ writes'[n] = writes[n]
    BY <2>1, EmptyHolds
  <2> QED BY <2>1, <2>2, KeepSaving
<1>5. CASE WriteLands
  <2> SUFFICES ASSUME closing' = "saving"
               PROVE  1 .. captures' \subseteq SnapshotItems(writes'[ahead']) \cup Delivered' \cup reported' \cup missed'
    BY DEF Saving
  <2>1. /\ UNCHANGED <<wire, accepted, captures, reported, missed>>
        /\ Len(writes') = Len(writes) - 1 /\ Len(writes) \in Nat
        /\ \A n \in DOMAIN writes' : writes'[n] = writes[n + 1]
        /\ ahead' = IF ahead > 0 THEN ahead - 1 ELSE 0
        /\ closing' = IF ahead = 1 THEN "done" ELSE closing
        /\ TInv'
    BY <1>5, WriteType DEF historyVars
  <2>2. closing = "saving" /\ ahead \in Nat /\ ahead > 1 /\ ahead' = ahead - 1
    BY <2>1 DEF TInv, TypeOK
  <2>3. ahead' \in DOMAIN writes' /\ ahead' + 1 = ahead
    BY <2>1, <2>2 DEF TInv, TypeOK, Shape
  <2>4. writes'[ahead'] = writes[ahead]
    BY <2>1, <2>3
  <2>5. Delivered' = Delivered
    BY <2>1 DEF Delivered, Ingested
  <2> QED BY <2>1, <2>2, <2>4, <2>5 DEF Saving
<1>6. CASE ProcessEnds \/ Launch
  <2>1. closing' = "no"
    BY <1>6 DEF ProcessEnds, Launch, TInv, Shape
  <2> QED BY <2>1 DEF Saving
<1>7. CASE ServerReceives \/ UNCHANGED vars
  <2>1. /\ UNCHANGED <<closing, ahead, writes, wire, captures, reported, missed>>
        /\ accepted \subseteq accepted'
    BY <1>7 DEF ServerReceives, vars, clientVars, storeVars, historyVars
  <2> QED BY <2>1, KeepSaving
<1>8. \/ Capture \/ QueueFlush \/ ClientFlush \/ NetworkChange \/ ShutdownRetries \/ PersistTimerFires
      \/ Accepted \/ Rejected \/ Failed
      \/ Loaded \/ Unreadable \/ WriteLands \/ Shutdown \/ ShutdownSaves
      \/ ProcessEnds \/ Launch \/ ServerReceives \/ UNCHANGED vars
  BY DEF Next, Queue, Store, Ending, Exit, Kill
<1> QED BY <1>1, <1>2, <1>3, <1>4, <1>5, <1>6, <1>7, <1>8, SaveSaving

\* When shutdown() returns, whatever the app does besides and after any kills,
\* every item captured until then is delivered, reported, or in the snapshot
\* that shutdown() stored, if the storage took it; or it is one of those that
\* an ended process had not stored or that the snapshot leaves out.
THEOREM ShutdownKeepsAll == Spec => ShutdownStores
<1>1. ASSUME TInv, Saving, [Next]_vars, closing # "done", closing' = "done", ~ refused'
      PROVE  1 .. captures' \subseteq SnapshotItems(disk') \cup Delivered' \cup reported' \cup missed'
  <2>1. CASE WriteLands
    <3>1. /\ UNCHANGED <<wire, accepted, captures, reported, missed>>
          /\ disk' = writes[1]
          /\ closing' = IF ahead = 1 THEN "done" ELSE closing
      BY <1>1, <2>1, WriteType DEF historyVars
    <3>2. ahead = 1 /\ closing = "saving"
      BY <1>1, <3>1 DEF TInv, TypeOK
    <3>3. Delivered' = Delivered
      BY <3>1 DEF Delivered, Ingested
    <3> QED BY <1>1, <3>1, <3>2, <3>3 DEF Saving
  <2>2. CASE \/ Capture \/ QueueFlush \/ ClientFlush \/ NetworkChange \/ ShutdownRetries \/ PersistTimerFires
             \/ Accepted \/ Rejected \/ Failed \/ Loaded \/ Unreadable
             \/ ServerReceives \/ UNCHANGED vars
    <3>1. closing' = closing
      BY <1>1, <2>2, CallIs, AnswerIs, LoadedIs, UnreadableType DEF clientVars, ServerReceives, vars
    <3> QED BY <1>1, <3>1
  <2>3. CASE Shutdown \/ ShutdownSaves
    BY <1>1, <2>3, SaveIs
  <2>4. CASE ProcessEnds \/ Launch
    BY <1>1, <2>4 DEF ProcessEnds, Launch
  <2> QED BY <1>1, <2>1, <2>2, <2>3, <2>4 DEF Next, Queue, Store, Ending, Exit, Kill
<1>2. TInv /\ Saving /\ [Next]_vars =>
        [closing # "done" /\ closing' = "done" /\ ~ refused' =>
           1 .. captures' \subseteq SnapshotItems(disk') \cup Delivered' \cup reported' \cup missed']_vars
  BY <1>1
<1>3. TInv /\ PlacesOK /\ AllFound /\ Saving /\ [Next]_vars => (AllFound /\ Saving)'
  BY FoundStep, SavingStep
<1> QED BY <1>2, <1>3, FoundInit, PlacesInvariant, PTL DEF Spec, ShutdownStores

=============================================================================
