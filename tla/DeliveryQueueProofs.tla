------------------------ MODULE DeliveryQueueProofs ------------------------
(***************************************************************************)
(* Proofs about DeliveryQueue, for every value of its constants.           *)
(***************************************************************************)
EXTENDS DeliveryQueue, FiniteSetTheorems, NaturalsInduction, WellFoundedInduction, TLAPS

(***************************************************************************)
(* The items of a set of chunks                                            *)
(***************************************************************************)
LEMMA ItemsInEmpty == ItemsIn({}) = {}
  BY DEF ItemsIn

LEMMA ItemsInOne == ASSUME NEW c PROVE ItemsIn({c}) = c.items
  BY DEF ItemsIn

LEMMA ItemsInUnion ==
  ASSUME NEW A, NEW B
  PROVE  ItemsIn(A \cup B) = ItemsIn(A) \cup ItemsIn(B)
  BY DEF ItemsIn

LEMMA ApartSplit ==
  ASSUME NEW S, NEW T, T \subseteq S, Apart(S)
  PROVE  /\ Apart(T) /\ Apart(S \ T)
         /\ ItemsIn(T) \cap ItemsIn(S \ T) = {}
         /\ ItemsIn(S) = ItemsIn(T) \cup ItemsIn(S \ T)
  BY DEF ItemsIn, Apart

LEMMA ApartUnion ==
  ASSUME NEW A, NEW B, Apart(A), Apart(B), ItemsIn(A) \cap ItemsIn(B) = {}
  PROVE  Apart(A \cup B)
  BY DEF ItemsIn, Apart

LEMMA ApartOne == ASSUME NEW c PROVE Apart({c}) /\ Apart({})
  BY DEF Apart

\* T holds the chunks of S with other counters.
LEMMA Relabelled ==
  ASSUME NEW S, NEW T, Apart(S),
         \A c \in S : \E t \in T : t.items = c.items,
         \A t \in T : \E c \in S : t.items = c.items,
         \A t, u \in T : t # u =>
           \E c, d \in S : c # d /\ t.items = c.items /\ u.items = d.items
  PROVE  ItemsIn(T) = ItemsIn(S) /\ Apart(T)
<1>1. ItemsIn(T) \subseteq ItemsIn(S)
  BY DEF ItemsIn
<1>2. ItemsIn(S) \subseteq ItemsIn(T)
  BY DEF ItemsIn
<1>3. Apart(T)
  <2> SUFFICES ASSUME NEW t \in T, NEW u \in T, t # u
               PROVE  t.items \cap u.items = {}
    BY DEF Apart
  <2>1. PICK c \in S, d \in S : c # d /\ t.items = c.items /\ u.items = d.items
    OBVIOUS
  <2>2. c.items \cap d.items = {}
    BY <2>1 DEF Apart
  <2> QED BY <2>1, <2>2
<1> QED BY <1>1, <1>2, <1>3

LEMMA ItemsInType ==
  ASSUME NEW S \in SUBSET Chunk
  PROVE  ItemsIn(S) \in SUBSET Item
  BY DEF ItemsIn, Chunk

LEMMA AttemptedType ==
  ASSUME NEW c \in Chunk
  PROVE  /\ Attempted(c) \in Chunk
         /\ Attempted(c).items = c.items
         /\ Attempted(c).attempts = c.attempts + 1
  BY DEF Attempted, Chunk

LEMMA ItemEqual ==
  ASSUME NEW i \in Item, NEW j \in Item
  PROVE  /\ i.id \in Int /\ i.kind \in Kind
         /\ i.id = j.id /\ i.kind = j.kind => i = j
  BY ConstantsOK DEF Item

\* Send order is a strict total order.
LEMMA BeforeOrder ==
  ASSUME NEW i \in Item, NEW j \in Item
  PROVE  /\ ~ Before(i, i)
         /\ i = j \/ Before(i, j) \/ Before(j, i)
         /\ ~ (Before(i, j) /\ Before(j, i))
  BY ItemEqual, Z3 DEF Before, Rank, Kind

\* A cut puts every item into exactly one new chunk.
LEMMA CutsPartition ==
  ASSUME NEW p \in SUBSET Item, stamp \in Nat, NEW fresh \in Cuts(p)
  PROVE  /\ fresh \in SUBSET Chunk
         /\ \A c \in fresh : c.attempts = 0
         /\ Apart(fresh)
         /\ ItemsIn(fresh) = p
<1>1. PICK S \in SUBSET p :
        /\ \A i \in p : \E s \in S : i \in Block(p, S, s)
        /\ fresh = {[items |-> Block(p, S, s), attempts |-> 0, wait |-> 0, stamp |-> stamp + 1]
                      : s \in S}
  BY DEF Cuts
<1>2. \A s \in S : Block(p, S, s) \subseteq p
  BY DEF Block
<1>3. \A s, t \in S : s # t => Block(p, S, s) \cap Block(p, S, t) = {}
  BY BeforeOrder DEF Block
<1>4. fresh \in SUBSET Chunk
  BY <1>1, <1>2 DEF Chunk
<1>5. \A c \in fresh : c.attempts = 0
  BY <1>1
<1>6. Apart(fresh)
  BY <1>1, <1>3 DEF Apart
<1>7. ItemsIn(fresh) = p
  <2>1. \A c \in fresh : \E s \in S : c.items = Block(p, S, s)
    BY <1>1
  <2>2. \A s \in S : \E c \in fresh : c.items = Block(p, S, s)
    <3> TAKE s \in S
    <3> DEFINE c == [items |-> Block(p, S, s), attempts |-> 0, wait |-> 0, stamp |-> stamp + 1]
    <3>1. c \in fresh
      BY <1>1
    <3>2. c.items = Block(p, S, s)
      OBVIOUS
    <3> QED BY <3>1, <3>2
  <2>3. ItemsIn(fresh) \subseteq p
    BY <2>1, <1>2 DEF ItemsIn
  <2>4. \A i \in p : \E c \in fresh : i \in c.items
    BY <2>2, <1>1
  <2> QED BY <2>3, <2>4 DEF ItemsIn
<1> QED BY <1>4, <1>5, <1>6, <1>7

\* A set of natural numbers that is not empty has a least element.
LEMMA LeastWait ==
  ASSUME NEW r \in SUBSET Chunk, r # {}
  PROVE  \E w \in {c.wait : c \in r} : w \in Nat /\ \A c \in r : w <= c.wait
<1> DEFINE W == {c.wait : c \in r}
<1>1. W \subseteq Nat /\ W # {}
  BY DEF Chunk
<1>2. IsWellFoundedOn(OpToRel(<, Nat), Nat)
  BY NatLessThanWellFounded
<1>3. PICK x \in W : \A y \in W : ~ (<<y, x>> \in OpToRel(<, Nat))
  BY <1>1, <1>2, WFMin
<1>4. \A y \in W : x <= y
  <2> TAKE y \in W
  <2>1. x \in Nat /\ y \in Nat
    BY <1>1
  <2> HIDE DEF W
  <2>2. ~ (y < x)
    BY <1>3, <2>1 DEF OpToRel
  <2> QED BY <2>1, <2>2
<1> QED BY <1>1, <1>4

LEMMA ArmedType ==
  ASSUME NEW r \in SUBSET Chunk, NEW t \in Nat \cup {NoTimer}
  PROVE  Armed(r, t) \in Nat \cup {NoTimer}
<1>1. CASE r = {}
  BY <1>1 DEF Armed
<1>2. CASE r # {}
  <2> DEFINE W    == {c.wait : c \in r}
             next == CHOOSE w \in W : \A c \in r : w <= c.wait
  <2>1. \E w \in W : w \in Nat /\ \A c \in r : w <= c.wait
    BY <1>2, LeastWait
  <2>2. W \subseteq Nat
    BY DEF Chunk
  <2>3. next \in Nat
    <3> HIDE DEF W
    <3> QED BY <2>1, <2>2
  <2>4. Armed(r, t) \in {t, next}
    BY <1>2 DEF Armed
  <2> QED BY <2>3, <2>4
<1> QED BY <1>1, <1>2

(***************************************************************************)
(* The inductive invariant                                                 *)
(***************************************************************************)

\* NothingLost and NothingTwice with p, o and cap for pending, overflow and
\* captured: what holds in the middle of a handler, before its flush.
Placed(cap, p, o) ==
  LET r == ItemsIn(retry)
      w == ItemsIn(work)
      f == ItemsIn(inFlight)
      s == ItemsIn(stored.retry)
      waiting == p \cup stored.pending \cup r \cup w \cup f \cup s
      lost == reported \cup o
  IN  /\ cap = waiting \cup delivered \cup taken \cup lost
      /\ Apart(retry) /\ Apart(work) /\ Apart(inFlight) /\ Apart(stored.retry)
      /\ p \cap (stored.pending \cup r \cup w \cup f \cup s) = {}
      /\ stored.pending \cap (r \cup w \cup f \cup s) = {}
      /\ r \cap (w \cup f \cup s) = {}
      /\ w \cap (f \cup s) = {}
      /\ f \cap s = {}
      /\ waiting \cap (delivered \cup taken \cup lost) = {}
      /\ delivered \cap (taken \cup lost) = {}
      /\ taken \cap lost = {}
      /\ reported \cap o = {}

LEMMA PlacedIsInvariant ==
  Placed(captured, pending, overflow) <=> NothingLost /\ NothingTwice
  BY DEF Placed, NothingLost, NothingTwice, Waiting, Lost

\* Where things are when one more item is queued and an excess x is dropped.
LEMMA PlacedCapture ==
  ASSUME NEW cap, NEW p, NEW o, NEW item, NEW x,
         Placed(cap, p, o), item \notin cap, x \subseteq p \cup {item}
  PROVE  Placed(cap \cup {item}, (p \cup {item}) \ x, o \cup x)
<1> DEFINE r == ItemsIn(retry)
           w == ItemsIn(work)
           f == ItemsIn(inFlight)
           s == ItemsIn(stored.retry)
           h == stored.pending
           others == h \cup r \cup w \cup f \cup s
           q == (p \cup {item}) \ x
<1> HIDE DEF r, w, f, s, h
<1>1. /\ cap = p \cup others \cup delivered \cup taken \cup reported \cup o
      /\ p \cap others = {}
      /\ (p \cup others) \cap (delivered \cup taken \cup reported \cup o) = {}
      /\ delivered \cap (taken \cup reported \cup o) = {}
      /\ taken \cap (reported \cup o) = {}
      /\ reported \cap o = {}
  BY DEF Placed, r, w, f, s, h
<1>2. /\ h \cap (r \cup w \cup f \cup s) = {}
      /\ r \cap (w \cup f \cup s) = {}
      /\ w \cap (f \cup s) = {}
      /\ f \cap s = {}
      /\ Apart(retry) /\ Apart(work) /\ Apart(inFlight) /\ Apart(stored.retry)
  BY DEF Placed, r, w, f, s, h
<1> HIDE DEF others
<1>3. cap \cup {item}
        = q \cup others \cup delivered \cup taken \cup reported \cup o \cup x
  BY <1>1
<1>4. /\ q \cap others = {}
      /\ (q \cup others) \cap (delivered \cup taken \cup reported \cup o \cup x) = {}
  BY <1>1
<1>5. /\ delivered \cap (taken \cup reported \cup o \cup x) = {}
      /\ taken \cap (reported \cup o \cup x) = {}
      /\ reported \cap (o \cup x) = {}
  BY <1>1
<1> HIDE DEF q
<1>6. Placed(cap \cup {item}, q, o \cup x)
  BY <1>2, <1>3, <1>4, <1>5 DEF Placed, others, r, w, f, s, h
<1> QED BY <1>6 DEF q

\* A new item is not one of those captured before.
IdsBelow == \A i \in captured : i.id <= captures

\* One chunk is awaited at most, and only by a loop that runs.
OneInFlight ==
  /\ \A c, d \in inFlight : c = d
  /\ ~ draining => work = {} /\ inFlight = {}

\* What a flush promised is still pending only while a round is to come.
PromiseKept ==
  /\ ~ draining \/ ~ rerun => promised \cap pending = {}
  /\ promised \subseteq captured
  /\ promised \cap stored.pending = {}

IInv ==
  /\ TypeOK
  /\ NothingLost
  /\ NothingTwice
  /\ AttemptsBound
  /\ IdsBelow
  /\ OneInFlight
  /\ PromiseKept

\* What the drain loop's part of a handler leaves behind.
Drained ==
  /\ {pending, overflow, reported} \subseteq SUBSET Item
  /\ {retry, work, inFlight} \subseteq SUBSET Chunk
  /\ {draining, rerun, forceNext} \subseteq BOOLEAN
  /\ timer \in Nat \cup {NoTimer}
  /\ stamp \in Nat
  /\ NothingLost
  /\ NothingTwice
  /\ AttemptsBound
  /\ OneInFlight

(***************************************************************************)
(* The steps of the drain loop                                             *)
(***************************************************************************)
LEMMA FinishDrained ==
  ASSUME NEW p \in SUBSET Item, NEW o \in SUBSET Item,
         NEW t \in Nat \cup {NoTimer},
         {retry, work, inFlight} \subseteq SUBSET Chunk,
         reported \in SUBSET Item, stamp \in Nat,
         work = {}, inFlight = {}, AttemptsBound,
         Placed(captured', p, o),
         Finish(p, retry, t),
         \/ overflow' = o /\ reported' = reported
         \/ overflow' = {} /\ reported' = (reported \cup o),
         {rerun', forceNext'} \subseteq BOOLEAN,
         UNCHANGED <<delivered, taken, stored>>
  PROVE  Drained'
<1>1. /\ draining' = FALSE /\ inFlight' = {} /\ work' = {}
      /\ pending' = p /\ retry' = retry
      /\ timer' = Armed(retry, t)
      /\ stamp' \in {0, stamp}
  BY DEF Finish
<1>2. timer' \in Nat \cup {NoTimer}
  BY <1>1, ArmedType
<1>3. NothingLost' /\ NothingTwice'
  BY <1>1 DEF Placed, NothingLost, NothingTwice, Waiting, Lost
<1>4. AttemptsBound' /\ OneInFlight'
  BY <1>1 DEF AttemptsBound, OneInFlight
<1>5. {pending', overflow', reported'} \subseteq SUBSET Item
  BY <1>1
<1>6. {retry', work', inFlight'} \subseteq SUBSET Chunk
  BY <1>1
<1>7. {draining', rerun', forceNext'} \subseteq BOOLEAN
  <2>1. draining' \in BOOLEAN
    BY <1>1
  <2> QED BY <2>1
<1>8. stamp' \in Nat
  BY <1>1
<1> QED BY <1>2, <1>3, <1>4, <1>5, <1>6, <1>7, <1>8 DEF Drained

LEMMA SendFirstDrained ==
  ASSUME NEW chunks \in SUBSET Chunk,
         SendFirst(chunks), Apart(chunks),
         \A c \in chunks : c.attempts < MaxAttempts
  PROVE  /\ {work', inFlight'} \subseteq SUBSET Chunk
         /\ Apart(work') /\ Apart(inFlight')
         /\ ItemsIn(work') \cap ItemsIn(inFlight') = {}
         /\ ItemsIn(work') \cup ItemsIn(inFlight') = ItemsIn(chunks)
         /\ \A c \in work' : c.attempts < MaxAttempts
         /\ \A c \in inFlight' : c.attempts <= MaxAttempts
         /\ \A c, d \in inFlight' : c = d
<1>1. PICK c \in chunks : inFlight' = {Attempted(c)} /\ work' = chunks \ {c}
  BY DEF SendFirst
<1>2. /\ Attempted(c) \in Chunk /\ Attempted(c).items = c.items
      /\ Attempted(c).attempts = c.attempts + 1
  BY AttemptedType
<1>3. c.attempts + 1 <= MaxAttempts
  BY ConstantsOK DEF Chunk
<1>4. ItemsIn(inFlight') = c.items /\ ItemsIn({c}) = c.items
  BY <1>1, <1>2, ItemsInOne
<1>5. /\ Apart(work')
      /\ ItemsIn({c}) \cap ItemsIn(work') = {}
      /\ ItemsIn(chunks) = ItemsIn({c}) \cup ItemsIn(work')
  BY <1>1, ApartSplit, {c} \subseteq chunks
<1> QED BY <1>1, <1>2, <1>3, <1>4, <1>5, ApartOne

LEMMA StartRoundDrained ==
  ASSUME NEW p \in SUBSET Item, NEW o \in SUBSET Item,
         NEW t \in Nat \cup {NoTimer}, NEW force \in BOOLEAN,
         {retry, work, inFlight} \subseteq SUBSET Chunk,
         reported \in SUBSET Item, stamp \in Nat,
         work = {}, inFlight = {}, AttemptsBound,
         Placed(captured', p, o),
         StartRound(p, o, t, force),
         UNCHANGED <<delivered, taken, stored>>
  PROVE  Drained' /\ pending' = {} /\ rerun' = FALSE
<1> DEFINE due == Due(force)
           rest == retry \ due
<1>1. /\ overflow' = {} /\ reported' = reported \cup o
      /\ rerun' = FALSE /\ forceNext' = FALSE
  BY DEF StartRound
<1>2. CASE p = {} /\ due = {} /\ Finish({}, retry, t)
  <2>1. Drained'
    BY <1>1, <1>2, FinishDrained
  <2> QED BY <1>1, <1>2, <2>1 DEF Finish
<1>3. CASE /\ draining' = TRUE
           /\ pending' = {} /\ retry' = rest
           /\ timer' = t
           /\ stamp' = IF p = {} THEN stamp ELSE stamp + 1
           /\ \E fresh \in Cuts(p) : SendFirst(due \cup fresh)
  <2>1. PICK fresh \in Cuts(p) : SendFirst(due \cup fresh)
    BY <1>3
  <2>2. /\ fresh \in SUBSET Chunk /\ Apart(fresh) /\ ItemsIn(fresh) = p
        /\ \A c \in fresh : c.attempts = 0
    BY CutsPartition
  <2>3. due \subseteq retry /\ Apart(retry)
    BY DEF Placed, Due
  <2>4. /\ Apart(due) /\ Apart(rest)
        /\ ItemsIn(due) \cap ItemsIn(rest) = {}
        /\ ItemsIn(retry) = ItemsIn(due) \cup ItemsIn(rest)
    <3> HIDE DEF due
    <3> QED BY <2>3, ApartSplit
  <2>5. p \cap ItemsIn(retry) = {}
    BY DEF Placed
  <2> DEFINE all == due \cup fresh
  <2>6. Apart(all) /\ ItemsIn(all) = ItemsIn(due) \cup p
    <3> HIDE DEF due
    <3> QED BY <2>2, <2>4, <2>5, ApartUnion, ItemsInUnion
  <2>7. \A c \in all : c.attempts < MaxAttempts
    BY <2>2, <2>3, ConstantsOK DEF AttemptsBound
  <2>8. all \in SUBSET Chunk /\ rest \in SUBSET Chunk
    BY <2>2, <2>3
  <2>9. /\ {work', inFlight'} \subseteq SUBSET Chunk
        /\ Apart(work') /\ Apart(inFlight')
        /\ ItemsIn(work') \cap ItemsIn(inFlight') = {}
        /\ ItemsIn(work') \cup ItemsIn(inFlight') = ItemsIn(all)
        /\ \A c \in work' : c.attempts < MaxAttempts
        /\ \A c \in inFlight' : c.attempts <= MaxAttempts
        /\ \A c, d \in inFlight' : c = d
    <3> HIDE DEF due
    <3> QED BY <2>1, <2>6, <2>7, <2>8, SendFirstDrained
  <2>10. NothingLost' /\ NothingTwice'
    <3>1. retry' = rest
      BY <1>3
    <3> HIDE DEF due, rest, all
    <3> QED BY <1>1, <1>3, <2>4, <2>6, <2>9, <3>1, ItemsInEmpty
            DEF Placed, NothingLost, NothingTwice, Waiting, Lost
  <2>11. AttemptsBound'
    BY <1>3, <2>9 DEF AttemptsBound
  <2>12. OneInFlight'
    BY <1>3, <2>9 DEF OneInFlight
  <2>13. stamp' \in Nat
    BY <1>3
  <2> QED BY <1>1, <1>3, <2>8, <2>9, <2>10, <2>11, <2>12, <2>13 DEF Drained
<1> QED BY <1>2, <1>3 DEF StartRound

LEMMA FlushCallDrained ==
  ASSUME TypeOK, AttemptsBound, OneInFlight, PromiseKept,
         NEW p \in SUBSET Item, NEW o \in SUBSET Item,
         NEW t \in Nat \cup {NoTimer}, NEW force \in BOOLEAN,
         Placed(captured', p, o),
         promised \cap p \subseteq pending,
         captured \subseteq captured',
         FlushCall(p, o, t, force),
         UNCHANGED <<delivered, taken, stored>>
  PROVE  Drained' /\ promised' \in SUBSET Item /\ PromiseKept'
<1>1. CASE /\ paused'
           /\ pending' = p /\ overflow' = o /\ timer' = t
           /\ UNCHANGED <<retry, stamp, drainVars, reported, promised>>
  <2>1. NothingLost' /\ NothingTwice'
    BY <1>1 DEF Placed, NothingLost, NothingTwice, Waiting, Lost, drainVars
  <2>2. AttemptsBound' /\ OneInFlight'
    BY <1>1 DEF AttemptsBound, OneInFlight, drainVars
  <2>3. PromiseKept'
    BY <1>1 DEF PromiseKept, drainVars
  <2> QED BY <1>1, <2>1, <2>2, <2>3 DEF Drained, TypeOK, drainVars
<1>2. CASE /\ draining
           /\ JoinDrain(force)
           /\ promised' = promised \cup p
           /\ pending' = p /\ overflow' = o /\ timer' = t
           /\ UNCHANGED <<retry, stamp, draining, work, inFlight, reported>>
  <2>1. NothingLost' /\ NothingTwice'
    BY <1>2 DEF Placed, NothingLost, NothingTwice, Waiting, Lost
  <2>2. AttemptsBound' /\ OneInFlight'
    BY <1>2 DEF AttemptsBound, OneInFlight
  <2>3. rerun' = TRUE /\ forceNext' \in BOOLEAN
    BY <1>2 DEF JoinDrain, TypeOK
  <2>4. PromiseKept'
    BY <1>2, <2>3 DEF PromiseKept, Placed
  <2> QED BY <1>2, <2>1, <2>2, <2>3, <2>4 DEF Drained, TypeOK
<1>3. CASE /\ ~ draining
           /\ promised' = p
           /\ StartRound(p, o, t, force)
  <2>1. Drained' /\ pending' = {} /\ rerun' = FALSE
    BY <1>3, StartRoundDrained DEF TypeOK, OneInFlight
  <2>2. PromiseKept'
    BY <1>3, <2>1 DEF PromiseKept, Placed
  <2> QED BY <1>3, <2>1, <2>2
<1> QED BY <1>1, <1>2, <1>3 DEF FlushCall

\* A step that leaves the items where they are.
LEMMA PlacesUnchanged ==
  ASSUME NothingLost, NothingTwice,
         UNCHANGED <<captured, pending, overflow, work, inFlight, delivered, reported,
                     taken, stored>>,
         ItemsIn(retry') = ItemsIn(retry), Apart(retry')
  PROVE  NothingLost' /\ NothingTwice'
  BY DEF NothingLost, NothingTwice, Waiting, Lost

\* Flushes with nothing new: Flush, RetryTimerFires, Resume, Shutdown and
\* ShutdownWakes differ in what they do to the timers only.
LEMMA FlushStep ==
  ASSUME IInv, NEW t \in Nat \cup {NoTimer}, NEW force \in BOOLEAN,
         FlushCall(pending, overflow, t, force),
         UNCHANGED <<delivered, taken, stored, captures, captured>>,
         {paused', stopped', interval'} \subseteq BOOLEAN,
         closing' \in Closing, {deadline', nap'} \subseteq Nat,
         leftOver' \in SUBSET Item
  PROVE  IInv'
<1>1. Drained' /\ promised' \in SUBSET Item /\ PromiseKept'
  <2>1. Placed(captured', pending, overflow)
    BY PlacedIsInvariant DEF IInv
  <2> QED BY <2>1, FlushCallDrained DEF IInv, TypeOK
<1>2. TypeOK'
  BY <1>1 DEF IInv, TypeOK, Drained
<1>3. IdsBelow'
  BY DEF IInv, IdsBelow
<1> QED BY <1>1, <1>2, <1>3 DEF IInv, Drained

LEMMA EnqueueStep ==
  ASSUME IInv, NEW kind \in Captures, Enqueue(kind)
  PROVE  IInv'
<1> DEFINE item == [id |-> captures + 1, kind |-> kind]
           all  == pending \cup {item}
           kept == all \ Excess(all)
           shed == overflow \cup Excess(all)
<1>1. captures \in Nat /\ captures + 1 \in 1 .. MaxCaptures
  BY ConstantsOK DEF IInv, TypeOK, Enqueue
<1>2. item \in Item /\ item.id = captures + 1
  BY <1>1, ConstantsOK DEF Item
<1>3. item \notin captured
  BY <1>1, <1>2 DEF IInv, IdsBelow
<1>4. /\ captures' = captures + 1 /\ captured' = captured \cup {item}
      /\ UNCHANGED <<controlVars, shutdownVars, delivered, taken, stored>>
  BY DEF Enqueue
<1>5. kept \in SUBSET Item /\ shed \in SUBSET Item
  BY <1>2 DEF IInv, TypeOK, Excess
<1>6. Excess(all) \subseteq all
  BY DEF Excess
<1>7. Placed(captured', kept, shed)
  <2> HIDE DEF item
  <2>1. Placed(captured, pending, overflow)
    BY PlacedIsInvariant DEF IInv
  <2> HIDE DEF all, kept, shed
  <2>2. Placed(captured \cup {item}, all \ Excess(all), overflow \cup Excess(all))
    BY <1>3, <1>6, <2>1, PlacedCapture DEF all
  <2> QED BY <1>4, <2>2 DEF kept, shed
<1>8. promised \cap kept \subseteq pending
  BY <1>3 DEF IInv, PromiseKept
<1>9. Drained' /\ promised' \in SUBSET Item /\ PromiseKept'
  <2>1. CASE FlushCall(kept, shed, timer, FALSE)
    <3> HIDE DEF item, kept, shed
    <3> QED BY <2>1, <1>4, <1>5, <1>7, <1>8, FlushCallDrained DEF IInv, TypeOK
  <2>2. CASE /\ pending' = kept /\ overflow' = shed
             /\ UNCHANGED <<retry, stamp, drainVars, timer, reported, promised>>
    <3> HIDE DEF item, kept, shed
    <3>1. NothingLost' /\ NothingTwice'
      BY <1>4, <1>7, <2>2 DEF Placed, NothingLost, NothingTwice, Waiting, Lost, drainVars
    <3>2. AttemptsBound' /\ OneInFlight'
      BY <2>2 DEF IInv, AttemptsBound, OneInFlight, drainVars
    <3>3. PromiseKept'
      BY <1>4, <1>8, <2>2 DEF IInv, PromiseKept, drainVars
    <3> QED BY <1>5, <2>2, <3>1, <3>2, <3>3 DEF IInv, Drained, TypeOK, drainVars
  <2> QED BY <2>1, <2>2 DEF Enqueue
<1>10. TypeOK'
  <2>1. captured' \in SUBSET Item
    BY <1>2, <1>4 DEF IInv, TypeOK
  <2> HIDE DEF item, kept, shed
  <2> QED BY <1>1, <1>4, <1>9, <2>1
          DEF IInv, TypeOK, Drained, controlVars, shutdownVars
<1>11. IdsBelow'
  <2>1. \A i \in captured : i.id \in Int
    BY ItemEqual DEF IInv, TypeOK
  <2> QED BY <1>1, <1>2, <1>4, <2>1 DEF IInv, IdsBelow
<1> QED BY <1>9, <1>10, <1>11 DEF IInv, Drained

(***************************************************************************)
(* The answers                                                             *)
(***************************************************************************)
LEMMA SettledStep ==
  ASSUME IInv, SendAccepted \/ SendRejected
  PROVE  IInv'
<1>1. /\ inFlight' = {}
      /\ UNCHANGED <<retry, stamp>>
      /\ AnswerUnchanged
      /\ \/ delivered' = (delivered \cup ItemsIn(inFlight)) /\ reported' = reported
         \/ reported' = (reported \cup ItemsIn(inFlight)) /\ delivered' = delivered
  BY DEF SendAccepted, SendRejected
<1>2. ItemsIn(inFlight) \in SUBSET Item
  BY ItemsInType DEF IInv, TypeOK
<1> USE <1>1 DEF AnswerUnchanged, controlVars, shutdownVars, captureVars
<1>3. TypeOK'
  BY <1>2 DEF IInv, TypeOK
<1>4. NothingLost' /\ NothingTwice'
  BY ItemsInEmpty, ApartOne DEF IInv, NothingLost, NothingTwice, Waiting, Lost
<1>5. AttemptsBound' /\ OneInFlight' /\ IdsBelow' /\ PromiseKept'
  BY DEF IInv, AttemptsBound, OneInFlight, IdsBelow, PromiseKept
<1> QED BY <1>3, <1>4, <1>5 DEF IInv

LEMMA AgainType ==
  ASSUME NEW c \in Chunk, NEW delay \in Nat, NEW n \in Nat
  PROVE  LET again == [c EXCEPT !.wait = delay, !.stamp = n]
         IN  /\ again \in Chunk
             /\ again.items = c.items /\ again.attempts = c.attempts
             /\ ItemsIn({again}) = c.items
<1> DEFINE again == [c EXCEPT !.wait = delay, !.stamp = n]
<1>1. again \in Chunk /\ again.items = c.items /\ again.attempts = c.attempts
  BY DEF Chunk
<1>2. ItemsIn({again}) = again.items
  BY ItemsInOne
<1> QED BY <1>1, <1>2

LEMMA FailedStep ==
  ASSUME IInv, SendFailed
  PROVE  IInv'
<1>1. PICK c \in inFlight :
        /\ inFlight' = {}
        /\ UNCHANGED delivered
        /\ AnswerUnchanged
        /\ \/ /\ OutOfAttempts(c)
              /\ reported' = reported \cup c.items
              /\ UNCHANGED <<retry, stamp>>
           \/ /\ ~ OutOfAttempts(c)
              /\ \E delay \in Jittered(c.attempts) \cup 0 .. MaxRetryAfter :
                   LET grown == retry \cup {[c EXCEPT !.wait = delay, !.stamp = stamp + 1]}
                   IN  /\ retry' = grown \ Surplus(grown)
                       /\ reported' = reported \cup DroppedItems(Surplus(grown))
              /\ stamp' = stamp + 1
  BY DEF SendFailed
<1>2. c \in Chunk /\ inFlight = {c}
  BY DEF IInv, TypeOK, OneInFlight
<1>3. ItemsIn(inFlight) = c.items
  BY <1>2, ItemsInOne
<1>4. c.items \in SUBSET Item
  BY <1>2 DEF Chunk
<1>0. /\ inFlight' = {}
      /\ UNCHANGED <<delivered, pending, overflow, work, draining, rerun, forceNext,
                     controlVars, timer, shutdownVars, taken, promised, captureVars>>
  BY <1>1 DEF AnswerUnchanged
<1> USE DEF controlVars, shutdownVars, captureVars
<1>5. OneInFlight' /\ IdsBelow' /\ PromiseKept'
  BY <1>0 DEF IInv, OneInFlight, IdsBelow, PromiseKept
<1>6. CASE /\ reported' = reported \cup c.items
           /\ UNCHANGED <<retry, stamp>>
  <2>1. TypeOK'
    BY <1>0, <1>4, <1>6 DEF IInv, TypeOK
  <2>2. NothingLost' /\ NothingTwice'
    <3>1. reported' = reported \cup ItemsIn(inFlight)
      BY <1>3, <1>6
    <3>2. ItemsIn(inFlight') = {} /\ Apart(inFlight')
      BY <1>0, ItemsInEmpty, ApartOne
    <3>3. stored' = stored /\ captured' = captured
      BY <1>0
    <3> QED BY <1>0, <1>6, <3>1, <3>2, <3>3
            DEF IInv, NothingLost, NothingTwice, Waiting, Lost
  <2>3. AttemptsBound'
    BY <1>0, <1>6 DEF IInv, AttemptsBound
  <2> QED BY <1>5, <2>1, <2>2, <2>3 DEF IInv
<1>7. CASE /\ ~ OutOfAttempts(c)
           /\ \E delay \in Jittered(c.attempts) \cup 0 .. MaxRetryAfter :
                LET grown == retry \cup {[c EXCEPT !.wait = delay, !.stamp = stamp + 1]}
                IN  /\ retry' = grown \ Surplus(grown)
                    /\ reported' = reported \cup DroppedItems(Surplus(grown))
           /\ stamp' = stamp + 1
  <2>1. PICK delay \in Jittered(c.attempts) \cup 0 .. MaxRetryAfter :
          LET grown == retry \cup {[c EXCEPT !.wait = delay, !.stamp = stamp + 1]}
          IN  /\ retry' = grown \ Surplus(grown)
              /\ reported' = reported \cup DroppedItems(Surplus(grown))
    BY <1>7
  <2>2. delay \in Nat
    BY ConstantsOK DEF Jittered
  <2>3. stamp \in Nat /\ retry \in SUBSET Chunk
    BY DEF IInv, TypeOK
  <2> DEFINE again == [c EXCEPT !.wait = delay, !.stamp = stamp + 1]
             grown == retry \cup {again}
             drop  == Surplus(grown)
  <2>4. /\ again \in Chunk /\ again.items = c.items /\ again.attempts = c.attempts
        /\ ItemsIn({again}) = c.items
    <3> DEFINE n == stamp + 1
               more == [c EXCEPT !.wait = delay, !.stamp = n]
    <3>1. c \in Chunk /\ delay \in Nat /\ n \in Nat
      BY <1>2, <2>2, <2>3
    <3> HIDE DEF n
    <3>2. /\ more \in Chunk /\ more.items = c.items /\ more.attempts = c.attempts
          /\ ItemsIn({more}) = c.items
      BY ONLY <3>1, AgainType
    <3> QED BY <3>2 DEF n
  <2>5. /\ ItemsIn({again}) = c.items
        /\ ItemsIn(grown) = ItemsIn(retry) \cup c.items
    <3> HIDE DEF again
    <3> QED BY <2>4, ItemsInUnion
  <2>6. Apart(grown)
    <3>1. Apart(retry) /\ ItemsIn(retry) \cap c.items = {}
      BY <1>3 DEF IInv, NothingTwice
    <3> HIDE DEF again
    <3> QED BY <3>1, <2>5, ApartUnion, ApartOne
  <2>7. drop \subseteq grown
    BY DEF Surplus
  <2>8. /\ retry' = grown \ drop
        /\ reported' = reported \cup ItemsIn(drop)
    BY <2>1 DEF DroppedItems
  <2>9. c.attempts < MaxAttempts
    BY <1>2, <1>7, ConstantsOK DEF OutOfAttempts, Chunk
  <2>10. AttemptsBound'
    BY <1>0, <2>4, <2>8, <2>9 DEF IInv, AttemptsBound
  <2>11. grown \in SUBSET Chunk
    BY <2>3, <2>4
  <2> HIDE DEF again, grown, drop
  <2>12. /\ Apart(retry')
         /\ ItemsIn(drop) \cap ItemsIn(retry') = {}
         /\ ItemsIn(grown) = ItemsIn(drop) \cup ItemsIn(retry')
    BY <2>6, <2>7, <2>8, ApartSplit
  <2>13. TypeOK'
    <3>1. ItemsIn(drop) \in SUBSET Item
      BY <2>7, <2>11, ItemsInType
    <3>2. reported' \in SUBSET Item /\ retry' \in SUBSET Chunk
      BY <2>8, <2>11, <3>1 DEF IInv, TypeOK
    <3>3. stamp' \in Nat
      BY <1>7, <2>3
    <3> QED BY <1>0, <3>2, <3>3 DEF IInv, TypeOK
  <2>14. NothingLost' /\ NothingTwice'
    <3>1. ItemsIn(inFlight') = {} /\ Apart(inFlight')
      BY <1>0, ItemsInEmpty, ApartOne
    <3>2. stored' = stored /\ captured' = captured
      BY <1>0
    <3>3. ItemsIn(drop) \cup ItemsIn(retry') = ItemsIn(retry) \cup ItemsIn(inFlight)
      BY <1>3, <2>5, <2>12
    <3>4. reported' = reported \cup ItemsIn(drop)
      BY <2>8
    <3> QED BY <1>0, <2>12, <3>1, <3>2, <3>3, <3>4
            DEF IInv, NothingLost, NothingTwice, Waiting, Lost
  <2> QED BY <1>5, <2>10, <2>13, <2>14 DEF IInv
<1> QED BY <1>1, <1>6, <1>7

LEMMA DrainContinuesStep ==
  ASSUME IInv, DrainContinues
  PROVE  IInv'
<1>1. /\ draining /\ inFlight = {}
      /\ UNCHANGED <<controlVars, deadline, nap, leftOver, delivered, taken, promised,
                     captureVars>>
      /\ closing' \in Closing
  BY DEF DrainContinues, IInv, TypeOK, Closing
<1> USE <1>1 DEF controlVars, captureVars
<1>2. CASE /\ work # {}
           /\ SendFirst(work)
           /\ UNCHANGED <<queueVars, draining, rerun, forceNext, timer, reported>>
  <2> USE <1>2 DEF queueVars
  <2>1. /\ {work', inFlight'} \subseteq SUBSET Chunk
        /\ Apart(work') /\ Apart(inFlight')
        /\ ItemsIn(work') \cap ItemsIn(inFlight') = {}
        /\ ItemsIn(work') \cup ItemsIn(inFlight') = ItemsIn(work)
        /\ \A c \in work' : c.attempts < MaxAttempts
        /\ \A c \in inFlight' : c.attempts <= MaxAttempts
        /\ \A c, d \in inFlight' : c = d
    BY SendFirstDrained DEF IInv, TypeOK, NothingTwice, AttemptsBound
  <2>2. TypeOK'
    BY <2>1 DEF IInv, TypeOK
  <2>3. NothingLost' /\ NothingTwice'
    BY <2>1, ItemsInEmpty DEF IInv, NothingLost, NothingTwice, Waiting, Lost
  <2>4. AttemptsBound' /\ OneInFlight' /\ IdsBelow' /\ PromiseKept'
    BY <2>1 DEF IInv, AttemptsBound, OneInFlight, IdsBelow, PromiseKept
  <2> QED BY <2>2, <2>3, <2>4 DEF IInv
<1>3. ASSUME work = {}, Drained', PromiseKept'
      PROVE  IInv'
  <2>1. TypeOK'
    BY <1>3 DEF IInv, TypeOK, Drained
  <2>2. IdsBelow'
    BY DEF IInv, IdsBelow
  <2> QED BY <1>3, <2>1, <2>2 DEF IInv, Drained
<1>4. Placed(captured', pending, overflow)
  BY PlacedIsInvariant DEF IInv
<1>5. CASE work = {} /\ rerun /\ StartRound(pending, overflow, timer, forceNext)
  <2>1. Drained' /\ pending' = {} /\ rerun' = FALSE
    BY <1>4, <1>5, StartRoundDrained DEF IInv, TypeOK
  <2>2. PromiseKept'
    BY <2>1 DEF IInv, PromiseKept
  <2> QED BY <1>3, <1>5, <2>1, <2>2
<1>6. CASE /\ work = {} /\ ~ rerun
           /\ Finish(pending, retry, timer)
           /\ UNCHANGED <<overflow, rerun, forceNext, reported>>
  <2>1. Drained'
    BY <1>4, <1>6, FinishDrained DEF IInv, TypeOK
  <2>2. PromiseKept'
    BY <1>6 DEF IInv, PromiseKept, Finish
  <2> QED BY <1>3, <1>6, <2>1, <2>2
<1> QED BY <1>2, <1>5, <1>6 DEF DrainContinues

(***************************************************************************)
(* Timers, shutdown, unload, persistence                                   *)
(***************************************************************************)

\* A step that touches neither items nor chunks.
LEMMA ControlStep ==
  ASSUME IInv,
         UNCHANGED <<queueVars, drainVars, historyVars, captureVars>>,
         {paused', stopped', interval'} \subseteq BOOLEAN,
         timer' \in Nat \cup {NoTimer},
         closing' \in Closing, {deadline', nap'} \subseteq Nat,
         leftOver' \in SUBSET Item
  PROVE  IInv'
<1> USE DEF queueVars, drainVars, historyVars, captureVars
<1>1. TypeOK'
  BY DEF IInv, TypeOK
<1>2. NothingLost' /\ NothingTwice'
  BY DEF IInv, NothingLost, NothingTwice, Waiting, Lost
<1>3. AttemptsBound' /\ OneInFlight' /\ IdsBelow' /\ PromiseKept'
  BY DEF IInv, AttemptsBound, OneInFlight, IdsBelow, PromiseKept
<1> QED BY <1>1, <1>2, <1>3 DEF IInv

LEMMA LaterType ==
  ASSUME NEW n \in Nat
  PROVE  Later(n) \in Nat
  BY DEF Later

LEMMA TickStep ==
  ASSUME IInv, Tick
  PROVE  IInv'
<1>1. /\ retry' = {[c EXCEPT !.wait = Later(@)] : c \in retry}
      /\ timer' = Later(timer) /\ deadline' = Later(deadline) /\ nap' = Later(nap)
      /\ UNCHANGED <<pending, overflow, stamp, drainVars, controlVars, closing, leftOver,
                     historyVars, captureVars>>
  BY DEF Tick
<1> DEFINE g(c) == [c EXCEPT !.wait = Later(@)]
<1>2. \A c \in retry : /\ g(c) \in Chunk /\ g(c).items = c.items
                       /\ g(c).attempts = c.attempts
  BY LaterType DEF IInv, TypeOK, Chunk
<1>3. retry' = {g(c) : c \in retry}
  BY <1>1
<1> HIDE DEF g
<1>4. retry' \in SUBSET Chunk
  BY <1>2, <1>3
<1>5. ItemsIn(retry') = ItemsIn(retry) /\ Apart(retry')
  <2>1. \A c \in retry : \E t \in retry' : t.items = c.items
    BY <1>2, <1>3
  <2>2. \A t \in retry' : \E c \in retry : t.items = c.items
    BY <1>2, <1>3
  <2>3. \A t, u \in retry' : t # u =>
          \E c, d \in retry : c # d /\ t.items = c.items /\ u.items = d.items
    BY <1>2, <1>3
  <2> QED BY <2>1, <2>2, <2>3, Relabelled DEF IInv, NothingTwice
<1>6. \A t \in retry' : t.attempts < MaxAttempts
  BY <1>2, <1>3 DEF IInv, AttemptsBound
<1> USE DEF drainVars, controlVars, historyVars, captureVars
<1>7. TypeOK'
  <2>1. timer' \in Nat \cup {NoTimer}
    BY <1>1 DEF IInv, TypeOK, Later, NoTimer
  <2>2. deadline' \in Nat /\ nap' \in Nat
    BY <1>1, LaterType DEF IInv, TypeOK
  <2> QED BY <1>1, <1>4, <2>1, <2>2 DEF IInv, TypeOK
<1>8. NothingLost' /\ NothingTwice'
  BY <1>1, <1>5, PlacesUnchanged DEF IInv
<1>9. AttemptsBound'
  BY <1>1, <1>6 DEF IInv, AttemptsBound
<1>10. OneInFlight' /\ IdsBelow' /\ PromiseKept'
  BY <1>1 DEF IInv, OneInFlight, IdsBelow, PromiseKept
<1> QED BY <1>7, <1>8, <1>9, <1>10 DEF IInv

LEMMA TakeAllStep ==
  ASSUME IInv, TakeAll
  PROVE  IInv'
<1> USE DEF TakeAll, drainVars, controlVars, shutdownVars, captureVars
<1>1. ItemsIn(retry) \in SUBSET Item
  BY ItemsInType DEF IInv, TypeOK
<1>2. TypeOK'
  BY <1>1 DEF IInv, TypeOK
<1>3. ItemsIn(retry') = {} /\ Apart(retry')
  BY ItemsInEmpty, ApartOne
<1>4. NothingLost' /\ NothingTwice'
  BY <1>3 DEF IInv, NothingLost, NothingTwice, Waiting, Lost
<1>5. AttemptsBound' /\ OneInFlight' /\ IdsBelow' /\ PromiseKept'
  BY DEF IInv, AttemptsBound, OneInFlight, IdsBelow, PromiseKept
<1> QED BY <1>2, <1>4, <1>5 DEF IInv

LEMMA RestoreStep ==
  ASSUME IInv, Restore
  PROVE  IInv'
<1> DEFINE all  == stored.pending \cup pending
           back == {[c EXCEPT !.stamp = @ + stamp] : c \in stored.retry}
<1>1. /\ stored = Stored /\ stored' = NoSnapshot
      /\ pending' = all \ Excess(all)
      /\ overflow' = overflow \cup Excess(all)
      /\ retry' = retry \cup back
      /\ stamp' = stamp + Cardinality(stored.retry)
      /\ UNCHANGED <<drainVars, controlVars, timer, shutdownVars, historyVars,
                     captures, captured>>
  BY DEF Restore, IInv, TypeOK
<1>2. /\ stored.retry \in SUBSET Chunk /\ stored.pending \in SUBSET Item
      /\ \A c \in stored.retry : c.attempts < MaxAttempts
  BY <1>1, StoredOK, ConstantsOK DEF OldItem, Item
<1>3. stamp \in Nat /\ stamp' \in Nat
  BY <1>1, StoredOK, FS_CardinalityType DEF IInv, TypeOK
<1> DEFINE g(c) == [c EXCEPT !.stamp = @ + stamp]
<1>4. \A c \in stored.retry : /\ g(c) \in Chunk /\ g(c).items = c.items
                              /\ g(c).attempts = c.attempts
  BY <1>2, <1>3 DEF Chunk
<1>5. back = {g(c) : c \in stored.retry}
  OBVIOUS
<1> HIDE DEF back, g
<1>6. back \in SUBSET Chunk /\ \A d \in back : d.attempts < MaxAttempts
  BY <1>2, <1>4, <1>5
<1>7. \A t, u \in back : t # u =>
        \E c, d \in stored.retry : c # d /\ t.items = c.items /\ u.items = d.items
  BY <1>4, <1>5
<1>8. ItemsIn(back) = ItemsIn(stored.retry) /\ Apart(back)
  <2>1. \A c \in stored.retry : \E t \in back : t.items = c.items
    BY <1>4, <1>5
  <2>2. \A t \in back : \E c \in stored.retry : t.items = c.items
    BY <1>4, <1>5
  <2> QED BY <1>7, <2>1, <2>2, Relabelled DEF IInv, NothingTwice
<1>9. /\ Apart(retry')
      /\ ItemsIn(retry') = ItemsIn(retry) \cup ItemsIn(stored.retry)
  BY <1>1, <1>8, ApartUnion, ItemsInUnion DEF IInv, NothingTwice
<1>10. Excess(all) \subseteq all
  BY DEF Excess
<1>11. /\ stored'.pending = {} /\ ItemsIn(stored'.retry) = {} /\ Apart(stored'.retry)
  BY <1>1, ItemsInEmpty, ApartOne DEF NoSnapshot
<1> USE DEF drainVars, controlVars, shutdownVars, historyVars
<1>12. TypeOK'
  <2>1. pending' \in SUBSET Item /\ overflow' \in SUBSET Item /\ retry' \in SUBSET Chunk
    BY <1>1, <1>2, <1>6, <1>10 DEF IInv, TypeOK
  <2>2. stored' \in {Stored, NoSnapshot}
    BY <1>1
  <2>3. UNCHANGED <<draining, rerun, forceNext, work, inFlight, paused, stopped, interval,
                    timer, closing, deadline, nap, leftOver, delivered, reported, taken,
                    promised, captures, captured>>
    BY <1>1
  <2> HIDE DEF all
  <2> QED BY <1>3, <2>1, <2>2, <2>3 DEF IInv, TypeOK
<1>13. NothingLost' /\ NothingTwice'
  <2> DEFINE p == pending
             h == stored.pending
             r == ItemsIn(retry)
             w == ItemsIn(work)
             f == ItemsIn(inFlight)
             s == ItemsIn(stored.retry)
             x == Excess(all)
             gone == delivered \cup taken \cup reported \cup overflow
  <2>1. Placed(captured, pending, overflow)
    BY PlacedIsInvariant DEF IInv
  <2>2. /\ captured = p \cup h \cup r \cup w \cup f \cup s \cup gone
        /\ p \cap (h \cup r \cup w \cup f \cup s) = {} /\ h \cap (r \cup w \cup f \cup s) = {}
        /\ r \cap (w \cup f \cup s) = {} /\ w \cap (f \cup s) = {} /\ f \cap s = {}
        /\ (p \cup h \cup r \cup w \cup f \cup s) \cap gone = {}
        /\ delivered \cap (taken \cup reported \cup overflow) = {}
        /\ taken \cap (reported \cup overflow) = {} /\ reported \cap overflow = {}
    BY <2>1 DEF Placed
  <2>3. x \subseteq h \cup p
    BY <1>10
  <2>4. /\ pending' = (h \cup p) \ x /\ overflow' = overflow \cup x
        /\ ItemsIn(retry') = r \cup s /\ ItemsIn(work') = w /\ ItemsIn(inFlight') = f
        /\ UNCHANGED <<delivered, taken, reported, captured>>
        /\ Apart(retry') /\ Apart(work') /\ Apart(inFlight')
    BY <1>1, <1>9 DEF IInv, NothingTwice
  <2> HIDE DEF p, h, r, w, f, s, x, all
  <2>5. captured = ((h \cup p) \ x) \cup r \cup s \cup w \cup f \cup gone \cup x
    BY ONLY <2>2, <2>3
  <2>6. /\ ((h \cup p) \ x) \cap (r \cup s \cup w \cup f) = {}
        /\ (r \cup s) \cap (w \cup f) = {} /\ w \cap f = {}
    BY ONLY <2>2
  <2>7. (((h \cup p) \ x) \cup r \cup s \cup w \cup f) \cap (gone \cup x) = {}
    BY ONLY <2>2, <2>3
  <2>8. /\ delivered \cap (taken \cup reported \cup overflow \cup x) = {}
        /\ taken \cap (reported \cup overflow \cup x) = {} /\ reported \cap (overflow \cup x) = {}
    BY ONLY <2>2, <2>3
  <2>9. NothingLost'
    BY ONLY <1>11, <2>4, <2>5 DEF NothingLost, Waiting, Lost
  <2>10. NothingTwice'
    BY ONLY <1>11, <2>4, <2>6, <2>7, <2>8 DEF NothingTwice, Waiting, Lost
  <2> QED BY <2>9, <2>10
<1>14. AttemptsBound'
  BY <1>1, <1>6 DEF IInv, AttemptsBound
<1>15. PromiseKept'
  BY <1>1, <1>10, <1>11 DEF IInv, PromiseKept
<1>16. OneInFlight' /\ IdsBelow'
  BY <1>1 DEF IInv, OneInFlight, IdsBelow
<1> QED BY <1>12, <1>13, <1>14, <1>15, <1>16 DEF IInv

(***************************************************************************)
(* The theorems                                                            *)
(***************************************************************************)
LEMMA InitIInv == Init => IInv
<1> SUFFICES ASSUME Init PROVE IInv
  OBVIOUS
<1> USE DEF Init
<1>1. /\ Stored.pending \in SUBSET Item /\ Stored.retry \in SUBSET Chunk
      /\ ItemsIn(Stored.retry) \in SUBSET Item
      /\ Apart(Stored.retry)
      /\ Stored.pending \cap ItemsIn(Stored.retry) = {}
      /\ \A i \in Stored.pending \cup ItemsIn(Stored.retry) : i.id <= 0
  <2>1. Stored.pending \in SUBSET OldItem /\ Stored.retry \in SUBSET Chunk
    BY StoredOK
  <2>2. OldItem \subseteq Item /\ \A i \in OldItem : i.id <= 0
    BY ConstantsOK DEF OldItem, Item
  <2>3. /\ ItemsIn(Stored.retry) \in SUBSET OldItem
        /\ Stored.pending \cap ItemsIn(Stored.retry) = {}
    BY StoredOK DEF ItemsIn
  <2>4. Apart(Stored.retry)
    BY StoredOK DEF Apart
  <2> QED BY <2>1, <2>2, <2>3, <2>4
<1>2. TypeOK
  <2>1. {draining, rerun, forceNext, paused, stopped, interval} \subseteq BOOLEAN
    OBVIOUS
  <2>2. /\ {pending, overflow, captured, delivered, reported, taken, promised, leftOver}
             \subseteq SUBSET Item
        /\ {retry, work, inFlight} \subseteq SUBSET Chunk
    BY <1>1
  <2>3. /\ timer \in Nat \cup {NoTimer} /\ closing \in Closing
        /\ {deadline, nap, stamp, captures} \subseteq Nat
        /\ stored \in {Stored, NoSnapshot}
    BY DEF Closing
  <2> QED BY <2>1, <2>2, <2>3 DEF TypeOK
<1>3. NothingLost /\ NothingTwice
  BY <1>1, ItemsInEmpty, ApartOne DEF NothingLost, NothingTwice, Waiting, Lost
<1>4. AttemptsBound /\ OneInFlight /\ IdsBelow /\ PromiseKept
  BY <1>1 DEF AttemptsBound, OneInFlight, IdsBelow, PromiseKept
<1> QED BY <1>2, <1>3, <1>4 DEF IInv

LEMMA NextIInv == IInv /\ [Next]_vars => IInv'
<1> SUFFICES ASSUME IInv, [Next]_vars PROVE IInv'
  OBVIOUS
<1> USE DEF controlVars, shutdownVars, captureVars
<1>0. /\ timer \in Nat \cup {NoTimer} /\ {paused, stopped, interval} \subseteq BOOLEAN
      /\ {deadline, nap} \subseteq Nat /\ leftOver \in SUBSET Item
      /\ closing \in Closing
  BY DEF IInv, TypeOK
<1>1. ASSUME NEW kind \in Captures, Enqueue(kind) PROVE IInv'
  BY <1>1, EnqueueStep
<1>2. ASSUME NEW force \in BOOLEAN, Flush(force) PROVE IInv'
  BY <1>0, <1>2, FlushStep DEF Flush
<1>3. CASE IntervalFires
  <2>1. FALSE \in BOOLEAN
    OBVIOUS
  <2> QED BY <1>2, <1>3, <2>1 DEF IntervalFires
<1>4. CASE RetryTimerFires
  BY <1>0, <1>4, FlushStep DEF RetryTimerFires
<1>5. CASE SendAccepted \/ SendRejected
  BY <1>5, SettledStep
<1>6. CASE SendFailed
  BY <1>6, FailedStep
<1>7. CASE DrainContinues
  BY <1>7, DrainContinuesStep
<1>8. CASE Tick
  BY <1>8, TickStep
<1>9. CASE Start
  BY <1>0, <1>9, ControlStep DEF Start
<1>10. CASE Stop
  BY <1>0, <1>10, ControlStep DEF Stop, StopTimers
<1>11. CASE Pause
  BY <1>0, <1>11, ControlStep DEF Pause
<1>12. CASE Resume
  BY <1>0, <1>12, FlushStep DEF Resume
<1>13. CASE Shutdown
  <2>1. ShutdownTimeout \in Nat
    BY ConstantsOK
  <2>2. closing' \in Closing
    BY <1>13 DEF Shutdown, Closing
  <2> QED BY <1>0, <1>13, <2>1, <2>2, FlushStep DEF Shutdown, StopTimers
<1>14. CASE ShutdownChecks
  <2>1. pending \cup ItemsIn(retry) \in SUBSET Item
    BY ItemsInType DEF IInv, TypeOK
  <2>2. closing' \in Closing
    BY <1>14 DEF ShutdownChecks, Closing
  <2>3. leftOver' \in SUBSET Item /\ nap' \in Nat
    BY <1>0, <1>14, <2>1 DEF ShutdownChecks, IInv, TypeOK, Chunk
  <2> QED BY <1>0, <1>14, <2>2, <2>3, ControlStep DEF ShutdownChecks
<1>15. CASE ShutdownWakes
  <2>1. closing' \in Closing
    BY <1>15 DEF ShutdownWakes, Closing
  <2> QED BY <1>0, <1>15, <2>1, FlushStep DEF ShutdownWakes
<1>16. CASE TakeAll
  BY <1>16, TakeAllStep
<1>17. CASE Restore
  BY <1>17, RestoreStep
<1>18. CASE UNCHANGED vars
  BY <1>0, <1>18, ControlStep DEF vars
<1> QED BY <1>1, <1>2, <1>3, <1>4, <1>5, <1>6, <1>7, <1>8, <1>9, <1>10, <1>11, <1>12,
           <1>13, <1>14, <1>15, <1>16, <1>17, <1>18
        DEF Next, Deliver, FlushCalls, Periodic, Offline, Close

THEOREM InductiveInvariant == Spec => []IInv
  BY InitIInv, NextIInv, PTL DEF Spec

\* Every variable of the queue keeps its type in every reachable state.
THEOREM TypeCorrect == Spec => []TypeOK
  BY InductiveInvariant, PTL DEF IInv

\* No move between pending, the drain loop's locals and retry loses an item,
\* whatever the bounds and the interleaving (queue.ts).
THEOREM NeverLost == Spec => []NothingLost
  BY InductiveInvariant, PTL DEF IInv

\* ... or puts it into two places, or delivers what was reported lost.
THEOREM NeverTwice == Spec => []NothingTwice
  BY InductiveInvariant, PTL DEF IInv

\* No chunk is sent more than MaxAttempts times (queue.ts:328).
THEOREM AttemptsBounded == Spec => []AttemptsBound
  BY InductiveInvariant, PTL DEF IInv

\* The promise of flush() settles after what was pending has been attempted.
THEOREM FlushKeepsPromise == Spec => []FlushPromise
<1>1. IInv => FlushPromise
  BY DEF IInv, PromiseKept, FlushPromise
<1> QED BY <1>1, InductiveInvariant, PTL

(***************************************************************************)
(* The order of sends                                                      *)
(***************************************************************************)

\* All of one chunk is to be sent before all of another.
Ordered(c, d) == \A i \in c.items, j \in d.items : Before(i, j)

\* Chunks of one cut are ordered.
InOrder(chunks) ==
  \A c, d \in chunks : c # d /\ c.stamp = d.stamp => Ordered(c, d) \/ Ordered(d, c)

\* A stamp names a cut, or one chunk that waits for a retry; no chunk is empty,
\* so that two chunks cannot both be the first.
StampsOK ==
  /\ \A c \in retry \cup work \cup inFlight : c.stamp <= stamp /\ c.items # {}
  /\ \A c, d \in retry : c # d => c.stamp # d.stamp
  /\ InOrder(work)
  /\ SendOrder

LEMMA BeforeTransitive ==
  ASSUME NEW i \in Item, NEW j \in Item, NEW k \in Item, Before(i, j), Before(j, k)
  PROVE  Before(i, k)
  BY ItemEqual, Z3 DEF Before, Rank, Kind

\* The blocks of a cut follow each other as their starts do.
LEMMA CutsOrdered ==
  ASSUME NEW p \in SUBSET Item, stamp \in Nat, NEW fresh \in Cuts(p)
  PROVE  /\ \A c \in fresh : c.stamp = stamp + 1 /\ c.items # {}
         /\ InOrder(fresh)
<1>1. PICK S \in SUBSET p :
        fresh = {[items |-> Block(p, S, s), attempts |-> 0, wait |-> 0, stamp |-> stamp + 1]
                   : s \in S}
  BY DEF Cuts
<1>2. \A c \in fresh : \E s \in S : c.items = Block(p, S, s) /\ c.stamp = stamp + 1
  BY <1>1
<1>3. \A s \in S : s \in Block(p, S, s)
  BY BeforeOrder DEF Block
<1>4. ASSUME NEW s \in S, NEW t \in S, Before(s, t),
             NEW i \in Block(p, S, s), NEW j \in Block(p, S, t)
      PROVE  Before(i, j)
  <2>1. i \in Item /\ j \in Item /\ t \in Item
    BY DEF Block
  <2>2. ~ (t = i \/ Before(t, i))
    BY <1>4 DEF Block
  <2>3. Before(i, t)
    BY <2>1, <2>2, BeforeOrder
  <2>4. j = t \/ Before(t, j)
    BY DEF Block
  <2> QED BY <2>1, <2>3, <2>4, BeforeTransitive
<1>5. ASSUME NEW c \in fresh, NEW d \in fresh, c # d
      PROVE  Ordered(c, d) \/ Ordered(d, c)
  <2>1. PICK s \in S : c = [items |-> Block(p, S, s), attempts |-> 0, wait |-> 0, stamp |-> stamp + 1]
    BY <1>1
  <2>2. PICK t \in S : d = [items |-> Block(p, S, t), attempts |-> 0, wait |-> 0, stamp |-> stamp + 1]
    BY <1>1
  <2>3. c.items = Block(p, S, s) /\ d.items = Block(p, S, t) /\ s # t
    BY <1>5, <2>1, <2>2
  <2>4. Before(s, t) \/ Before(t, s)
    BY <2>3, BeforeOrder
  <2> QED BY <1>4, <2>3, <2>4 DEF Ordered
<1> QED BY <1>2, <1>3, <1>5 DEF InOrder

\* The chunk that goes first is one that nothing of its cut precedes.
LEMMA SendFirstOrdered ==
  ASSUME NEW chunks \in SUBSET Chunk, InOrder(chunks), SendFirst(chunks),
         \A c \in chunks : c.items # {}
  PROVE  /\ InOrder(work') /\ SendOrder'
         /\ \A c \in work' \cup inFlight' : \E e \in chunks : c.items = e.items /\ c.stamp = e.stamp
<1>1. PICK c \in chunks : /\ IsFirst(c, chunks)
                          /\ inFlight' = {Attempted(c)} /\ work' = chunks \ {c}
  BY DEF SendFirst
<1>2. Attempted(c).items = c.items /\ Attempted(c).stamp = c.stamp
  BY DEF Attempted, Chunk
<1>3. InOrder(work')
  BY <1>1 DEF InOrder
<1>4. ASSUME NEW d \in work', c.stamp = d.stamp PROVE Ordered(c, d)
  <2>1. d \in chunks /\ d # c
    BY <1>1
  <2>2. c.stamp \in Nat /\ c.items \subseteq Item /\ d.items \subseteq Item
    BY <2>1 DEF Chunk
  <2>3. Sooner(c, d)
    BY <1>1, <2>1 DEF IsFirst
  <2>4. PICK i \in c.items : \A j \in d.items : Before(i, j)
    BY <1>4, <2>2, <2>3 DEF Sooner
  <2>5. PICK j \in d.items : TRUE
    BY <2>1
  <2>6. ~ Before(j, i)
    BY <2>2, <2>4, <2>5, BeforeOrder
  <2>7. ~ Ordered(d, c)
    BY <2>4, <2>5, <2>6 DEF Ordered
  <2> QED BY <1>4, <2>1, <2>7 DEF InOrder
<1>5. SendOrder'
  <2>1. ASSUME NEW f \in inFlight', NEW d \in work', f.stamp = d.stamp,
               NEW i \in f.items, NEW j \in d.items
        PROVE  Before(i, j)
    BY <1>1, <1>2, <1>4, <2>1 DEF Ordered
  <2> QED BY <2>1 DEF SendOrder
<1> QED BY <1>1, <1>2, <1>3, <1>5

LEMMA FinishOrdered ==
  ASSUME StampsOK, NEW p, NEW t, work = {}, inFlight = {}, Finish(p, retry, t)
  PROVE  StampsOK'
  BY DEF Finish, StampsOK, InOrder, SendOrder

LEMMA StartRoundOrdered ==
  ASSUME StampsOK, retry \in SUBSET Chunk, stamp \in Nat, work = {}, inFlight = {},
         NEW p \in SUBSET Item, NEW o, NEW t, NEW force \in BOOLEAN, StartRound(p, o, t, force)
  PROVE  StampsOK'
<1> DEFINE due == Due(force)
<1>1. CASE p = {} /\ due = {} /\ Finish({}, retry, t)
  BY <1>1, FinishOrdered
<1>2. CASE /\ retry' = retry \ due
           /\ stamp' = IF p = {} THEN stamp ELSE stamp + 1
           /\ \E fresh \in Cuts(p) : SendFirst(due \cup fresh)
  <2>1. PICK fresh \in Cuts(p) : SendFirst(due \cup fresh)
    BY <1>2
  <2>2. /\ fresh \in SUBSET Chunk
        /\ \A c \in fresh : c.stamp = stamp + 1 /\ c.items # {}
        /\ InOrder(fresh)
    BY CutsPartition, CutsOrdered
  <2>3. p = {} => fresh = {}
    BY DEF Cuts
  <2>4. due \subseteq retry
    BY DEF Due
  <2>5. \A c \in retry : c.stamp \in Nat /\ c.stamp <= stamp /\ c.items # {}
    BY DEF Chunk, StampsOK
  <2> DEFINE chunks == due \cup fresh
  <2> HIDE DEF due
  <2>6. \A c \in chunks : c.stamp <= stamp' /\ c.items # {}
    BY <1>2, <2>2, <2>3, <2>4, <2>5
  <2>7. InOrder(chunks)
    <3> SUFFICES ASSUME NEW c \in chunks, NEW d \in chunks, c # d, c.stamp = d.stamp
                 PROVE  Ordered(c, d) \/ Ordered(d, c)
      BY DEF InOrder
    <3>1. ~ (c \in due /\ d \in due)
      BY <2>4 DEF StampsOK
    <3>2. c \in fresh /\ d \in fresh
      BY <2>2, <2>4, <2>5, <3>1
    <3> QED BY <2>2, <3>2 DEF InOrder
  <2>8. chunks \in SUBSET Chunk
    BY <2>2, <2>4
  <2> HIDE DEF chunks
  <2>9. /\ InOrder(work') /\ SendOrder'
        /\ \A c \in work' \cup inFlight' : \E e \in chunks : c.items = e.items /\ c.stamp = e.stamp
    BY <2>1, <2>6, <2>7, <2>8, SendFirstOrdered DEF chunks
  <2>10. \A c \in retry' : c.stamp <= stamp' /\ c.items # {}
    BY <1>2, <2>5
  <2>11. \A c, d \in retry' : c # d => c.stamp # d.stamp
    BY <1>2 DEF StampsOK
  <2> QED BY <2>6, <2>9, <2>10, <2>11 DEF StampsOK, InOrder
<1> QED BY <1>1, <1>2 DEF StartRound

LEMMA FlushOrdered ==
  ASSUME StampsOK, retry \in SUBSET Chunk, stamp \in Nat, OneInFlight,
         NEW p \in SUBSET Item, NEW o, NEW t, NEW force \in BOOLEAN, FlushCall(p, o, t, force)
  PROVE  StampsOK'
<1>1. CASE UNCHANGED <<retry, stamp, work, inFlight>>
  BY <1>1 DEF StampsOK, InOrder, SendOrder
<1>2. CASE ~ draining /\ StartRound(p, o, t, force)
  BY <1>2, StartRoundOrdered DEF OneInFlight
<1> QED BY <1>1, <1>2 DEF FlushCall, drainVars

\* A chunk that failed waits under a stamp of its own.
LEMMA FailedOrdered ==
  ASSUME IInv, StampsOK, SendFailed
  PROVE  StampsOK'
<1>1. PICK c \in inFlight :
        /\ inFlight' = {} /\ work' = work
        /\ \/ UNCHANGED <<retry, stamp>>
           \/ /\ \E delay \in Jittered(c.attempts) \cup 0 .. MaxRetryAfter :
                   retry' \subseteq retry \cup {[c EXCEPT !.wait = delay, !.stamp = stamp + 1]}
              /\ stamp' = stamp + 1
  BY DEF SendFailed, AnswerUnchanged
<1>2. CASE UNCHANGED <<retry, stamp>>
  BY <1>1, <1>2 DEF StampsOK, InOrder, SendOrder
<1>3. CASE /\ \E delay \in Jittered(c.attempts) \cup 0 .. MaxRetryAfter :
                retry' \subseteq retry \cup {[c EXCEPT !.wait = delay, !.stamp = stamp + 1]}
           /\ stamp' = stamp + 1
  <2>1. PICK delay \in Jittered(c.attempts) \cup 0 .. MaxRetryAfter :
          retry' \subseteq retry \cup {[c EXCEPT !.wait = delay, !.stamp = stamp + 1]}
    BY <1>3
  <2> DEFINE again == [c EXCEPT !.wait = delay, !.stamp = stamp + 1]
  <2>2. c \in Chunk /\ c.items # {} /\ stamp \in Nat
    BY DEF IInv, TypeOK, StampsOK
  <2>3. again.stamp = stamp + 1 /\ again.items = c.items
    BY <2>2 DEF Chunk
  <2>4. \A d \in retry \cup work : d.stamp \in Nat /\ d.stamp <= stamp
    BY DEF IInv, TypeOK, Chunk, StampsOK
  <2>5. retry' \subseteq retry \cup {again}
    BY <2>1
  <2> HIDE DEF again
  <2>6. \A d \in retry' : d.stamp <= stamp' /\ d.items # {}
    BY <1>3, <2>2, <2>3, <2>4, <2>5 DEF StampsOK
  <2>7. \A d, e \in retry' : d # e => d.stamp # e.stamp
    BY <2>2, <2>3, <2>4, <2>5 DEF StampsOK
  <2>8. \A d \in work' : d.stamp <= stamp' /\ d.items # {}
    <3>1. \A d \in work : d.stamp <= stamp + 1 /\ d.items # {}
      BY <2>2, <2>4 DEF StampsOK
    <3> QED BY <1>1, <1>3, <3>1
  <2> QED BY <1>1, <2>6, <2>7, <2>8 DEF StampsOK, InOrder, SendOrder
<1> QED BY <1>1, <1>2, <1>3

LEMMA DrainContinuesOrdered ==
  ASSUME IInv, StampsOK, DrainContinues
  PROVE  StampsOK'
<1>1. inFlight = {} /\ retry \in SUBSET Chunk /\ work \in SUBSET Chunk /\ stamp \in Nat
      /\ pending \in SUBSET Item /\ forceNext \in BOOLEAN
  BY DEF DrainContinues, IInv, TypeOK
<1>2. CASE SendFirst(work) /\ UNCHANGED <<retry, stamp>>
  <2>1. /\ InOrder(work') /\ SendOrder'
        /\ \A c \in work' \cup inFlight' : \E e \in work : c.items = e.items /\ c.stamp = e.stamp
    BY <1>1, <1>2, SendFirstOrdered DEF StampsOK
  <2> QED BY <1>2, <2>1 DEF StampsOK, InOrder
<1>3. CASE work = {} /\ StartRound(pending, overflow, timer, forceNext)
  BY <1>1, <1>3, StartRoundOrdered
<1>4. CASE work = {} /\ Finish(pending, retry, timer)
  BY <1>1, <1>4, FinishOrdered
<1> QED BY <1>2, <1>3, <1>4 DEF DrainContinues, queueVars

LEMMA TickOrdered ==
  ASSUME IInv, StampsOK, Tick
  PROVE  StampsOK'
<1> DEFINE g(c) == [c EXCEPT !.wait = Later(@)]
<1>1. retry' = {g(c) : c \in retry} /\ UNCHANGED <<stamp, work, inFlight>>
  BY DEF Tick, drainVars
<1>2. \A c \in retry : g(c).items = c.items /\ g(c).stamp = c.stamp
  BY DEF IInv, TypeOK, Chunk
<1> HIDE DEF g
<1> QED BY <1>1, <1>2 DEF StampsOK, InOrder, SendOrder

\* Restored chunks keep their order and come after those that wait.
LEMMA RestoreOrdered ==
  ASSUME IInv, StampsOK, Restore
  PROVE  StampsOK'
<1> DEFINE n == Cardinality(Stored.retry)
           g(c) == [c EXCEPT !.stamp = @ + stamp]
<1>1. /\ stored = Stored
      /\ retry' = retry \cup {g(c) : c \in Stored.retry}
      /\ stamp' = stamp + n
      /\ UNCHANGED <<work, inFlight>>
  BY DEF Restore, IInv, TypeOK, drainVars
<1>2. n \in Nat /\ stamp \in Nat
  BY StoredOK, FS_CardinalityType DEF IInv, TypeOK
<1>3. \A c \in Stored.retry : /\ g(c).items = c.items /\ g(c).items # {}
                              /\ g(c).stamp = c.stamp + stamp
                              /\ c.stamp \in 1 .. n
  BY StoredOK DEF Chunk
<1>4. \A c, d \in Stored.retry : c # d => c.stamp # d.stamp
  BY StoredOK
<1>5. \A c \in retry \cup work \cup inFlight : c.stamp \in Nat /\ c.stamp <= stamp /\ c.items # {}
  BY DEF IInv, TypeOK, Chunk, StampsOK
<1> HIDE DEF n, g
<1>6. \A d \in {g(c) : c \in Stored.retry} :
        d.items # {} /\ d.stamp \in Nat /\ d.stamp > stamp /\ d.stamp <= stamp'
  BY <1>1, <1>2, <1>3
<1>7. \A d, e \in {g(c) : c \in Stored.retry} : d # e => d.stamp # e.stamp
  BY <1>2, <1>3, <1>4
<1>8. \A c \in retry' \cup work' \cup inFlight' : c.stamp <= stamp' /\ c.items # {}
  BY <1>1, <1>2, <1>5, <1>6
<1>9. \A d, e \in retry' : d # e => d.stamp # e.stamp
  <2> SUFFICES ASSUME NEW d \in retry', NEW e \in retry', d # e PROVE d.stamp # e.stamp
    OBVIOUS
  <2>1. CASE d \in retry /\ e \in retry
    BY <2>1 DEF StampsOK
  <2> QED BY <1>1, <1>2, <1>5, <1>6, <1>7, <2>1
<1> QED BY <1>1, <1>8, <1>9 DEF StampsOK, InOrder, SendOrder

LEMMA NextOrdered == IInv /\ StampsOK /\ [Next]_vars => StampsOK'
<1> SUFFICES ASSUME IInv, StampsOK, [Next]_vars PROVE StampsOK'
  OBVIOUS
<1>0. /\ retry \in SUBSET Chunk /\ stamp \in Nat /\ OneInFlight /\ pending \in SUBSET Item
  BY DEF IInv, TypeOK
<1>1. ASSUME NEW p \in SUBSET Item, NEW o, NEW t, NEW force \in BOOLEAN, FlushCall(p, o, t, force)
      PROVE  StampsOK'
  BY <1>0, <1>1, FlushOrdered
<1>2. CASE UNCHANGED <<retry, stamp, work, inFlight>>
  BY <1>2 DEF StampsOK, InOrder, SendOrder
<1>3. ASSUME NEW kind \in Captures, Enqueue(kind) PROVE StampsOK'
  <2> DEFINE all == pending \cup {[id |-> captures + 1, kind |-> kind]}
             kept == all \ Excess(all)
  <2>1. kept \in SUBSET Item
    <3>1. captures \in Nat /\ captures + 1 \in 1 .. MaxCaptures
      BY <1>3, ConstantsOK DEF IInv, TypeOK, Enqueue
    <3>2. [id |-> captures + 1, kind |-> kind] \in Item
      BY <3>1, ConstantsOK DEF Item
    <3> QED BY <1>0, <3>2
  <2>2. \/ FlushCall(kept, overflow \cup Excess(all), timer, FALSE)
        \/ UNCHANGED <<retry, stamp, work, inFlight>>
    BY <1>3 DEF Enqueue, drainVars
  <2> HIDE DEF kept, all
  <2> QED BY <1>1, <1>2, <2>1, <2>2
<1>4. CASE RetryTimerFires \/ Resume \/ Shutdown \/ ShutdownWakes \/ IntervalFires \/ FlushCalls
  BY <1>0, <1>1, <1>4 DEF RetryTimerFires, Resume, Shutdown, ShutdownWakes, IntervalFires, FlushCalls, Flush
<1>5. CASE SendAccepted \/ SendRejected
  BY <1>5 DEF SendAccepted, SendRejected, AnswerUnchanged, StampsOK, InOrder, SendOrder
<1>6. CASE Start \/ Stop \/ Pause \/ ShutdownChecks \/ UNCHANGED vars
  BY <1>2, <1>6 DEF Start, Stop, Pause, ShutdownChecks, vars, queueVars, drainVars
<1>7. CASE TakeAll
  BY <1>7 DEF TakeAll, drainVars, StampsOK, InOrder, SendOrder
<1> QED BY <1>3, <1>4, <1>5, <1>6, <1>7, FailedOrdered, DrainContinuesOrdered, TickOrdered, RestoreOrdered
        DEF Next, Deliver, Periodic, Offline, Close

\* No first attempt of a chunk goes out while something of a higher priority from
\* the same cut waits behind it (queue.ts:266-271, chunker.ts:87-90).
THEOREM SentInOrder == Spec => []SendOrder
<1>1. Init => StampsOK
  BY DEF Init, StampsOK, InOrder, SendOrder
<1>2. StampsOK => SendOrder
  BY DEF StampsOK
<1> QED BY <1>1, <1>2, NextOrdered, InductiveInvariant, PTL DEF Spec

(***************************************************************************)
(* Bounds                                                                  *)
(***************************************************************************)

\* The image of a finite set is finite, and no larger.
LEMMA ImageBound ==
  ASSUME NEW S, IsFiniteSet(S), NEW T, NEW f \in [S -> T], \A y \in T : \E x \in S : f[x] = y
  PROVE  IsFiniteSet(T) /\ Cardinality(T) <= Cardinality(S)
<1>1. f \in Surjection(S, T)
  BY DEF Surjection
<1> QED BY <1>1, FS_Surjection

\* Of a finite set with a strict order, leaving out the elements that have fewer than
\* Cardinality(S) - m before them leaves at most m: of what is left some element has the fewest
\* before it, and those were all left out.
LEMMA DropFirst ==
  ASSUME NEW S, IsFiniteSet(S), NEW m \in Nat, NEW f \in [S -> SUBSET S],
         \A x \in S : x \notin f[x],
         \A x \in S : \A y \in f[x] : f[y] \subseteq f[x]
  PROVE  Cardinality(S \ {x \in S : Cardinality(f[x]) < Cardinality(S) - m}) <= m
<1> DEFINE Kept == S \ {x \in S : Cardinality(f[x]) < Cardinality(S) - m}
           W == {Cardinality(f[x]) : x \in Kept}
<1> SUFFICES Cardinality(Kept) <= m
  OBVIOUS
<1>1. Cardinality(S) \in Nat /\ IsFiniteSet(Kept)
  BY FS_CardinalityType, FS_Subset
<1>2. \A x \in S : f[x] \subseteq S /\ IsFiniteSet(f[x]) /\ Cardinality(f[x]) \in Nat
  BY FS_Subset, FS_CardinalityType
<1>3. CASE Kept = {}
  <2>1. Cardinality(Kept) = 0
    BY <1>3, FS_EmptySet
  <2> HIDE DEF Kept
  <2> QED BY <2>1
<1>4. CASE Kept # {}
  <2>1. W \in SUBSET Nat /\ W # {}
    BY <1>2, <1>4
  <2>2. IsWellFoundedOn(OpToRel(<, Nat), Nat)
    BY NatLessThanWellFounded
  <2>3. PICK w \in W : \A v \in W : ~ (<<v, w>> \in OpToRel(<, Nat))
    <3> HIDE DEF W
    <3> QED BY <2>1, <2>2, WFMin
  <2>4. \A v \in W : ~ (v < w)
    <3> TAKE v \in W
    <3> HIDE DEF W
    <3> QED BY <2>1, <2>3 DEF OpToRel
  <2>5. PICK x \in Kept : w = Cardinality(f[x])
    OBVIOUS
  <2>6. \A y \in Kept : y \notin f[x]
    <3> SUFFICES ASSUME NEW y \in Kept, y \in f[x] PROVE FALSE
      OBVIOUS
    <3>1. f[y] \subseteq f[x] /\ y \notin f[y]
      OBVIOUS
    <3>2. f[y] \in SUBSET f[x] /\ f[y] # f[x]
      BY <3>1
    <3>3. Cardinality(f[y]) <= Cardinality(f[x]) /\ Cardinality(f[y]) # Cardinality(f[x])
      BY <1>2, <3>2, FS_Subset
    <3>4. Cardinality(f[y]) \in W
      OBVIOUS
    <3>5. Cardinality(f[y]) \in Nat /\ Cardinality(f[x]) \in Nat
      BY <1>2
    <3> QED BY <2>4, <2>5, <3>3, <3>4, <3>5
  <2>7. Kept \subseteq S \ f[x] /\ f[x] \subseteq S
    BY <1>2, <2>6
  <2>8. ~ (Cardinality(f[x]) < Cardinality(S) - m)
    OBVIOUS
  <2>9. Cardinality(S \ f[x]) = Cardinality(S) - Cardinality(f[x]) /\ IsFiniteSet(S \ f[x])
    <3>1. S \cap f[x] = f[x]
      BY <2>7
    <3>2. /\ IsFiniteSet(S \ f[x])
          /\ Cardinality(S \ f[x]) = Cardinality(S) - Cardinality(S \cap f[x])
      BY FS_Difference
    <3> QED BY <3>1, <3>2
  <2>10. Cardinality(Kept) <= Cardinality(S \ f[x])
    <3> HIDE DEF Kept
    <3> QED BY <2>7, <2>9, FS_Subset
  <2>11. Cardinality(f[x]) \in Nat /\ Cardinality(Kept) \in Nat
    BY <1>1, <1>2, FS_CardinalityType
  <2> HIDE DEF Kept
  <2> QED BY <1>1, <2>8, <2>9, <2>10, <2>11
<1> HIDE DEF Kept
<1> QED BY <1>3, <1>4

\* Shed order is a strict order.
LEMMA ShedOrder ==
  ASSUME NEW i \in Item, NEW j \in Item, NEW k \in Item
  PROVE  ~ ShedBefore(i, i) /\ (ShedBefore(i, j) /\ ShedBefore(j, k) => ShedBefore(i, k))
  BY ItemEqual, Z3 DEF ShedBefore, Rank, Kind

\* So is the order of chunks.
LEMMA SoonerOrder ==
  ASSUME NEW c \in Chunk, NEW d \in Chunk, NEW e \in Chunk
  PROVE  ~ Sooner(c, c) /\ (Sooner(c, d) /\ Sooner(d, e) => Sooner(c, e))
<1>1. /\ {c.stamp, d.stamp, e.stamp} \subseteq Nat
      /\ {c.items, d.items, e.items} \subseteq SUBSET Item
  BY DEF Chunk
<1>2. ~ Sooner(c, c)
  BY <1>1, BeforeOrder DEF Sooner
<1>3. ASSUME Sooner(c, d), Sooner(d, e) PROVE Sooner(c, e)
  <2>1. CASE c.stamp = d.stamp /\ d.stamp = e.stamp
    <3>1. PICK i \in c.items : \A j \in d.items : Before(i, j)
      BY <1>1, <1>3, <2>1 DEF Sooner
    <3>2. PICK j \in d.items : \A k \in e.items : Before(j, k)
      BY <1>1, <1>3, <2>1 DEF Sooner
    <3>3. \A k \in e.items : Before(i, k)
      BY <1>1, <3>1, <3>2, BeforeTransitive
    <3> QED BY <2>1, <3>3 DEF Sooner
  <2>2. CASE ~ (c.stamp = d.stamp /\ d.stamp = e.stamp)
    BY <1>1, <1>3, <2>2 DEF Sooner
  <2> QED BY <2>1, <2>2
<1> QED BY <1>2, <1>3

\* What enforceBound leaves keeps to the bound.
LEMMA ExcessBound ==
  ASSUME NEW p \in SUBSET Item, IsFiniteSet(p)
  PROVE  IsFiniteSet(p \ Excess(p)) /\ Cardinality(p \ Excess(p)) <= MaxQueueItems
<1> DEFINE f == [i \in p |-> {j \in p : ShedBefore(j, i)}]
<1>1. f \in [p -> SUBSET p] /\ \A i \in p : f[i] = {j \in p : ShedBefore(j, i)}
  OBVIOUS
<1> HIDE DEF f
<1>2. \A i \in p : i \notin f[i]
  BY <1>1, ShedOrder
<1>3. \A i \in p : \A j \in f[i] : f[j] \subseteq f[i]
  BY <1>1, ShedOrder
<1>4. Excess(p) = {i \in p : Cardinality(f[i]) < Cardinality(p) - MaxQueueItems}
  BY <1>1 DEF Excess
<1>5. MaxQueueItems \in Nat
  BY ConstantsOK
<1>6. Cardinality(p \ {i \in p : Cardinality(f[i]) < Cardinality(p) - MaxQueueItems})
        <= MaxQueueItems
  BY <1>1, <1>2, <1>3, <1>5, DropFirst
<1> QED BY <1>4, <1>6, FS_Subset

\* What sendOne's loop over MAX_RETRY_CHUNKS leaves keeps to that.
LEMMA SurplusBound ==
  ASSUME NEW r \in SUBSET Chunk, IsFiniteSet(r)
  PROVE  IsFiniteSet(r \ Surplus(r)) /\ Cardinality(r \ Surplus(r)) <= MaxRetryChunks
<1> DEFINE f == [c \in r |-> {d \in r : Sooner(d, c)}]
<1>1. f \in [r -> SUBSET r] /\ \A c \in r : f[c] = {d \in r : Sooner(d, c)}
  OBVIOUS
<1> HIDE DEF f
<1>2. \A c \in r : c \notin f[c]
  BY <1>1, SoonerOrder
<1>3. \A c \in r : \A d \in f[c] : f[d] \subseteq f[c]
  BY <1>1, SoonerOrder
<1>4. Surplus(r) = {c \in r : Cardinality(f[c]) < Cardinality(r) - MaxRetryChunks}
  BY <1>1 DEF Surplus
<1>5. MaxRetryChunks \in Nat
  BY ConstantsOK
<1>6. Cardinality(r \ {c \in r : Cardinality(f[c]) < Cardinality(r) - MaxRetryChunks})
        <= MaxRetryChunks
  BY <1>1, <1>2, <1>3, <1>5, DropFirst
<1> QED BY <1>4, <1>6, FS_Subset

\* The bounds speak of finite sets.
BoundsOK ==
  /\ IsFiniteSet(pending) /\ IsFiniteSet(retry)
  /\ WithinBounds

\* What restore() may have added.
LEMMA RestoredType ==
  ASSUME TypeOK
  PROVE  /\ IsFiniteSet(Stored.retry) /\ Cardinality(Stored.retry) \in Nat
         /\ Cardinality(Stored.retry \ stored.retry) \in Nat
         /\ stored = Stored => Cardinality(Stored.retry \ stored.retry) = 0
         /\ stored = NoSnapshot => Stored.retry \ stored.retry = Stored.retry
<1>1. IsFiniteSet(Stored.retry) /\ Cardinality(Stored.retry) \in Nat
  BY StoredOK, FS_CardinalityType
<1>2. Cardinality(Stored.retry \ stored.retry) \in Nat
  BY <1>1, FS_Subset, FS_CardinalityType
<1>3. stored = Stored => Stored.retry \ stored.retry = {}
  OBVIOUS
<1>4. stored = NoSnapshot => Stored.retry \ stored.retry = Stored.retry
  BY DEF NoSnapshot
<1> QED BY <1>1, <1>2, <1>3, <1>4, FS_EmptySet

\* Fewer chunks wait, or fewer items.
LEMMA FewerBounded ==
  ASSUME TypeOK, BoundsOK, stored' = stored,
         retry' \in SUBSET retry,
         \/ pending' \in SUBSET pending
         \/ IsFiniteSet(pending') /\ Cardinality(pending') <= MaxQueueItems
  PROVE  BoundsOK'
<1>1. /\ Cardinality(pending) \in Nat /\ Cardinality(retry) \in Nat
      /\ IsFiniteSet(retry') /\ Cardinality(retry') <= Cardinality(retry)
      /\ Cardinality(retry') \in Nat
  BY FS_Subset, FS_CardinalityType DEF BoundsOK
<1>2. IsFiniteSet(pending') /\ Cardinality(pending') <= MaxQueueItems
  <2>1. CASE pending' \in SUBSET pending
    <3>1. /\ IsFiniteSet(pending') /\ Cardinality(pending') <= Cardinality(pending)
          /\ Cardinality(pending') \in Nat
      BY <2>1, FS_Subset, FS_CardinalityType DEF BoundsOK
    <3> QED BY <1>1, <3>1, ConstantsOK DEF BoundsOK, WithinBounds, PendingBounded
  <2> QED BY <2>1
<1>3. Cardinality(retry') <= MaxRetryChunks + Cardinality(Stored.retry \ stored.retry)
  BY <1>1, RestoredType, ConstantsOK DEF BoundsOK, WithinBounds, RetryBounded
<1> QED BY <1>1, <1>2, <1>3 DEF BoundsOK, WithinBounds, PendingBounded, RetryBounded

\* A flush leaves what waits where it is, or takes from it.
LEMMA FlushTakes ==
  ASSUME NEW p, NEW o, NEW t, NEW force, FlushCall(p, o, t, force)
  PROVE  pending' \in {p, {}} /\ retry' \in SUBSET retry
<1>1. CASE pending' = p /\ retry' = retry
  BY <1>1
<1>2. CASE StartRound(p, o, t, force)
  BY <1>2 DEF StartRound, Finish
<1> QED BY <1>1, <1>2 DEF FlushCall

LEMMA EnqueueBounded ==
  ASSUME IInv, BoundsOK, NEW kind \in Captures, Enqueue(kind)
  PROVE  BoundsOK'
<1> DEFINE item == [id |-> captures + 1, kind |-> kind]
           all  == pending \cup {item}
           kept == all \ Excess(all)
<1>1. item \in Item
  <2>1. captures \in Nat /\ captures + 1 \in 1 .. MaxCaptures
    BY ConstantsOK DEF IInv, TypeOK, Enqueue
  <2> QED BY <2>1, ConstantsOK DEF Item
<1>2. all \in SUBSET Item /\ IsFiniteSet(all)
  BY <1>1, FS_AddElement DEF IInv, TypeOK, BoundsOK
<1>3. IsFiniteSet(kept) /\ Cardinality(kept) <= MaxQueueItems
  <2> HIDE DEF all
  <2> QED BY <1>2, ExcessBound
<1>4. pending' \in {kept, {}} /\ retry' \in SUBSET retry /\ stored' = stored
  <2>1. stored' = stored
    BY DEF Enqueue
  <2>2. \/ FlushCall(kept, overflow \cup Excess(all), timer, FALSE)
        \/ pending' = kept /\ retry' = retry
    BY DEF Enqueue
  <2> HIDE DEF kept
  <2> QED BY <2>1, <2>2, FlushTakes
<1> HIDE DEF kept
<1> QED BY <1>3, <1>4, FewerBounded DEF IInv

LEMMA FailedBounded ==
  ASSUME IInv, BoundsOK, SendFailed
  PROVE  BoundsOK'
<1>1. UNCHANGED <<pending, stored>>
  BY DEF SendFailed, AnswerUnchanged, captureVars
<1>2. PICK c \in inFlight :
        \/ retry' = retry
        \/ \E delay \in Jittered(c.attempts) \cup 0 .. MaxRetryAfter :
             LET grown == retry \cup {[c EXCEPT !.wait = delay, !.stamp = stamp + 1]}
             IN  retry' = grown \ Surplus(grown)
  BY DEF SendFailed
<1>3. CASE retry' = retry
  BY <1>1, <1>3, FewerBounded DEF IInv
<1>4. ASSUME NEW delay \in Jittered(c.attempts) \cup 0 .. MaxRetryAfter, NEW grown,
             grown = retry \cup {[c EXCEPT !.wait = delay, !.stamp = stamp + 1]},
             retry' = grown \ Surplus(grown)
      PROVE  BoundsOK'
  <2>1. c \in Chunk /\ stamp + 1 \in Nat /\ delay \in Nat
    BY ConstantsOK DEF IInv, TypeOK, Jittered
  <2>2. [c EXCEPT !.wait = delay, !.stamp = stamp + 1] \in Chunk
    BY <2>1 DEF Chunk
  <2>3. grown \in SUBSET Chunk /\ IsFiniteSet(grown)
    BY <1>4, <2>2, FS_AddElement DEF IInv, TypeOK, BoundsOK
  <2>4. IsFiniteSet(retry') /\ Cardinality(retry') <= MaxRetryChunks
    BY <1>4, <2>3, SurplusBound
  <2>5. Cardinality(retry') \in Nat
    BY <2>4, FS_CardinalityType
  <2>6. Cardinality(retry') <= MaxRetryChunks + Cardinality(Stored.retry \ stored.retry)
    BY <2>4, <2>5, RestoredType, ConstantsOK DEF IInv
  <2> QED BY <1>1, <2>4, <2>6 DEF BoundsOK, WithinBounds, PendingBounded, RetryBounded
<1> QED BY <1>2, <1>3, <1>4

LEMMA TickBounded ==
  ASSUME IInv, BoundsOK, Tick
  PROVE  BoundsOK'
<1> DEFINE f == [c \in retry |-> [c EXCEPT !.wait = Later(@)]]
<1>1. retry' = {[c EXCEPT !.wait = Later(@)] : c \in retry} /\ UNCHANGED <<pending, stored>>
  BY DEF Tick, captureVars
<1>2. f \in [retry -> retry'] /\ \A d \in retry' : \E c \in retry : f[c] = d
  BY <1>1
<1> HIDE DEF f
<1>3. IsFiniteSet(retry') /\ Cardinality(retry') <= Cardinality(retry)
  BY <1>2, ImageBound DEF BoundsOK
<1>4. Cardinality(retry') \in Nat /\ Cardinality(retry) \in Nat
  BY <1>3, FS_CardinalityType DEF BoundsOK
<1>5. Cardinality(retry') <= MaxRetryChunks + Cardinality(Stored.retry \ stored.retry)
  BY <1>3, <1>4, RestoredType, ConstantsOK DEF IInv, BoundsOK, WithinBounds, RetryBounded
<1> QED BY <1>1, <1>3, <1>5 DEF BoundsOK, WithinBounds, PendingBounded, RetryBounded

\* A snapshot is finite: there are only so many old items.
LEMMA SnapshotFinite == IsFiniteSet(Stored.pending)
<1> DEFINE ids == 1 - MaxStored .. 0
           f == [x \in ids \X Kind |-> [id |-> x[1], kind |-> x[2]]]
<1>1. IsFiniteSet(ids)
  BY ConstantsOK, FS_Interval
<1>2. IsFiniteSet(Kind)
  <2>1. Kind = ({"errors"} \cup {"traces"}) \cup {"events"}
    BY DEF Kind
  <2>2. IsFiniteSet({"errors"} \cup {"traces"})
    BY FS_Singleton, FS_AddElement
  <2> QED BY <2>1, <2>2, FS_AddElement
<1>3. IsFiniteSet(ids \X Kind)
  BY <1>1, <1>2, FS_Product
<1>4. f \in [ids \X Kind -> OldItem]
  BY DEF OldItem
<1>5. \A i \in OldItem : \E x \in ids \X Kind : f[x] = i
  <2> TAKE i \in OldItem
  <2>1. <<i.id, i.kind>> \in ids \X Kind /\ i = [id |-> i.id, kind |-> i.kind]
    BY DEF OldItem
  <2>2. f[<<i.id, i.kind>>] = i
    BY <2>1
  <2> QED BY <2>1, <2>2
<1> HIDE DEF f
<1>6. IsFiniteSet(OldItem)
  BY <1>3, <1>4, <1>5, ImageBound
<1> QED BY <1>6, StoredOK, FS_Subset

\* restore() enforces the bound of items, and adds no more chunks than the snapshot has.
LEMMA RestoreBounded ==
  ASSUME IInv, BoundsOK, Restore
  PROVE  BoundsOK'
<1> DEFINE all == stored.pending \cup pending
           f == [c \in Stored.retry |-> [c EXCEPT !.stamp = @ + stamp]]
           added == {[c EXCEPT !.stamp = @ + stamp] : c \in Stored.retry}
<1>1. /\ stored = Stored /\ stored' = NoSnapshot
      /\ pending' = all \ Excess(all)
      /\ retry' = retry \cup added
  BY DEF Restore, IInv, TypeOK
<1>2. f \in [Stored.retry -> added] /\ \A d \in added : \E c \in Stored.retry : f[c] = d
  OBVIOUS
<1>3. /\ IsFiniteSet(Stored.retry) /\ Cardinality(Stored.retry) \in Nat
      /\ Cardinality(Stored.retry \ stored.retry) = 0
  BY <1>1, RestoredType DEF IInv
<1>4. IsFiniteSet(added) /\ Cardinality(added) <= Cardinality(Stored.retry)
  <2> HIDE DEF f, added
  <2> QED BY <1>2, <1>3, ImageBound
<1> HIDE DEF f, added
<1>5. /\ IsFiniteSet(retry')
      /\ Cardinality(retry') = Cardinality(retry) + Cardinality(added) - Cardinality(retry \cap added)
      /\ Cardinality(retry \cap added) \in Nat /\ Cardinality(added) \in Nat
      /\ Cardinality(retry) \in Nat
  <2>1. IsFiniteSet(retry) /\ IsFiniteSet(retry \cap added)
    BY FS_Intersection DEF BoundsOK
  <2> QED BY <1>1, <1>4, <2>1, FS_Union, FS_CardinalityType
<1>6. Stored.retry \ stored'.retry = Stored.retry
  BY <1>1 DEF NoSnapshot
<1>7. RetryBounded'
  <2>1. Cardinality(retry) <= MaxRetryChunks
    BY <1>3, ConstantsOK DEF BoundsOK, WithinBounds, RetryBounded
  <2>2. Cardinality(retry') <= MaxRetryChunks + Cardinality(Stored.retry)
    BY <1>3, <1>4, <1>5, <2>1, ConstantsOK
  <2> QED BY <1>6, <2>2 DEF RetryBounded
<1>8. all \in SUBSET Item /\ IsFiniteSet(all)
  <2>1. Stored.pending \in SUBSET Item
    BY StoredOK, ConstantsOK DEF OldItem, Item
  <2>2. IsFiniteSet(Stored.pending)
    BY SnapshotFinite
  <2> QED BY <1>1, <2>1, <2>2, FS_Union DEF IInv, TypeOK, BoundsOK
<1>9. IsFiniteSet(pending') /\ Cardinality(pending') <= MaxQueueItems
  <2> HIDE DEF all
  <2> QED BY <1>1, <1>8, ExcessBound
<1> QED BY <1>5, <1>7, <1>9 DEF BoundsOK, WithinBounds, PendingBounded

LEMMA NextBounded == IInv /\ BoundsOK /\ [Next]_vars => BoundsOK'
<1> SUFFICES ASSUME IInv, BoundsOK, [Next]_vars PROVE BoundsOK'
  OBVIOUS
<1> USE DEF captureVars, queueVars
<1>1. ASSUME NEW t, NEW force, FlushCall(pending, overflow, t, force), stored' = stored
      PROVE  BoundsOK'
  <2>1. pending' \in SUBSET pending /\ retry' \in SUBSET retry
    BY <1>1, FlushTakes
  <2> QED BY <1>1, <2>1, FewerBounded DEF IInv
<1>2. ASSUME UNCHANGED <<pending, retry, stored>> PROVE BoundsOK'
  BY <1>2, FewerBounded DEF IInv
<1>3. CASE FlushCalls \/ IntervalFires \/ RetryTimerFires \/ Resume \/ Shutdown \/ ShutdownWakes
  BY <1>1, <1>3 DEF FlushCalls, Flush, IntervalFires, RetryTimerFires, Resume, Shutdown, ShutdownWakes
<1>4. CASE SendAccepted \/ SendRejected
  BY <1>2, <1>4 DEF SendAccepted, SendRejected, AnswerUnchanged
<1>5. CASE DrainContinues
  <2>1. pending' \in SUBSET pending /\ retry' \in SUBSET retry /\ stored' = stored
    BY <1>5 DEF DrainContinues, StartRound, Finish
  <2> QED BY <2>1, FewerBounded DEF IInv
<1>6. CASE Start \/ Stop \/ Pause \/ ShutdownChecks \/ UNCHANGED vars
  BY <1>2, <1>6 DEF Start, Stop, Pause, ShutdownChecks, vars
<1>7. CASE TakeAll
  BY <1>7, FewerBounded DEF TakeAll, IInv
<1> QED BY <1>3, <1>4, <1>5, <1>6, <1>7, EnqueueBounded, FailedBounded, TickBounded, RestoreBounded
        DEF Next, Deliver, Periodic, Offline, Close

\* No capture, retry or restart makes the queue hold more than its bounds: the
\* items that wait, and the chunks that wait for a retry but for those restored.
THEOREM BoundsHold == Spec => []WithinBounds
<1>1. Init => BoundsOK
  <2> SUFFICES ASSUME Init PROVE BoundsOK
    OBVIOUS
  <2>1. pending = {} /\ retry = {} /\ stored = Stored
    BY DEF Init
  <2>2. Stored.retry \ stored.retry = {}
    BY <2>1
  <2> QED BY <2>1, <2>2, FS_EmptySet, ConstantsOK
          DEF BoundsOK, WithinBounds, PendingBounded, RetryBounded
<1>2. BoundsOK => WithinBounds
  BY DEF BoundsOK
<1> QED BY <1>1, <1>2, NextBounded, InductiveInvariant, PTL DEF Spec

(***************************************************************************)
(* Timers                                                                  *)
(***************************************************************************)

\* What scheduleRetry arms fires before any retry is due.
LEMMA ArmedInTime ==
  ASSUME NEW r \in SUBSET Chunk, NEW t \in Nat \cup {NoTimer}
  PROVE  /\ stopped' => Armed(r, t) = t
         /\ ~ stopped' => \A c \in r : Armed(r, t) # NoTimer /\ Armed(r, t) <= c.wait
<1>1. stopped' => Armed(r, t) = t
  BY DEF Armed
<1>2. ASSUME ~ stopped', r # {} PROVE \A c \in r : Armed(r, t) # NoTimer /\ Armed(r, t) <= c.wait
  <2> DEFINE W    == {c.wait : c \in r}
             next == CHOOSE w \in W : \A c \in r : w <= c.wait
  <2>1. \E w \in W : w \in Nat /\ \A c \in r : w <= c.wait
    BY <1>2, LeastWait
  <2>2. W \subseteq Nat
    BY DEF Chunk
  <2>3. next \in Nat /\ \A c \in r : next <= c.wait
    <3> HIDE DEF W
    <3> QED BY <2>1, <2>2
  <2>4. Armed(r, t) = IF t # NoTimer /\ t <= next THEN t ELSE next
    BY <1>2 DEF Armed
  <2>5. \A c \in r : c.wait \in Nat
    BY DEF Chunk
  <2> HIDE DEF next
  <2> QED BY <2>3, <2>4, <2>5 DEF NoTimer
<1> QED BY <1>1, <1>2

\* The three ways a flush may end, as far as the timer is concerned: held,
\* draining, or done.
LEMMA FlushTimers ==
  ASSUME NEW p, NEW o, NEW t, NEW force, FlushCall(p, o, t, force)
  PROVE  \/ paused' /\ timer' = t /\ UNCHANGED <<retry, draining>>
         \/ ~ paused' /\ draining' /\ timer' = t
         \/ ~ paused' /\ ~ draining' /\ retry' = retry /\ timer' = Armed(retry, t)
  BY DEF FlushCall, StartRound, Finish, drainVars

\* The timers after a step: as they were, or what Finish made of them, or off.
LEMMA NextTimersOff ==
  ASSUME IInv, TimersStayOff, [Next]_vars
  PROVE  TimersStayOff'
<1>0. retry \in SUBSET Chunk /\ timer \in Nat \cup {NoTimer} /\ NoTimer \in Nat \cup {NoTimer}
  BY DEF IInv, TypeOK
<1>1. ASSUME NEW p, NEW o, NEW force, NEW t \in {timer, NoTimer}, FlushCall(p, o, t, force),
             \/ stopped' = stopped /\ interval' = interval
             \/ t = NoTimer /\ StopTimers
      PROVE  TimersStayOff'
  <2>1. timer' \in {t, Armed(retry, t)}
    BY <1>1, FlushTimers
  <2>2. stopped' => timer' = t
    BY <1>0, <2>1, ArmedInTime
  <2>3. CASE stopped' = stopped /\ interval' = interval
    BY <1>1, <2>2, <2>3 DEF TimersStayOff
  <2>4. CASE t = NoTimer /\ StopTimers
    BY <2>2, <2>4 DEF TimersStayOff, StopTimers
  <2> QED BY <1>1, <2>3, <2>4
<1>2. CASE UNCHANGED <<timer, stopped, interval>>
  BY <1>2 DEF TimersStayOff
<1>3. ASSUME NEW kind \in Captures, Enqueue(kind) PROVE TimersStayOff'
  BY <1>1, <1>2, <1>3 DEF Enqueue, controlVars
<1>4. CASE RetryTimerFires \/ Resume \/ IntervalFires \/ FlushCalls \/ ShutdownWakes
  BY <1>1, <1>4 DEF RetryTimerFires, Resume, IntervalFires, FlushCalls, Flush, ShutdownWakes, controlVars
<1>5. CASE Shutdown
  BY <1>1, <1>5 DEF Shutdown
<1>6. CASE Start \/ Stop
  BY <1>6 DEF Start, Stop, StopTimers, TimersStayOff
<1>7. CASE TakeAll
  BY <1>7 DEF TakeAll, controlVars, TimersStayOff
<1>8. CASE Tick
  BY <1>8 DEF Tick, controlVars, TimersStayOff, Later, NoTimer
<1>9. CASE DrainContinues
  <2>1. timer' \in {timer, Armed(retry, timer)} /\ stopped' = stopped /\ interval' = interval
    BY <1>9 DEF DrainContinues, StartRound, Finish, controlVars
  <2> QED BY <1>0, <2>1, ArmedInTime DEF TimersStayOff
<1>10. CASE SendAccepted \/ SendRejected \/ SendFailed \/ Pause \/ ShutdownChecks \/ Restore
            \/ UNCHANGED vars
  BY <1>2, <1>10 DEF SendAccepted, SendRejected, SendFailed, AnswerUnchanged, Pause, ShutdownChecks,
                     Restore, vars, controlVars
<1> QED BY <1>3, <1>4, <1>5, <1>6, <1>7, <1>8, <1>9, <1>10
        DEF Next, Deliver, Periodic, Offline, Close

\* stop() holds: no drain that was running and no later flush arms a timer of a
\* queue that was stopped, so that a process with nothing else to do can exit
\* (queue.ts:147-156, 356-359).
THEOREM StoppedStaysOff == Spec => []TimersStayOff
<1>1. Init => TimersStayOff
  BY DEF Init, TimersStayOff
<1> QED BY <1>1, NextTimersOff, InductiveInvariant, PTL DEF Spec

\* A queue whose timers are not started again once they were stopped.
StaysStopped == Next /\ (stopped => stopped')

LEMMA NextRetryTimer ==
  ASSUME IInv, RetryTimerArmed, [StaysStopped]_vars
  PROVE  RetryTimerArmed'
<1>0. retry \in SUBSET Chunk /\ timer \in Nat \cup {NoTimer} /\ NoTimer \in Nat \cup {NoTimer}
  BY DEF IInv, TypeOK
<1>1. ASSUME NEW p, NEW o, NEW force, NEW t \in {timer, NoTimer}, FlushCall(p, o, t, force),
             paused' => paused
      PROVE  RetryTimerArmed'
  <2>1. ~ paused' /\ ~ draining' => retry' = retry /\ timer' = Armed(retry, t)
    BY <1>1, FlushTimers
  <2>2. ~ stopped' => \A c \in retry : Armed(retry, t) # NoTimer /\ Armed(retry, t) <= c.wait
    BY <1>0, ArmedInTime
  <2> QED BY <2>1, <2>2 DEF RetryTimerArmed
<1>2. CASE UNCHANGED <<retry, timer, draining, paused, stored>> /\ (stopped => stopped')
  BY <1>2 DEF RetryTimerArmed
<1>3. ASSUME NEW kind \in Captures, Enqueue(kind) PROVE RetryTimerArmed'
  BY <1>1, <1>2, <1>3 DEF Enqueue, drainVars, controlVars
<1>4. CASE RetryTimerFires \/ Resume \/ IntervalFires \/ FlushCalls \/ ShutdownWakes \/ Shutdown
  <2>1. paused' => paused
    BY <1>4 DEF RetryTimerFires, Resume, IntervalFires, FlushCalls, Flush, ShutdownWakes,
                Shutdown, controlVars
  <2>2. \E force : \E t \in {timer, NoTimer} : FlushCall(pending, overflow, t, force)
    BY <1>4 DEF RetryTimerFires, Resume, IntervalFires, FlushCalls, Flush, ShutdownWakes, Shutdown
  <2> QED BY <1>1, <2>1, <2>2
<1>5. CASE (Start \/ Stop \/ Pause) /\ (stopped => stopped')
  BY <1>5 DEF Start, Stop, Pause, StopTimers, queueVars, drainVars, captureVars, RetryTimerArmed
<1>6. CASE TakeAll
  BY <1>6 DEF TakeAll, RetryTimerArmed
<1>7. CASE Tick
  <2> DEFINE g(c) == [c EXCEPT !.wait = Later(@)]
  <2>1. /\ retry' = {g(c) : c \in retry} /\ timer' = Later(timer)
        /\ UNCHANGED <<draining, paused, stopped, stored>>
    BY <1>7 DEF Tick, drainVars, controlVars, captureVars
  <2>2. \A c \in retry : c.wait \in Nat /\ g(c).wait = Later(c.wait)
    BY <1>0 DEF Chunk
  <2> HIDE DEF g
  <2>3. ASSUME NEW c \in retry, timer # NoTimer, timer <= c.wait
        PROVE  timer' # NoTimer /\ timer' <= g(c).wait
    BY <1>0, <2>1, <2>2, <2>3 DEF Later, NoTimer
  <2> QED BY <2>1, <2>3 DEF RetryTimerArmed
<1>8. CASE DrainContinues
  <2>1. /\ draining' \/ (retry' = retry /\ timer' = Armed(retry, timer))
    BY <1>8 DEF DrainContinues, StartRound, Finish
  <2> QED BY <1>0, <2>1, ArmedInTime DEF RetryTimerArmed
<1>9. CASE SendAccepted \/ SendRejected \/ SendFailed
  <2>1. draining' /\ draining
    BY <1>9 DEF SendAccepted, SendRejected, SendFailed, AnswerUnchanged, IInv, TypeOK, OneInFlight
  <2> QED BY <2>1 DEF RetryTimerArmed
<1>10. CASE Restore
  BY <1>10 DEF Restore, IInv, TypeOK, RetryTimerArmed
<1>11. CASE ShutdownChecks \/ UNCHANGED vars
  BY <1>2, <1>11 DEF ShutdownChecks, queueVars, drainVars, controlVars, captureVars, vars
<1> QED BY <1>3, <1>4, <1>5, <1>6, <1>7, <1>8, <1>9, <1>10, <1>11
        DEF StaysStopped, Next, Deliver, Periodic, Offline, Close

\* A retry that waits while nothing drains has a timer that fires before it is
\* due, whatever is captured, sent, paused, taken or stopped (queue.ts:356-367).
\* The one step that may leave a retry without a timer is start() after stop(),
\* which no client calls.
THEOREM RetriesHaveTimers == Init /\ [][StaysStopped]_vars => []RetryTimerArmed
<1>1. Init => RetryTimerArmed
  BY DEF Init, RetryTimerArmed
<1>2. IInv /\ [StaysStopped]_vars => IInv'
  BY NextIInv DEF StaysStopped
<1> QED BY <1>1, <1>2, InitIInv, NextRetryTimer, PTL

(***************************************************************************)
(* A client that ends                                                      *)
(***************************************************************************)

\* From shutdown() on the timers are off and nothing is held back.  While its
\* flush is awaited the loop runs, and reports what overflowed in the round the
\* flush asked for; after that nothing starts the loop but shutdown() itself.
CloseOK ==
  /\ closing # "no" => stopped /\ ~ paused
  /\ closing = "flushing" => draining /\ (overflow = {} \/ rerun)
  /\ closing \in {"checking", "sleeping"} => ~ draining /\ overflow = {}

LEMMA FlushCloses ==
  ASSUME TypeOK, NEW t, FlushCall(pending, overflow, t, FALSE), ~ paused', stopped',
         closing' = IF FlushAnswered THEN "checking" ELSE "flushing"
  PROVE  CloseOK'
<1>1. CASE draining /\ JoinDrain(FALSE) /\ UNCHANGED <<draining, overflow>>
  BY <1>1 DEF CloseOK, JoinDrain, FlushAnswered
<1>2. CASE StartRound(pending, overflow, t, FALSE)
  <2>1. overflow' = {}
    BY <1>2 DEF StartRound
  <2> QED BY <2>1 DEF CloseOK, FlushAnswered
<1> QED BY <1>1, <1>2 DEF FlushCall

LEMMA DrainCloses ==
  ASSUME CloseOK, DrainContinues, closing' # "no", stopped', ~ paused'
  PROVE  CloseOK'
<1>1. draining /\ closing' = IF closing = "flushing" /\ ~ draining' THEN "checking" ELSE closing
  BY DEF DrainContinues
<1>2. closing \notin {"checking", "sleeping"}
  BY <1>1 DEF CloseOK
<1>3. CASE closing # "flushing"
  BY <1>1, <1>2, <1>3 DEF CloseOK
<1>4. CASE closing = "flushing"
  <2>1. overflow = {} \/ rerun
    BY <1>4 DEF CloseOK
  <2>2. CASE UNCHANGED <<queueVars, draining, rerun>>
    BY <1>1, <1>4, <2>1, <2>2 DEF CloseOK, queueVars
  <2>3. CASE StartRound(pending, overflow, timer, forceNext)
    <3>1. overflow' = {}
      BY <2>3 DEF StartRound
    <3> QED BY <1>1, <1>4, <3>1 DEF CloseOK
  <2>4. CASE ~ rerun /\ overflow' = overflow /\ draining' = FALSE
    BY <1>1, <1>4, <2>1, <2>4 DEF CloseOK
  <2> QED BY <2>2, <2>3, <2>4 DEF DrainContinues, Finish
<1> QED BY <1>3, <1>4

LEMMA NextCloses ==
  ASSUME IInv, TimersStayOff, CloseOK, [EndNext]_vars
  PROVE  CloseOK'
<1>1. CASE closing' = "no"
  BY <1>1 DEF CloseOK
<1>2. CASE UNCHANGED vars
  BY <1>2 DEF CloseOK, vars, controlVars, shutdownVars, queueVars, drainVars
<1>3. ASSUME closing' # "no", Deliver \/ Close \/ TakeAll, Closed PROVE CloseOK'
  <2>1. ~ paused' /\ captured' = captured
    BY <1>3 DEF Closed
  <2>2. ASSUME UNCHANGED <<closing, stopped, draining, overflow, rerun>> PROVE CloseOK'
    BY <1>3, <2>1, <2>2 DEF CloseOK
  <2>3. ASSUME NEW kind \in Captures, Enqueue(kind) PROVE FALSE
    <3>1. [id |-> captures + 1, kind |-> kind] \in captured
      BY <2>1, <2>3 DEF Enqueue
    <3>2. captures + 1 <= captures
      BY <3>1 DEF IInv, IdsBelow
    <3> QED BY <3>2 DEF IInv, TypeOK
  <2>4. ~ RetryTimerFires
    <3>1. RetryTimerFires => closing # "no" /\ timer = 0
      BY <1>3 DEF RetryTimerFires, shutdownVars
    <3> QED BY <3>1 DEF CloseOK, TimersStayOff, NoTimer
  <2>5. CASE SendAccepted \/ SendRejected \/ SendFailed
    <3>1. UNCHANGED <<closing, stopped, draining, overflow, rerun>>
      BY <2>5 DEF SendAccepted, SendRejected, SendFailed, AnswerUnchanged, controlVars, shutdownVars
    <3> QED BY <2>2, <3>1
  <2>6. CASE DrainContinues
    <3>1. closing # "no" /\ stopped' = stopped
      BY <1>3, <2>6 DEF DrainContinues, controlVars
    <3> QED BY <1>3, <2>1, <2>6, <3>1, DrainCloses DEF CloseOK
  <2>7. CASE Tick \/ TakeAll
    <3>1. UNCHANGED <<closing, stopped, draining, overflow, rerun>>
      BY <2>7 DEF Tick, TakeAll, controlVars, shutdownVars, drainVars
    <3> QED BY <2>2, <3>1
  <2>8. CASE Shutdown
    <3>1. stopped'
      BY <2>8 DEF Shutdown, StopTimers
    <3> QED BY <2>1, <2>8, <3>1, FlushCloses DEF Shutdown, IInv
  <2>9. CASE ShutdownChecks
    <3>1. /\ closing = "checking" /\ closing' \in {"sleeping", "done"}
          /\ UNCHANGED <<stopped, draining, overflow>>
      BY <2>9 DEF ShutdownChecks, controlVars, drainVars, queueVars
    <3> QED BY <2>1, <3>1 DEF CloseOK
  <2>10. CASE ShutdownWakes
    <3>1. stopped'
      BY <2>10 DEF ShutdownWakes, controlVars, CloseOK
    <3> QED BY <2>1, <2>10, <3>1, FlushCloses DEF ShutdownWakes, IInv
  <2> QED BY <1>3, <2>3, <2>4, <2>5, <2>6, <2>7, <2>8, <2>9, <2>10 DEF Deliver, Close
<1>4. CASE closing = "no" /\ (FlushCalls \/ Start \/ IntervalFires \/ Stop \/ Offline)
  <2>1. closing' = closing
    BY <1>4 DEF FlushCalls, Flush, Start, IntervalFires, Stop, Offline, Pause, Resume, shutdownVars
  <2> QED BY <1>1, <1>4, <2>1
<1> QED BY <1>1, <1>2, <1>3, <1>4 DEF EndNext

LEMMA EndIsNext == [EndNext]_vars => [StaysStopped]_vars
<1> SUFFICES ASSUME EndNext PROVE StaysStopped
  OBVIOUS
<1>1. Next
  BY DEF EndNext, Next, Periodic
<1>2. stopped => stopped'
  BY DEF EndNext, Deliver, Close, Enqueue, RetryTimerFires, SendAccepted, SendRejected, SendFailed,
         AnswerUnchanged, DrainContinues, Tick, Shutdown, ShutdownChecks, ShutdownWakes, TakeAll,
         FlushCalls, Flush, Start, IntervalFires, Stop, StopTimers, Offline, Pause, Resume, controlVars
<1> QED BY <1>1, <1>2 DEF StaysStopped

LEMMA EndInvariant == EndSafely => [](IInv /\ TimersStayOff /\ CloseOK)
<1>1. Init => TimersStayOff /\ CloseOK
  BY DEF Init, TimersStayOff, CloseOK
<1>2. IInv /\ TimersStayOff /\ CloseOK /\ [EndNext]_vars => (IInv /\ TimersStayOff /\ CloseOK)'
  BY EndIsNext, NextIInv, NextTimersOff, NextCloses DEF StaysStopped
<1> QED BY <1>1, <1>2, InitIInv, PTL DEF EndSafely

\* A client that ends leaves no retry without a timer before it does.
THEOREM EndHasTimers == EndSafely => []RetryTimerArmed
  BY EndIsNext, RetriesHaveTimers, PTL DEF EndSafely

\* When shutdown() returns, every item of a client that stores nothing for a later
\* process was accepted, handed over, reported lost or counted as undelivered,
\* whatever drain, retry or answer was under way when it was called
\* (queue.ts:387-411).
THEOREM ShutdownCountsAll ==
  ASSUME Stored = NoSnapshot
  PROVE  EndSafely => ShutdownAccounts
<1>1. ASSUME IInv, CloseOK, [EndNext]_vars, closing # "done", closing' = "done"
      PROVE  captured' \subseteq delivered' \cup taken' \cup reported' \cup leftOver'
  <2>1. ShutdownChecks
    BY <1>1 DEF EndNext, Deliver, Close, Enqueue, RetryTimerFires, SendAccepted, SendRejected,
                SendFailed, AnswerUnchanged, DrainContinues, Tick, Shutdown, ShutdownChecks,
                ShutdownWakes, TakeAll, FlushCalls, Flush, Start, IntervalFires, Stop, Offline,
                Pause, Resume, shutdownVars, vars
  <2>2. /\ closing = "checking" /\ leftOver' = pending \cup ItemsIn(retry)
        /\ UNCHANGED <<captured, delivered, taken, reported>>
    BY <1>1, <2>1 DEF ShutdownChecks, historyVars, captureVars
  <2>3. work = {} /\ inFlight = {} /\ overflow = {}
    BY <1>1, <2>2 DEF CloseOK, IInv, OneInFlight
  <2>4. stored.pending = {} /\ ItemsIn(stored.retry) = {}
    BY <1>1, ItemsInEmpty DEF IInv, TypeOK, NoSnapshot
  <2> QED BY <1>1, <2>2, <2>3, <2>4, ItemsInEmpty DEF IInv, NothingLost, Waiting, Lost
<1> QED BY <1>1, EndInvariant, PTL DEF EndSafely, ShutdownAccounts

(***************************************************************************)
(* The queue implements TelemetryDelivery                                  *)
(***************************************************************************)
LEMMA WaitingIsUnsettled ==
  ASSUME IInv
  PROVE  /\ Waiting = captured \ (delivered \cup taken \cup Lost)
         /\ delivered \cap (taken \cup Lost) = {} /\ taken \cap Lost = {}
         /\ (delivered \cup taken \cup Lost) \subseteq captured
  BY DEF IInv, NothingLost, NothingTwice

\* What a flush does to the items that are lost.
LEMMA RoundLoses ==
  ASSUME NEW p, NEW o, NEW t, NEW force, StartRound(p, o, t, force)
  PROVE  Lost' = reported \cup o
  BY DEF StartRound, Lost

LEMMA FlushLoses ==
  ASSUME NEW p, NEW o, NEW t, NEW force, FlushCall(p, o, t, force)
  PROVE  Lost' = reported \cup o
<1>1. CASE overflow' = o /\ reported' = reported
  BY <1>1 DEF Lost
<1>2. CASE StartRound(p, o, t, force)
  BY <1>2, RoundLoses
<1> QED BY <1>1, <1>2 DEF FlushCall

\* A step that only settles items, in one of the three ways.
LEMMA SettlesSome ==
  ASSUME IInv, IInv', captured' = captured,
         \/ Lost \subseteq Lost' /\ UNCHANGED <<delivered, taken>>
         \/ delivered \subseteq delivered' /\ UNCHANGED <<Lost, taken>>
         \/ taken \subseteq taken' /\ UNCHANGED <<Lost, delivered>>
  PROVE  Promise!Next
<1>1. /\ Waiting = captured \ (delivered \cup taken \cup Lost)
      /\ delivered \cap (taken \cup Lost) = {} /\ taken \cap Lost = {}
      /\ (delivered \cup taken \cup Lost) \subseteq captured
  BY WaitingIsUnsettled
<1>2. /\ Waiting' = captured' \ (delivered' \cup taken' \cup Lost')
      /\ delivered' \cap (taken' \cup Lost') = {} /\ taken' \cap Lost' = {}
      /\ (delivered' \cup taken' \cup Lost') \subseteq captured'
  BY DEF IInv, NothingLost, NothingTwice
<1> HIDE DEF Waiting, Lost
<1>3. CASE Lost \subseteq Lost' /\ UNCHANGED <<delivered, taken>>
  <2> DEFINE batch == Lost' \ Lost
  <2>1. /\ batch \in SUBSET Waiting
        /\ Waiting' = Waiting \ batch /\ Lost' = Lost \cup batch
    BY <1>1, <1>2, <1>3
  <2>2. Promise!GiveUp
    BY <1>3, <2>1 DEF Promise!GiveUp
  <2> QED BY <2>2 DEF Promise!Next
<1>4. CASE delivered \subseteq delivered' /\ UNCHANGED <<Lost, taken>>
  <2> DEFINE batch == delivered' \ delivered
  <2>1. /\ batch \in SUBSET Waiting
        /\ Waiting' = Waiting \ batch /\ delivered' = delivered \cup batch
    BY <1>1, <1>2, <1>4
  <2>2. Promise!Accept
    BY <1>4, <2>1 DEF Promise!Accept
  <2> QED BY <2>2 DEF Promise!Next
<1>5. CASE taken \subseteq taken' /\ UNCHANGED <<Lost, delivered>>
  <2> DEFINE batch == taken' \ taken
  <2>1. /\ batch \in SUBSET Waiting
        /\ Waiting' = Waiting \ batch /\ taken' = taken \cup batch
    BY <1>1, <1>2, <1>5
  <2>2. Promise!HandOver
    BY <1>5, <2>1 DEF Promise!HandOver
  <2> QED BY <2>2 DEF Promise!Next
<1> QED BY <1>3, <1>4, <1>5

LEMMA EnqueueCaptures ==
  ASSUME IInv, IInv', NEW kind \in Captures, Enqueue(kind)
  PROVE  Promise!Next
<1> DEFINE item == [id |-> captures + 1, kind |-> kind]
           all  == pending \cup {item}
           shed == overflow \cup Excess(all)
<1>1. /\ captured' = captured \cup {item} /\ UNCHANGED <<delivered, taken>>
      /\ captures \in Nat /\ captures < MaxCaptures
  BY DEF Enqueue, IInv, TypeOK
<1>2. item \in Item \ captured
  <2>1. item \in Item /\ item.id = captures + 1
    BY <1>1, ConstantsOK DEF Item
  <2> QED BY <1>1, <2>1 DEF IInv, IdsBelow
<1>3. Lost' = reported \cup shed
  <2>1. CASE overflow' = shed /\ reported' = reported
    BY <2>1 DEF Lost
  <2>2. CASE FlushCall(all \ Excess(all), shed, timer, FALSE)
    BY <2>2, FlushLoses
  <2> QED BY <2>1, <2>2 DEF Enqueue
<1>4. Lost \subseteq Lost'
  BY <1>3 DEF Lost
<1>5. /\ Waiting = captured \ (delivered \cup taken \cup Lost)
      /\ delivered \cap (taken \cup Lost) = {} /\ taken \cap Lost = {}
      /\ (delivered \cup taken \cup Lost) \subseteq captured
  BY WaitingIsUnsettled
<1>6. /\ Waiting' = captured' \ (delivered' \cup taken' \cup Lost')
      /\ delivered' \cap (taken' \cup Lost') = {} /\ taken' \cap Lost' = {}
      /\ (delivered' \cup taken' \cup Lost') \subseteq captured'
  BY DEF IInv, NothingLost, NothingTwice
<1> DEFINE gone == Lost' \ Lost
<1> HIDE DEF Waiting, Lost, item
<1>7. /\ gone \in SUBSET (Waiting \cup {item})
      /\ Waiting' = (Waiting \cup {item}) \ gone
      /\ Lost' = Lost \cup gone
  BY <1>1, <1>2, <1>4, <1>5, <1>6
<1>8. Promise!Capture
  BY <1>1, <1>2, <1>7 DEF Promise!Capture
<1> QED BY <1>8 DEF Promise!Next

LEMMA NextKeepsPromise == IInv /\ IInv' /\ [Next]_vars => [Promise!Next]_(Promise!vars)
<1> SUFFICES ASSUME IInv, IInv', [Next]_vars PROVE Promise!Next \/ UNCHANGED Promise!vars
  OBVIOUS
<1> USE DEF controlVars, shutdownVars, captureVars, historyVars, queueVars, drainVars
<1> DEFINE SameOrLost == captured' = captured /\ Lost \subseteq Lost' /\ UNCHANGED <<delivered, taken>>
<1>1. ASSUME NEW kind \in Captures, Enqueue(kind) PROVE Promise!Next
  BY <1>1, EnqueueCaptures
<1>2. ASSUME NEW force \in BOOLEAN, Flush(force) PROVE SameOrLost
  <2>1. Lost' = reported \cup overflow
    BY <1>2, FlushLoses DEF Flush
  <2> QED BY <1>2, <2>1 DEF Flush, Lost
<1>3. ASSUME IntervalFires PROVE SameOrLost
  <2>1. FALSE \in BOOLEAN
    OBVIOUS
  <2> QED BY <1>2, <1>3, <2>1 DEF IntervalFires
<1>4. ASSUME RetryTimerFires \/ Resume \/ Shutdown \/ ShutdownWakes PROVE SameOrLost
  <2>1. Lost' = reported \cup overflow
    BY <1>4, FlushLoses DEF RetryTimerFires, Resume, Shutdown, ShutdownWakes
  <2> QED BY <1>4, <2>1 DEF RetryTimerFires, Resume, Shutdown, ShutdownWakes, Lost
<1>5. ASSUME SendAccepted PROVE Promise!Next
  <2>1. delivered \subseteq delivered' /\ UNCHANGED <<Lost, taken>> /\ captured' = captured
    BY <1>5 DEF SendAccepted, AnswerUnchanged, Lost
  <2> QED BY <2>1, SettlesSome
<1>6. ASSUME SendRejected PROVE SameOrLost
  BY <1>6 DEF SendRejected, AnswerUnchanged, Lost
<1>7. ASSUME SendFailed PROVE SameOrLost
  <2>1. AnswerUnchanged /\ UNCHANGED delivered /\ reported \subseteq reported'
    BY <1>7 DEF SendFailed
  <2> QED BY <2>1 DEF AnswerUnchanged, Lost
<1>8. ASSUME DrainContinues PROVE SameOrLost
  <2>1. UNCHANGED <<captured, delivered, taken>>
    BY <1>8 DEF DrainContinues
  <2>2. CASE UNCHANGED <<overflow, reported>>
    BY <2>1, <2>2 DEF Lost
  <2>3. CASE StartRound(pending, overflow, timer, forceNext)
    BY <2>1, <2>3, RoundLoses DEF Lost
  <2> QED BY <1>8, <2>2, <2>3 DEF DrainContinues
<1>9. ASSUME Tick \/ Start \/ Stop \/ Pause \/ ShutdownChecks \/ UNCHANGED vars PROVE SameOrLost
  BY <1>9 DEF Tick, Start, Stop, Pause, ShutdownChecks, vars, Lost
<1>10. ASSUME TakeAll PROVE Promise!Next
  <2>1. taken \subseteq taken' /\ UNCHANGED <<Lost, delivered>> /\ captured' = captured
    BY <1>10 DEF TakeAll, Lost
  <2> QED BY <2>1, SettlesSome
<1>11. ASSUME Restore PROVE SameOrLost
  BY <1>11 DEF Restore, Lost
<1>12. SameOrLost => Promise!Next
  BY SettlesSome
<1> HIDE DEF SameOrLost
<1> QED BY <1>1, <1>2, <1>3, <1>4, <1>5, <1>6, <1>7, <1>8, <1>9, <1>10, <1>11, <1>12
        DEF Next, Deliver, FlushCalls, Periodic, Offline, Close

\* The queue keeps what TelemetryDelivery promises: every step is a capture, a
\* batch that settles in one way, or no visible step at all.
THEOREM QueueKeepsPromise == Spec => KeepsPromise
<1>1. Init => Promise!Init
  <2> SUFFICES ASSUME Init PROVE Promise!Init
    OBVIOUS
  <2>1. IInv
    BY InitIInv
  <2>2. Waiting = captured /\ Lost = {}
    BY <2>1, WaitingIsUnsettled DEF Init, Lost
  <2> QED BY <2>1, <2>2 DEF Promise!Init, Init, IInv, TypeOK
<1>2. IInv /\ IInv' /\ [Next]_vars => [Promise!Next]_(Promise!vars)
  BY NextKeepsPromise
<1> QED BY <1>1, <1>2, InductiveInvariant, PTL DEF Spec, KeepsPromise, Promise!Spec
=============================================================================
