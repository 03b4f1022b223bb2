------------------------- MODULE BrowserClientProofs -------------------------
(***************************************************************************)
(* Proofs about BrowserClient, for every number of tabs and every value of *)
(* the other constants.                                                    *)
(***************************************************************************)
EXTENDS BrowserClient, FiniteSetTheorems, SequenceTheorems, TLAPS

(***************************************************************************)
(* Chunks and their names                                                  *)
(***************************************************************************)
LEMMA ItemsInUnion == \A A, B : ItemsIn(A \cup B) = ItemsIn(A) \cup ItemsIn(B)
  BY DEF ItemsIn

LEMMA RequestsUnion ==
  /\ Requests({}) = {}
  /\ \A A, B : Requests(A \cup B) = Requests(A) \cup Requests(B)
  /\ \A A, B : A \subseteq B => Requests(A) \subseteq Requests(B)
  BY DEF Requests

LEMMA ItemsInBase ==
  /\ ItemsIn({}) = {}
  /\ \A c : ItemsIn({c}) = c.items
  /\ \A A, B : A \subseteq B => ItemsIn(A) \subseteq ItemsIn(B)
  BY DEF ItemsIn

LEMMA RequestsKnow ==
  ASSUME NEW A, NEW c \in A
  PROVE  \E r \in Requests(A) : r.key = c.key /\ r.items = c.items
<1> DEFINE r == [key |-> c.key, items |-> c.items]
<1>1. r \in Requests(A) /\ r.key = c.key /\ r.items = c.items
  BY DEF Requests
<1> QED BY <1>1

LEMMA RequestsType ==
  ASSUME NEW A \in SUBSET Chunk
  PROVE  Requests(A) \subseteq Request /\ ItemsIn(A) \subseteq Item
  BY DEF Requests, ItemsIn, Chunk, Request

\* The requests a queue may still send.
NamesIn(q) == Requests(q.retry \cup Draining(q))

\* A chunk that goes out once more is the same request.
LEMMA SentAgain ==
  ASSUME NEW c \in Chunk, c.attempts < MaxAttempts
  PROVE  LET d == [c EXCEPT !.attempts = @ + 1]
         IN  /\ d \in Chunk /\ d.key = c.key /\ d.items = c.items
             /\ Requests({d}) = Requests({c}) /\ ItemsIn({d}) = ItemsIn({c})
<1> DEFINE d == [c EXCEPT !.attempts = @ + 1]
<1>1. d \in Chunk /\ d.key = c.key /\ d.items = c.items
  BY ConstantsOK DEF Chunk
<1> HIDE DEF d
<1>2. Requests({d}) = Requests({c}) /\ ItemsIn({d}) = ItemsIn({c})
  BY <1>1 DEF Requests, ItemsIn
<1> QED BY <1>1, <1>2 DEF d

(***************************************************************************)
(* The queue of a page                                                     *)
(***************************************************************************)

\* The queue between two answers: one send at most is awaited, and without one
\* there is no drain.
Drains(q) ==
  /\ \A c, d \in q.sending : c = d
  /\ q.sending = {} => q.work = {} /\ ~ q.rerun

\* What is not on its way may be sent once more.
MaySend(q) == \A c \in q.retry \cup q.work : c.attempts < MaxAttempts

\* The queue of t, left as q by a handler, has run its flush: what it held it
\* still holds, and only what was pending may have got a new name.
Moved(t, q) ==
  \E q2 \in Queue :
    /\ queue' = [queue EXCEPT ![t] = q2]
    /\ wire' = wire \cup Requests(q2.sending \ queue[t].sending)
    /\ sends' \in [Key -> Nat]
    /\ QueueItems(q2) = QueueItems(q)
    /\ Drains(q2) /\ MaySend(q2)
    /\ \/ keys' = keys /\ q2.pending = q.pending /\ NamesIn(q2) = NamesIn(q)
       \/ /\ keys' = keys + 1 /\ keys + 1 \in Key /\ q2.pending = {}
          /\ NamesIn(q2) = NamesIn(q) \cup {[key |-> keys + 1, items |-> q.pending]}

LEMMA QueueFields ==
  ASSUME NEW q \in Queue
  PROVE  /\ q.pending \in SUBSET Item /\ q.rerun \in BOOLEAN
         /\ q.retry \in SUBSET Chunk /\ q.work \in SUBSET Chunk /\ q.sending \in SUBSET Chunk
  BY DEF Queue

LEMMA BecomesMoved ==
  ASSUME TypeOK, NEW t \in Tab, NEW q, NEW q2 \in Queue, Becomes(t, q2),
         QueueItems(q2) = QueueItems(q), Drains(q2), MaySend(q2),
         \/ keys' = keys /\ q2.pending = q.pending /\ NamesIn(q2) = NamesIn(q)
         \/ /\ keys' = keys + 1 /\ keys + 1 \in Key /\ q2.pending = {}
            /\ NamesIn(q2) = NamesIn(q) \cup {[key |-> keys + 1, items |-> q.pending]}
  PROVE  Moved(t, q)
<1>1. sends' \in [Key -> Nat]
  BY DEF Becomes, TypeOK
<1>2. /\ queue' = [queue EXCEPT ![t] = q2]
      /\ wire' = wire \cup Requests(q2.sending \ queue[t].sending)
  BY DEF Becomes
<1> QED BY <1>1, <1>2 DEF Moved

\* s is q after c, one of `chunks`, went out: it holds what they hold.
SentFrom(s, q, c, chunks) ==
  /\ s \in Queue /\ s.pending = q.pending /\ s.retry = q.retry /\ s.rerun = q.rerun
  /\ Draining(s) = (chunks \ {c}) \cup s.sending
  /\ NamesIn(s) = Requests(q.retry \cup chunks)
  /\ QueueItems(s) = q.pending \cup ItemsIn(q.retry \cup chunks)
  /\ Drains(s) /\ MaySend(s)

LEMMA SendingKeeps ==
  ASSUME NEW q \in Queue, NEW chunks \in SUBSET Chunk, NEW c \in chunks, q.sending = {},
         \A d \in q.retry \cup chunks : d.attempts < MaxAttempts
  PROVE  SentFrom(Sending(q, c, chunks), q, c, chunks)
<1> DEFINE d == [c EXCEPT !.attempts = @ + 1]
           s == Sending(q, c, chunks)
<1>1. /\ d \in Chunk /\ Requests({d}) = Requests({c}) /\ ItemsIn({d}) = ItemsIn({c})
  BY SentAgain
<1>2. /\ s.pending = q.pending /\ s.retry = q.retry /\ s.rerun = q.rerun
      /\ s.work = chunks \ {c} /\ s.sending = {d}
  BY DEF Sending, Queue
<1>3. s \in Queue
  <2>1. s = [q EXCEPT !.sending = {d}, !.work = chunks \ {c}]
    BY DEF Sending
  <2>2. {d} \in SUBSET Chunk /\ chunks \ {c} \in SUBSET Chunk
    BY <1>1
  <2> HIDE DEF d, s
  <2> QED BY <2>1, <2>2 DEF Queue
<1> HIDE DEF d, s
<1>4. Draining(s) = (chunks \ {c}) \cup s.sending
  BY <1>2 DEF Draining
<1>5. NamesIn(s) = Requests(q.retry \cup chunks)
  <2>1. NamesIn(s) = Requests(q.retry) \cup Requests(chunks \ {c}) \cup Requests({d})
    BY <1>2 DEF NamesIn, Draining, Requests
  <2>2. Requests(q.retry \cup chunks) = Requests(q.retry) \cup Requests(chunks \ {c}) \cup Requests({c})
    BY DEF Requests
  <2> QED BY <1>1, <2>1, <2>2
<1>6. QueueItems(s) = q.pending \cup ItemsIn(q.retry \cup chunks)
  <2>1. QueueItems(s) = q.pending \cup ItemsIn(q.retry) \cup ItemsIn(chunks \ {c}) \cup ItemsIn({d})
    BY <1>2 DEF QueueItems, Draining, ItemsIn
  <2>2. ItemsIn(q.retry \cup chunks) = ItemsIn(q.retry) \cup ItemsIn(chunks \ {c}) \cup ItemsIn({c})
    BY DEF ItemsIn
  <2> QED BY <1>1, <2>1, <2>2
<1>7. Drains(s) /\ MaySend(s)
  BY <1>2 DEF Drains, MaySend
<1>8. SentFrom(s, q, c, chunks)
  BY <1>2, <1>3, <1>4, <1>5, <1>6, <1>7 DEF SentFrom
<1> QED BY <1>8 DEF s

\* A cut names all that is pending, and nothing else.
LEMMA CutIs ==
  ASSUME TypeOK, NEW p \in SUBSET Item, CutUsed(p)
  PROVE  /\ Cut(p) \in SUBSET Chunk
         /\ \A c \in Cut(p) : c.attempts < MaxAttempts
         /\ ItemsIn(Cut(p)) = p
         /\ \/ p = {} /\ Cut(p) = {} /\ keys' = keys /\ Requests(Cut(p)) = {}
            \/ /\ keys' = keys + 1 /\ keys + 1 \in Key
               /\ Requests(Cut(p)) = {[key |-> keys + 1, items |-> p]}
<1>0. keys \in 0 .. MaxKeys /\ MaxKeys \in Nat
  BY ConstantsOK DEF TypeOK
<1>1. CASE p = {}
  <2>1. Cut(p) = {}
    BY <1>1 DEF Cut
  <2>2. keys' = keys
    BY <2>1, <1>0, FS_EmptySet DEF CutUsed
  <2> QED BY <1>1, <2>1, <2>2, ItemsInBase, RequestsUnion
<1>2. CASE p # {}
  <2> DEFINE c == [key |-> keys + 1, items |-> p, attempts |-> 0]
  <2>1. Cut(p) = {c}
    BY <1>2 DEF Cut
  <2>2. keys' = keys + 1 /\ keys + 1 \in Key
    <3>1. keys < MaxKeys
      BY <1>2 DEF CutUsed
    <3>2. Cardinality(Cut(p)) = 1
      BY <2>1, FS_Singleton
    <3> QED BY <1>0, <3>1, <3>2 DEF CutUsed, Key
  <2>3. c \in Chunk /\ c.attempts < MaxAttempts /\ c.items = p /\ c.key = keys + 1
    BY <2>2, ConstantsOK DEF Chunk
  <2> HIDE DEF c
  <2>4. ItemsIn(Cut(p)) = p /\ Requests(Cut(p)) = {[key |-> keys + 1, items |-> p]}
    BY <2>1, <2>3 DEF ItemsIn, Requests
  <2> QED BY <2>1, <2>2, <2>3, <2>4
<1> QED BY <1>1, <1>2

LEMMA RoundMoved ==
  ASSUME TypeOK, NEW t \in Tab, NEW q \in Queue, q.sending = {}, q.work = {}, MaySend(q),
         Round(t, q)
  PROVE  Moved(t, q)
<1>1. PICK due \in SUBSET q.retry :
        LET all  == due \cup Cut(q.pending)
            left == [q EXCEPT !.pending = {}, !.retry = @ \ due, !.rerun = FALSE]
        IN  \/ all = {} /\ Becomes(t, left)
            \/ \E c \in all : Becomes(t, Sending(left, c, all))
  BY DEF Round
<1> DEFINE all  == due \cup Cut(q.pending)
           left == [q EXCEPT !.pending = {}, !.retry = @ \ due, !.rerun = FALSE]
<1>2. /\ left \in Queue /\ left.pending = {} /\ left.retry = q.retry \ due
      /\ left.work = q.work /\ left.sending = q.sending /\ left.rerun = FALSE
  BY DEF Queue
<1>3. CutUsed(q.pending) /\ q.pending \in SUBSET Item
  BY QueueFields DEF Round
<1>4. /\ Cut(q.pending) \in SUBSET Chunk
      /\ \A c \in Cut(q.pending) : c.attempts < MaxAttempts
      /\ ItemsIn(Cut(q.pending)) = q.pending
      /\ \/ /\ q.pending = {} /\ Cut(q.pending) = {} /\ keys' = keys
            /\ Requests(Cut(q.pending)) = {}
         \/ /\ keys' = keys + 1 /\ keys + 1 \in Key
            /\ Requests(Cut(q.pending)) = {[key |-> keys + 1, items |-> q.pending]}
  BY <1>3, CutIs
<1>5. all \in SUBSET Chunk /\ \A c \in left.retry \cup all : c.attempts < MaxAttempts
  BY <1>2, <1>4, QueueFields DEF MaySend
<1>6. left.retry \cup all = q.retry \cup Cut(q.pending)
  BY <1>2
<1>7. /\ Requests(left.retry \cup all) = NamesIn(q) \cup Requests(Cut(q.pending))
      /\ ItemsIn(left.retry \cup all) = QueueItems(q)
  <2>1. q.retry \cup Draining(q) = q.retry
    BY DEF Draining
  <2> HIDE DEF left, all
  <2> QED BY <1>4, <1>6, <2>1, RequestsUnion, ItemsInUnion DEF NamesIn, QueueItems
<1>8. CASE all = {} /\ Becomes(t, left)
  <2> HIDE DEF left, all
  <2>1. NamesIn(left) = Requests(left.retry \cup all) /\ QueueItems(left) = ItemsIn(left.retry \cup all)
    BY <1>2, <1>8, ItemsInUnion, ItemsInBase DEF NamesIn, Draining, QueueItems
  <2>2. Drains(left) /\ MaySend(left)
    BY <1>2, <1>5 DEF Drains, MaySend
  <2> QED BY <1>2, <1>4, <1>7, <1>8, <2>1, <2>2, BecomesMoved
<1>9. ASSUME NEW c \in all, Becomes(t, Sending(left, c, all))
      PROVE  Moved(t, q)
  <2> DEFINE s == Sending(left, c, all)
  <2> HIDE DEF left, all
  <2>1. /\ s \in Queue /\ s.pending = left.pending
        /\ NamesIn(s) = Requests(left.retry \cup all)
        /\ QueueItems(s) = left.pending \cup ItemsIn(left.retry \cup all)
        /\ Drains(s) /\ MaySend(s)
    <3>1. /\ left \in Queue /\ all \in SUBSET Chunk /\ c \in all /\ left.sending = {}
          /\ \A d \in left.retry \cup all : d.attempts < MaxAttempts
      BY <1>2, <1>5
    <3>2. SentFrom(Sending(left, c, all), left, c, all)
      BY ONLY <3>1, SendingKeeps
    <3> QED BY <3>2 DEF SentFrom
  <2> HIDE DEF s
  <2>2. Becomes(t, s)
    BY <1>9 DEF s
  <2> QED BY <1>2, <1>4, <1>7, <2>1, <2>2, BecomesMoved
<1> QED BY <1>1, <1>8, <1>9

LEMMA FlushMoved ==
  ASSUME TypeOK, NEW t \in Tab, NEW q \in Queue, Drains(q), MaySend(q), FlushCall(t, q)
  PROVE  Moved(t, q)
<1>1. CASE q.sending = {}
  BY <1>1, RoundMoved DEF FlushCall, Drains
<1>2. CASE q.sending # {}
  <2> DEFINE q2 == [q EXCEPT !.rerun = TRUE]
  <2>1. /\ q2 \in Queue /\ q2.pending = q.pending /\ q2.retry = q.retry
        /\ q2.work = q.work /\ q2.sending = q.sending
    BY DEF Queue
  <2>2. Becomes(t, q2) /\ keys' = keys
    BY <1>2 DEF FlushCall
  <2> HIDE DEF q2
  <2>3. /\ NamesIn(q2) = NamesIn(q) /\ QueueItems(q2) = QueueItems(q)
        /\ Drains(q2) /\ MaySend(q2)
    BY <1>2, <2>1 DEF NamesIn, QueueItems, Draining, Drains, MaySend
  <2> QED BY <2>1, <2>2, <2>3, BecomesMoved
<1> QED BY <1>1, <1>2

LEMMA ContinueMoved ==
  ASSUME TypeOK, NEW t \in Tab, NEW q \in Queue, q.sending = {}, MaySend(q), Continue(t, q)
  PROVE  Moved(t, q)
<1>1. ASSUME NEW c \in q.work, Becomes(t, Sending(q, c, q.work)), keys' = keys
      PROVE  Moved(t, q)
  <2> DEFINE work == q.work
             s == Sending(q, c, work)
  <2>1. work \in SUBSET Chunk /\ \A d \in q.retry \cup work : d.attempts < MaxAttempts
    BY QueueFields DEF MaySend
  <2>2. /\ s \in Queue /\ s.pending = q.pending
        /\ NamesIn(s) = Requests(q.retry \cup work)
        /\ QueueItems(s) = q.pending \cup ItemsIn(q.retry \cup work)
        /\ Drains(s) /\ MaySend(s)
    <3>1. q \in Queue /\ work \in SUBSET Chunk /\ c \in work /\ q.sending = {}
      BY <2>1
    <3> HIDE DEF work
    <3>2. SentFrom(Sending(q, c, work), q, c, work)
      BY ONLY <2>1, <3>1, SendingKeeps
    <3> QED BY <3>2 DEF SentFrom
  <2>3. NamesIn(s) = NamesIn(q) /\ QueueItems(s) = QueueItems(q)
    <3>1. Draining(q) = q.work
      BY DEF Draining
    <3> HIDE DEF s
    <3> QED BY <2>2, <3>1 DEF NamesIn, QueueItems
  <2> HIDE DEF s
  <2>4. Becomes(t, s)
    BY <1>1 DEF s
  <2> QED BY <1>1, <2>2, <2>3, <2>4, BecomesMoved
<1>2. CASE q.work = {} /\ q.rerun /\ Round(t, q)
  BY <1>2, RoundMoved
<1>3. CASE q.work = {} /\ ~ q.rerun /\ Becomes(t, q) /\ keys' = keys
  <2>1. Drains(q)
    BY <1>3 DEF Drains
  <2> QED BY <1>3, <2>1, BecomesMoved
<1> QED BY <1>1, <1>2, <1>3 DEF Continue

(***************************************************************************)
(* The stored list                                                         *)
(***************************************************************************)

\* No key is in the list twice.
KeyOnce(list) == \A m, n \in DOMAIN list : list[m].key = list[n].key => m = n

\* Without drops the entries of `gone` and no others.
LEMMA WithoutIs ==
  ASSUME NEW list \in Seq(Chunk), NEW gone
  PROVE  /\ Without(list, gone) \in Seq(Chunk)
         /\ Len(Without(list, gone)) <= Len(list)
         /\ ToSet(Without(list, gone)) = {c \in ToSet(list) : c.key \notin gone}
         /\ KeyOnce(list) => KeyOnce(Without(list, gone))
<1> DEFINE kept == {n \in DOMAIN list : list[n].key \notin gone}
           upTo(n) == {k \in kept : k <= n}
           rank == [n \in kept |-> Cardinality(upTo(n))]
           place(m) == CHOOSE n \in kept : Cardinality(upTo(n)) = m
           size == Cardinality(kept)
<1>1. DOMAIN list = 1 .. Len(list) /\ Len(list) \in Nat
  OBVIOUS
<1>2. kept \in SUBSET (1 .. Len(list)) /\ IsFiniteSet(kept) /\ size \in Nat /\ size <= Len(list)
  <2>1. IsFiniteSet(1 .. Len(list)) /\ Cardinality(1 .. Len(list)) = Len(list)
    BY <1>1, FS_Interval
  <2>2. kept \in SUBSET (1 .. Len(list))
    BY <1>1
  <2> HIDE DEF kept
  <2> QED BY <2>1, <2>2, FS_Subset, FS_CardinalityType
<1>3. \A n \in kept : /\ upTo(n) \in SUBSET kept /\ n \in upTo(n)
                      /\ IsFiniteSet(upTo(n)) /\ Cardinality(upTo(n)) \in 1 .. size
  <2> TAKE n \in kept
  <2>1. upTo(n) \in SUBSET kept /\ n \in upTo(n)
    BY <1>2
  <2> HIDE DEF upTo, kept
  <2>2. IsFiniteSet(upTo(n)) /\ Cardinality(upTo(n)) <= size /\ Cardinality(upTo(n)) \in Nat
    BY <1>2, <2>1, FS_Subset, FS_CardinalityType
  <2>3. Cardinality(upTo(n)) # 0
    BY <2>1, <2>2, FS_EmptySet
  <2> QED BY <1>2, <2>1, <2>2, <2>3
<1>4. \A m, n \in kept : m # n => Cardinality(upTo(m)) # Cardinality(upTo(n))
  <2>1. \A m, n \in kept : m < n => Cardinality(upTo(m)) # Cardinality(upTo(n))
    <3> TAKE m \in kept, n \in kept
    <3> HAVE m < n
    <3>1. upTo(m) \in SUBSET upTo(n) /\ ~ (n \in upTo(m)) /\ n \in upTo(n)
      BY <1>2
    <3>2. IsFiniteSet(upTo(n))
      BY <1>3
    <3> HIDE DEF upTo
    <3> QED BY <3>1, <3>2, FS_Subset
  <2>2. \A m, n \in kept : m # n => m < n \/ n < m
    BY <1>2
  <2> HIDE DEF kept, upTo
  <2> QED BY <2>1, <2>2
<1>5. \A m \in 1 .. size : \E n \in kept : Cardinality(upTo(n)) = m
  <2> DEFINE places == 1 .. size
  <2>1. rank \in Injection(kept, places)
    <3>1. rank \in [kept -> places]
      BY <1>3
    <3>2. \A m, n \in kept : rank[m] = rank[n] => m = n
      <4> HIDE DEF kept, upTo
      <4> QED BY <1>4
    <3> HIDE DEF kept, rank, places
    <3> QED BY <3>1, <3>2 DEF Injection, IsInjective
  <2>2. IsFiniteSet(places) /\ Cardinality(places) = size
    BY <1>2, FS_Interval
  <2>3. rank \in Surjection(kept, places)
    <3> HIDE DEF kept, rank, places
    <3> QED BY <2>1, <2>2, FS_Injection
  <2>4. \A m \in places : \E n \in kept : rank[n] = m
    <3> HIDE DEF kept, rank, places
    <3> QED BY <2>3 DEF Surjection
  <2> HIDE DEF kept, upTo
  <2> QED BY <2>4
<1>6. \A m \in 1 .. size : place(m) \in kept
  <2> HIDE DEF kept, upTo
  <2> QED BY <1>5
<1>7. \A n \in kept : \E m \in 1 .. size : place(m) = n
  <2> TAKE n \in kept
  <2> DEFINE m == Cardinality(upTo(n))
  <2>1. m \in 1 .. size
    BY <1>3
  <2>2. place(m) = n
    <3> HIDE DEF kept, upTo
    <3> QED BY <1>4
  <2> HIDE DEF kept, upTo
  <2> QED BY <2>1, <2>2
<1> DEFINE w == [m \in 1 .. size |-> list[place(m)]]
<1>8. Without(list, gone) = w
  BY DEF Without
<1>9. w \in Seq(Chunk) /\ Len(w) = size
  <2>1. \A m \in 1 .. size : list[place(m)] \in Chunk
    <3>1. \A n \in kept : list[n] \in Chunk
      BY <1>1
    <3> HIDE DEF kept, place, size
    <3> QED BY <1>6, <3>1
  <2> HIDE DEF place, size, kept
  <2> QED BY <1>2, <2>1
<1>10. ToSet(w) = {list[place(m)] : m \in 1 .. size}
  <2>1. DOMAIN w = 1 .. size
    OBVIOUS
  <2>2. \A m \in 1 .. size : w[m] = list[place(m)]
    OBVIOUS
  <2> HIDE DEF w, place, size
  <2> QED BY <2>1, <2>2 DEF ToSet
<1>11. {list[place(m)] : m \in 1 .. size} = {list[n] : n \in kept}
  <2> HIDE DEF place, size, kept
  <2> QED BY <1>6, <1>7
<1>12. {list[n] : n \in kept} = {c \in ToSet(list) : c.key \notin gone}
  BY DEF ToSet
<1>13. \A m \in 1 .. size : place(m) \in kept /\ Cardinality(upTo(place(m))) = m
  <2> HIDE DEF kept, upTo
  <2> QED BY <1>5
<1>14. KeyOnce(list) => KeyOnce(w)
  <2>1. ASSUME NEW m \in 1 .. size, NEW n \in 1 .. size, place(m) = place(n) PROVE m = n
    <3> HIDE DEF kept, upTo, place, size
    <3> QED BY <1>13, <2>1
  <2>2. DOMAIN w = 1 .. size /\ \A m \in 1 .. size : w[m] = list[place(m)]
    OBVIOUS
  <2>3. \A m \in 1 .. size : place(m) \in DOMAIN list
    <3>1. kept \subseteq DOMAIN list
      OBVIOUS
    <3> HIDE DEF place, size, kept
    <3> QED BY <1>6, <3>1
  <2> HIDE DEF w, place, size, kept
  <2> QED BY <2>1, <2>2, <2>3 DEF KeyOnce
<1> QED BY <1>2, <1>8, <1>9, <1>10, <1>11, <1>12, <1>14

\* Every set of chunks is finite.
LEMMA ChunksFinite == \A S \in SUBSET Chunk : IsFiniteSet(S)
<1> DEFINE D == (Key \X SUBSET Item) \X (0 .. MaxAttempts)
           f == [p \in D |-> [key |-> p[1][1], items |-> p[1][2], attempts |-> p[2]]]
<1>1. IsFiniteSet(Key) /\ IsFiniteSet(SUBSET Item) /\ IsFiniteSet(0 .. MaxAttempts)
  <2>1. IsFiniteSet(Key) /\ IsFiniteSet(Item) /\ IsFiniteSet(0 .. MaxAttempts)
    BY ConstantsOK, FS_Interval DEF Key, Item
  <2> QED BY <2>1, FS_SUBSET
<1>2. IsFiniteSet(D)
  BY <1>1, FS_Product
<1>3. f \in [D -> Chunk]
  BY DEF Chunk
<1>4. \A c \in Chunk : \E p \in D : f[p] = c
  <2> TAKE c \in Chunk
  <2> DEFINE p == <<<<c.key, c.items>>, c.attempts>>
  <2>1. p \in D
    BY DEF Chunk
  <2>2. f[p] = c
    BY <2>1 DEF Chunk
  <2> QED BY <2>1, <2>2
<1>5. f \in Surjection(D, Chunk)
  <2> HIDE DEF f, D
  <2> QED BY <1>3, <1>4 DEF Surjection
<1>6. IsFiniteSet(Chunk)
  <2> HIDE DEF f, D
  <2> QED BY <1>2, <1>5, FS_Surjection
<1> QED BY <1>6, FS_Subset

\* saveUnsent stores nothing but what it is given and what was there.
LEMMA SavedIs ==
  ASSUME NEW list \in Seq(Chunk), NEW kept \in SUBSET Chunk, NEW order \in SetToSeqs(kept)
  PROVE  /\ Saved(list, order) \in Seq(Chunk)
         /\ Len(Saved(list, order)) <= MaxStored
         /\ ToSet(Saved(list, order)) \subseteq ToSet(list) \cup kept
<1>1. order \in Seq(kept) /\ order \in Seq(Chunk)
  <2>1. Cardinality(kept) \in Nat
    BY ChunksFinite, FS_CardinalityType
  <2>2. order \in [1 .. Cardinality(kept) -> kept]
    BY DEF SetToSeqs
  <2> QED BY <2>1, <2>2
<1> DEFINE others == Without(list, KeysIn(ToSet(order)))
           all == others \o order
           first == IF Len(all) > MaxStored THEN Len(all) - MaxStored + 1 ELSE 1
<1>2. others \in Seq(Chunk) /\ ToSet(others) \subseteq ToSet(list)
  BY WithoutIs
<1>3. Saved(list, order) = SubSeq(all, first, Len(all))
  BY DEF Saved
<1> HIDE DEF others
<1>4. all \in Seq(Chunk) /\ \A n \in 1 .. Len(all) : all[n] \in ToSet(others) \cup kept
  BY <1>1, <1>2 DEF ToSet
<1>5. first \in Nat \ {0} /\ (Len(all) > MaxStored => Len(all) - first + 1 = MaxStored)
      /\ (Len(all) <= MaxStored => first = 1) /\ Len(all) \in Nat /\ first <= Len(all) + 1
  BY <1>4, ConstantsOK
<1> HIDE DEF all, first
<1> DEFINE s == SubSeq(all, first, Len(all))
<1>6. s \in Seq(Chunk) /\ Len(s) <= MaxStored /\ \A n \in 1 .. Len(s) : \E m \in 1 .. Len(all) : s[n] = all[m]
  BY <1>4, <1>5, ConstantsOK
<1>7. ToSet(s) \subseteq ToSet(others) \cup kept
  <2>1. DOMAIN s = 1 .. Len(s)
    BY <1>6
  <2> HIDE DEF s
  <2> QED BY <1>4, <1>6, <2>1 DEF ToSet
<1> QED BY <1>2, <1>3, <1>6, <1>7

(***************************************************************************)
(* The inductive invariant                                                 *)
(***************************************************************************)

\* Every request that was sent, or that some queue or the list may still send.
Named == wire \cup Requests(ToSet(unsent)) \cup UNION {NamesIn(queue[t]) : t \in Tab}

\* A key names one set of items for ever, and no item is named twice or waits
\* for a second name.
KeysOwn ==
  /\ \A r, s \in Named : r # s => r.key # s.key /\ r.items \cap s.items = {}
  /\ \A r \in Named : r.key <= keys /\ r.items \subseteq 1 .. captures
  /\ \A t \in Tab :
       /\ queue[t].pending \subseteq 1 .. captures
       /\ \A r \in Named : queue[t].pending \cap r.items = {}
       /\ \A u \in Tab : u # t => queue[t].pending \cap queue[u].pending = {}

\* What is stored may be sent once more, and was sent before.
StoredOK ==
  /\ \A c \in ToSet(unsent) : c.attempts < MaxAttempts
  /\ Requests(ToSet(unsent)) \subseteq wire

QueuesOK ==
  \A t \in Tab : /\ Drains(queue[t]) /\ MaySend(queue[t])
                 /\ Requests(queue[t].sending) \subseteq wire

IInv == TypeOK /\ QueuesOK /\ StoredOK /\ KeysOwn

LEMMA NamedType ==
  ASSUME TypeOK
  PROVE  /\ Named \subseteq Request
         /\ \A r \in Named : r.key \in Int
<1>1. ToSet(unsent) \in SUBSET Chunk
  BY DEF TypeOK, ToSet
<1>2. \A t \in Tab : NamesIn(queue[t]) \subseteq Request
  <2> TAKE t \in Tab
  <2>1. queue[t].retry \cup Draining(queue[t]) \in SUBSET Chunk
    BY QueueFields DEF TypeOK, Draining
  <2> QED BY <2>1, RequestsType DEF NamesIn
<1>3. Named \subseteq Request
  <2>1. Requests(ToSet(unsent)) \subseteq Request
    BY <1>1, RequestsType
  <2>2. wire \subseteq Request
    BY DEF TypeOK
  <2> QED BY <1>2, <2>1, <2>2 DEF Named
<1>4. \A r \in Request : r.key \in Int
  BY ConstantsOK DEF Request, Key
<1> QED BY <1>3, <1>4

\* A step that leaves the names alone, or names what one tab had pending.
LEMMA KeysOwnKept ==
  ASSUME TypeOK, KeysOwn, NEW t \in Tab, NEW p,
         captures' \in Nat, captures <= captures', keys' \in Nat,
         p \subseteq queue[t].pending \cup ((1 .. captures') \ (1 .. captures)),
         queue'[t].pending \subseteq p,
         \A u \in Tab : u # t => queue'[u].pending = queue[u].pending,
         \/ keys' = keys /\ Named' \subseteq Named
         \/ /\ keys' = keys + 1 /\ queue'[t].pending = {}
            /\ Named' \subseteq Named \cup {[key |-> keys + 1, items |-> p]}
  PROVE  KeysOwn'
<1>1. captures \in Nat /\ keys \in Nat /\ 1 .. captures \subseteq 1 .. captures'
  BY DEF TypeOK
<1>2. \A r \in Named : r.items \cap p = {} /\ r.key <= keys /\ r.items \subseteq 1 .. captures
  BY DEF KeysOwn
<1>3. p \subseteq 1 .. captures'
  BY <1>1 DEF KeysOwn
<1>4. \A u \in Tab : u # t => queue[u].pending \cap p = {}
  BY DEF KeysOwn
<1> DEFINE new == [key |-> keys + 1, items |-> p]
<1>5. new.key = keys + 1 /\ new.items = p
  OBVIOUS
<1> HIDE DEF new
<1>6. Named' \subseteq Named \/ (queue'[t].pending = {} /\ keys' = keys + 1 /\ Named' \subseteq Named \cup {new})
  BY DEF new
<1>7. keys' \in Nat /\ keys <= keys'
  BY <1>1
<1>8. \A r \in Named' : r \in Named \/ (r = new /\ queue'[t].pending = {} /\ keys' = keys + 1)
  BY <1>6
<1>9. \A r, s \in Named' : r # s => r.key # s.key /\ r.items \cap s.items = {}
  <2>1. \A r \in Named : r.key # new.key /\ r.items \cap new.items = {}
    <3>1. \A r \in Named : r.key \in Int
      BY NamedType
    <3> QED BY <1>1, <1>2, <1>5, <3>1
  <2> QED BY <1>8, <2>1 DEF KeysOwn
<1>10. \A r \in Named' : r.key <= keys' /\ r.items \subseteq 1 .. captures'
  <2> TAKE r \in Named'
  <2>1. CASE r \in Named
    <3>1. r.key \in Int /\ keys \in Int /\ keys' \in Int
      BY <1>1, <1>7, <2>1, NamedType
    <3>2. r.key <= keys'
      BY <1>2, <1>7, <2>1, <3>1
    <3> QED BY <1>1, <1>2, <2>1, <3>2
  <2>2. CASE r = new /\ keys' = keys + 1
    <3>1. r.key = keys' /\ r.items = p
      BY <1>5, <2>2
    <3> QED BY <1>3, <1>7, <3>1
  <2> QED BY <1>8, <2>1, <2>2
<1>11. \A u \in Tab :
         /\ queue'[u].pending \subseteq 1 .. captures'
         /\ \A r \in Named' : queue'[u].pending \cap r.items = {}
         /\ \A v \in Tab : v # u => queue'[u].pending \cap queue'[v].pending = {}
  <2> TAKE u \in Tab
  <2>1. queue'[u].pending \subseteq 1 .. captures'
    BY <1>1, <1>3 DEF KeysOwn
  <2>2. \A r \in Named' : queue'[u].pending \cap r.items = {}
    <3> TAKE r \in Named'
    <3>1. CASE r \in Named
      BY <1>2, <3>1 DEF KeysOwn
    <3>2. CASE r = new /\ queue'[t].pending = {}
      BY <1>4, <1>5, <3>2
    <3> QED BY <1>8, <3>1, <3>2
  <2>3. \A v \in Tab : v # u => queue'[u].pending \cap queue'[v].pending = {}
    BY <1>4 DEF KeysOwn
  <2> QED BY <2>1, <2>2, <2>3
<1> QED BY <1>9, <1>10, <1>11 DEF KeysOwn

(***************************************************************************)
(* Steps                                                                   *)
(***************************************************************************)

\* Items are numbered as they are captured.
LEMMA CaptureType ==
  TypeOK => /\ captures \in 0 .. MaxCaptures /\ captures \in Nat
            /\ keys \in 0 .. MaxKeys /\ keys \in Nat
            /\ loads \in 0 .. MaxLoads
  BY ConstantsOK DEF TypeOK

LEMMA AtMostOne ==
  ASSUME NEW S, \A c, d \in S : c = d
  PROVE  Cardinality(S) <= 1
<1>1. CASE S = {}
  <2>1. Cardinality(S) = 0
    BY <1>1, FS_EmptySet
  <2> QED BY <2>1
<1>2. CASE S # {}
  <2>1. PICK c \in S : TRUE
    BY <1>2
  <2>2. S = {c}
    BY <2>1
  <2>3. Cardinality(S) = 1
    BY <2>2, FS_Singleton
  <2> QED BY <2>3
<1> QED BY <1>1, <1>2

\* A handler that changed the queue of t to q, and perhaps moved the stored list
\* into it, and then ran its flush.
LEMMA MovedStep ==
  ASSUME IInv, NEW t \in Tab, NEW q \in Queue, Moved(t, q),
         NamesIn(q) \subseteq NamesIn(queue[t]) \cup Requests(ToSet(unsent)),
         captures' \in 0 .. MaxCaptures, captures <= captures',
         q.pending \subseteq queue[t].pending \cup ((1 .. captures') \ (1 .. captures)),
         unsent' = unsent \/ unsent' = <<>>,
         page' \in [Tab -> {"gone", "shown", "hidden"}],
         closing' \in [Tab -> {"no", "flushing", "done"}],
         fetching' \in [Tab -> SUBSET Key], loads' \in 0 .. MaxLoads,
         UNCHANGED serverVars, {reported, released}' \subseteq SUBSET Item
  PROVE  IInv'
<1> USE DEF IInv
<1>1. PICK q2 \in Queue :
        /\ queue' = [queue EXCEPT ![t] = q2]
        /\ wire' = wire \cup Requests(q2.sending \ queue[t].sending)
        /\ sends' \in [Key -> Nat]
        /\ Drains(q2) /\ MaySend(q2)
        /\ \/ keys' = keys /\ q2.pending = q.pending /\ NamesIn(q2) = NamesIn(q)
           \/ /\ keys' = keys + 1 /\ keys + 1 \in Key /\ q2.pending = {}
              /\ NamesIn(q2) = NamesIn(q) \cup {[key |-> keys + 1, items |-> q.pending]}
  BY DEF Moved
<1>2. keys' \in 0 .. MaxKeys /\ keys' \in Nat /\ captures' \in Nat
  BY <1>1, CaptureType, ConstantsOK DEF Key
<1>3. /\ queue'[t] = q2 /\ \A u \in Tab : u # t => queue'[u] = queue[u]
      /\ queue' \in [Tab -> Queue]
  BY <1>1 DEF TypeOK
<1>4. q2.sending \in SUBSET Chunk
  BY QueueFields
<1>5. Requests(q2.sending) \subseteq NamesIn(q2)
  BY DEF NamesIn, Draining, Requests
<1>6. Requests(q2.sending \ queue[t].sending) \subseteq Requests(q2.sending)
  BY DEF Requests
<1>7. wire' \subseteq Request
  BY <1>1, <1>4, <1>6, RequestsType DEF TypeOK
<1>8. Requests(q2.sending) \subseteq wire'
  <2>1. Requests(q2.sending) \subseteq Requests(queue[t].sending) \cup Requests(q2.sending \ queue[t].sending)
    BY DEF Requests
  <2>2. Requests(queue[t].sending) \subseteq wire
    BY DEF QueuesOK
  <2> QED BY <1>1, <2>1, <2>2
<1>9. QueuesOK'
  BY <1>1, <1>3, <1>8 DEF QueuesOK
<1>10. /\ unsent' \in Seq(Chunk) /\ Len(unsent') <= MaxStored
       /\ ToSet(unsent') \subseteq ToSet(unsent) /\ Requests(ToSet(unsent')) \subseteq Requests(ToSet(unsent))
  <2>1. CASE unsent' = unsent
    BY <2>1 DEF TypeOK
  <2>2. CASE unsent' = <<>>
    <3>1. ToSet(unsent') = {} /\ unsent' \in Seq(Chunk) /\ Len(unsent') = 0
      BY <2>2 DEF ToSet
    <3> QED BY <3>1, RequestsUnion, ConstantsOK
  <2> QED BY <2>1, <2>2
<1>11. StoredOK'
  BY <1>1, <1>10 DEF StoredOK
<1>12. TypeOK'
  <2>1. \A u \in Tab : Cardinality(queue'[u].sending) <= 1
    <3> TAKE u \in Tab
    <3>1. \A c, d \in queue'[u].sending : c = d
      BY <1>9 DEF QueuesOK, Drains
    <3> QED BY <3>1, AtMostOne
  <2>2. \A u \in Tab : queue'[u].sending = {} => queue'[u].work = {} /\ ~ queue'[u].rerun
    BY <1>9 DEF QueuesOK, Drains
  <2> QED BY <1>1, <1>2, <1>3, <1>7, <1>10, <2>1, <2>2 DEF TypeOK, serverVars
<1>13. KeysOwn'
  <2> DEFINE new == [key |-> keys + 1, items |-> q.pending]
  <2>1. Requests(ToSet(unsent)) \subseteq Named /\ NamesIn(queue[t]) \subseteq Named
    BY DEF Named
  <2>2. NamesIn(q) \subseteq Named
    BY <2>1
  <2>3. \A u \in Tab : u # t => NamesIn(queue'[u]) \subseteq Named
    BY <1>3 DEF Named
  <2>4. Named' \subseteq Named \cup NamesIn(q2)
    <3>1. Named' = wire' \cup Requests(ToSet(unsent')) \cup UNION {NamesIn(queue'[u]) : u \in Tab}
      BY DEF Named, NamesIn, Draining
    <3>2. wire' \subseteq Named \cup NamesIn(q2)
      BY <1>1, <1>5, <1>6 DEF Named
    <3>3. \A u \in Tab : NamesIn(queue'[u]) \subseteq Named \cup NamesIn(q2)
      BY <1>3, <2>3
    <3> QED BY <1>10, <2>1, <3>1, <3>2, <3>3
  <2>5. CASE keys' = keys /\ q2.pending = q.pending /\ NamesIn(q2) = NamesIn(q)
    <3>1. Named' \subseteq Named
      BY <2>2, <2>4, <2>5
    <3>2. queue'[t].pending \subseteq q.pending
      BY <1>3, <2>5
    <3> QED BY <1>2, <1>3, <2>5, <3>1, <3>2, KeysOwnKept
  <2>6. CASE /\ keys' = keys + 1 /\ q2.pending = {}
             /\ NamesIn(q2) = NamesIn(q) \cup {new}
    <3>1. Named' \subseteq Named \cup {new}
      BY <2>2, <2>4, <2>6
    <3>2. queue'[t].pending = {}
      BY <1>3, <2>6
    <3> QED BY <1>2, <1>3, <2>6, <3>1, <3>2, KeysOwnKept
  <2> QED BY <1>1, <2>5, <2>6
<1> QED BY <1>9, <1>11, <1>12, <1>13

\* The queue of t is as it was.
LEMMA SameQueue ==
  ASSUME IInv, NEW t \in Tab
  PROVE  /\ queue[t] \in Queue /\ Drains(queue[t]) /\ MaySend(queue[t])
         /\ NamesIn(queue[t]) \subseteq NamesIn(queue[t]) \cup Requests(ToSet(unsent))
  BY DEF IInv, TypeOK, QueuesOK

\* The queue of t once the answer of c came, and once c waits again.
LEMMA AnsweredIs ==
  ASSUME IInv, NEW t \in Tab, NEW c \in queue[t].sending
  PROVE  LET q == Answered(t)
             r == [Answered(t) EXCEPT !.retry = @ \cup {c}]
         IN  /\ q \in Queue /\ q.sending = {} /\ MaySend(q) /\ q.pending = queue[t].pending
             /\ NamesIn(q) \subseteq NamesIn(queue[t])
             /\ QueueItems(queue[t]) = QueueItems(q) \cup c.items
             /\ ~ OutOfAttempts(c) =>
                  /\ r \in Queue /\ r.sending = {} /\ MaySend(r) /\ r.pending = queue[t].pending
                  /\ NamesIn(r) \subseteq NamesIn(queue[t])
                  /\ QueueItems(queue[t]) = QueueItems(r)
<1> DEFINE o == queue[t]
           q == Answered(t)
           r == [q EXCEPT !.retry = @ \cup {c}]
<1>1. o \in Queue /\ MaySend(o) /\ \A d \in o.sending : d = c
  BY DEF IInv, TypeOK, QueuesOK, Drains
<1>2. /\ q \in Queue /\ q.pending = o.pending /\ q.retry = o.retry /\ q.work = o.work
      /\ q.sending = {} /\ q.rerun = o.rerun
  BY <1>1 DEF Answered, Queue
<1>3. c \in Chunk
  BY <1>1, QueueFields
<1>4. /\ r \in Queue /\ r.pending = o.pending /\ r.retry = o.retry \cup {c} /\ r.work = o.work
      /\ r.sending = {}
  <2> HIDE DEF q, o
  <2> QED BY <1>2, <1>3 DEF Queue
<1>5. o.sending = {c}
  BY <1>1
<1>6. ~ OutOfAttempts(c) => c.attempts < MaxAttempts
  BY <1>3, ConstantsOK DEF OutOfAttempts, Chunk
<1> HIDE DEF o, q, r
<1>7. /\ MaySend(q) /\ (~ OutOfAttempts(c) => MaySend(r))
  BY <1>1, <1>2, <1>4, <1>6 DEF MaySend
<1>8. NamesIn(q) \subseteq NamesIn(o) /\ NamesIn(r) = NamesIn(o)
  BY <1>2, <1>4, <1>5 DEF NamesIn, Draining, Requests
<1>9. QueueItems(o) = QueueItems(q) \cup c.items /\ QueueItems(o) = QueueItems(r)
  BY <1>2, <1>4, <1>5 DEF QueueItems, Draining, ItemsIn
<1> QED BY <1>2, <1>4, <1>7, <1>8, <1>9 DEF o, q, r

LEMMA AnswerStep ==
  ASSUME IInv, NEW t \in Tab, Accepted(t) \/ Rejected(t) \/ Failed(t)
  PROVE  IInv'
<1>1. UNCHANGED <<page, closing, fetching, loads, unsent, serverVars, captures, released>>
  BY DEF Accepted, Rejected, Failed, AnswerUnchanged, clientVars
<1>2. PICK c \in queue[t].sending :
        /\ reported' \in {reported, reported \cup c.items}
        /\ \/ Continue(t, Answered(t))
           \/ ~ OutOfAttempts(c) /\ Continue(t, [Answered(t) EXCEPT !.retry = @ \cup {c}])
  BY DEF Accepted, Rejected, Failed
<1>3. c.items \in SUBSET Item
  BY QueueFields DEF IInv, TypeOK, Chunk
<1>4. {reported, released}' \subseteq SUBSET Item /\ captures' \in 0 .. MaxCaptures
      /\ captures <= captures'
  BY <1>1, <1>2, <1>3, CaptureType DEF IInv, TypeOK
<1>5. ASSUME NEW q \in Queue, q.sending = {}, MaySend(q), q.pending = queue[t].pending,
             NamesIn(q) \subseteq NamesIn(queue[t]), Continue(t, q)
      PROVE  IInv'
  <2>1. Moved(t, q)
    BY <1>5, ContinueMoved DEF IInv
  <2>2. /\ page' \in [Tab -> {"gone", "shown", "hidden"}]
        /\ closing' \in [Tab -> {"no", "flushing", "done"}]
        /\ fetching' \in [Tab -> SUBSET Key] /\ loads' \in 0 .. MaxLoads
    BY <1>1, CaptureType DEF IInv, TypeOK
  <2> QED BY <1>1, <1>4, <1>5, <2>1, <2>2, MovedStep
<1> QED BY <1>2, <1>5, AnsweredIs

LEMMA FlushStep ==
  ASSUME IInv, NEW t \in Tab, Flush(t) \/ Shutdown(t) \/ ShutdownRetries(t)
  PROVE  IInv'
<1>1. FlushCall(t, queue[t])
  BY DEF Flush, Shutdown, ShutdownRetries
<1>2. /\ UNCHANGED <<page, fetching, loads, unsent, serverVars, captures, reported, released>>
      /\ closing' \in {closing, [closing EXCEPT ![t] = "flushing"]}
  BY DEF Flush, Shutdown, ShutdownRetries, clientVars
<1>3. Moved(t, queue[t])
  BY <1>1, SameQueue, FlushMoved DEF IInv
<1>4. /\ page' \in [Tab -> {"gone", "shown", "hidden"}]
      /\ closing' \in [Tab -> {"no", "flushing", "done"}]
      /\ fetching' \in [Tab -> SUBSET Key] /\ loads' \in 0 .. MaxLoads
      /\ captures' \in 0 .. MaxCaptures /\ captures <= captures'
      /\ {reported, released}' \subseteq SUBSET Item
  BY <1>2, CaptureType DEF IInv, TypeOK
<1> QED BY <1>2, <1>3, <1>4, SameQueue, MovedStep

LEMMA CaptureStep ==
  ASSUME IInv, NEW t \in Tab, Capture(t)
  PROVE  IInv'
<1> DEFINE q == [queue[t] EXCEPT !.pending = @ \cup {captures + 1}]
<1>1. /\ captures < MaxCaptures /\ captures' = captures + 1
      /\ FlushCall(t, q) \/ (Becomes(t, q) /\ keys' = keys)
      /\ UNCHANGED <<page, closing, fetching, loads, unsent, serverVars, reported, released>>
  BY DEF Capture, clientVars
<1>2. captures' \in 0 .. MaxCaptures /\ captures <= captures' /\ captures + 1 \in Item
      /\ captures + 1 \in (1 .. captures') \ (1 .. captures)
  BY <1>1, CaptureType, ConstantsOK DEF Item, IInv
<1>3. /\ q \in Queue /\ q.pending = queue[t].pending \cup {captures + 1}
      /\ q.retry = queue[t].retry /\ q.work = queue[t].work /\ q.sending = queue[t].sending
      /\ q.rerun = queue[t].rerun
  BY <1>2, SameQueue DEF Queue
<1> HIDE DEF q
<1>4. Drains(q) /\ MaySend(q) /\ NamesIn(q) = NamesIn(queue[t])
  BY <1>3, SameQueue DEF Drains, MaySend, NamesIn, Draining
<1>5. Moved(t, q)
  BY <1>1, <1>3, <1>4, FlushMoved, BecomesMoved DEF IInv
<1>6. /\ page' \in [Tab -> {"gone", "shown", "hidden"}]
      /\ closing' \in [Tab -> {"no", "flushing", "done"}]
      /\ fetching' \in [Tab -> SUBSET Key] /\ loads' \in 0 .. MaxLoads
      /\ {reported, released}' \subseteq SUBSET Item
  BY <1>1, CaptureType DEF IInv, TypeOK
<1>7. q.pending \subseteq queue[t].pending \cup ((1 .. captures') \ (1 .. captures))
  BY <1>2, <1>3
<1> QED BY <1>1, <1>2, <1>3, <1>4, <1>5, <1>6, <1>7, MovedStep

\* The queue of t when the stored list has joined it.
LEMMA RestoredIs ==
  ASSUME IInv, NEW t \in Tab
  PROVE  LET q == Restored(queue[t], unsent)
         IN  /\ q \in Queue /\ Drains(q) /\ MaySend(q) /\ q.pending = queue[t].pending
             /\ NamesIn(q) = NamesIn(queue[t]) \cup Requests(ToSet(unsent))
             /\ QueueItems(q) = QueueItems(queue[t]) \cup ItemsIn(ToSet(unsent))
<1> DEFINE stored == ToSet(unsent)
           q == [queue[t] EXCEPT !.retry = @ \cup stored]
<1>1. stored \in SUBSET Chunk /\ \A c \in stored : c.attempts < MaxAttempts
  BY DEF IInv, TypeOK, StoredOK, ToSet
<1> HIDE DEF stored
<1>2. /\ q \in Queue /\ q.pending = queue[t].pending /\ q.retry = queue[t].retry \cup stored
      /\ q.work = queue[t].work /\ q.sending = queue[t].sending /\ q.rerun = queue[t].rerun
  BY <1>1, SameQueue DEF Queue
<1> HIDE DEF q
<1>3. Drains(q) /\ MaySend(q)
  BY <1>1, <1>2, SameQueue DEF Drains, MaySend
<1>4. /\ NamesIn(q) = NamesIn(queue[t]) \cup Requests(stored)
      /\ QueueItems(q) = QueueItems(queue[t]) \cup ItemsIn(stored)
  BY <1>2 DEF NamesIn, QueueItems, Draining, Requests, ItemsIn
<1>5. Restored(queue[t], unsent) = q
  BY DEF Restored, q, stored
<1> QED BY <1>2, <1>3, <1>4, <1>5 DEF stored

\* A step in which no queue is left with more than it had, nothing gets a name
\* and no chunk goes out.
LEMMA QuietStep ==
  ASSUME IInv, NEW t \in Tab, NEW q \in Queue, queue' = [queue EXCEPT ![t] = q],
         Drains(q), MaySend(q), q.pending \subseteq queue[t].pending,
         NamesIn(q) \subseteq NamesIn(queue[t]), q.sending \subseteq queue[t].sending,
         ToSet(unsent') \subseteq ToSet(unsent), unsent' \in Seq(Chunk), Len(unsent') <= MaxStored,
         UNCHANGED <<wire, captures, keys, sends>>,
         page' \in [Tab -> {"gone", "shown", "hidden"}],
         closing' \in [Tab -> {"no", "flushing", "done"}],
         fetching' \in [Tab -> SUBSET Key], loads' \in 0 .. MaxLoads,
         {accepted, rejected}' \subseteq SUBSET Key, {reported, released}' \subseteq SUBSET Item
  PROVE  IInv'
<1> USE DEF IInv
<1>1. /\ queue'[t] = q /\ \A u \in Tab : u # t => queue'[u] = queue[u]
      /\ queue' \in [Tab -> Queue]
  BY DEF TypeOK
<1>2. QueuesOK'
  BY <1>1 DEF QueuesOK, Requests
<1>3. Requests(ToSet(unsent')) \subseteq Requests(ToSet(unsent))
  BY RequestsUnion
<1>4. StoredOK'
  BY <1>3 DEF StoredOK
<1>5. TypeOK'
  <2>1. \A u \in Tab : Cardinality(queue'[u].sending) <= 1
    BY <1>2, AtMostOne DEF QueuesOK, Drains
  <2>2. \A u \in Tab : queue'[u].sending = {} => queue'[u].work = {} /\ ~ queue'[u].rerun
    BY <1>2 DEF QueuesOK, Drains
  <2> QED BY <1>1, <2>1, <2>2 DEF TypeOK
<1>6. Named' \subseteq Named
  <2>1. Named' = wire' \cup Requests(ToSet(unsent')) \cup UNION {NamesIn(queue'[u]) : u \in Tab}
    BY DEF Named, NamesIn, Draining
  <2>2. \A u \in Tab : NamesIn(queue'[u]) \subseteq Named
    BY <1>1 DEF Named
  <2>3. wire' \cup Requests(ToSet(unsent')) \subseteq Named
    BY <1>3 DEF Named
  <2> QED BY <2>1, <2>2, <2>3
<1>7. captures' \in Nat /\ captures <= captures' /\ keys' \in Nat
  BY CaptureType
<1>8. queue'[t].pending \subseteq queue[t].pending
  BY <1>1
<1>9. KeysOwn'
  BY <1>1, <1>6, <1>7, <1>8, KeysOwnKept
<1> QED BY <1>2, <1>4, <1>5, <1>9

LEMMA ResendStep ==
  ASSUME IInv, NEW t \in Tab, Resend(t),
         page' \in [Tab -> {"gone", "shown", "hidden"}], loads' \in 0 .. MaxLoads,
         UNCHANGED <<fetching, closing, serverVars, captures, reported, released>>
  PROVE  IInv'
<1>1. /\ closing' \in [Tab -> {"no", "flushing", "done"}]
      /\ fetching' \in [Tab -> SUBSET Key]
      /\ captures' \in 0 .. MaxCaptures /\ captures <= captures'
      /\ {reported, released}' \subseteq SUBSET Item
      /\ {accepted, rejected}' \subseteq SUBSET Key
  BY CaptureType DEF IInv, TypeOK, serverVars
<1>2. CASE unsent = <<>> /\ UNCHANGED <<queue, unsent, wire, keys, sends>>
  <2>1. queue' = [queue EXCEPT ![t] = queue[t]] /\ unsent' \in Seq(Chunk) /\ Len(unsent') <= MaxStored
    BY <1>2 DEF IInv, TypeOK
  <2> QED BY <1>1, <1>2, <2>1, SameQueue, QuietStep
<1>3. CASE unsent' = Remaining(unsent) /\ FlushCall(t, Restored(queue[t], unsent))
  <2> DEFINE q == Restored(queue[t], unsent)
  <2>1. /\ q \in Queue /\ Drains(q) /\ MaySend(q) /\ q.pending = queue[t].pending
        /\ NamesIn(q) = NamesIn(queue[t]) \cup Requests(ToSet(unsent))
    BY RestoredIs
  <2>2. unsent' = <<>>
    BY <1>3 DEF Remaining
  <2> HIDE DEF q
  <2>3. Moved(t, q)
    BY <1>3, <2>1, FlushMoved DEF IInv, q
  <2> QED BY <1>1, <2>1, <2>2, <2>3, MovedStep
<1> QED BY <1>2, <1>3 DEF Resend

LEMMA ShowStep ==
  ASSUME IInv, NEW t \in Tab, Load(t) \/ Show(t)
  PROVE  IInv'
<1>1. /\ UNCHANGED <<fetching, closing, serverVars, captures, reported, released>>
      /\ page' = [page EXCEPT ![t] = "shown"]
      /\ loads' = loads \/ (loads < MaxLoads /\ loads' = loads + 1)
      /\ Resend(t) \/ UNCHANGED <<queue, unsent, wire, keys, sends>>
  BY DEF Load, Show, PageUnchanged
<1>2. page' \in [Tab -> {"gone", "shown", "hidden"}] /\ loads' \in 0 .. MaxLoads
  BY <1>1, CaptureType, ConstantsOK DEF IInv, TypeOK
<1>3. CASE Resend(t)
  BY <1>1, <1>2, <1>3, ResendStep
<1>4. CASE UNCHANGED <<queue, unsent, wire, keys, sends>>
  <2>1. /\ closing' \in [Tab -> {"no", "flushing", "done"}] /\ fetching' \in [Tab -> SUBSET Key]
        /\ {reported, released}' \subseteq SUBSET Item /\ {accepted, rejected}' \subseteq SUBSET Key
        /\ queue' = [queue EXCEPT ![t] = queue[t]]
        /\ unsent' \in Seq(Chunk) /\ Len(unsent') <= MaxStored
    BY <1>1, <1>4 DEF IInv, TypeOK, serverVars
  <2> QED BY <1>1, <1>2, <1>4, <2>1, SameQueue, QuietStep
<1> QED BY <1>1, <1>3, <1>4

\* A page that ends leaves an empty queue; the other steps here leave it alone.
LEMMA EmptyIs ==
  Empty \in Queue /\ Drains(Empty) /\ MaySend(Empty) /\ NamesIn(Empty) = {} /\ QueueItems(Empty) = {}
  BY DEF Empty, Queue, Drains, MaySend, NamesIn, Draining, QueueItems, Requests, ItemsIn

LEMMA QueueItemsType ==
  ASSUME NEW q \in Queue
  PROVE  QueueItems(q) \subseteq Item /\ ItemsIn(Draining(q)) \subseteq Item
  BY DEF Queue, QueueItems, Draining, ItemsIn, Chunk

LEMMA EndedStep ==
  ASSUME IInv, NEW t \in Tab, Ended(t), PageUnchanged, page' = [page EXCEPT ![t] = "gone"]
  PROVE  IInv'
<1>1. /\ queue' = [queue EXCEPT ![t] = Empty]
      /\ closing' = [closing EXCEPT ![t] = "no"] /\ fetching' = [fetching EXCEPT ![t] = {}]
      /\ released' = released \cup QueueItems(queue[t])
      /\ UNCHANGED <<unsent, wire, keys, sends, loads, accepted, rejected, captures, reported>>
  BY DEF Ended, PageUnchanged, serverVars
<1>2. /\ page' \in [Tab -> {"gone", "shown", "hidden"}]
      /\ closing' \in [Tab -> {"no", "flushing", "done"}] /\ fetching' \in [Tab -> SUBSET Key]
      /\ loads' \in 0 .. MaxLoads
      /\ {reported, released}' \subseteq SUBSET Item /\ {accepted, rejected}' \subseteq SUBSET Key
      /\ unsent' \in Seq(Chunk) /\ Len(unsent') <= MaxStored
  BY <1>1, CaptureType, SameQueue, QueueItemsType DEF IInv, TypeOK
<1>3. Empty.pending = {} /\ Empty.sending = {}
  BY DEF Empty
<1>4. ToSet(unsent') \subseteq ToSet(unsent) /\ NamesIn(Empty) \subseteq NamesIn(queue[t])
      /\ Empty.pending \subseteq queue[t].pending /\ Empty.sending \subseteq queue[t].sending
  BY <1>1, <1>3, EmptyIs
<1> QED BY <1>1, <1>2, <1>4, EmptyIs, QuietStep

LEMMA OtherStep ==
  ASSUME IInv, NEW t \in Tab, ShutdownEnds(t) \/ FetchAnswered(t)
  PROVE  IInv'
<1>1. /\ UNCHANGED <<page, loads, queue, wire, captures, keys, released, sends>>
      /\ closing' \in {closing, [closing EXCEPT ![t] = "done"]}
      /\ reported' \in {reported, reported \cup QueueItems(queue[t])}
      /\ \E ks : fetching' \in {fetching, [fetching EXCEPT ![t] = @ \ ks]}
      /\ \E ks : unsent' \in {unsent, Without(unsent, ks)}
      /\ UNCHANGED <<accepted, rejected>>
  BY DEF ShutdownEnds, FetchAnswered, serverVars
<1>2. /\ unsent' \in Seq(Chunk) /\ Len(unsent') <= MaxStored /\ ToSet(unsent') \subseteq ToSet(unsent)
  <2>1. unsent \in Seq(Chunk) /\ Len(unsent) \in Nat /\ Len(unsent) <= MaxStored
    BY DEF IInv, TypeOK
  <2>2. PICK ks : unsent' \in {unsent, Without(unsent, ks)}
    BY <1>1
  <2>3. /\ Without(unsent, ks) \in Seq(Chunk) /\ Len(Without(unsent, ks)) <= Len(unsent)
        /\ ToSet(Without(unsent, ks)) \subseteq ToSet(unsent)
    BY <2>1, WithoutIs
  <2>4. Len(Without(unsent, ks)) \in Nat
    BY <2>3
  <2> QED BY <2>1, <2>2, <2>3, <2>4, ConstantsOK
<1>3. /\ page' \in [Tab -> {"gone", "shown", "hidden"}]
      /\ closing' \in [Tab -> {"no", "flushing", "done"}] /\ fetching' \in [Tab -> SUBSET Key]
      /\ loads' \in 0 .. MaxLoads
      /\ {reported, released}' \subseteq SUBSET Item /\ {accepted, rejected}' \subseteq SUBSET Key
  BY <1>1, CaptureType, SameQueue, QueueItemsType DEF IInv, TypeOK
<1>4. queue' = [queue EXCEPT ![t] = queue[t]]
  BY <1>1 DEF IInv, TypeOK
<1> QED BY <1>1, <1>2, <1>3, <1>4, SameQueue, QuietStep

\* A page that is hidden or left: all it can give away leaves its queue with a
\* name, as a beacon or into the list.
LEMMA UnloadStep ==
  ASSUME IInv, NEW t \in Tab, NEW ended \in BOOLEAN, Unload(t, ended),
         page' \in [Tab -> {"gone", "shown", "hidden"}], PageUnchanged
  PROVE  IInv'
<1> USE DEF IInv
<1> DEFINE q == queue[t]
           all == Taken(q)
           q2 == IF ended THEN Empty ELSE [q EXCEPT !.pending = {}, !.retry = @ \ all]
<1>1. PICK beacons \in SUBSET all : \E kept \in SUBSET (all \ beacons) :
        \E order \in SetToSeqs(kept) :
              /\ unsent' = Saved(unsent, order)
              /\ released' = released
                   \cup ItemsIn((all \cup ToSet(unsent)) \ ToSet(unsent'))
                   \cup IF ended THEN ItemsIn(Draining(q)) ELSE {}
              /\ wire' = wire \cup Requests(all)
              /\ fetching' = [fetching EXCEPT ![t] = IF ended THEN {} ELSE @ \cup KeysIn(all \ beacons)]
              /\ queue' = [queue EXCEPT ![t] = q2]
              /\ CutUsed(q.pending)
              /\ UNCHANGED <<sends, closing>>
  BY DEF Unload
<1>2. PICK kept \in SUBSET (all \ beacons) : \E order \in SetToSeqs(kept) :
        /\ unsent' = Saved(unsent, order)
        /\ released' = released
             \cup ItemsIn((all \cup ToSet(unsent)) \ ToSet(unsent'))
             \cup IF ended THEN ItemsIn(Draining(q)) ELSE {}
  BY <1>1
<1>3. /\ wire' = wire \cup Requests(all)
      /\ fetching' = [fetching EXCEPT ![t] = IF ended THEN {} ELSE @ \cup KeysIn(all \ beacons)]
      /\ queue' = [queue EXCEPT ![t] = q2]
      /\ CutUsed(q.pending)
      /\ UNCHANGED <<sends, closing, loads, accepted, rejected, captures, reported>>
  BY <1>1 DEF PageUnchanged, serverVars
<1>4. q \in Queue /\ Drains(q) /\ MaySend(q) /\ q.pending \in SUBSET Item
  BY SameQueue, QueueFields
<1>5. /\ Cut(q.pending) \in SUBSET Chunk
      /\ \A c \in Cut(q.pending) : c.attempts < MaxAttempts
      /\ \/ keys' = keys /\ Requests(Cut(q.pending)) = {}
         \/ /\ keys' = keys + 1 /\ keys + 1 \in Key
            /\ Requests(Cut(q.pending)) = {[key |-> keys + 1, items |-> q.pending]}
  BY <1>3, <1>4, CutIs
<1>6. /\ all \in SUBSET Chunk /\ \A c \in all : c.attempts < MaxAttempts
      /\ Requests(all) \subseteq Named \cup Requests(Cut(q.pending))
  <2>1. all = q.retry \cup Cut(q.pending)
    BY DEF Taken
  <2>2. Requests(q.retry) \subseteq NamesIn(q)
    BY DEF NamesIn, Requests
  <2>3. NamesIn(q) \subseteq Named
    BY DEF Named
  <2> HIDE DEF q, all
  <2> QED BY <1>4, <1>5, <2>1, <2>2, <2>3, RequestsUnion, QueueFields DEF MaySend
<1>7. /\ q2 \in Queue /\ Drains(q2) /\ MaySend(q2) /\ q2.pending = {}
      /\ q2.sending \subseteq q.sending /\ NamesIn(q2) \subseteq NamesIn(q)
  <2> DEFINE e == [q EXCEPT !.pending = {}, !.retry = @ \ all]
  <2>1. /\ e \in Queue /\ e.pending = {} /\ e.retry = q.retry \ all /\ e.work = q.work
        /\ e.sending = q.sending /\ e.rerun = q.rerun
    BY <1>4 DEF Queue
  <2> HIDE DEF e
  <2>2. Drains(e) /\ MaySend(e) /\ NamesIn(e) \subseteq NamesIn(q)
    BY <1>4, <2>1 DEF Drains, MaySend, NamesIn, Draining, Requests
  <2>3. Empty.pending = {} /\ Empty.sending = {}
    BY DEF Empty
  <2>4. q2 = Empty \/ q2 = e
    BY DEF e
  <2> HIDE DEF q2, q
  <2> QED BY <2>1, <2>2, <2>3, <2>4, EmptyIs
<1> HIDE DEF all, q2
<1>8. /\ unsent' \in Seq(Chunk) /\ Len(unsent') <= MaxStored
      /\ ToSet(unsent') \subseteq ToSet(unsent) \cup all
  <2>1. kept \in SUBSET Chunk /\ kept \subseteq all /\ unsent \in Seq(Chunk)
    BY <1>6 DEF TypeOK
  <2> QED BY <1>2, <2>1, SavedIs
<1>9. /\ queue'[t] = q2 /\ \A u \in Tab : u # t => queue'[u] = queue[u]
      /\ queue' \in [Tab -> Queue]
  BY <1>3, <1>7 DEF TypeOK
<1>10. Requests(ToSet(unsent')) \subseteq Requests(ToSet(unsent)) \cup Requests(all)
  BY <1>8 DEF Requests
<1>11. StoredOK'
  BY <1>3, <1>6, <1>8, <1>10 DEF StoredOK
<1>12. QueuesOK'
  <2>1. Requests(q2.sending) \subseteq Requests(q.sending)
    BY <1>7, RequestsUnion
  <2> QED BY <1>3, <1>7, <1>9, <2>1 DEF QueuesOK
<1>13. TypeOK'
  <2>1. \A u \in Tab : Cardinality(queue'[u].sending) <= 1
    BY <1>12, AtMostOne DEF QueuesOK, Drains
  <2>2. \A u \in Tab : queue'[u].sending = {} => queue'[u].work = {} /\ ~ queue'[u].rerun
    BY <1>12 DEF QueuesOK, Drains
  <2>3. wire' \subseteq Request
    BY <1>3, <1>6, RequestsType DEF TypeOK
  <2>4. KeysIn(all \ beacons) \in SUBSET Key
    BY <1>6 DEF KeysIn, Chunk
  <2>5. fetching' \in [Tab -> SUBSET Key]
    BY <1>3, <2>4 DEF TypeOK
  <2>6. released' \in SUBSET Item
    <3>1. (all \cup ToSet(unsent)) \ ToSet(unsent') \in SUBSET Chunk
      BY <1>6 DEF TypeOK, ToSet
    <3>2. ItemsIn((all \cup ToSet(unsent)) \ ToSet(unsent')) \subseteq Item
      BY <3>1, RequestsType
    <3>3. ItemsIn(Draining(q)) \subseteq Item
      BY <1>4, QueueItemsType
    <3> QED BY <1>2, <3>2, <3>3 DEF TypeOK
  <2>7. keys' \in 0 .. MaxKeys /\ captures' \in 0 .. MaxCaptures /\ loads' \in 0 .. MaxLoads
    BY <1>3, <1>5, CaptureType, ConstantsOK DEF Key
  <2> QED BY <1>3, <1>8, <1>9, <2>1, <2>2, <2>3, <2>5, <2>6, <2>7 DEF TypeOK
<1>14. KeysOwn'
  <2> DEFINE new == [key |-> keys + 1, items |-> q.pending]
  <2>1. Named' \subseteq Named \cup Requests(Cut(q.pending))
    <3>1. Named' = wire' \cup Requests(ToSet(unsent')) \cup UNION {NamesIn(queue'[u]) : u \in Tab}
      BY DEF Named, NamesIn, Draining
    <3>2. \A u \in Tab : NamesIn(queue'[u]) \subseteq Named
      BY <1>7, <1>9 DEF Named
    <3>3. wire' \cup Requests(ToSet(unsent')) \subseteq Named \cup Requests(Cut(q.pending))
      BY <1>3, <1>6, <1>10 DEF Named
    <3> QED BY <3>1, <3>2, <3>3
  <2>2. /\ captures' \in Nat /\ captures <= captures' /\ keys' \in Nat
        /\ queue'[t].pending = {}
        /\ queue'[t].pending \subseteq q.pending
    BY <1>3, <1>5, <1>7, <1>9, CaptureType
  <2>3. CASE keys' = keys /\ Requests(Cut(q.pending)) = {}
    <3>1. Named' \subseteq Named
      BY <2>1, <2>3
    <3> QED BY <1>9, <2>2, <2>3, <3>1, KeysOwnKept
  <2>4. CASE keys' = keys + 1 /\ Requests(Cut(q.pending)) = {new}
    <3>1. Named' \subseteq Named \cup {new}
      BY <2>1, <2>4
    <3> QED BY <1>9, <2>2, <2>4, <3>1, KeysOwnKept
  <2> QED BY <1>5, <2>3, <2>4
<1> QED BY <1>11, <1>12, <1>13, <1>14

LEMMA HideStep ==
  ASSUME IInv, NEW t \in Tab, Hide(t) \/ Leave(t) \/ Discard(t)
  PROVE  IInv'
<1>1. PageUnchanged /\ page' \in [Tab -> {"gone", "shown", "hidden"}]
  BY DEF Hide, Leave, Discard, IInv, TypeOK
<1>2. CASE \E ended \in BOOLEAN : Unload(t, ended)
  BY <1>1, <1>2, UnloadStep
<1>3. CASE Ended(t) /\ page' = [page EXCEPT ![t] = "gone"]
  BY <1>1, <1>3, EndedStep
<1>4. CASE UNCHANGED <<queue, unsent, wire, fetching, keys, sends, closing, released>>
  <2>1. /\ closing' \in [Tab -> {"no", "flushing", "done"}] /\ fetching' \in [Tab -> SUBSET Key]
        /\ {reported, released}' \subseteq SUBSET Item /\ {accepted, rejected}' \subseteq SUBSET Key
        /\ queue' = [queue EXCEPT ![t] = queue[t]] /\ loads' \in 0 .. MaxLoads
        /\ unsent' \in Seq(Chunk) /\ Len(unsent') <= MaxStored /\ captures' = captures
    BY <1>1, <1>4, CaptureType DEF IInv, TypeOK, serverVars, PageUnchanged
  <2> QED BY <1>1, <1>4, <2>1, SameQueue, QuietStep
<1> QED BY <1>2, <1>3, <1>4 DEF Hide, Leave, Discard

LEMMA InitInvariant == Init => IInv
<1> SUFFICES ASSUME Init PROVE IInv
  OBVIOUS
<1>1. \A t \in Tab : queue[t] = Empty
  BY DEF Init
<1>2. ToSet(unsent) = {} /\ Named = {}
  BY <1>1, EmptyIs, RequestsUnion DEF Init, Named, ToSet
<1>3. QueuesOK /\ StoredOK
  <2>1. Empty.sending = {}
    BY DEF Empty
  <2> QED BY <1>1, <1>2, <2>1, EmptyIs, RequestsUnion DEF QueuesOK, StoredOK
<1>4. KeysOwn
  <2>1. Empty.pending = {}
    BY DEF Empty
  <2> QED BY <1>1, <1>2, <2>1 DEF KeysOwn
<1>5. TypeOK
  <2>1. \A t \in Tab : Cardinality(queue[t].sending) <= 1
    BY <1>3, AtMostOne DEF QueuesOK, Drains
  <2>2. \A t \in Tab : queue[t].sending = {} => queue[t].work = {} /\ ~ queue[t].rerun
    BY <1>3 DEF QueuesOK, Drains
  <2>3. /\ queue \in [Tab -> Queue] /\ page \in [Tab -> {"gone", "shown", "hidden"}]
        /\ closing \in [Tab -> {"no", "flushing", "done"}] /\ fetching \in [Tab -> SUBSET Key]
        /\ sends \in [Key -> Nat]
    BY EmptyIs DEF Init
  <2>4. /\ unsent \in Seq(Chunk) /\ Len(unsent) <= MaxStored /\ wire \subseteq Request
        /\ {accepted, rejected} \subseteq SUBSET Key /\ {reported, released} \subseteq SUBSET Item
    BY ConstantsOK DEF Init
  <2>5. captures \in 0 .. MaxCaptures /\ keys \in 0 .. MaxKeys /\ loads \in 0 .. MaxLoads
    BY ConstantsOK DEF Init
  <2> QED BY <2>1, <2>2, <2>3, <2>4, <2>5 DEF TypeOK
<1> QED BY <1>3, <1>4, <1>5 DEF IInv

LEMMA Step == IInv /\ [Next]_vars => IInv'
<1> SUFFICES ASSUME IInv, [Next]_vars PROVE IInv'
  OBVIOUS
<1>1. ASSUME NEW t \in Tab, Deliver(t) PROVE IInv'
  BY <1>1, CaptureStep, FlushStep, AnswerStep DEF Deliver
<1>2. ASSUME NEW t \in Tab, Visibility(t) PROVE IInv'
  BY <1>2, ShowStep, HideStep, OtherStep DEF Visibility
<1>3. ASSUME NEW t \in Tab, Close(t) PROVE IInv'
  BY <1>3, FlushStep, OtherStep DEF Close
<1>4. CASE UNCHANGED vars \/ ServerReceives
  <2>1. UNCHANGED <<page, closing, fetching, loads, queue, unsent, wire, captures, keys, reported,
                    released, sends>>
    BY <1>4 DEF vars, ServerReceives, clientVars
  <2>2. QueuesOK' /\ StoredOK' /\ KeysOwn'
    <3>1. Named' = Named
      BY <2>1 DEF Named, NamesIn, Draining
    <3> QED BY <2>1, <3>1 DEF IInv, QueuesOK, Drains, MaySend, StoredOK, KeysOwn
  <2>3. {accepted, rejected}' \subseteq SUBSET Key
    <3>1. \A r \in wire : r.key \in Key
      BY DEF IInv, TypeOK, Request
    <3> QED BY <1>4, <3>1 DEF vars, serverVars, ServerReceives, IInv, TypeOK
  <2>4. TypeOK'
    BY <2>1, <2>3 DEF IInv, TypeOK
  <2> QED BY <2>2, <2>4 DEF IInv
<1> QED BY <1>1, <1>2, <1>3, <1>4 DEF Next

LEMMA Invariance == Spec => []IInv
  BY InitInvariant, Step, PTL DEF Spec

(***************************************************************************)
(* Every item is accounted for                                             *)
(***************************************************************************)

\* Where an item may be.
Whole ==
  (UNION {QueueItems(queue[t]) : t \in Tab}) \cup ItemsIn(ToSet(unsent))
    \cup ItemsIn(Ingested) \cup reported \cup released

\* The parts of Whole in the next state.
LEMMA WholeNext ==
  /\ \A u \in Tab : QueueItems(queue'[u]) \subseteq Whole'
  /\ ItemsIn(ToSet(unsent')) \subseteq Whole'
  /\ ItemsIn(Ingested') \subseteq Whole'
  /\ reported' \subseteq Whole' /\ released' \subseteq Whole'
<1> DEFINE queues == UNION {QueueItems(queue'[u]) : u \in Tab}
           stored == ItemsIn(ToSet(unsent'))
           done == ItemsIn(Ingested')
<1>1. Whole' = queues \cup stored \cup done \cup reported' \cup released'
  BY DEF Whole, QueueItems, Draining, ItemsIn
<1>2. \A u \in Tab : QueueItems(queue'[u]) \subseteq queues
  OBVIOUS
<1> HIDE DEF queues, stored, done
<1>3. /\ queues \subseteq Whole' /\ stored \subseteq Whole' /\ done \subseteq Whole'
      /\ reported' \subseteq Whole' /\ released' \subseteq Whole'
  BY <1>1
<1>4. \A u \in Tab : QueueItems(queue'[u]) \subseteq Whole'
  BY <1>2, <1>3
<1> QED BY <1>3, <1>4 DEF stored, done

LEMMA AccountedKept ==
  ASSUME Accounted, TypeOK, NEW t \in Tab,
         \A u \in Tab : u # t => queue'[u] = queue[u],
         QueueItems(queue[t]) \subseteq Whole', ItemsIn(ToSet(unsent)) \subseteq Whole',
         wire \subseteq wire', accepted \subseteq accepted',
         reported \subseteq reported', released \subseteq released',
         captures' = captures \/ (captures' = captures + 1 /\ captures + 1 \in Whole')
  PROVE  Accounted'
<1>1. ItemsIn(Ingested) \subseteq ItemsIn(Ingested')
  BY DEF Ingested, ItemsIn
<1>2. \A u \in Tab : QueueItems(queue[u]) \subseteq Whole'
  BY WholeNext
<1>3. ItemsIn(Ingested) \subseteq Whole' /\ reported \subseteq Whole' /\ released \subseteq Whole'
  BY <1>1, WholeNext
<1>4. Whole \subseteq Whole'
  <2> DEFINE queues == UNION {QueueItems(queue[u]) : u \in Tab}
             stored == ItemsIn(ToSet(unsent))
             done == ItemsIn(Ingested)
  <2>1. queues \subseteq Whole'
    BY <1>2
  <2>2. stored \subseteq Whole' /\ done \subseteq Whole'
    BY <1>3
  <2>3. Whole = queues \cup stored \cup done \cup reported \cup released
    BY DEF Whole
  <2> HIDE DEF queues, stored, done
  <2> QED BY <1>3, <2>1, <2>2, <2>3
<1>5. 1 .. captures' \subseteq 1 .. captures \cup (IF captures' = captures THEN {} ELSE {captures + 1})
  BY CaptureType
<1>6. Accounted' <=> 1 .. captures' \subseteq Whole'
  BY DEF Accounted, Whole
<1>7. 1 .. captures \subseteq Whole
  BY DEF Accounted, Whole
<1> QED BY <1>4, <1>5, <1>6, <1>7

\* What the queue of t held, less items that are settled elsewhere, it holds
\* after its flush.
LEMMA MovedAccounted ==
  ASSUME IInv, Accounted, NEW t \in Tab, NEW q, Moved(t, q), UNCHANGED accepted,
         NEW settled, settled \subseteq ItemsIn(Ingested') \cup reported',
         QueueItems(queue[t]) \subseteq QueueItems(q) \cup settled,
         unsent' = unsent \/ ItemsIn(ToSet(unsent)) \subseteq QueueItems(q),
         reported \subseteq reported', released \subseteq released',
         captures' = captures \/ (captures' = captures + 1 /\ captures + 1 \in QueueItems(q))
  PROVE  Accounted'
<1>1. PICK q2 \in Queue : /\ queue' = [queue EXCEPT ![t] = q2]
                          /\ wire \subseteq wire'
                          /\ QueueItems(q2) = QueueItems(q)
  BY DEF Moved
<1>2. /\ queue'[t] = q2 /\ \A u \in Tab : u # t => queue'[u] = queue[u]
  BY <1>1 DEF IInv, TypeOK
<1>3. ItemsIn(ToSet(unsent')) \subseteq Whole' /\ settled \subseteq Whole'
  BY WholeNext
<1>4. QueueItems(q) \subseteq Whole'
  BY <1>1, <1>2, WholeNext
<1>5. QueueItems(queue[t]) \subseteq Whole'
  BY <1>3, <1>4
<1>6. ItemsIn(ToSet(unsent)) \subseteq Whole'
  <2>1. CASE unsent' = unsent
    BY <1>3, <2>1
  <2>2. CASE ItemsIn(ToSet(unsent)) \subseteq QueueItems(q)
    BY <1>4, <2>2
  <2> QED BY <2>1, <2>2
<1> QED BY <1>1, <1>2, <1>4, <1>5, <1>6, AccountedKept DEF IInv

LEMMA AnswerAccounted ==
  ASSUME IInv, Accounted, NEW t \in Tab, Accepted(t) \/ Rejected(t) \/ Failed(t)
  PROVE  Accounted'
<1>1. UNCHANGED <<unsent, accepted, captures, released>>
  BY DEF Accepted, Rejected, Failed, AnswerUnchanged, serverVars
<1>2. ASSUME NEW c \in queue[t].sending, Continue(t, Answered(t)), reported \subseteq reported',
             c.items \subseteq ItemsIn(Ingested') \cup reported'
      PROVE  Accounted'
  <2> DEFINE q == Answered(t)
  <2>1. /\ q \in Queue /\ q.sending = {} /\ MaySend(q)
        /\ QueueItems(queue[t]) = QueueItems(q) \cup c.items
    BY AnsweredIs
  <2> HIDE DEF q
  <2>2. Moved(t, q)
    BY <1>2, <2>1, ContinueMoved DEF IInv, q
  <2> QED BY <1>1, <1>2, <2>1, <2>2, MovedAccounted
<1>3. ASSUME Accepted(t) PROVE Accounted'
  <2>1. PICK c \in queue[t].sending : c.key \in accepted
    BY <1>3 DEF Accepted
  <2>2. Continue(t, Answered(t)) /\ reported' = reported
    BY <1>3 DEF Accepted
  <2>3. wire \subseteq wire'
    BY <2>2 DEF Continue, Becomes, Round
  <2>4. PICK r \in Requests(queue[t].sending) : r.key = c.key /\ r.items = c.items
    BY RequestsKnow
  <2>5. r \in Ingested'
    BY <1>1, <2>1, <2>3, <2>4 DEF IInv, QueuesOK, Ingested
  <2>6. c.items \subseteq ItemsIn(Ingested')
    BY <2>4, <2>5 DEF ItemsIn
  <2> QED BY <1>2, <2>2, <2>6
<1>4. ASSUME Rejected(t) PROVE Accounted'
  <2>1. PICK c \in queue[t].sending : reported' = reported \cup c.items
    BY <1>4 DEF Rejected
  <2>2. Continue(t, Answered(t))
    BY <1>4 DEF Rejected
  <2> QED BY <1>2, <2>1, <2>2
<1>5. ASSUME Failed(t) PROVE Accounted'
  <2>1. PICK c \in queue[t].sending :
          \/ Continue(t, Answered(t)) /\ reported' = reported \cup c.items
          \/ /\ ~ OutOfAttempts(c) /\ reported' = reported
             /\ Continue(t, [Answered(t) EXCEPT !.retry = @ \cup {c}])
    BY <1>5 DEF Failed
  <2>2. CASE Continue(t, Answered(t)) /\ reported' = reported \cup c.items
    BY <1>2, <2>2
  <2>3. CASE /\ ~ OutOfAttempts(c) /\ reported' = reported
             /\ Continue(t, [Answered(t) EXCEPT !.retry = @ \cup {c}])
    <3> DEFINE q == [Answered(t) EXCEPT !.retry = @ \cup {c}]
    <3>1. /\ q \in Queue /\ q.sending = {} /\ MaySend(q)
          /\ QueueItems(queue[t]) = QueueItems(q)
      BY <2>3, AnsweredIs
    <3> HIDE DEF q
    <3>2. Moved(t, q)
      BY <2>3, <3>1, ContinueMoved DEF IInv, q
    <3>3. {} \subseteq ItemsIn(Ingested') \cup reported' /\ QueueItems(queue[t]) \subseteq QueueItems(q) \cup {}
      BY <3>1
    <3> QED BY <1>1, <2>3, <3>2, <3>3, MovedAccounted
  <2> QED BY <2>1, <2>2, <2>3
<1> QED BY <1>3, <1>4, <1>5

LEMMA FlushAccounted ==
  ASSUME IInv, Accounted, NEW t \in Tab,
         Capture(t) \/ Flush(t) \/ Shutdown(t) \/ ShutdownRetries(t)
  PROVE  Accounted'
<1>1. UNCHANGED <<unsent, accepted, reported, released>>
  BY DEF Capture, Flush, Shutdown, ShutdownRetries, serverVars
<1>2. ASSUME NEW q, Moved(t, q), QueueItems(queue[t]) \subseteq QueueItems(q),
             captures' = captures \/ (captures' = captures + 1 /\ captures + 1 \in QueueItems(q))
      PROVE  Accounted'
  <2>1. {} \subseteq ItemsIn(Ingested') \cup reported' /\ QueueItems(queue[t]) \subseteq QueueItems(q) \cup {}
    BY <1>2
  <2> QED BY <1>1, <1>2, <2>1, MovedAccounted
<1>3. CASE Flush(t) \/ Shutdown(t) \/ ShutdownRetries(t)
  <2>1. FlushCall(t, queue[t]) /\ captures' = captures
    BY <1>3 DEF Flush, Shutdown, ShutdownRetries
  <2>2. Moved(t, queue[t])
    BY <2>1, SameQueue, FlushMoved DEF IInv
  <2> QED BY <1>2, <2>1, <2>2
<1>4. CASE Capture(t)
  <2> DEFINE q == [queue[t] EXCEPT !.pending = @ \cup {captures + 1}]
  <2>1. /\ captures < MaxCaptures /\ captures' = captures + 1
        /\ FlushCall(t, q) \/ (Becomes(t, q) /\ keys' = keys)
    BY <1>4 DEF Capture
  <2>2. captures + 1 \in Item
    BY <2>1, CaptureType, ConstantsOK DEF Item, IInv
  <2>3. /\ q \in Queue /\ q.pending = queue[t].pending \cup {captures + 1}
        /\ q.retry = queue[t].retry /\ q.work = queue[t].work /\ q.sending = queue[t].sending
        /\ q.rerun = queue[t].rerun
    BY <2>2, SameQueue DEF Queue
  <2> HIDE DEF q
  <2>4. /\ Drains(q) /\ MaySend(q) /\ NamesIn(q) = NamesIn(queue[t])
        /\ QueueItems(q) = QueueItems(queue[t]) \cup {captures + 1}
    BY <2>3, SameQueue DEF Drains, MaySend, NamesIn, Draining, QueueItems
  <2>5. Moved(t, q)
    BY <2>1, <2>3, <2>4, FlushMoved, BecomesMoved DEF IInv
  <2> QED BY <1>2, <2>1, <2>4, <2>5
<1> QED BY <1>3, <1>4

LEMMA ShowAccounted ==
  ASSUME IInv, Accounted, NEW t \in Tab, Load(t) \/ Show(t)
  PROVE  Accounted'
<1>1. UNCHANGED <<accepted, captures, reported, released>>
  BY DEF Load, Show, PageUnchanged, serverVars
<1>2. CASE unsent' = Remaining(unsent) /\ FlushCall(t, Restored(queue[t], unsent))
  <2> DEFINE q == Restored(queue[t], unsent)
  <2>1. /\ q \in Queue /\ Drains(q) /\ MaySend(q)
        /\ QueueItems(q) = QueueItems(queue[t]) \cup ItemsIn(ToSet(unsent))
    BY RestoredIs
  <2> HIDE DEF q
  <2>2. Moved(t, q)
    BY <1>2, <2>1, FlushMoved DEF IInv, q
  <2>3. /\ {} \subseteq ItemsIn(Ingested') \cup reported'
        /\ QueueItems(queue[t]) \subseteq QueueItems(q) \cup {}
        /\ ItemsIn(ToSet(unsent)) \subseteq QueueItems(q)
    BY <2>1
  <2> QED BY <1>1, <2>2, <2>3, MovedAccounted
<1>3. CASE UNCHANGED <<queue, unsent, wire>>
  BY <1>1, <1>3 DEF Accounted, Ingested, QueueItems, Draining
<1> QED BY <1>2, <1>3 DEF Load, Show, Resend

\* What a page gives away when it is hidden or left is stored, or released.
LEMMA UnloadAccounted ==
  ASSUME IInv, Accounted, NEW t \in Tab, NEW ended \in BOOLEAN,
         Unload(t, ended), PageUnchanged
  PROVE  Accounted'
<1> DEFINE q == queue[t]
           all == Taken(q)
           q2 == IF ended THEN Empty ELSE [q EXCEPT !.pending = {}, !.retry = @ \ all]
<1>1. /\ released' = released
           \cup ItemsIn((all \cup ToSet(unsent)) \ ToSet(unsent'))
           \cup IF ended THEN ItemsIn(Draining(q)) ELSE {}
      /\ wire' = wire \cup Requests(all)
      /\ queue' = [queue EXCEPT ![t] = q2]
      /\ CutUsed(q.pending)
  BY DEF Unload
<1>2. /\ wire \subseteq wire'
      /\ accepted' = accepted /\ captures' = captures /\ reported' = reported
  BY <1>1 DEF PageUnchanged, serverVars
<1>3. q \in Queue /\ q.pending \in SUBSET Item
  BY SameQueue, QueueFields DEF IInv
<1>4. ItemsIn(Cut(q.pending)) = q.pending
  BY <1>1, <1>3, CutIs DEF IInv
<1>5. all = q.retry \cup Cut(q.pending)
  BY DEF Taken
<1>6. ~ ended => ItemsIn(Draining(q)) \subseteq QueueItems(q2)
  <2> DEFINE e == [q EXCEPT !.pending = {}, !.retry = @ \ all]
  <2>1. e.work = q.work /\ e.sending = q.sending
    BY <1>3 DEF Queue
  <2>2. ~ ended => q2 = e
    OBVIOUS
  <2> HIDE DEF e, q2, q, all
  <2> QED BY <2>1, <2>2 DEF QueueItems, Draining, ItemsIn
<1>7. queue'[t] = q2 /\ \A u \in Tab : u # t => queue'[u] = queue[u]
  BY <1>1 DEF IInv, TypeOK
<1> HIDE DEF q, all, q2
<1>8. QueueItems(q) = ItemsIn(all) \cup ItemsIn(Draining(q))
  <2>1. ItemsIn(all) = ItemsIn(q.retry) \cup q.pending
    BY <1>4, <1>5, ItemsInUnion
  <2>2. ItemsIn(q.retry \cup Draining(q)) = ItemsIn(q.retry) \cup ItemsIn(Draining(q))
    BY ItemsInUnion
  <2> QED BY <2>1, <2>2 DEF QueueItems
<1> DEFINE gone == (all \cup ToSet(unsent)) \ ToSet(unsent')
<1>9. ItemsIn(gone) \subseteq Whole' /\ ItemsIn(ToSet(unsent')) \subseteq Whole'
  BY <1>1, WholeNext
<1>10. ItemsIn(all \cup ToSet(unsent)) \subseteq Whole'
  <2>1. all \cup ToSet(unsent) \subseteq gone \cup ToSet(unsent')
    OBVIOUS
  <2>2. ItemsIn(all \cup ToSet(unsent)) \subseteq ItemsIn(gone \cup ToSet(unsent'))
    BY <2>1 DEF ItemsIn
  <2> HIDE DEF gone
  <2> QED BY <1>9, <2>2, ItemsInUnion
<1>11. ItemsIn(Draining(q)) \subseteq Whole'
  <2>1. CASE ended
    BY <1>1, <2>1, WholeNext
  <2>2. CASE ~ ended
    BY <1>6, <1>7, <2>2, WholeNext
  <2> QED BY <2>1, <2>2
<1>12. QueueItems(queue[t]) \subseteq Whole' /\ ItemsIn(ToSet(unsent)) \subseteq Whole'
  BY <1>8, <1>10, <1>11, ItemsInUnion DEF q
<1> QED BY <1>1, <1>2, <1>7, <1>12, AccountedKept DEF IInv

\* A page that hides, that is left or discarded.
LEMMA HideAccounted ==
  ASSUME IInv, Accounted, NEW t \in Tab, Hide(t) \/ Leave(t) \/ Discard(t)
  PROVE  Accounted'
<1>1. PageUnchanged /\ UNCHANGED <<accepted, captures, reported>>
  BY DEF Hide, Leave, Discard, PageUnchanged, serverVars
<1>2. CASE \E ended \in BOOLEAN : Unload(t, ended)
  BY <1>1, <1>2, UnloadAccounted
<1>3. CASE Ended(t)
  <2>1. /\ queue' = [queue EXCEPT ![t] = Empty] /\ released' = released \cup QueueItems(queue[t])
        /\ unsent' = unsent /\ wire' = wire
    BY <1>3 DEF Ended
  <2>2. \A u \in Tab : u # t => queue'[u] = queue[u]
    BY <2>1 DEF IInv, TypeOK
  <2>3. QueueItems(queue[t]) \subseteq Whole' /\ ItemsIn(ToSet(unsent)) \subseteq Whole'
    BY <2>1, WholeNext
  <2> QED BY <1>1, <2>1, <2>2, <2>3, AccountedKept DEF IInv
<1>4. CASE UNCHANGED <<queue, unsent, wire, fetching, keys, sends, closing, released>>
  BY <1>1, <1>4 DEF Accounted, Ingested, QueueItems, Draining
<1> QED BY <1>2, <1>3, <1>4 DEF Hide, Leave, Discard

\* The end of a shutdown, and the answer of an unload's fetch: an entry that is
\* forgotten was sent, so it is among what the server ingested.
LEMMA OtherAccounted ==
  ASSUME IInv, Accounted, NEW t \in Tab, ShutdownEnds(t) \/ FetchAnswered(t)
  PROVE  Accounted'
<1>1. UNCHANGED <<queue, wire, accepted, captures, released>> /\ reported \subseteq reported'
  BY DEF ShutdownEnds, FetchAnswered, serverVars
<1>2. \A u \in Tab : QueueItems(queue[u]) \subseteq Whole'
  BY <1>1, WholeNext
<1>3. ItemsIn(ToSet(unsent)) \subseteq Whole'
  <2>1. CASE unsent' = unsent
    BY <2>1, WholeNext
  <2>2. CASE \E key \in accepted : unsent' = Without(unsent, {key})
    <3>1. PICK key \in accepted : unsent' = Without(unsent, {key})
      BY <2>2
    <3>2. ToSet(unsent') = {c \in ToSet(unsent) : c.key \notin {key}}
      BY <3>1, WithoutIs DEF IInv, TypeOK
    <3>3. ASSUME NEW c \in ToSet(unsent) PROVE c.items \subseteq Whole'
      <4>1. CASE c \in ToSet(unsent')
        <5>1. c.items \subseteq ItemsIn(ToSet(unsent'))
          BY <4>1 DEF ItemsIn
        <5> QED BY <5>1, WholeNext
      <4>2. CASE c.key = key
        <5>1. PICK r \in Requests(ToSet(unsent)) : r.key = c.key /\ r.items = c.items
          BY RequestsKnow
        <5>2. r \in Ingested'
          BY <1>1, <3>1, <4>2, <5>1 DEF IInv, StoredOK, Ingested
        <5>3. c.items \subseteq ItemsIn(Ingested')
          BY <5>1, <5>2 DEF ItemsIn
        <5> QED BY <5>3, WholeNext
      <4> QED BY <3>2, <4>1, <4>2
    <3> QED BY <3>3 DEF ItemsIn
  <2> QED BY <2>1, <2>2 DEF ShutdownEnds, FetchAnswered, MayForget
<1> QED BY <1>1, <1>2, <1>3, AccountedKept DEF IInv

LEMMA AccountedStep ==
  ASSUME IInv, Accounted, [Next]_vars
  PROVE  Accounted'
<1>1. ASSUME NEW t \in Tab, Deliver(t) PROVE Accounted'
  BY <1>1, FlushAccounted, AnswerAccounted DEF Deliver
<1>2. ASSUME NEW t \in Tab, Visibility(t) PROVE Accounted'
  BY <1>2, ShowAccounted, HideAccounted, OtherAccounted DEF Visibility
<1>3. ASSUME NEW t \in Tab, Close(t) PROVE Accounted'
  BY <1>3, FlushAccounted, OtherAccounted DEF Close
<1>4. CASE UNCHANGED vars \/ ServerReceives
  <2>1. UNCHANGED <<queue, unsent, wire, captures, reported, released>> /\ accepted \subseteq accepted'
    BY <1>4 DEF vars, ServerReceives, clientVars, serverVars
  <2>2. CASE Tab = {}
    <3>1. Ingested \subseteq Ingested'
      BY <2>1 DEF Ingested
    <3>2. ItemsIn(Ingested) \subseteq ItemsIn(Ingested')
      BY <3>1 DEF ItemsIn
    <3> QED BY <2>1, <2>2, <3>2 DEF Accounted
  <2>3. CASE Tab # {}
    <3>1. PICK t \in Tab : TRUE
      BY <2>3
    <3>2. QueueItems(queue[t]) \subseteq Whole' /\ ItemsIn(ToSet(unsent)) \subseteq Whole'
      BY <2>1, WholeNext
    <3> QED BY <2>1, <3>2, AccountedKept DEF IInv
  <2> QED BY <2>2, <2>3
<1> QED BY <1>1, <1>2, <1>3, <1>4 DEF Next

(***************************************************************************)
(* The theorems                                                            *)
(***************************************************************************)

\* The variables of the pages, of the list and of the server keep their types; a
\* queue has one send under way at most, and none but in a drain; the list of
\* unsent chunks keeps to its limit.
THEOREM TypeCorrect == Spec => []TypeOK
  BY Invariance, PTL DEF IInv

\* The server ingests no item twice, however many tabs, beacons, fetches and
\* resends carry it: a key names one set of items for good, and the sets of two
\* keys have nothing in common.
THEOREM IngestedOnce == Spec => []NoDoubleIngest
<1>1. IInv => NoDoubleIngest
  BY DEF IInv, KeysOwn, Named, NoDoubleIngest, Ingested
<1> QED BY <1>1, Invariance, PTL

\* No captured item vanishes, whatever the storage refuses: it is in a queue, in the
\* list, with the server, reported, or released where the code releases it: to the
\* browser as a beacon, by the list's limit, by a write that the storage refused
\* without a word (unsent.ts:32-34), or with a page that ended.
THEOREM AllAccounted == Spec => []Accounted
<1>1. Init => Accounted
  BY ConstantsOK DEF Init, Accounted
<1>2. IInv /\ Accounted /\ [Next]_vars => Accounted'
  BY AccountedStep
<1> QED BY <1>1, <1>2, Invariance, PTL DEF Spec

(***************************************************************************)
(* One copy of every chunk, and its sends                                  *)
(***************************************************************************)

Chunks(q) == q.retry \cup Draining(q)
ChunkKeys(q) == KeysIn(Chunks(q))

OneKey(S) == \A c, d \in S : c.key = d.key => c = d

\* No key is in a queue twice.
Single(q) ==
  /\ OneKey(q.retry) /\ OneKey(q.work) /\ OneKey(q.sending)
  /\ KeysIn(q.retry) \cap KeysIn(Draining(q)) = {}
  /\ KeysIn(q.work) \cap KeysIn(q.sending) = {}

\* A chunk was sent no more often than it says.
Counted(S, n) == \A c \in S : n[c.key] <= c.attempts

\* A key that is in use is in one place, with the number of its sends; one that
\* is not in use yet was not sent.
CopiesOK ==
  /\ \A t \in Tab : /\ Single(queue[t]) /\ ChunkKeys(queue[t]) \subseteq 1 .. keys
                    /\ ChunkKeys(queue[t]) \cap KeysIn(ToSet(unsent)) = {}
                    /\ Counted(Chunks(queue[t]), sends)
  /\ \A t, u \in Tab : t # u => ChunkKeys(queue[t]) \cap ChunkKeys(queue[u]) = {}
  /\ KeyOnce(unsent) /\ KeysIn(ToSet(unsent)) \subseteq 1 .. keys /\ Counted(ToSet(unsent), sends)
  /\ \A k \in Key : sends[k] <= MaxAttempts /\ (k > keys => sends[k] = 0)

LEMMA KeysInUnion ==
  /\ KeysIn({}) = {}
  /\ \A A, B : KeysIn(A \cup B) = KeysIn(A) \cup KeysIn(B)
  /\ \A A, B : A \subseteq B => KeysIn(A) \subseteq KeysIn(B)
  /\ \A A : \A c \in A : c.key \in KeysIn(A)
  BY DEF KeysIn

\* Parts of a set whose chunks have different keys.
LEMMA PartsOneKey ==
  ASSUME NEW S, OneKey(S), NEW A \in SUBSET S, NEW B \in SUBSET S, A \cap B = {}
  PROVE  OneKey(A) /\ OneKey(B) /\ KeysIn(A) \cap KeysIn(B) = {}
<1>1. OneKey(A) /\ OneKey(B)
  BY DEF OneKey
<1>2. \A c \in A, d \in B : c.key # d.key
  BY DEF OneKey
<1> QED BY <1>1, <1>2 DEF KeysIn

LEMMA JoinOneKey ==
  ASSUME NEW A, OneKey(A), NEW B, OneKey(B), KeysIn(A) \cap KeysIn(B) = {}
  PROVE  OneKey(A \cup B)
<1>1. \A c \in A, d \in B : c.key # d.key /\ d.key # c.key
  BY DEF KeysIn
<1> QED BY <1>1 DEF OneKey

LEMMA SendsType == TypeOK => \A k \in Key : sends[k] \in Nat
  BY DEF TypeOK

\* The queue of t, left as q by a handler, has run its flush: a chunk that went
\* out counts, the other chunks are as they were, and at most one key is new.
Carries(t, q) ==
  \E q2 \in Queue :
    /\ queue' = [queue EXCEPT ![t] = q2]
    /\ keys' \in Nat /\ keys <= keys' /\ sends' \in [Key -> Nat]
    /\ Single(q2) /\ ChunkKeys(q2) \subseteq ChunkKeys(q) \cup ((keys + 1) .. keys')
    /\ Counted(Chunks(q2), sends')
    /\ \A k \in Key \ ChunkKeys(q2) : sends'[k] = sends[k]

LEMMA BecomesCarries ==
  ASSUME TypeOK, NEW t \in Tab, NEW q, NEW q2 \in Queue, Becomes(t, q2), keys' \in Nat, keys <= keys',
         Single(q2), ChunkKeys(q2) \subseteq ChunkKeys(q) \cup ((keys + 1) .. keys'),
         \A c \in Chunks(q2) :
            sends[c.key] + (IF c.key \in KeysIn(q2.sending \ queue[t].sending) THEN 1 ELSE 0) <= c.attempts
  PROVE  Carries(t, q)
<1> DEFINE out == q2.sending \ queue[t].sending
<1>1. /\ queue' = [queue EXCEPT ![t] = q2]
      /\ sends' = [k \in Key |-> sends[k] + IF k \in KeysIn(out) THEN 1 ELSE 0]
  BY DEF Becomes
<1>2. \A c \in Chunks(q2) : c.key \in Key
  BY QueueFields DEF Chunks, Draining, Chunk
<1>3. Counted(Chunks(q2), sends')
  BY <1>1, <1>2 DEF Counted
<1>4. KeysIn(out) \subseteq ChunkKeys(q2)
  BY DEF KeysIn, ChunkKeys, Chunks, Draining
<1>5. \A k \in Key \ ChunkKeys(q2) : sends'[k] = sends[k]
  <2> HIDE DEF out
  <2> QED BY <1>1, <1>4, SendsType
<1>6. sends' \in [Key -> Nat]
  <2> HIDE DEF out
  <2> QED BY <1>1, SendsType
<1> QED BY <1>1, <1>3, <1>5, <1>6 DEF Carries

\* What a queue holds after c, one of `chunks`, went out.
LEMMA SendingSingle ==
  ASSUME TypeOK, NEW q \in Queue, NEW chunks \in SUBSET Chunk, NEW c \in chunks, c.attempts < MaxAttempts,
         OneKey(q.retry), OneKey(chunks), KeysIn(q.retry) \cap KeysIn(chunks) = {},
         Counted(q.retry, sends), Counted(chunks, sends)
  PROVE  LET s == Sending(q, c, chunks)
         IN  /\ s \in Queue /\ Single(s) /\ ChunkKeys(s) = KeysIn(q.retry \cup chunks)
             /\ \A sent \in SUBSET s.sending : \A e \in Chunks(s) :
                  sends[e.key] + (IF e.key \in KeysIn(sent) THEN 1 ELSE 0) <= e.attempts
<1> DEFINE d == [c EXCEPT !.attempts = @ + 1]
           s == Sending(q, c, chunks)
<1>1. d \in Chunk /\ d.key = c.key /\ d.attempts = c.attempts + 1
  <2>1. d \in Chunk /\ d.key = c.key
    BY SentAgain
  <2> QED BY <2>1 DEF Chunk
<1>2. s.retry = q.retry /\ s.work = chunks \ {c} /\ s.sending = {d} /\ s \in Queue
  <2>1. s = [q EXCEPT !.sending = {d}, !.work = chunks \ {c}]
    BY DEF Sending
  <2>2. {d} \in SUBSET Chunk /\ chunks \ {c} \in SUBSET Chunk
    BY <1>1
  <2> HIDE DEF d, s
  <2> QED BY <2>1, <2>2 DEF Queue
<1> HIDE DEF d, s
<1>3. OneKey(chunks \ {c}) /\ KeysIn(chunks \ {c}) \cap KeysIn({c}) = {}
  <2>1. chunks \ {c} \in SUBSET chunks /\ {c} \in SUBSET chunks /\ (chunks \ {c}) \cap {c} = {}
    OBVIOUS
  <2> QED BY <2>1, PartsOneKey
<1>4. KeysIn({d}) = {c.key} /\ KeysIn({c}) = {c.key}
  BY <1>1 DEF KeysIn
<1>5. KeysIn(chunks) = KeysIn(chunks \ {c}) \cup {c.key}
  <2>1. chunks = (chunks \ {c}) \cup {c}
    OBVIOUS
  <2> QED BY <1>4, <2>1, KeysInUnion
<1>6. KeysIn(Draining(s)) = KeysIn(chunks)
  BY <1>2, <1>4, <1>5, KeysInUnion DEF Draining
<1>7. Single(s)
  <2>1. OneKey({d})
    BY DEF OneKey
  <2> QED BY <1>2, <1>3, <1>4, <1>6, <2>1 DEF Single
<1>8. ChunkKeys(s) = KeysIn(q.retry \cup chunks)
  BY <1>2, <1>6, KeysInUnion DEF ChunkKeys, Chunks
<1>9. ASSUME NEW sent \in SUBSET s.sending, NEW e \in Chunks(s)
      PROVE  sends[e.key] + (IF e.key \in KeysIn(sent) THEN 1 ELSE 0) <= e.attempts
  <2>1. KeysIn(sent) \subseteq {c.key}
    BY <1>2, <1>4, KeysInUnion
  <2>2. e \in Chunk /\ e.key \in Key /\ sends[e.key] \in Nat /\ e.attempts \in Nat
    BY <1>2, QueueFields, SendsType DEF Chunks, Draining, Chunk
  <2>3. CASE e = d
    <3>1. sends[c.key] <= c.attempts /\ e.key = c.key /\ e.attempts = c.attempts + 1 /\ c.attempts \in Nat
      BY <1>1, <2>3 DEF Counted, Chunk
    <3> QED BY <2>2, <3>1
  <2>4. CASE e \in q.retry \cup (chunks \ {c})
    <3>1. sends[e.key] <= e.attempts
      BY <2>4 DEF Counted
    <3>2. e.key # c.key
      <4>1. CASE e \in q.retry
        <5>1. e.key \in KeysIn(q.retry)
          BY <4>1, KeysInUnion
        <5> QED BY <1>5, <5>1
      <4>2. CASE e \in chunks \ {c}
        <5>1. e.key \in KeysIn(chunks \ {c})
          BY <4>2, KeysInUnion
        <5> QED BY <1>3, <1>4, <5>1
      <4> QED BY <2>4, <4>1, <4>2
    <3>3. e.key \notin KeysIn(sent)
      BY <2>1, <3>2
    <3> QED BY <2>2, <3>1, <3>3
  <2> QED BY <1>2, <2>3, <2>4 DEF Chunks, Draining
<1> QED BY <1>2, <1>7, <1>8, <1>9 DEF s

\* What is cut has the next key, and was never sent.
LEMMA CutOnce ==
  ASSUME TypeOK, CopiesOK, NEW p \in SUBSET Item, CutUsed(p)
  PROVE  /\ keys' \in Nat /\ keys <= keys'
         /\ OneKey(Cut(p)) /\ KeysIn(Cut(p)) \subseteq (keys + 1) .. keys' /\ Counted(Cut(p), sends)
<1>0. keys \in Nat /\ MaxKeys \in Nat
  BY ConstantsOK DEF TypeOK
<1>1. CASE p = {}
  <2>1. Cut(p) = {}
    BY <1>1 DEF Cut
  <2>2. keys' = keys
    BY <1>0, <2>1, FS_EmptySet DEF CutUsed
  <2> QED BY <1>0, <2>1, <2>2, KeysInUnion DEF OneKey, Counted
<1>2. CASE p # {}
  <2> DEFINE c == [key |-> keys + 1, items |-> p, attempts |-> 0]
  <2>1. Cut(p) = {c}
    BY <1>2 DEF Cut
  <2>2. keys' = keys + 1 /\ keys + 1 \in Key
    <3>1. keys < MaxKeys
      BY <1>2 DEF CutUsed
    <3>2. Cardinality(Cut(p)) = 1
      BY <2>1, FS_Singleton
    <3> QED BY <1>0, <3>1, <3>2 DEF CutUsed, Key
  <2>3. c.key = keys + 1 /\ c.attempts = 0
    OBVIOUS
  <2> HIDE DEF c
  <2>4. sends[keys + 1] = 0
    BY <1>0, <2>2 DEF CopiesOK
  <2>5. OneKey(Cut(p)) /\ Counted(Cut(p), sends)
    BY <2>1, <2>3, <2>4 DEF OneKey, Counted
  <2>6. KeysIn(Cut(p)) = {keys + 1}
    BY <2>1, <2>3 DEF KeysIn
  <2> QED BY <1>0, <2>2, <2>5, <2>6
<1> QED BY <1>1, <1>2

\* A queue a handler may leave.
Sound(q) ==
  /\ q \in Queue /\ Drains(q) /\ MaySend(q) /\ Single(q) /\ Counted(Chunks(q), sends)
  /\ ChunkKeys(q) \subseteq 1 .. keys

\* Sound, but for the drain, whose answer has come.
Halted(q) ==
  /\ q \in Queue /\ q.sending = {} /\ MaySend(q) /\ Single(q) /\ Counted(Chunks(q), sends)
  /\ ChunkKeys(q) \subseteq 1 .. keys

\* The drain sent c: the retries of q and `chunks` are what is left.
LEMMA SendingCarries ==
  ASSUME TypeOK, NEW t \in Tab, NEW q, NEW left \in Queue, NEW chunks \in SUBSET Chunk, NEW c \in chunks,
         c.attempts < MaxAttempts, Becomes(t, Sending(left, c, chunks)), keys' \in Nat, keys <= keys',
         OneKey(left.retry), OneKey(chunks), KeysIn(left.retry) \cap KeysIn(chunks) = {},
         Counted(left.retry, sends), Counted(chunks, sends),
         KeysIn(left.retry \cup chunks) \subseteq ChunkKeys(q) \cup ((keys + 1) .. keys')
  PROVE  Carries(t, q)
<1> DEFINE s == Sending(left, c, chunks)
<1>1. /\ s \in Queue /\ Single(s) /\ ChunkKeys(s) = KeysIn(left.retry \cup chunks)
      /\ \A sent \in SUBSET s.sending : \A e \in Chunks(s) :
           sends[e.key] + (IF e.key \in KeysIn(sent) THEN 1 ELSE 0) <= e.attempts
  BY SendingSingle
<1>2. Becomes(t, s)
  OBVIOUS
<1> HIDE DEF s
<1>3. \A e \in Chunks(s) :
        sends[e.key] + (IF e.key \in KeysIn(s.sending \ queue[t].sending) THEN 1 ELSE 0) <= e.attempts
  BY <1>1
<1> QED BY <1>1, <1>2, <1>3, BecomesCarries

LEMMA RoundCarries ==
  ASSUME TypeOK, CopiesOK, NEW t \in Tab, NEW q, Halted(q), q.work = {}, Round(t, q)
  PROVE  Carries(t, q)
<1>0. q \in Queue /\ q.pending \in SUBSET Item /\ q.retry \in SUBSET Chunk
  BY QueueFields DEF Halted
<1>1. PICK due \in SUBSET q.retry :
        LET all  == due \cup Cut(q.pending)
            left == [q EXCEPT !.pending = {}, !.retry = @ \ due, !.rerun = FALSE]
        IN  \/ all = {} /\ Becomes(t, left)
            \/ \E c \in all : Becomes(t, Sending(left, c, all))
  BY DEF Round
<1> DEFINE all  == due \cup Cut(q.pending)
           left == [q EXCEPT !.pending = {}, !.retry = @ \ due, !.rerun = FALSE]
<1>2. /\ left \in Queue /\ left.retry = q.retry \ due /\ left.work = {} /\ left.sending = {}
  BY <1>0 DEF Queue, Halted
<1>3. CutUsed(q.pending)
  BY DEF Round
<1>4. /\ keys' \in Nat /\ keys <= keys'
      /\ OneKey(Cut(q.pending)) /\ KeysIn(Cut(q.pending)) \subseteq (keys + 1) .. keys'
      /\ Counted(Cut(q.pending), sends)
  BY <1>0, <1>3, CutOnce
<1>5. Cut(q.pending) \in SUBSET Chunk /\ \A c \in Cut(q.pending) : c.attempts < MaxAttempts
  BY <1>0, <1>3, CutIs
<1>6. /\ OneKey(due) /\ OneKey(q.retry \ due) /\ KeysIn(q.retry \ due) \cap KeysIn(due) = {}
  <2>1. due \in SUBSET q.retry /\ q.retry \ due \in SUBSET q.retry /\ (q.retry \ due) \cap due = {}
    OBVIOUS
  <2> QED BY <2>1, PartsOneKey DEF Halted, Single
<1>7. /\ KeysIn(due) \subseteq ChunkKeys(q) /\ KeysIn(q.retry \ due) \subseteq ChunkKeys(q)
      /\ ChunkKeys(q) \subseteq 1 .. keys /\ keys \in Nat
      /\ Counted(due, sends) /\ Counted(q.retry \ due, sends)
  <2>1. Chunks(q) = q.retry
    BY DEF Chunks, Draining, Halted
  <2>2. KeysIn(due) \subseteq ChunkKeys(q) /\ KeysIn(q.retry \ due) \subseteq ChunkKeys(q)
    <3>1. due \subseteq q.retry /\ q.retry \ due \subseteq q.retry
      OBVIOUS
    <3> QED BY <2>1, <3>1, KeysInUnion DEF ChunkKeys
  <2>3. Counted(due, sends) /\ Counted(q.retry \ due, sends)
    <3>1. Counted(q.retry, sends)
      BY <2>1 DEF Halted
    <3> QED BY <3>1 DEF Counted
  <2>4. ChunkKeys(q) \subseteq 1 .. keys /\ keys \in Nat
    BY DEF Halted, TypeOK
  <2> QED BY <2>2, <2>3, <2>4
<1>8. KeysIn(Cut(q.pending)) \cap ChunkKeys(q) = {}
  BY <1>4, <1>7
<1> HIDE DEF all, left
<1>9. /\ all \in SUBSET Chunk /\ OneKey(all) /\ KeysIn(left.retry) \cap KeysIn(all) = {}
      /\ Counted(all, sends) /\ \A c \in all : c.attempts < MaxAttempts
      /\ KeysIn(left.retry \cup all) \subseteq ChunkKeys(q) \cup ((keys + 1) .. keys')
  <2>1. KeysIn(all) = KeysIn(due) \cup KeysIn(Cut(q.pending))
    BY KeysInUnion DEF all
  <2>2. OneKey(all)
    <3>1. KeysIn(due) \cap KeysIn(Cut(q.pending)) = {}
      BY <1>7, <1>8
    <3> QED BY <1>4, <1>6, <3>1, JoinOneKey DEF all
  <2>3. Counted(all, sends) /\ all \in SUBSET Chunk /\ \A c \in all : c.attempts < MaxAttempts
    BY <1>0, <1>4, <1>5, <1>7 DEF Counted, all, Halted, MaySend
  <2>4. KeysIn(left.retry) \cap KeysIn(all) = {}
    BY <1>2, <1>6, <1>7, <1>8, <2>1
  <2>5. KeysIn(left.retry \cup all) \subseteq ChunkKeys(q) \cup ((keys + 1) .. keys')
    BY <1>2, <1>4, <1>7, <2>1, KeysInUnion
  <2> QED BY <2>2, <2>3, <2>4, <2>5
<1>10. CASE all = {} /\ Becomes(t, left)
  <2>1. Chunks(left) = left.retry /\ left.sending \ queue[t].sending = {} /\ Draining(left) = {}
    BY <1>2 DEF Chunks, Draining
  <2>2. \A c \in Chunks(left) :
          sends[c.key] + (IF c.key \in KeysIn(left.sending \ queue[t].sending) THEN 1 ELSE 0) <= c.attempts
    <3> SUFFICES ASSUME NEW c \in q.retry \ due PROVE sends[c.key] + 0 <= c.attempts
      BY <1>2, <2>1, KeysInUnion
    <3>1. sends[c.key] <= c.attempts
      BY <1>7 DEF Counted
    <3>2. sends[c.key] \in Nat
      BY <1>0, SendsType DEF Chunk
    <3> QED BY <3>1, <3>2
  <2>3. Single(left)
    <3>1. OneKey({})
      BY DEF OneKey
    <3> QED BY <1>2, <1>6, <2>1, <3>1, KeysInUnion DEF Single
  <2>4. ChunkKeys(left) \subseteq ChunkKeys(q) \cup ((keys + 1) .. keys')
    BY <1>2, <1>7, <2>1 DEF ChunkKeys
  <2> QED BY <1>2, <1>4, <1>10, <2>2, <2>3, <2>4, BecomesCarries
<1>11. ASSUME NEW c \in all, Becomes(t, Sending(left, c, all)) PROVE Carries(t, q)
  <2>1. OneKey(left.retry) /\ Counted(left.retry, sends) /\ c.attempts < MaxAttempts
    BY <1>2, <1>6, <1>7, <1>9
  <2> QED BY <1>2, <1>4, <1>9, <1>11, <2>1, SendingCarries
<1> QED BY <1>1, <1>10, <1>11 DEF all, left

\* A handler that sends nothing.
LEMMA SameCarries ==
  ASSUME TypeOK, NEW t \in Tab, NEW q, Sound(q), NEW q2 \in Queue, Becomes(t, q2), keys' = keys,
         q2.retry = q.retry, q2.work = q.work, q2.sending = q.sending, q.sending \subseteq queue[t].sending
  PROVE  Carries(t, q)
<1>1. Chunks(q2) = Chunks(q) /\ Draining(q2) = Draining(q) /\ q2.sending \ queue[t].sending = {}
  BY DEF Chunks, Draining
<1>2. Single(q2) /\ ChunkKeys(q2) = ChunkKeys(q)
  BY <1>1 DEF Sound, Single, ChunkKeys
<1>3. \A c \in Chunks(q2) :
        sends[c.key] + (IF c.key \in KeysIn(q2.sending \ queue[t].sending) THEN 1 ELSE 0) <= c.attempts
  <2> SUFFICES ASSUME NEW c \in Chunks(q) PROVE sends[c.key] + 0 <= c.attempts
    BY <1>1, KeysInUnion
  <2>1. sends[c.key] <= c.attempts /\ c \in Chunk
    BY QueueFields DEF Sound, Counted, Chunks, Draining
  <2>2. sends[c.key] \in Nat
    BY <2>1, SendsType DEF Chunk
  <2> QED BY <2>1, <2>2
<1>4. keys' \in Nat /\ keys <= keys'
  BY DEF TypeOK
<1> QED BY <1>2, <1>3, <1>4, BecomesCarries

LEMMA FlushCarries ==
  ASSUME TypeOK, CopiesOK, NEW t \in Tab, NEW q, Sound(q), q.sending \subseteq queue[t].sending,
         FlushCall(t, q)
  PROVE  Carries(t, q)
<1>1. CASE q.sending = {}
  BY <1>1, RoundCarries DEF FlushCall, Sound, Halted, Drains
<1>2. CASE q.sending # {}
  <2> DEFINE q2 == [q EXCEPT !.rerun = TRUE]
  <2>1. q2 \in Queue /\ q2.retry = q.retry /\ q2.work = q.work /\ q2.sending = q.sending
    BY DEF Queue, Sound
  <2>2. Becomes(t, q2) /\ keys' = keys
    BY <1>2 DEF FlushCall
  <2> HIDE DEF q2
  <2> QED BY <2>1, <2>2, SameCarries
<1> QED BY <1>1, <1>2

LEMMA ContinueCarries ==
  ASSUME TypeOK, CopiesOK, NEW t \in Tab, NEW q, Halted(q), Continue(t, q)
  PROVE  Carries(t, q)
<1>0. /\ q \in Queue /\ q.work \in SUBSET Chunk /\ Draining(q) = q.work /\ Chunks(q) = q.retry \cup q.work
      /\ keys \in Nat /\ q.sending = {}
  BY QueueFields DEF Halted, Draining, Chunks, TypeOK
<1>1. ASSUME NEW c \in q.work, Becomes(t, Sending(q, c, q.work)), keys' = keys
      PROVE  Carries(t, q)
  <2>1. /\ OneKey(q.retry) /\ OneKey(q.work) /\ KeysIn(q.retry) \cap KeysIn(q.work) = {}
        /\ Counted(q.retry, sends) /\ Counted(q.work, sends) /\ c.attempts < MaxAttempts
    BY <1>0 DEF Halted, Single, Counted, MaySend
  <2>2. KeysIn(q.retry \cup q.work) \subseteq ChunkKeys(q) \cup ((keys + 1) .. keys')
    BY <1>0 DEF ChunkKeys
  <2>3. keys' \in Nat /\ keys <= keys'
    BY <1>0, <1>1
  <2> QED BY <1>0, <1>1, <2>1, <2>2, <2>3, SendingCarries
<1>2. CASE q.work = {} /\ q.rerun /\ Round(t, q)
  BY <1>2, RoundCarries
<1>3. CASE q.work = {} /\ ~ q.rerun /\ Becomes(t, q) /\ keys' = keys
  <2>1. Sound(q) /\ q.sending \subseteq queue[t].sending
    BY <1>0, <1>3 DEF Sound, Halted, Drains
  <2> QED BY <1>0, <1>3, <2>1, SameCarries
<1> QED BY <1>1, <1>2, <1>3 DEF Continue

\* A handler that changed the queue of t to q, and perhaps moved the stored list
\* into it, and then ran its flush.
LEMMA CarriedStep ==
  ASSUME TypeOK, CopiesOK, NEW t \in Tab, NEW q, Carries(t, q),
         ChunkKeys(q) \subseteq ChunkKeys(queue[t]) \cup KeysIn(ToSet(unsent)),
         ChunkKeys(q) \cap KeysIn(ToSet(unsent')) = {},
         unsent' = unsent \/ unsent' = <<>>
  PROVE  CopiesOK'
<1>0. keys \in Nat /\ \A k \in Key : k \in Nat
  BY DEF TypeOK, Key
<1>1. PICK q2 \in Queue :
        /\ queue' = [queue EXCEPT ![t] = q2]
        /\ keys' \in Nat /\ keys <= keys' /\ sends' \in [Key -> Nat]
        /\ Single(q2) /\ ChunkKeys(q2) \subseteq ChunkKeys(q) \cup ((keys + 1) .. keys')
        /\ Counted(Chunks(q2), sends')
        /\ \A k \in Key \ ChunkKeys(q2) : sends'[k] = sends[k]
  BY DEF Carries
<1>2. queue'[t] = q2 /\ \A u \in Tab : u # t => queue'[u] = queue[u]
  BY <1>1 DEF TypeOK
<1>3. /\ KeyOnce(unsent') /\ ToSet(unsent') \subseteq ToSet(unsent)
      /\ KeysIn(ToSet(unsent')) \subseteq KeysIn(ToSet(unsent))
  <2>1. ToSet(<<>>) = {} /\ KeyOnce(<<>>)
    BY DEF ToSet, KeyOnce
  <2> QED BY <2>1, KeysInUnion DEF CopiesOK
<1>4. \A u \in Tab : u # t =>
        /\ ChunkKeys(queue[u]) \cap ChunkKeys(q2) = {} /\ ChunkKeys(queue[u]) \subseteq 1 .. keys
        /\ ChunkKeys(queue[u]) \cap KeysIn(ToSet(unsent')) = {}
  <2> TAKE u \in Tab
  <2> HAVE u # t
  <2>1. /\ ChunkKeys(queue[u]) \cap ChunkKeys(queue[t]) = {}
        /\ ChunkKeys(queue[u]) \cap KeysIn(ToSet(unsent)) = {} /\ ChunkKeys(queue[u]) \subseteq 1 .. keys
    BY DEF CopiesOK
  <2>2. (1 .. keys) \cap ((keys + 1) .. keys') = {}
    BY <1>0
  <2> QED BY <1>1, <1>3, <2>1, <2>2
<1>5. ChunkKeys(q2) \subseteq 1 .. keys' /\ ChunkKeys(q2) \cap KeysIn(ToSet(unsent')) = {}
  <2>1. ChunkKeys(q) \subseteq 1 .. keys /\ KeysIn(ToSet(unsent')) \subseteq 1 .. keys
    BY <1>3 DEF CopiesOK
  <2>2. /\ (1 .. keys) \cap ((keys + 1) .. keys') = {} /\ 1 .. keys \subseteq 1 .. keys'
        /\ (keys + 1) .. keys' \subseteq 1 .. keys'
    BY <1>0, <1>1
  <2> QED BY <1>1, <2>1, <2>2
<1>6. \A S \in SUBSET Chunk : KeysIn(S) \cap ChunkKeys(q2) = {} /\ Counted(S, sends) => Counted(S, sends')
  <2> TAKE S \in SUBSET Chunk
  <2> HAVE KeysIn(S) \cap ChunkKeys(q2) = {} /\ Counted(S, sends)
  <2>1. \A c \in S : c.key \in Key \ ChunkKeys(q2)
    BY KeysInUnion DEF Chunk
  <2> QED BY <1>1, <2>1 DEF Counted
<1>7. \A u \in Tab : Counted(Chunks(queue'[u]), sends')
  <2> TAKE u \in Tab
  <2>1. CASE u = t
    BY <1>1, <1>2, <2>1
  <2>2. CASE u # t
    <3>1. Chunks(queue[u]) \in SUBSET Chunk /\ Counted(Chunks(queue[u]), sends)
      BY QueueFields DEF Chunks, Draining, TypeOK, CopiesOK
    <3>2. KeysIn(Chunks(queue[u])) \cap ChunkKeys(q2) = {}
      BY <1>4, <2>2 DEF ChunkKeys
    <3> QED BY <1>2, <1>6, <2>2, <3>1, <3>2
  <2> QED BY <2>1, <2>2
<1>8. Counted(ToSet(unsent'), sends')
  <2>1. ToSet(unsent') \in SUBSET Chunk
    BY <1>3 DEF TypeOK, ToSet
  <2>2. Counted(ToSet(unsent'), sends)
    BY <1>3 DEF CopiesOK, Counted
  <2> QED BY <1>5, <1>6, <2>1, <2>2
<1>9. \A k \in Key : sends'[k] <= MaxAttempts /\ (k > keys' => sends'[k] = 0)
  <2> TAKE k \in Key
  <2>1. CASE k \in ChunkKeys(q2)
    <3>1. PICK c \in Chunks(q2) : c.key = k
      BY <2>1 DEF ChunkKeys, KeysIn
    <3>2. sends'[k] <= c.attempts /\ c \in Chunk
      BY <1>1, <3>1, QueueFields DEF Counted, Chunks, Draining
    <3>3. c.attempts \in Nat /\ c.attempts <= MaxAttempts /\ MaxAttempts \in Nat /\ sends'[k] \in Nat
      BY <1>1, <3>2, ConstantsOK DEF Chunk
    <3>4. k <= keys'
      BY <1>5, <2>1
    <3>5. sends'[k] <= MaxAttempts
      BY <3>2, <3>3
    <3> QED BY <1>0, <1>1, <3>4, <3>5
  <2>2. CASE k \notin ChunkKeys(q2)
    <3>1. sends'[k] = sends[k] /\ sends[k] <= MaxAttempts /\ (k > keys => sends[k] = 0)
      BY <1>1, <2>2 DEF CopiesOK
    <3> QED BY <1>0, <1>1, <3>1
  <2> QED BY <2>1, <2>2
<1>10. \A u \in Tab : /\ Single(queue'[u]) /\ ChunkKeys(queue'[u]) \subseteq 1 .. keys'
                      /\ ChunkKeys(queue'[u]) \cap KeysIn(ToSet(unsent')) = {}
  <2>1. 1 .. keys \subseteq 1 .. keys'
    BY <1>0, <1>1
  <2> QED BY <1>1, <1>2, <1>4, <1>5, <2>1 DEF CopiesOK
<1>11. \A u, v \in Tab : u # v => ChunkKeys(queue'[u]) \cap ChunkKeys(queue'[v]) = {}
  BY <1>2, <1>4 DEF CopiesOK
<1>12. KeysIn(ToSet(unsent')) \subseteq 1 .. keys'
  <2>1. 1 .. keys \subseteq 1 .. keys'
    BY <1>0, <1>1
  <2> QED BY <1>3, <2>1 DEF CopiesOK
<1> QED BY <1>3, <1>7, <1>8, <1>9, <1>10, <1>11, <1>12 DEF CopiesOK, ChunkKeys, Chunks, Draining

\* A queue of TypeOK is one a handler may leave.
LEMMA QueueSound ==
  ASSUME IInv, CopiesOK, NEW t \in Tab
  PROVE  Sound(queue[t])
  BY SameQueue DEF Sound, CopiesOK

LEMMA AnswerCopies ==
  ASSUME IInv, CopiesOK, NEW t \in Tab, Accepted(t) \/ Rejected(t) \/ Failed(t)
  PROVE  CopiesOK'
<1> DEFINE o == queue[t]
           q == Answered(t)
<1>1. unsent' = unsent
  BY DEF Accepted, Rejected, Failed, AnswerUnchanged
<1>2. PICK c \in queue[t].sending :
        \/ Continue(t, Answered(t))
        \/ ~ OutOfAttempts(c) /\ Continue(t, [Answered(t) EXCEPT !.retry = @ \cup {c}])
  BY DEF Accepted, Rejected, Failed
<1> DEFINE r == [q EXCEPT !.retry = @ \cup {c}]
<1>3. Sound(o)
  BY QueueSound
<1>4. c \in Chunk /\ c \in o.sending
  BY <1>3, QueueFields DEF Sound
<1>5. q.retry = o.retry /\ q.work = o.work /\ q.sending = {} /\ q \in Queue
  BY <1>3 DEF Answered, Queue, Sound
<1>6. r.retry = o.retry \cup {c} /\ r.work = o.work /\ r.sending = {}
  <2> HIDE DEF q, o
  <2> QED BY <1>4, <1>5 DEF Queue
<1>7. MaySend(q) /\ (~ OutOfAttempts(c) => r \in Queue /\ MaySend(r))
  BY <1>4, AnsweredIs
<1> HIDE DEF o, q, r
<1>8. /\ Draining(q) = o.work /\ Draining(r) = o.work /\ Chunks(q) = o.retry \cup o.work
      /\ Chunks(r) = (o.retry \cup o.work) \cup {c}
      /\ Chunks(o) = (o.retry \cup o.work) \cup o.sending /\ Draining(o) = o.work \cup o.sending
  BY <1>5, <1>6 DEF Draining, Chunks
<1>9. /\ OneKey(o.retry) /\ OneKey(o.work) /\ OneKey({}) /\ OneKey({c})
      /\ KeysIn(o.retry) \cap (KeysIn(o.work) \cup KeysIn(o.sending)) = {}
      /\ KeysIn(o.work) \cap KeysIn(o.sending) = {} /\ KeysIn({c}) \subseteq KeysIn(o.sending)
  <2>1. OneKey({}) /\ OneKey({c})
    BY DEF OneKey
  <2>2. {c} \subseteq o.sending
    BY <1>4
  <2> QED BY <1>3, <1>8, <2>1, <2>2, KeysInUnion DEF Sound, Single
<1>10. Single(q) /\ Single(r)
  <2>1. OneKey(o.retry \cup {c})
    BY <1>9, JoinOneKey
  <2>2. KeysIn(o.retry \cup {c}) = KeysIn(o.retry) \cup KeysIn({c})
    BY KeysInUnion
  <2>3. KeysIn(o.retry \cup {c}) \cap KeysIn(o.work) = {}
    BY <1>9, <2>2
  <2> QED BY <1>5, <1>6, <1>8, <1>9, <2>1, <2>3, KeysInUnion DEF Single
<1>11. /\ Counted(Chunks(q), sends) /\ Counted(Chunks(r), sends)
       /\ ChunkKeys(q) \subseteq ChunkKeys(o) /\ ChunkKeys(r) \subseteq ChunkKeys(o)
  <2>1. Chunks(q) \subseteq Chunks(o) /\ Chunks(r) \subseteq Chunks(o)
    BY <1>4, <1>8
  <2> QED BY <1>3, <2>1, KeysInUnion DEF Sound, Counted, ChunkKeys
<1>12. ASSUME NEW p, Halted(p), ChunkKeys(p) \subseteq ChunkKeys(o), Continue(t, p)
       PROVE  CopiesOK'
  <2>1. Carries(t, p)
    BY <1>12, ContinueCarries DEF IInv
  <2>2. ChunkKeys(o) \cap KeysIn(ToSet(unsent')) = {}
    BY <1>1 DEF CopiesOK, o
  <2> QED BY <1>1, <1>12, <2>1, <2>2, CarriedStep DEF IInv, o
<1>13. Halted(q) /\ (~ OutOfAttempts(c) => Halted(r))
  BY <1>3, <1>5, <1>6, <1>7, <1>10, <1>11 DEF Halted, Sound
<1> QED BY <1>2, <1>11, <1>12, <1>13 DEF q, r

LEMMA FlushCopies ==
  ASSUME IInv, CopiesOK, NEW t \in Tab, Flush(t) \/ Shutdown(t) \/ ShutdownRetries(t)
  PROVE  CopiesOK'
<1>1. FlushCall(t, queue[t]) /\ unsent' = unsent
  BY DEF Flush, Shutdown, ShutdownRetries
<1>2. Carries(t, queue[t])
  BY <1>1, QueueSound, FlushCarries DEF IInv
<1>3. ChunkKeys(queue[t]) \cap KeysIn(ToSet(unsent)) = {}
  BY DEF CopiesOK
<1> QED BY <1>1, <1>2, <1>3, CarriedStep DEF IInv

LEMMA CaptureCopies ==
  ASSUME IInv, CopiesOK, NEW t \in Tab, Capture(t)
  PROVE  CopiesOK'
<1> DEFINE q == [queue[t] EXCEPT !.pending = @ \cup {captures + 1}]
<1>1. /\ captures < MaxCaptures /\ unsent' = unsent
      /\ FlushCall(t, q) \/ (Becomes(t, q) /\ keys' = keys)
  BY DEF Capture
<1>2. captures + 1 \in Item
  BY <1>1, CaptureType, ConstantsOK DEF Item, IInv
<1>3. /\ q \in Queue /\ q.retry = queue[t].retry /\ q.work = queue[t].work
      /\ q.sending = queue[t].sending /\ q.rerun = queue[t].rerun
  BY <1>2, SameQueue DEF Queue
<1> HIDE DEF q
<1>4. Chunks(q) = Chunks(queue[t]) /\ Draining(q) = Draining(queue[t])
  BY <1>3 DEF Chunks, Draining
<1>5. Sound(q)
  BY <1>3, <1>4, QueueSound DEF Sound, Drains, MaySend, Single, ChunkKeys
<1>6. Carries(t, q)
  BY <1>1, <1>3, <1>5, FlushCarries, SameCarries DEF IInv
<1>7. ChunkKeys(q) = ChunkKeys(queue[t]) /\ ChunkKeys(queue[t]) \cap KeysIn(ToSet(unsent)) = {}
  BY <1>4 DEF CopiesOK, ChunkKeys
<1> QED BY <1>1, <1>6, <1>7, CarriedStep DEF IInv

LEMMA OneKeyStored ==
  ASSUME NEW list, KeyOnce(list)
  PROVE  OneKey(ToSet(list))
  BY DEF KeyOnce, OneKey, ToSet

\* The list joins the queue.
LEMMA RestoredCopies ==
  ASSUME IInv, CopiesOK, NEW t \in Tab, FlushCall(t, Restored(queue[t], unsent)), unsent' = <<>>
  PROVE  CopiesOK'
<1> DEFINE o == queue[t]
           stored == ToSet(unsent)
           q == [o EXCEPT !.retry = @ \cup stored]
<1>1. Sound(o) /\ stored \in SUBSET Chunk
  <2>1. stored \in SUBSET Chunk
    BY DEF IInv, TypeOK, ToSet
  <2> QED BY <2>1, QueueSound
<1>2. q = Restored(queue[t], unsent)
  BY DEF Restored
<1>3. q \in Queue /\ Drains(q) /\ MaySend(q)
  BY <1>2, RestoredIs
<1>4. q.retry = o.retry \cup stored /\ q.work = o.work /\ q.sending = o.sending
  <2> HIDE DEF o, stored
  <2> QED BY <1>1 DEF Queue, Sound
<1>5. /\ OneKey(stored) /\ Counted(stored, sends) /\ KeysIn(stored) \subseteq 1 .. keys
      /\ ChunkKeys(o) \cap KeysIn(stored) = {}
  BY OneKeyStored DEF CopiesOK
<1> HIDE DEF o, stored, q
<1>6. Draining(q) = Draining(o) /\ Chunks(q) = Chunks(o) \cup stored /\ Chunks(o) = o.retry \cup Draining(o)
  BY <1>4 DEF Draining, Chunks
<1>7. ChunkKeys(q) = ChunkKeys(o) \cup KeysIn(stored) /\ ChunkKeys(o) = KeysIn(o.retry) \cup KeysIn(Draining(o))
  BY <1>6, KeysInUnion DEF ChunkKeys
<1>8. Single(q)
  <2>1. OneKey(o.retry \cup stored)
    BY <1>1, <1>5, <1>7, JoinOneKey DEF Sound, Single
  <2>2. KeysIn(o.retry \cup stored) = KeysIn(o.retry) \cup KeysIn(stored)
    BY KeysInUnion
  <2>3. KeysIn(o.retry \cup stored) \cap KeysIn(Draining(o)) = {}
    BY <1>1, <1>5, <1>7, <2>2 DEF Sound, Single
  <2> QED BY <1>1, <1>4, <1>6, <2>1, <2>3 DEF Sound, Single
<1>9. Sound(q)
  <2>1. Counted(Chunks(q), sends)
    BY <1>1, <1>5, <1>6 DEF Sound, Counted
  <2>2. ChunkKeys(q) \subseteq 1 .. keys
    BY <1>1, <1>5, <1>7 DEF Sound
  <2> QED BY <1>3, <1>8, <2>1, <2>2 DEF Sound
<1>10. Carries(t, q)
  <2>1. q.sending \subseteq queue[t].sending
    BY <1>4 DEF o
  <2> QED BY <1>2, <1>9, <2>1, FlushCarries DEF IInv
<1>11. KeysIn(ToSet(unsent')) = {}
  <2>1. ToSet(<<>>) = {}
    BY DEF ToSet
  <2> QED BY <2>1, KeysInUnion
<1>12. ChunkKeys(q) \subseteq ChunkKeys(queue[t]) \cup KeysIn(ToSet(unsent))
  BY <1>7 DEF o, stored
<1> QED BY <1>10, <1>11, <1>12, CarriedStep DEF IInv

\* A step in which nothing goes out, and what leaves the queue of t, or is cut,
\* may go into the list.
LEMMA LessStep ==
  ASSUME TypeOK, CopiesOK, NEW t \in Tab, NEW q2 \in Queue, queue' = [queue EXCEPT ![t] = q2],
         Single(q2), Chunks(q2) \subseteq Chunks(queue[t]), sends' = sends,
         keys' \in Nat, keys <= keys', KeyOnce(unsent'), Counted(ToSet(unsent'), sends),
         KeysIn(ToSet(unsent')) \subseteq
           KeysIn(ToSet(unsent)) \cup (ChunkKeys(queue[t]) \ ChunkKeys(q2)) \cup ((keys + 1) .. keys')
  PROVE  CopiesOK'
<1>0. /\ keys \in Nat /\ 1 .. keys \subseteq 1 .. keys' /\ (1 .. keys) \cap ((keys + 1) .. keys') = {}
      /\ (keys + 1) .. keys' \subseteq 1 .. keys'
  BY DEF TypeOK
<1>1. queue'[t] = q2 /\ \A u \in Tab : u # t => queue'[u] = queue[u]
  BY DEF TypeOK
<1>2. ChunkKeys(q2) \subseteq ChunkKeys(queue[t]) /\ Counted(Chunks(q2), sends)
  BY KeysInUnion DEF ChunkKeys, CopiesOK, Counted
<1>3. \A u \in Tab : /\ ChunkKeys(queue'[u]) \subseteq ChunkKeys(queue[u]) /\ Single(queue'[u])
                     /\ Counted(Chunks(queue'[u]), sends)
  BY <1>1, <1>2 DEF CopiesOK
<1>4. \A u \in Tab : /\ ChunkKeys(queue[u]) \subseteq 1 .. keys
                     /\ ChunkKeys(queue[u]) \cap KeysIn(ToSet(unsent)) = {}
                     /\ u # t => ChunkKeys(queue[u]) \cap ChunkKeys(queue[t]) = {}
  BY DEF CopiesOK
<1>5. \A u \in Tab : ChunkKeys(queue'[u]) \cap KeysIn(ToSet(unsent')) = {}
  <2> TAKE u \in Tab
  <2>1. CASE u = t
    BY <1>0, <1>1, <1>2, <1>4, <2>1
  <2>2. CASE u # t
    BY <1>0, <1>1, <1>4, <2>2
  <2> QED BY <2>1, <2>2
<1>6. KeysIn(ToSet(unsent')) \subseteq 1 .. keys'
  <2>1. KeysIn(ToSet(unsent)) \subseteq 1 .. keys
    BY DEF CopiesOK
  <2> QED BY <1>0, <1>4, <2>1
<1>7. \A k \in Key : sends'[k] <= MaxAttempts /\ (k > keys' => sends'[k] = 0)
  <2>1. \A k \in Key : k \in Nat
    BY DEF Key
  <2> QED BY <1>0, <2>1 DEF CopiesOK
<1>8. \A u, v \in Tab : u # v => ChunkKeys(queue'[u]) \cap ChunkKeys(queue'[v]) = {}
  BY <1>3 DEF CopiesOK
<1>9. \A u \in Tab : ChunkKeys(queue'[u]) \subseteq 1 .. keys'
  BY <1>0, <1>3, <1>4
<1>10. \A u \in Tab : Counted(Chunks(queue'[u]), sends')
  BY <1>3
<1>11. Counted(ToSet(unsent'), sends')
  OBVIOUS
<1> QED BY <1>3, <1>5, <1>6, <1>7, <1>8, <1>9, <1>10, <1>11 DEF CopiesOK, ChunkKeys, Chunks, Draining

\* saveUnsent never stores a key twice.
LEMMA SavedOnce ==
  ASSUME NEW list \in Seq(Chunk), KeyOnce(list), NEW kept \in SUBSET Chunk, OneKey(kept),
         NEW order \in SetToSeqs(kept)
  PROVE  KeyOnce(Saved(list, order))
<1>1. order \in Seq(Chunk) /\ KeyOnce(order)
  <2>1. Cardinality(kept) \in Nat
    BY ChunksFinite, FS_CardinalityType
  <2>2. /\ order \in [1 .. Cardinality(kept) -> kept]
        /\ \A i, j \in 1 .. Cardinality(kept) : i # j => order[i] # order[j]
    BY DEF SetToSeqs
  <2>3. order \in Seq(Chunk)
    BY <2>1, <2>2
  <2>4. KeyOnce(order)
    BY <2>2 DEF KeyOnce, OneKey
  <2> QED BY <2>3, <2>4
<1> DEFINE gone == KeysIn(ToSet(order))
           others == Without(list, gone)
           all == others \o order
           first == IF Len(all) > MaxStored THEN Len(all) - MaxStored + 1 ELSE 1
<1>2. /\ others \in Seq(Chunk) /\ KeyOnce(others)
      /\ ToSet(others) = {c \in ToSet(list) : c.key \notin gone}
  BY WithoutIs
<1>3. Saved(list, order) = SubSeq(all, first, Len(all))
  BY DEF Saved
<1>4. \A m \in DOMAIN others, n \in DOMAIN order : others[m].key # order[n].key
  <2>1. \A m \in DOMAIN others : others[m].key \notin gone
    <3>1. \A m \in DOMAIN others : others[m] \in ToSet(others)
      BY DEF ToSet
    <3> HIDE DEF gone, others
    <3> QED BY <1>2, <3>1
  <2>2. \A n \in DOMAIN order : order[n].key \in gone
    BY DEF KeysIn, ToSet
  <2> HIDE DEF gone, others
  <2> QED BY <2>1, <2>2
<1> HIDE DEF gone, others
<1>5. /\ all \in Seq(Chunk) /\ Len(all) = Len(others) + Len(order) /\ Len(others) \in Nat /\ Len(order) \in Nat
      /\ DOMAIN others = 1 .. Len(others) /\ \A n \in 1 .. Len(others) : all[n] = others[n]
      /\ \A n \in (Len(others) + 1) .. Len(all) : n - Len(others) \in DOMAIN order /\ all[n] = order[n - Len(others)]
  BY <1>1, <1>2
<1> HIDE DEF all
<1>6. KeyOnce(all)
  <2> SUFFICES ASSUME NEW m \in 1 .. Len(all), NEW n \in 1 .. Len(all), all[m].key = all[n].key
               PROVE  m = n
    BY <1>5 DEF KeyOnce
  <2>1. CASE m <= Len(others) /\ n <= Len(others)
    <3>1. m \in DOMAIN others /\ n \in DOMAIN others /\ others[m].key = others[n].key
      BY <1>2, <1>5, <2>1
    <3> QED BY <1>2, <3>1 DEF KeyOnce
  <2>2. CASE m > Len(others) /\ n > Len(others)
    <3>1. /\ m - Len(others) \in DOMAIN order /\ n - Len(others) \in DOMAIN order
          /\ order[m - Len(others)].key = order[n - Len(others)].key
      BY <1>5, <2>2
    <3>2. m - Len(others) = n - Len(others)
      BY <1>1, <3>1 DEF KeyOnce
    <3> QED BY <1>5, <3>2
  <2>3. ASSUME NEW i \in 1 .. Len(all), NEW j \in 1 .. Len(all), i <= Len(others), j > Len(others)
        PROVE  all[i].key # all[j].key
    <3>1. i \in 1 .. Len(others)
      BY <1>5, <2>3
    <3>2. i \in DOMAIN others /\ all[i] = others[i]
      BY <1>5, <3>1
    <3>3. j - Len(others) \in DOMAIN order /\ all[j] = order[j - Len(others)]
      BY <1>5, <2>3
    <3> QED BY <1>4, <3>2, <3>3
  <2>4. /\ m <= Len(others) \/ m > Len(others)
        /\ n <= Len(others) \/ n > Len(others)
    BY <1>5
  <2> QED BY <2>1, <2>2, <2>3, <2>4
<1>7. first \in Nat \ {0} /\ Len(all) \in Nat /\ first <= Len(all) + 1
  BY <1>5, ConstantsOK
<1> HIDE DEF first
<1> DEFINE s == SubSeq(all, first, Len(all))
<1>8. \A n \in DOMAIN s : first + n - 1 \in 1 .. Len(all) /\ s[n] = all[first + n - 1] /\ n \in Nat
  BY <1>5, <1>7
<1>9. KeyOnce(s)
  <2> SUFFICES ASSUME NEW m \in DOMAIN s, NEW n \in DOMAIN s, s[m].key = s[n].key PROVE m = n
    BY DEF KeyOnce
  <2> HIDE DEF s
  <2>1. first + m - 1 \in DOMAIN all /\ first + n - 1 \in DOMAIN all
        /\ all[first + m - 1].key = all[first + n - 1].key
    BY <1>5, <1>8
  <2>2. first + m - 1 = first + n - 1
    BY <1>6, <2>1 DEF KeyOnce
  <2> QED BY <1>7, <1>8, <2>2
<1> QED BY <1>3, <1>9

LEMMA UnloadCopies ==
  ASSUME IInv, CopiesOK, NEW t \in Tab, NEW ended \in BOOLEAN, Unload(t, ended)
  PROVE  CopiesOK'
<1> DEFINE q == queue[t]
           cut == Cut(q.pending)
           q2 == IF ended THEN Empty ELSE [q EXCEPT !.pending = {}, !.retry = @ \ Taken(q)]
<1>1. PICK beacons \in SUBSET Taken(q) : \E kept \in SUBSET (Taken(q) \ beacons) :
        \E order \in SetToSeqs(kept) :
          /\ unsent' = Saved(unsent, order)
          /\ queue' = [queue EXCEPT ![t] = q2]
          /\ CutUsed(q.pending) /\ sends' = sends
  BY DEF Unload
<1>2. PICK kept \in SUBSET (Taken(q) \ beacons) : \E order \in SetToSeqs(kept) : unsent' = Saved(unsent, order)
  BY <1>1
<1>3. PICK order \in SetToSeqs(kept) : unsent' = Saved(unsent, order)
  BY <1>2
<1>4. queue' = [queue EXCEPT ![t] = q2] /\ CutUsed(q.pending) /\ sends' = sends
  BY <1>1
<1>5. Sound(q)
  BY QueueSound
<1>6. q \in Queue /\ q.pending \in SUBSET Item /\ q.retry \in SUBSET Chunk /\ Taken(q) = q.retry \cup cut
  BY <1>5, QueueFields DEF Sound, Taken
<1>7. /\ keys' \in Nat /\ keys <= keys' /\ keys \in Nat
      /\ OneKey(cut) /\ KeysIn(cut) \subseteq (keys + 1) .. keys' /\ Counted(cut, sends)
  BY <1>4, <1>6, CutOnce DEF IInv, TypeOK
<1>8. cut \in SUBSET Chunk
  BY <1>4, <1>6, CutIs DEF IInv
<1>9. /\ q2 \in Queue /\ q2.retry = {} /\ q2.work \subseteq q.work /\ q2.sending \subseteq q.sending
      /\ q2 = Empty \/ (q2.work = q.work /\ q2.sending = q.sending)
  <2> DEFINE e == [q EXCEPT !.pending = {}, !.retry = @ \ Taken(q)]
  <2>1. e \in Queue /\ e.retry = q.retry \ Taken(q) /\ e.work = q.work /\ e.sending = q.sending
    BY <1>6 DEF Queue
  <2>2. Empty \in Queue /\ Empty.retry = {} /\ Empty.work = {} /\ Empty.sending = {}
    BY EmptyIs DEF Empty
  <2>3. q2 = Empty \/ q2 = e
    OBVIOUS
  <2> HIDE DEF e, q2, q, cut
  <2> QED BY <1>6, <2>1, <2>2, <2>3
<1> HIDE DEF q, cut, q2
<1>10. Single(q2) /\ Chunks(q2) \subseteq Draining(q) /\ Chunks(q2) \subseteq Chunks(q)
  <2>1. /\ OneKey(q2.work) /\ OneKey(q2.sending) /\ OneKey({})
    BY <1>5, <1>9 DEF Sound, Single, OneKey
  <2>2. KeysIn(q2.work) \cap KeysIn(q2.sending) = {}
    <3>1. KeysIn(q2.work) \subseteq KeysIn(q.work) /\ KeysIn(q2.sending) \subseteq KeysIn(q.sending)
      BY <1>9, KeysInUnion
    <3> QED BY <1>5, <3>1 DEF Sound, Single
  <2>3. Chunks(q2) \subseteq Draining(q) /\ Chunks(q2) \subseteq Chunks(q)
    BY <1>9 DEF Chunks, Draining
  <2> QED BY <1>9, <2>1, <2>2, <2>3, KeysInUnion DEF Single
<1>11. Chunks(q) = q.retry \cup Draining(q) /\ KeysIn(q.retry) \cap KeysIn(Draining(q)) = {} /\ OneKey(q.retry)
  BY <1>5 DEF Sound, Single, Chunks
<1>12. /\ KeysIn(q.retry) \subseteq ChunkKeys(q) \ ChunkKeys(q2)
       /\ ChunkKeys(q) \subseteq 1 .. keys
  <2>1. ChunkKeys(q2) \subseteq KeysIn(Draining(q))
    BY <1>10, KeysInUnion DEF ChunkKeys
  <2>2. KeysIn(q.retry) \subseteq ChunkKeys(q)
    BY <1>11, KeysInUnion DEF ChunkKeys
  <2> QED BY <1>5, <1>11, <2>1, <2>2 DEF Sound
<1>13. OneKey(kept) /\ kept \in SUBSET Chunk /\ Counted(kept, sends)
  <2>1. KeysIn(q.retry) \cap KeysIn(cut) = {}
    BY <1>7, <1>12
  <2>2. OneKey(Taken(q))
    BY <1>6, <1>7, <1>11, <2>1, JoinOneKey
  <2>3. Counted(q.retry, sends)
    BY <1>5, <1>11 DEF Sound, Counted
  <2>4. kept \subseteq Taken(q)
    BY <1>2
  <2> QED BY <1>6, <1>7, <1>8, <2>2, <2>3, <2>4 DEF OneKey, Counted
<1>14. KeyOnce(unsent') /\ ToSet(unsent') \subseteq ToSet(unsent) \cup kept
  <2>1. unsent \in Seq(Chunk) /\ KeyOnce(unsent)
    BY DEF IInv, TypeOK, CopiesOK
  <2> QED BY <1>3, <1>13, <2>1, SavedIs, SavedOnce
<1>15. Counted(ToSet(unsent'), sends)
  BY <1>13, <1>14 DEF CopiesOK, Counted
<1>16. KeysIn(ToSet(unsent')) \subseteq
          KeysIn(ToSet(unsent)) \cup (ChunkKeys(q) \ ChunkKeys(q2)) \cup ((keys + 1) .. keys')
  <2>1. KeysIn(ToSet(unsent')) \subseteq KeysIn(ToSet(unsent)) \cup KeysIn(kept)
    <3>1. KeysIn(ToSet(unsent')) \subseteq KeysIn(ToSet(unsent) \cup kept)
      BY <1>14, KeysInUnion
    <3> QED BY <3>1, KeysInUnion
  <2>2. KeysIn(kept) \subseteq KeysIn(q.retry) \cup KeysIn(cut)
    <3>1. kept \subseteq q.retry \cup cut
      BY <1>2, <1>6
    <3>2. KeysIn(kept) \subseteq KeysIn(q.retry \cup cut)
      BY <3>1, KeysInUnion
    <3> QED BY <3>2, KeysInUnion
  <2> QED BY <1>7, <1>12, <2>1, <2>2
<1> QED BY <1>4, <1>7, <1>9, <1>10, <1>14, <1>15, <1>16, LessStep DEF IInv, q

\* A page ends without a handler, an entry of the list is forgotten, or the
\* queues and the list stay: nothing is added anywhere.
LEMMA QuietCopies ==
  ASSUME IInv, CopiesOK, NEW t \in Tab, NEW q, q \in {queue[t], Empty},
         queue' = [queue EXCEPT ![t] = q], UNCHANGED <<keys, sends>>,
         KeyOnce(unsent'), ToSet(unsent') \subseteq ToSet(unsent)
  PROVE  CopiesOK'
<1>1. q \in Queue /\ Single(q) /\ Chunks(q) \subseteq Chunks(queue[t])
  <2>1. Empty.retry = {} /\ Empty.work = {} /\ Empty.sending = {} /\ Empty \in Queue
    BY EmptyIs DEF Empty
  <2>2. Single(Empty) /\ Chunks(Empty) = {}
    BY <2>1, KeysInUnion DEF Single, Chunks, Draining, OneKey
  <2>3. Single(queue[t]) /\ queue[t] \in Queue
    BY QueueSound DEF Sound
  <2> QED BY <2>1, <2>2, <2>3
<1>2. Counted(ToSet(unsent'), sends) /\ KeysIn(ToSet(unsent')) \subseteq KeysIn(ToSet(unsent))
  BY KeysInUnion DEF CopiesOK, Counted
<1>3. keys' \in Nat /\ keys <= keys'
  BY DEF IInv, TypeOK
<1> QED BY <1>1, <1>2, <1>3, LessStep DEF IInv

LEMMA StillCopies ==
  ASSUME IInv, CopiesOK, UNCHANGED <<queue, unsent, keys, sends>>
  PROVE  CopiesOK'
<1>1. CASE Tab = {}
  BY <1>1 DEF CopiesOK, Counted
<1>2. ASSUME NEW t \in Tab PROVE CopiesOK'
  <2>1. queue' = [queue EXCEPT ![t] = queue[t]]
    BY DEF IInv, TypeOK
  <2>2. KeyOnce(unsent') /\ ToSet(unsent') = ToSet(unsent)
    BY DEF CopiesOK
  <2> QED BY <2>1, <2>2, QuietCopies
<1> QED BY <1>1, <1>2

LEMMA VisibilityCopies ==
  ASSUME IInv, CopiesOK, NEW t \in Tab, Visibility(t)
  PROVE  CopiesOK'
<1>1. queue = [queue EXCEPT ![t] = queue[t]]
  BY DEF IInv, TypeOK
<1>2. CASE UNCHANGED <<queue, unsent, keys, sends>>
  BY <1>2, StillCopies
<1>3. CASE Load(t) \/ Show(t)
  <2>1. CASE unsent' = Remaining(unsent) /\ FlushCall(t, Restored(queue[t], unsent))
    BY <2>1, RestoredCopies DEF Remaining
  <2> QED BY <1>2, <1>3, <2>1 DEF Load, Show, Resend
<1>4. CASE \E ended \in BOOLEAN : Unload(t, ended)
  BY <1>4, UnloadCopies
<1>5. CASE Ended(t)
  <2>1. KeyOnce(unsent') /\ ToSet(unsent') = ToSet(unsent)
    BY <1>5 DEF Ended, CopiesOK
  <2> QED BY <1>5, <2>1, QuietCopies DEF Ended
<1>6. CASE FetchAnswered(t)
  <2>1. PICK gone : unsent' = Without(unsent, gone)
    BY <1>6 DEF FetchAnswered
  <2>2. KeyOnce(unsent') /\ ToSet(unsent') \subseteq ToSet(unsent)
    <3>1. unsent \in Seq(Chunk) /\ KeyOnce(unsent)
      BY DEF IInv, TypeOK, CopiesOK
    <3> QED BY <2>1, <3>1, WithoutIs
  <2>3. queue' = [queue EXCEPT ![t] = queue[t]] /\ UNCHANGED <<keys, sends>>
    BY <1>1, <1>6 DEF FetchAnswered
  <2> QED BY <2>2, <2>3, QuietCopies
<1> QED BY <1>2, <1>3, <1>4, <1>5, <1>6 DEF Visibility, Hide, Leave, Discard

LEMMA CopiesStep == IInv /\ CopiesOK /\ [Next]_vars => CopiesOK'
<1> SUFFICES ASSUME IInv, CopiesOK, [Next]_vars PROVE CopiesOK'
  OBVIOUS
<1>1. ASSUME NEW t \in Tab, Deliver(t) PROVE CopiesOK'
  BY <1>1, CaptureCopies, FlushCopies, AnswerCopies DEF Deliver
<1>2. ASSUME NEW t \in Tab, Visibility(t) PROVE CopiesOK'
  BY <1>2, VisibilityCopies
<1>3. ASSUME NEW t \in Tab, Close(t) PROVE CopiesOK'
  <2>1. CASE ShutdownEnds(t)
    BY <2>1, StillCopies DEF ShutdownEnds
  <2> QED BY <1>3, <2>1, FlushCopies DEF Close
<1>4. CASE UNCHANGED vars \/ ServerReceives
  BY <1>4, StillCopies DEF vars, ServerReceives
<1> QED BY <1>1, <1>2, <1>3, <1>4 DEF Next

LEMMA CopiesInit == Init => CopiesOK
<1> SUFFICES ASSUME Init PROVE CopiesOK
  OBVIOUS
<1>1. Empty.retry = {} /\ Empty.work = {} /\ Empty.sending = {} /\ \A t \in Tab : queue[t] = Empty
  BY DEF Init, Empty
<1>2. Single(Empty) /\ Chunks(Empty) = {} /\ ChunkKeys(Empty) = {}
  BY <1>1, KeysInUnion DEF Single, ChunkKeys, Chunks, Draining, OneKey
<1>3. ToSet(unsent) = {} /\ KeyOnce(unsent)
  BY DEF Init, ToSet, KeyOnce
<1>4. \A k \in Key : sends[k] = 0 /\ 0 <= MaxAttempts
  BY ConstantsOK DEF Init
<1> QED BY <1>1, <1>2, <1>3, <1>4, KeysInUnion DEF CopiesOK, Counted

LEMMA CopiesInvariance == Spec => [](IInv /\ CopiesOK)
<1>1. Init => IInv /\ CopiesOK
  BY InitInvariant, CopiesInit
<1>2. IInv /\ CopiesOK /\ [Next]_vars => (IInv /\ CopiesOK)'
  BY Step, CopiesStep
<1> QED BY <1>1, <1>2, PTL DEF Spec

\* However the pages of a site are hidden, shown, left, discarded and loaded, a
\* chunk is in the queue of one page or in the stored list, never in two places
\* (takeAll and takeUnsent empty what they read).
THEOREM OnePlaceEach == Spec => []OneCopy
<1>1. IInv /\ CopiesOK => OneCopy
  <2> SUFFICES ASSUME IInv, CopiesOK PROVE OneCopy
    OBVIOUS
  <2>1. \A t \in Tab : Places[t] = Chunks(queue[t])
    BY DEF Places, Chunks
  <2>2. \A t \in Tab : \A c \in Chunks(queue[t]) :
          c.key \in ChunkKeys(queue[t]) /\ c.key \notin KeysIn(ToSet(unsent))
    BY KeysInUnion DEF CopiesOK, ChunkKeys
  <2>3. ASSUME NEW t \in Tab, NEW u \in Tab, NEW c \in Chunks(queue[t]), NEW d \in Chunks(queue[u]), c.key = d.key
        PROVE  t = u /\ c = d
    <3>1. t = u
      BY <2>2, <2>3 DEF CopiesOK
    <3>2. OneKey(Chunks(queue[t]))
      <4>1. Single(queue[t])
        BY DEF CopiesOK
      <4>2. OneKey(Draining(queue[t]))
        BY <4>1, JoinOneKey DEF Single, Draining
      <4> QED BY <4>1, <4>2, JoinOneKey DEF Single, Chunks
    <3> QED BY <2>3, <3>1, <3>2 DEF OneKey
  <2>4. KeyOnce(unsent)
    BY DEF CopiesOK
  <2> QED BY <2>1, <2>2, <2>3, <2>4 DEF OneCopy, KeyOnce
<1> QED BY <1>1, CopiesInvariance, PTL

\* The queues of all pages together send a chunk at most MaxAttempts times: it
\* takes its attempts along into the storage and out of it (LIMITS.MAX_ATTEMPTS).
THEOREM AttemptsTravel == Spec => []SendsBound
<1>1. CopiesOK => SendsBound
  BY DEF CopiesOK, SendsBound
<1> QED BY <1>1, CopiesInvariance, PTL

=============================================================================
