------------------------- MODULE ThreadedQueueProofs -------------------------
(***************************************************************************)
(* Proofs about ThreadedQueue, for every number of threads and every value *)
(* of the other constants.                                                 *)
(***************************************************************************)
EXTENDS ThreadedQueue, NaturalsInduction, WellFoundedInduction, TLAPS

(***************************************************************************)
(* The items of a set of chunks                                            *)
(***************************************************************************)
Apart(chunks) == \A c, d \in chunks : c # d => c.items \cap d.items = {}

LEMMA ItemsInBase == ItemsIn({}) = {} /\ \A c : ItemsIn({c}) = c.items
  BY DEF ItemsIn

LEMMA ItemsInUnion ==
  ASSUME NEW A, NEW B
  PROVE  ItemsIn(A \cup B) = ItemsIn(A) \cup ItemsIn(B)
  BY DEF ItemsIn

LEMMA ItemsInType ==
  ASSUME NEW S \in SUBSET Chunk
  PROVE  ItemsIn(S) \in SUBSET Item
  BY DEF ItemsIn, Chunk

LEMMA ApartSplit ==
  ASSUME NEW S, NEW T, T \subseteq S, Apart(S)
  PROVE  /\ Apart(T) /\ Apart(S \ T)
         /\ ItemsIn(T) \cap ItemsIn(S \ T) = {}
         /\ ItemsIn(S) = ItemsIn(T) \cup ItemsIn(S \ T)
  BY DEF ItemsIn, Apart

LEMMA ApartUnion ==
  ASSUME NEW A, NEW B, Apart(A), Apart(B), ItemsIn(A) \cap ItemsIn(B) = {}
  PROVE  Apart(A \cup B)
  BY DEF ItemsIn, Apart

LEMMA ApartOne == Apart({}) /\ \A c : Apart({c})
  BY DEF Apart

\* A chunk that waits for a retry holds what it held.
LEMMA AgainType ==
  ASSUME NEW c \in Chunk, NEW delay \in Nat, NEW n \in Nat
  PROVE  LET again == [c EXCEPT !.wait = delay, !.stamp = n]
         IN  again \in Chunk /\ again.items = c.items /\ again.attempts = c.attempts
  BY DEF Chunk

\* A cut puts every item into exactly one new chunk.
LEMMA CutsPartition ==
  ASSUME NEW p \in SUBSET Item, NEW fresh \in Cuts(p)
  PROVE  /\ fresh \in SUBSET Chunk
         /\ \A c \in fresh : c.attempts = 0
         /\ Apart(fresh)
         /\ ItemsIn(fresh) = p
<1>1. PICK Q \in SUBSET (SUBSET p \ {{}}) :
        /\ UNION Q = p
        /\ \A s, u \in Q : s # u => s \cap u = {}
        /\ fresh = {[items |-> s, attempts |-> 0, wait |-> 0, stamp |-> 0] : s \in Q}
  BY DEF Cuts
<1>2. fresh \in SUBSET Chunk
  BY <1>1 DEF Chunk
<1>3. \A c \in fresh : c.attempts = 0 /\ c.items \in Q
  BY <1>1
<1>4. Apart(fresh)
  BY <1>1 DEF Apart
<1>5. \A s \in Q : \E c \in fresh : c.items = s
  <2> TAKE s \in Q
  <2> DEFINE c == [items |-> s, attempts |-> 0, wait |-> 0, stamp |-> 0]
  <2>1. c \in fresh /\ c.items = s
    BY <1>1
  <2> QED BY <2>1
<1>6. ItemsIn(fresh) = p
  BY <1>1, <1>3, <1>5 DEF ItemsIn
<1> QED BY <1>2, <1>3, <1>4, <1>6

(***************************************************************************)
(* Times and hands                                                         *)
(***************************************************************************)

LEMMA LaterType ==
  ASSUME NEW m \in Nat, NEW n \in Nat
  PROVE  Later(m) \in Nat /\ (m <= n => Later(m) <= Later(n))
  BY DEF Later

\* A set of natural numbers that is not empty has a least element.
LEMMA Least ==
  ASSUME NEW W \in SUBSET Nat, W # {}
  PROVE  \E x \in W : \A y \in W : x <= y
<1>1. IsWellFoundedOn(OpToRel(<, Nat), Nat)
  BY NatLessThanWellFounded
<1>2. PICK x \in W : \A y \in W : ~ (<<y, x>> \in OpToRel(<, Nat))
  BY <1>1, WFMin
<1>3. \A y \in W : x <= y
  <2> TAKE y \in W
  <2>1. ~ (y < x)
    BY <1>2 DEF OpToRel
  <2> QED BY <2>1
<1> QED BY <1>3

LEMMA SoonestFound ==
  ASSUME NEW at \in Nat, retry \in SUBSET Chunk
  PROVE  Soonest(at) \in 0 .. at /\ \A c \in retry : Soonest(at) <= c.wait
<1> DEFINE W == {c.wait : c \in retry} \cup {at}
<1>1. W \in SUBSET Nat /\ W # {}
  BY DEF Chunk
<1>2. PICK x \in W : \A y \in W : x <= y
  <2> HIDE DEF W
  <2> QED BY <1>1, Least
<1>3. x \in 0 .. at /\ \A c \in retry : x <= c.wait
  BY <1>1, <1>2
<1>4. x = at \/ \E c \in retry : x = c.wait
  BY <1>2
<1> QED BY <1>3, <1>4 DEF Soonest

LEMMA HandChanges ==
  ASSUME NEW t \in App, NEW S, hand \in [App -> SUBSET Item],
         \A u \in App : u # t => hand[u] \cap hand[t] = {},
         hand' = [hand EXCEPT ![t] = S]
  PROVE  InHand' = (InHand \ hand[t]) \cup S
  BY DEF InHand

(***************************************************************************)
(* Types                                                                   *)
(***************************************************************************)

LEMMA ThreadsDiffer ==
  /\ Worker \in Thread /\ Closer \in Thread /\ Worker # Closer
  /\ \A t \in App : t \in Thread /\ t # Worker /\ t # Closer
  /\ \A t \in Thread : t # None
  BY ConstantsOK DEF Thread, Worker, Closer, None

LEMMA InitType == Init => TypeOK
<1> SUFFICES ASSUME Init PROVE TypeOK
  OBVIOUS
<1>1. /\ pc \in [Thread -> AppPc \cup WorkerPc \cup CloserPc]
      /\ \A t \in App : pc[t] \in AppPc
      /\ pc[Worker] \in WorkerPc /\ pc[Closer] \in CloserPc
  BY ThreadsDiffer DEF Init, AppPc, WorkerPc, CloserPc
<1>2. hand \in [App -> SUBSET Item] /\ promised \in [Thread -> SUBSET Item]
  BY DEF Init
<1>3. sdk \in Sdks /\ {closed, stop, stuck} \subseteq BOOLEAN /\ drainer \in Thread \cup {None}
  BY DEF Init
<1>4. {wake, alarm, stamp, deadline, nap, captures, forks} \subseteq Nat
  BY DEF Init
<1>5. {pending, overflow, leftOver, delivered, reported, taken} \subseteq SUBSET Item
  BY DEF Init
<1>6. {retry, work, inFlight} \subseteq SUBSET Chunk
  BY DEF Init
<1> QED BY <1>1, <1>2, <1>3, <1>4, <1>5, <1>6 DEF TypeOK

LEMMA TypeStep == TypeOK /\ [Next]_vars => TypeOK'
<1> SUFFICES ASSUME TypeOK, [Next]_vars PROVE TypeOK'
  OBVIOUS
<1> USE ConstantsOK, ThreadsDiffer
<1>1. ASSUME NEW t \in App, CaptureBegins(t) PROVE TypeOK'
  BY <1>1 DEF CaptureBegins, TypeOK, Goes, Item, AppPc, WorkerPc, CloserPc, queueVars,
              drainVars, workerVars, closerVars, historyVars
<1>2. ASSUME NEW t \in App, CaptureEnds(t) PROVE TypeOK'
  <2>1. pending' \in SUBSET Item /\ overflow' \in SUBSET Item /\ wake' \in Nat
    BY <1>2 DEF CaptureEnds, Bounded, Signalled, TypeOK
  <2> QED BY <1>2, <2>1 DEF CaptureEnds, TypeOK, Goes, AppPc, WorkerPc, CloserPc, drainVars,
                            closerVars, historyVars, boundVars
<1>3. ASSUME NEW t \in App, FlushCalled(t) PROVE TypeOK'
  BY <1>3 DEF FlushCalled, TypeOK, Goes, AppPc, WorkerPc, CloserPc, queueVars, drainVars,
              workerVars, closerVars, boundVars
<1>4. ASSUME NEW t \in App, Fork(t) PROVE TypeOK'
  <2>1. ItemsIn(retry \cup work \cup inFlight) \in SUBSET Item
    BY ItemsInType DEF TypeOK
  <2>2. UNION {hand[u] : u \in App} \in SUBSET Item
    BY DEF TypeOK
  <2>3. taken' \in SUBSET Item
    BY <1>4, <2>1, <2>2 DEF Fork, TypeOK
  <2>4. pc' \in [Thread -> AppPc \cup WorkerPc \cup CloserPc]
    BY <1>4 DEF Fork, AppPc, WorkerPc, CloserPc
  <2>5. /\ \A u \in App : pc'[u] \in AppPc
        /\ pc'[Worker] \in WorkerPc /\ pc'[Closer] \in CloserPc
    BY <1>4 DEF Fork, AppPc, WorkerPc, CloserPc
  <2>6. hand' \in [App -> SUBSET Item] /\ promised' \in [Thread -> SUBSET Item]
    BY <1>4 DEF Fork
  <2>7. {wake, alarm, stamp, deadline, nap, captures, forks}' \subseteq Nat
    BY <1>4 DEF Fork, TypeOK, closerVars
  <2>8. {pending, overflow, leftOver, delivered, reported, taken}' \subseteq SUBSET Item
    <3>1. pending' = {} /\ UNCHANGED <<overflow, leftOver, delivered, reported>>
      BY <1>4 DEF Fork, closerVars
    <3>2. {overflow, leftOver, delivered, reported} \subseteq SUBSET Item
      BY DEF TypeOK
    <3> QED BY ONLY <2>3, <3>1, <3>2
  <2>9. /\ sdk' \in Sdks /\ {closed, stop, stuck}' \subseteq BOOLEAN
        /\ {retry, work, inFlight}' \subseteq SUBSET Chunk /\ drainer' \in Thread \cup {None}
    BY <1>4 DEF Fork, TypeOK
  <2> QED BY ONLY <2>4, <2>5, <2>6, <2>7, <2>8, <2>9 DEF TypeOK
<1>5. ASSUME NEW t \in Thread, FlushStarts(t) PROVE TypeOK'
  <2>1. work' \in SUBSET Chunk /\ retry' \in SUBSET Chunk /\ stamp' \in Nat
        /\ pending' \in SUBSET Item
    BY <1>5, CutsPartition DEF FlushStarts, TypeOK, Due, NotDue
  <2> QED BY <1>5, <2>1 DEF FlushStarts, TypeOK, workerVars, closerVars, boundVars
<1>6. ASSUME NEW t \in Thread, FlushEnds(t) PROVE TypeOK'
  BY <1>6 DEF FlushEnds, TypeOK, Goes, AppPc, WorkerPc, CloserPc, queueVars, workerVars,
              closerVars, boundVars, Thread
<1>7. CASE SendStarts
  <2>1. \A c \in Chunk : [c EXCEPT !.attempts = @ + 1] \in Chunk
    BY DEF Chunk
  <2> QED BY <1>7, <2>1 DEF SendStarts, TypeOK, queueVars, workerVars, closerVars, historyVars,
                            boundVars
<1>8. CASE SendAccepted
  BY <1>8, ItemsInType DEF SendAccepted, AnswerUnchanged, TypeOK, closerVars, boundVars
<1>9. CASE SendRejected
  BY <1>9, ItemsInType DEF SendRejected, AnswerUnchanged, TypeOK, closerVars, boundVars
<1>10. CASE SendFailed
  <2>1. PICK c \in inFlight :
          \/ /\ reported' = reported \cup c.items
             /\ UNCHANGED <<stuck, retry, stamp, wake>>
          \/ /\ \E delay \in 0 .. MaxDelay :
                  LET grown == retry \cup {[c EXCEPT !.wait = delay, !.stamp = stamp + 1]}
                  IN  /\ retry' = grown \ Surplus(grown)
                      /\ reported' = reported \cup ItemsIn(Surplus(grown))
                      /\ stuck' = (HandlerBlocks /\ Surplus(grown) # {})
             /\ stamp' = stamp + 1
             /\ wake' = RetrySignal
    BY <1>10 DEF SendFailed
  <2>2. c \in Chunk
    BY DEF TypeOK
  <2>3. \A delay \in 0 .. MaxDelay : [c EXCEPT !.wait = delay, !.stamp = stamp + 1] \in Chunk
    <3> TAKE delay \in 0 .. MaxDelay
    <3>1. stamp + 1 \in Nat /\ delay \in Nat
      BY DEF TypeOK
    <3> QED BY <2>2, <3>1, AgainType
  <2>4. \A r : Surplus(r) \subseteq r
    BY DEF Surplus
  <2>5. retry' \in SUBSET Chunk /\ reported' \in SUBSET Item /\ stuck' \in BOOLEAN
    <3>1. CASE UNCHANGED <<stuck, retry, stamp, wake>> /\ reported' = reported \cup c.items
      BY <3>1, <2>2 DEF TypeOK, Chunk
    <3>2. ASSUME NEW delay \in 0 .. MaxDelay, NEW grown,
                 grown = retry \cup {[c EXCEPT !.wait = delay, !.stamp = stamp + 1]},
                 retry' = grown \ Surplus(grown),
                 reported' = reported \cup ItemsIn(Surplus(grown)),
                 stuck' = (HandlerBlocks /\ Surplus(grown) # {})
          PROVE  retry' \in SUBSET Chunk /\ reported' \in SUBSET Item /\ stuck' \in BOOLEAN
      <4>1. grown \in SUBSET Chunk /\ Surplus(grown) \in SUBSET Chunk
        BY <3>2, <2>3, <2>4 DEF TypeOK
      <4> QED BY <3>2, <4>1, ItemsInType DEF TypeOK
    <3> QED BY <2>1, <3>1, <3>2
  <2>6. stamp' \in Nat /\ wake' \in Nat
    <3>1. stamp' \in {stamp, stamp + 1} /\ wake' \in {wake, RetrySignal}
      BY <2>1
    <3> QED BY <3>1 DEF TypeOK, RetrySignal, Signalled
  <2>7. inFlight' = {} /\ AnswerUnchanged /\ UNCHANGED delivered
    BY <1>10 DEF SendFailed
  <2> QED BY <2>5, <2>6, <2>7 DEF AnswerUnchanged, TypeOK, closerVars, boundVars
<1>11. CASE WorkerRuns
  <2>1. Soonest(Interval) \in Nat
    BY SoonestFound DEF TypeOK
  <2>2. alarm' \in Nat /\ wake' \in Nat
    BY <1>11, <2>1 DEF WorkerRuns, WorkerLooks, WorkerWakes, WorkerStops, WorkerCancelled, TypeOK
  <2> QED BY <1>11, <2>2 DEF WorkerRuns, WorkerLooks, WorkerWakes, WorkerStops, WorkerCancelled,
               WorkerUnchanged, Goes, TypeOK, AppPc, WorkerPc, CloserPc, queueVars, drainVars,
               closerVars, historyVars, boundVars
<1>12. CASE ShutdownCalled
  <2>1. ItemsIn(retry \cup work \cup inFlight) \in SUBSET Item
    BY ItemsInType DEF TypeOK
  <2>2. promised' \in [Thread -> SUBSET Item]
    BY <1>12, <2>1 DEF ShutdownCalled, TypeOK
  <2>3. /\ pc' \in [Thread -> AppPc \cup WorkerPc \cup CloserPc]
        /\ \A t \in App : pc'[t] \in AppPc
        /\ pc'[Worker] \in WorkerPc /\ pc'[Closer] \in CloserPc
    BY <1>12 DEF ShutdownCalled, Goes, TypeOK, AppPc, WorkerPc, CloserPc
  <2>4. {wake, alarm, stamp, deadline, nap, captures, forks}' \subseteq Nat
    BY <1>12 DEF ShutdownCalled, TypeOK, queueVars, boundVars
  <2> QED BY <1>12, <2>2, <2>3, <2>4 DEF ShutdownCalled, TypeOK, queueVars, drainVars, boundVars
<1>13. CASE CloserRuns
  <2>1. Soonest(MaxDelay) \in Nat
    BY SoonestFound DEF TypeOK
  <2>2. ItemsIn(retry) \in SUBSET Item
    BY ItemsInType DEF TypeOK
  <2>3. deadline' \in Nat /\ nap' \in Nat /\ leftOver' \in SUBSET Item
    BY <1>13, <2>1, <2>2 DEF CloserRuns, WorkerJoined, ShutdownGivesUp, ShutdownChecks,
         ShutdownWakes, ShutdownCounts, closerVars, TypeOK
  <2> QED BY <1>13, <2>3 DEF CloserRuns, WorkerJoined, ShutdownGivesUp, ShutdownChecks,
         ShutdownWakes, ShutdownCounts, CloserUnchanged, Goes, TypeOK, AppPc, WorkerPc, CloserPc,
         queueVars, drainVars, workerVars, historyVars, boundVars
<1>14. CASE Tick
  <2>1. \A c \in Chunk : [c EXCEPT !.wait = Later(@)] \in Chunk
    BY LaterType DEF Chunk
  <2> QED BY <1>14, <2>1, LaterType DEF Tick, TypeOK, drainVars, historyVars, boundVars
<1>15. CASE UNCHANGED vars
  BY <1>15 DEF vars, TypeOK, queueVars, drainVars, workerVars, closerVars, historyVars, boundVars
<1> QED BY <1>1, <1>2, <1>3, <1>4, <1>5, <1>6, <1>7, <1>8, <1>9, <1>10, <1>11, <1>12, <1>13,
           <1>14, <1>15 DEF Next, Answer

\* Every variable keeps its type.
THEOREM TypeCorrect == Spec => []TypeOK
  BY InitType, TypeStep, PTL DEF Spec

(***************************************************************************)
(* The inductive invariant                                                 *)
(***************************************************************************)

\* ItemsOnce, with the places of an item side by side.
Places ==
  LET r == ItemsIn(retry)
      w == ItemsIn(work)
      f == ItemsIn(inFlight)
  IN  /\ 1 .. captures = InHand \cup pending \cup overflow \cup r \cup w \cup f \cup Settled
      /\ InHand \cap (pending \cup overflow \cup r \cup w \cup f \cup Settled) = {}
      /\ pending \cap (overflow \cup r \cup w \cup f \cup Settled) = {}
      /\ overflow \cap (r \cup w \cup f \cup Settled) = {}
      /\ r \cap (w \cup f \cup Settled) = {}
      /\ w \cap (f \cup Settled) = {}
      /\ f \cap Settled = {}
      /\ delivered \cap (reported \cup taken) = {} /\ reported \cap taken = {}
      /\ Apart(retry) /\ Apart(work) /\ Apart(inFlight)

\* A thread holds an item only while it captures, and no two hold the same.
HandsOK ==
  /\ \A t \in App : pc[t] # "capturing" => hand[t] = {}
  /\ \A t, u \in App : t # u => hand[t] \cap hand[u] = {}

\* Chunks are out only while a thread holds the drain lock; it is in flush(),
\* sends one at a time, and none once it waits for itself.
DrainOK ==
  /\ drainer = None => work = {} /\ inFlight = {}
  /\ drainer # None => pc[drainer] = "flushing"
  /\ \A c, d \in inFlight : c = d
  /\ stuck => inFlight = {}

\* What waits to be sent may be sent once more.
AttemptsOK ==
  /\ \A c \in retry \cup work : c.attempts < MaxAttempts
  /\ \A c \in inFlight : c.attempts <= MaxAttempts

\* A thread's promise is about items that were queued when it was made; what
\* is captured later is another item, so the queue a round emptied stays
\* empty of them.
PromiseOK ==
  \A t \in Thread :
    /\ promised[t] \subseteq 1 .. captures
    /\ promised[t] \cap InHand = {}
    /\ drainer = t /\ ~ stuck => promised[t] \cap pending = {}

\* Shutdown has taken what was queued when it was called.
ShutdownRan ==
  \/ pc[Closer] \in {"checking", "sleeping"}
  \/ pc[Closer] \in {"counting", "done"} /\ ~ (sdk = "dotnet" /\ deadline = 0)
  \/ drainer = Closer /\ ~ stuck

CloserOK ==
  /\ ShutdownRan => promised[Closer] \cap (pending \cup overflow) = {}
  /\ sdk # "python" /\ pc[Closer] \notin {"idle", "joining"} => pc[Worker] = "gone"

Account == HandsOK /\ DrainOK /\ Places /\ AttemptsOK /\ PromiseOK /\ CloserOK
IInv == TypeOK /\ Account

LEMMA PlacesDecide == TypeOK /\ Places => ItemsOnce
<1> SUFFICES ASSUME TypeOK, Places PROVE NothingLost /\ NothingTwice
  BY DEF ItemsOnce
<1> DEFINE r == ItemsIn(retry)
           w == ItemsIn(work)
           f == ItemsIn(inFlight)
           parts == <<InHand, pending, overflow, r, w, f, Settled>>
           chunks == retry \cup work \cup inFlight
<1>1. InDrain = w \cup f
  BY ItemsInUnion DEF InDrain
<1>2. NothingLost
  BY <1>1 DEF NothingLost, Places
<1>3. \A c \in chunks : \/ c \in retry /\ c.items \subseteq r
                        \/ c \in work /\ c.items \subseteq w
                        \/ c \in inFlight /\ c.items \subseteq f
  BY DEF ItemsIn
<1>4. /\ Apart(retry) /\ Apart(work) /\ Apart(inFlight)
      /\ r \cap w = {} /\ r \cap f = {} /\ w \cap f = {}
  BY DEF Places
<1>5. \A c, d \in chunks : c # d => c.items \cap d.items = {}
  <2> HIDE DEF r, w, f
  <2> QED BY <1>3, <1>4 DEF Apart
<1>6. \A m, n \in 1 .. 7 : m < n => parts[m] \cap parts[n] = {}
  <2> TAKE m \in 1 .. 7, n \in 1 .. 7
  <2> HAVE m < n
  <2> HIDE DEF r, w, f
  <2>1. /\ InHand \cap (pending \cup overflow \cup r \cup w \cup f \cup Settled) = {}
        /\ pending \cap (overflow \cup r \cup w \cup f \cup Settled) = {}
        /\ overflow \cap (r \cup w \cup f \cup Settled) = {}
        /\ r \cap (w \cup f \cup Settled) = {}
        /\ w \cap (f \cup Settled) = {}
        /\ f \cap Settled = {}
    BY DEF Places, r, w, f
  <2>2. CASE m = 1
    BY <2>1, <2>2
  <2>3. CASE m = 2
    BY <2>1, <2>3
  <2>4. CASE m = 3
    BY <2>1, <2>4
  <2>5. CASE m = 4
    BY <2>1, <2>5
  <2>6. CASE m = 5
    BY <2>1, <2>6
  <2>7. CASE m = 6
    BY <2>1, <2>7
  <2> QED BY <2>2, <2>3, <2>4, <2>5, <2>6, <2>7
<1>7. \A m, n \in DOMAIN parts : m # n => parts[m] \cap parts[n] = {}
  <2>1. DOMAIN parts = 1 .. 7
    OBVIOUS
  <2> HIDE DEF parts
  <2>2. \A m, n \in 1 .. 7 : m # n => parts[m] \cap parts[n] = {}
    <3> TAKE m \in 1 .. 7, n \in 1 .. 7
    <3> HAVE m # n
    <3>1. m < n \/ n < m
      OBVIOUS
    <3> QED BY <1>6, <3>1
  <2> QED BY <2>1, <2>2
<1>8. delivered \cap (reported \cup taken) = {} /\ reported \cap taken = {}
  BY DEF Places
<1> QED BY <1>2, <1>5, <1>7, <1>8 DEF NothingTwice

LEMMA InitInvariant == Init => IInv
<1> SUFFICES ASSUME Init PROVE IInv
  OBVIOUS
<1>1. TypeOK
  BY InitType
<1>2. InHand = {} /\ Settled = {} /\ \A t \in App : hand[t] = {}
  BY DEF Init, InHand, Settled
<1>3. HandsOK /\ AttemptsOK /\ DrainOK
  BY <1>2 DEF Init, HandsOK, AttemptsOK, DrainOK
<1>4. Places
  BY <1>2, ItemsInBase, ApartOne DEF Init, Places
<1>5. PromiseOK
  BY <1>2 DEF Init, PromiseOK
<1>6. CloserOK
  BY ThreadsDiffer DEF Init, CloserOK, ShutdownRan
<1> QED BY <1>1, <1>3, <1>4, <1>5, <1>6 DEF IInv, Account

(***************************************************************************)
(* Steps of the application                                                *)
(***************************************************************************)

LEMMA CaptureBeginsStep ==
  ASSUME IInv, NEW t \in App, CaptureBegins(t)
  PROVE  Account'
<1> USE DEF IInv, Account
<1>1. /\ pc[t] = "idle" /\ hand[t] = {}
      /\ captures' = captures + 1
      /\ hand' = [hand EXCEPT ![t] = {captures + 1}]
      /\ pc' = [pc EXCEPT ![t] = "capturing"]
      /\ UNCHANGED <<sdk, closed, stuck, pending, overflow, retry, drainer, work, inFlight,
                     stop, wake, alarm, deadline, promised, delivered, reported, taken>>
  BY DEF CaptureBegins, Goes, HandsOK, queueVars, drainVars, workerVars, closerVars, historyVars
<1>2. captures \in Nat /\ ~ (captures + 1 \in 1 .. captures)
      /\ 1 .. captures + 1 = 1 .. captures \cup {captures + 1}
  BY DEF TypeOK
<1>3. InHand' = InHand \cup {captures + 1}
  <2>1. \A u \in App : hand[u] \cap hand[t] = {}
    BY <1>1
  <2> QED BY <1>1, <2>1, HandChanges DEF TypeOK
<1>4. \A u \in App : hand[u] \subseteq 1 .. captures
  BY DEF Places, InHand
<1>5. HandsOK'
  <2>1. \A u \in App : /\ u = t => hand'[u] = {captures + 1} /\ pc'[u] = "capturing"
                       /\ u # t => hand'[u] = hand[u] /\ pc'[u] = pc[u]
    BY <1>1, ThreadsDiffer DEF TypeOK
  <2>2. \A u \in App : ~ (captures + 1 \in hand[u])
    BY <1>2, <1>4
  <2> QED BY <2>1, <2>2 DEF HandsOK
<1>6. DrainOK'
  BY <1>1, ThreadsDiffer DEF DrainOK, TypeOK
<1>7. Places'
  BY <1>1, <1>2, <1>3 DEF Places, Settled
<1>8. AttemptsOK'
  BY <1>1 DEF AttemptsOK
<1>9. PromiseOK'
  BY <1>1, <1>2, <1>3 DEF PromiseOK
<1>10. CloserOK'
  BY <1>1, ThreadsDiffer DEF CloserOK, ShutdownRan, TypeOK
<1> QED BY <1>5, <1>6, <1>7, <1>8, <1>9, <1>10

LEMMA CaptureEndsStep ==
  ASSUME IInv, NEW t \in App, CaptureEnds(t)
  PROVE  Account'
<1> USE DEF IInv, Account
<1>1. PICK kept \in SUBSET (pending \cup hand[t]) :
        /\ pending' = kept
        /\ overflow' = overflow \cup ((pending \cup hand[t]) \ kept)
  BY DEF CaptureEnds, Bounded
<1>2. /\ pc[t] = "capturing"
      /\ hand' = [hand EXCEPT ![t] = {}]
      /\ pc' = [pc EXCEPT ![t] = "idle"]
      /\ UNCHANGED <<sdk, closed, stuck, retry, drainer, work, inFlight, deadline, promised,
                     delivered, reported, taken, captures>>
  BY DEF CaptureEnds, Goes, drainVars, closerVars, historyVars, boundVars
<1>3. InHand' = InHand \ hand[t] /\ hand[t] \subseteq InHand
  <2>1. \A u \in App : u # t => hand[u] \cap hand[t] = {}
    BY DEF HandsOK
  <2>2. InHand' = (InHand \ hand[t]) \cup {}
    BY <1>2, <2>1, HandChanges DEF TypeOK
  <2> QED BY <2>2 DEF InHand
<1>4. HandsOK'
  BY <1>2 DEF HandsOK, TypeOK
<1>5. DrainOK'
  BY <1>2, ThreadsDiffer DEF DrainOK, TypeOK
<1>6. Places'
  BY <1>1, <1>2, <1>3 DEF Places, Settled
<1>7. AttemptsOK'
  BY <1>2 DEF AttemptsOK
<1>8. PromiseOK'
  BY <1>1, <1>2, <1>3 DEF PromiseOK
<1>9. CloserOK'
  <2>1. ShutdownRan' => ShutdownRan
    BY <1>2, ThreadsDiffer DEF ShutdownRan, TypeOK
  <2>2. promised[Closer] \cap hand[t] = {}
    BY <1>3, ThreadsDiffer DEF PromiseOK
  <2> QED BY <1>1, <1>2, <2>1, <2>2, ThreadsDiffer DEF CloserOK, TypeOK
<1> QED BY <1>4, <1>5, <1>6, <1>7, <1>8, <1>9

LEMMA FlushCalledStep ==
  ASSUME IInv, NEW t \in App, FlushCalled(t)
  PROVE  Account'
<1> USE DEF IInv, Account
<1>1. /\ pc[t] = "idle"
      /\ pc' = [pc EXCEPT ![t] = "flushing"]
      /\ promised' = [promised EXCEPT ![t] = pending]
      /\ UNCHANGED <<sdk, hand, closed, stuck, pending, overflow, retry, drainer, work, inFlight,
                     deadline, delivered, reported, taken, captures>>
  BY DEF FlushCalled, Goes, queueVars, drainVars, closerVars, boundVars
<1>2. InHand' = InHand /\ Settled' = Settled
  BY <1>1 DEF InHand, Settled
<1>3. drainer # t
  BY <1>1, ThreadsDiffer DEF DrainOK
<1>4. HandsOK'
  BY <1>1 DEF HandsOK, TypeOK
<1>5. DrainOK'
  BY <1>1, ThreadsDiffer DEF DrainOK, TypeOK
<1>6. Places' /\ AttemptsOK'
  BY <1>1, <1>2 DEF Places, AttemptsOK, Settled
<1>7. PromiseOK'
  <2>1. pending \subseteq 1 .. captures /\ pending \cap InHand = {}
    BY DEF Places
  <2> QED BY <1>1, <1>2, <1>3, <2>1, ThreadsDiffer DEF PromiseOK, TypeOK
<1>8. CloserOK'
  BY <1>1, ThreadsDiffer DEF CloserOK, ShutdownRan, TypeOK
<1> QED BY <1>4, <1>5, <1>6, <1>7, <1>8

LEMMA ForkStep ==
  ASSUME IInv, NEW t \in App, Fork(t)
  PROVE  Account'
<1> USE DEF IInv, Account
<1>1. /\ taken' = taken \cup pending \cup ItemsIn(retry \cup work \cup inFlight) \cup InHand
      /\ pc' = [u \in Thread |-> IF u = Worker THEN "looping" ELSE "idle"]
      /\ hand' = [u \in App |-> {}] /\ promised' = [u \in Thread |-> {}]
      /\ pending' = {} /\ retry' = {} /\ work' = {} /\ inFlight' = {}
      /\ drainer' = None /\ stuck' = FALSE
      /\ sdk = "python"
      /\ UNCHANGED <<sdk, closed, overflow, deadline, delivered, reported, captures>>
  BY DEF Fork, InHand, closerVars
<1>0. InHand' = {}
  BY <1>1 DEF InHand
<1>2. ItemsIn(retry \cup work \cup inFlight) = ItemsIn(retry) \cup ItemsIn(work) \cup ItemsIn(inFlight)
  BY DEF ItemsIn
<1>3. HandsOK' /\ DrainOK' /\ AttemptsOK'
  BY <1>1, ThreadsDiffer DEF HandsOK, DrainOK, AttemptsOK
<1>4. Places'
  BY <1>0, <1>1, <1>2, ItemsInBase, ApartOne DEF Places, Settled
<1>5. PromiseOK' /\ CloserOK'
  BY <1>1, ThreadsDiffer DEF PromiseOK, CloserOK, ShutdownRan
<1> QED BY <1>3, <1>4, <1>5

(***************************************************************************)
(* Steps of a round                                                        *)
(***************************************************************************)

LEMMA FlushStartsStep ==
  ASSUME IInv, NEW t \in Thread, FlushStarts(t)
  PROVE  Account'
<1> USE DEF IInv, Account
<1>1. /\ pc[t] = "flushing" /\ drainer = None /\ drainer' = t /\ ~ stuck
      /\ reported' = reported \cup overflow /\ overflow' = {}
      /\ UNCHANGED <<sdk, pc, hand, closed, inFlight, deadline, promised, delivered, taken,
                     captures>>
  BY DEF FlushStarts, Flushes, DrainFree, closerVars, boundVars
<1>2. work = {} /\ inFlight = {} /\ ItemsIn(work) = {} /\ ItemsIn(inFlight) = {}
  BY <1>1, ItemsInBase DEF DrainOK
<1>3. InHand' = InHand
  BY <1>1 DEF InHand
<1>4. HandsOK' /\ DrainOK'
  BY <1>1, <1>2, ThreadsDiffer DEF HandsOK, DrainOK
<1>5. CASE /\ stuck' = TRUE
           /\ UNCHANGED <<pending, retry, work>>
  <2>1. Places' /\ AttemptsOK'
    BY <1>1, <1>2, <1>3, <1>5 DEF Places, AttemptsOK, Settled
  <2>2. PromiseOK'
    BY <1>1, <1>3, <1>5 DEF PromiseOK
  <2>3. CloserOK'
    BY <1>1, <1>5, ThreadsDiffer DEF CloserOK, ShutdownRan
  <2> QED BY <1>4, <2>1, <2>2, <2>3
<1>6. CASE /\ \E fresh \in Cuts(pending) : work' = Due \cup fresh
           /\ retry' = NotDue /\ pending' = {}
           /\ UNCHANGED stuck
  <2>1. PICK fresh \in Cuts(pending) : work' = Due \cup fresh
    BY <1>6
  <2>2. /\ \A c \in fresh : c.attempts = 0
        /\ Apart(fresh) /\ ItemsIn(fresh) = pending
    BY CutsPartition DEF TypeOK
  <2>3. /\ Apart(Due) /\ Apart(retry')
        /\ ItemsIn(Due) \cap ItemsIn(retry') = {}
        /\ ItemsIn(retry) = ItemsIn(Due) \cup ItemsIn(retry')
    BY <1>6, ApartSplit DEF Due, NotDue, Places
  <2>4. ItemsIn(work') = ItemsIn(Due) \cup pending
    BY <2>1, <2>2, ItemsInUnion
  <2>5. Apart(work')
    BY <2>1, <2>2, <2>3, ApartUnion DEF Places
  <2>6. Places'
    <3> DEFINE r == ItemsIn(retry)
               d == ItemsIn(Due)
               n == ItemsIn(retry')
    <3>1. /\ 1 .. captures = InHand \cup pending \cup overflow \cup r \cup Settled
          /\ InHand \cap (pending \cup overflow \cup r \cup Settled) = {}
          /\ pending \cap (overflow \cup r \cup Settled) = {}
          /\ overflow \cap (r \cup Settled) = {} /\ r \cap Settled = {}
          /\ delivered \cap (reported \cup taken) = {} /\ reported \cap taken = {}
      BY <1>2, ItemsInBase DEF Places
    <3>2. d \cap n = {} /\ r = d \cup n
      BY <2>3
    <3>3. /\ ItemsIn(work') = d \cup pending /\ pending' = {} /\ InHand' = InHand
          /\ overflow' = {} /\ reported' = reported \cup overflow
          /\ ItemsIn(inFlight') = {} /\ UNCHANGED <<captures, delivered, taken>>
      BY <1>1, <1>2, <1>3, <1>6, <2>4
    <3>4. Settled' = Settled \cup overflow /\ overflow \cap delivered = {} /\ overflow \cap taken = {}
      BY <3>1, <3>3 DEF Settled
    <3>5. Apart(retry') /\ Apart(work') /\ Apart(inFlight')
      BY <1>1, <2>3, <2>5, <1>2, ApartOne
    <3> HIDE DEF r, d, n
    <3>6. /\ 1 .. captures = InHand \cup n \cup (d \cup pending) \cup (Settled \cup overflow)
          /\ InHand \cap (n \cup (d \cup pending) \cup Settled \cup overflow) = {}
          /\ n \cap ((d \cup pending) \cup Settled \cup overflow) = {}
          /\ (d \cup pending) \cap (Settled \cup overflow) = {}
          /\ delivered \cap ((reported \cup overflow) \cup taken) = {}
          /\ (reported \cup overflow) \cap taken = {}
      BY ONLY <3>1, <3>2, <3>4
    <3> QED BY ONLY <3>3, <3>4, <3>5, <3>6 DEF Places, n
  <2>7. AttemptsOK'
    BY <1>1, <1>2, <1>6, <2>1, <2>2, ConstantsOK DEF AttemptsOK, Due, NotDue
  <2>8. PromiseOK'
    BY <1>1, <1>3, <1>6 DEF PromiseOK
  <2>9. CloserOK'
    BY <1>1, <1>6, ThreadsDiffer DEF CloserOK, ShutdownRan
  <2> QED BY <1>4, <2>6, <2>7, <2>8, <2>9
<1> QED BY <1>5, <1>6 DEF FlushStarts

LEMMA FlushEndsStep ==
  ASSUME IInv, NEW t \in Thread, FlushEnds(t)
  PROVE  Account'
<1> USE DEF IInv, Account
<1>1. /\ drainer = t /\ ~ stuck /\ work = {} /\ inFlight = {}
      /\ drainer' = None
      /\ pc' = [pc EXCEPT ![t] = IF t \in App THEN "idle"
                                 ELSE IF t = Worker THEN "looping" ELSE "checking"]
      /\ promised' = IF t \in App THEN [promised EXCEPT ![t] = {}] ELSE promised
      /\ UNCHANGED <<sdk, hand, closed, stuck, pending, overflow, retry, work, inFlight,
                     deadline, delivered, reported, taken, captures>>
  BY DEF FlushEnds, RoundOver, Goes, queueVars, closerVars, boundVars
<1>2. InHand' = InHand /\ Settled' = Settled
  BY <1>1 DEF InHand, Settled
<1>3. pc[t] = "flushing"
  BY <1>1, ThreadsDiffer DEF DrainOK
<1>4. HandsOK'
  BY <1>1, <1>3 DEF HandsOK, TypeOK
<1>5. DrainOK'
  BY <1>1 DEF DrainOK
<1>6. Places' /\ AttemptsOK'
  BY <1>1, <1>2 DEF Places, AttemptsOK, Settled
<1>7. PromiseOK'
  BY <1>1, <1>2, ThreadsDiffer DEF PromiseOK, TypeOK
<1>8. CloserOK'
  <2>1. promised'[Closer] = promised[Closer]
    BY <1>1, ThreadsDiffer DEF TypeOK
  <2>2. pc'[Closer] = pc[Closer] \/ t = Closer
    BY <1>1, ThreadsDiffer DEF TypeOK
  <2>3. ShutdownRan' => ShutdownRan
    BY <1>1, <2>2, ThreadsDiffer DEF ShutdownRan
  <2>4. pc[Worker] # "gone" => pc'[Worker] # "gone"
    BY <1>1, ThreadsDiffer DEF TypeOK
  <2>5. pc[Worker] = "gone" => pc'[Worker] = "gone"
    BY <1>1, <1>3, ThreadsDiffer DEF TypeOK
  <2>6. pc'[Closer] \notin {"idle", "joining"} => pc[Closer] \notin {"idle", "joining"}
    BY <1>3, <2>2
  <2> QED BY <1>1, <2>1, <2>3, <2>5, <2>6 DEF CloserOK
<1> QED BY <1>4, <1>5, <1>6, <1>7, <1>8

LEMMA SendStartsStep ==
  ASSUME IInv, SendStarts
  PROVE  Account'
<1> USE DEF IInv, Account
<1> DEFINE Sent(c) == [c EXCEPT !.attempts = @ + 1]
<1>1. PICK c \in work : inFlight' = {Sent(c)} /\ work' = work \ {c}
  BY DEF SendStarts
<1>2. /\ drainer # None /\ ~ stuck /\ inFlight = {}
      /\ UNCHANGED <<sdk, pc, hand, closed, stuck, pending, overflow, retry, drainer,
                     deadline, promised, delivered, reported, taken, captures>>
  BY DEF SendStarts, queueVars, closerVars, historyVars, boundVars
<1>3. InHand' = InHand /\ Settled' = Settled
  BY <1>2 DEF InHand, Settled
<1>4. Sent(c).items = c.items /\ Sent(c).attempts = c.attempts + 1 /\ c.attempts \in Nat
  BY DEF TypeOK, Chunk
<1> HIDE DEF Sent
<1>5. HandsOK' /\ DrainOK'
  BY <1>1, <1>2 DEF HandsOK, DrainOK
<1>6. Places'
  <2>1. /\ ItemsIn(inFlight') = c.items /\ Apart(inFlight')
    BY <1>1, <1>4, ItemsInBase, ApartOne
  <2>2. /\ Apart(work')
        /\ c.items \cap ItemsIn(work') = {}
        /\ ItemsIn(work) = c.items \cup ItemsIn(work')
    <3>1. {c} \subseteq work /\ Apart(work) /\ ItemsIn({c}) = c.items
      BY ItemsInBase DEF Places
    <3>2. /\ Apart(work \ {c})
          /\ ItemsIn({c}) \cap ItemsIn(work \ {c}) = {}
          /\ ItemsIn(work) = ItemsIn({c}) \cup ItemsIn(work \ {c})
      BY <3>1, ApartSplit
    <3> QED BY <1>1, <3>1, <3>2
  <2>3. ItemsIn(inFlight) = {}
    BY <1>2, ItemsInBase
  <2> QED BY <1>2, <1>3, <2>1, <2>2, <2>3 DEF Places, Settled
<1>7. AttemptsOK'
  BY <1>1, <1>2, <1>4, ConstantsOK DEF AttemptsOK
<1>8. PromiseOK' /\ CloserOK'
  BY <1>2, <1>3 DEF PromiseOK, CloserOK, ShutdownRan
<1> QED BY <1>5, <1>6, <1>7, <1>8

LEMMA SendSettledStep ==
  ASSUME IInv, SendAccepted \/ SendRejected
  PROVE  Account'
<1> USE DEF IInv, Account
<1>1. /\ inFlight' = {} /\ inFlight # {}
      /\ \/ delivered' = delivered \cup ItemsIn(inFlight) /\ reported' = reported
         \/ reported' = reported \cup ItemsIn(inFlight) /\ delivered' = delivered
      /\ UNCHANGED <<sdk, pc, hand, closed, stuck, pending, overflow, retry, drainer, work,
                     deadline, promised, taken, captures>>
  BY DEF SendAccepted, SendRejected, AnswerUnchanged, closerVars, boundVars
<1>2. InHand' = InHand /\ Settled' = Settled \cup ItemsIn(inFlight)
  BY <1>1 DEF InHand, Settled
<1>3. HandsOK' /\ DrainOK' /\ AttemptsOK'
  BY <1>1 DEF HandsOK, DrainOK, AttemptsOK
<1>4. Places'
  BY <1>1, <1>2, ItemsInBase, ApartOne DEF Places, Settled
<1>5. PromiseOK' /\ CloserOK'
  BY <1>1, <1>2 DEF PromiseOK, CloserOK, ShutdownRan
<1> QED BY <1>3, <1>4, <1>5

LEMMA SendFailedStep ==
  ASSUME IInv, SendFailed
  PROVE  Account'
<1> USE DEF IInv, Account
<1>1. PICK c \in inFlight :
        \/ reported' = reported \cup c.items /\ UNCHANGED <<stuck, retry>>
        \/ /\ ~ OutOfAttempts(c)
           /\ \E delay \in 0 .. MaxDelay :
                LET grown == retry \cup {[c EXCEPT !.wait = delay, !.stamp = stamp + 1]}
                IN  /\ retry' = grown \ Surplus(grown)
                    /\ reported' = reported \cup ItemsIn(Surplus(grown))
                    /\ stuck' = (HandlerBlocks /\ Surplus(grown) # {})
  BY DEF SendFailed
<1>2. /\ inFlight' = {}
      /\ UNCHANGED <<sdk, pc, hand, closed, pending, overflow, drainer, work, deadline, promised,
                     delivered, taken, captures>>
  BY DEF SendFailed, AnswerUnchanged, closerVars, boundVars
<1>3. c \in Chunk /\ inFlight = {c} /\ ItemsIn(inFlight) = c.items /\ ~ stuck
  BY ItemsInBase DEF TypeOK, DrainOK
<1>4. InHand' = InHand /\ HandsOK' /\ DrainOK'
  BY <1>2 DEF InHand, HandsOK, DrainOK
<1>5. PromiseOK' /\ CloserOK'
  BY <1>2, <1>3, <1>4 DEF PromiseOK, CloserOK, ShutdownRan
<1>6. CASE reported' = reported \cup c.items /\ UNCHANGED <<stuck, retry>>
  <2>1. Places'
    BY <1>2, <1>3, <1>4, <1>6, ItemsInBase, ApartOne DEF Places, Settled
  <2>2. AttemptsOK'
    BY <1>2, <1>6 DEF AttemptsOK
  <2> QED BY <1>4, <1>5, <2>1, <2>2
<1>7. ASSUME ~ OutOfAttempts(c), NEW delay \in 0 .. MaxDelay, NEW again,
             again = [c EXCEPT !.wait = delay, !.stamp = stamp + 1],
             NEW grown, grown = retry \cup {again},
             retry' = grown \ Surplus(grown),
             reported' = reported \cup ItemsIn(Surplus(grown))
      PROVE  Places' /\ AttemptsOK'
  <2>1. again.items = c.items /\ again.attempts = c.attempts
    <3>1. stamp + 1 \in Nat /\ delay \in Nat
      BY <1>7 DEF TypeOK
    <3> QED BY <1>3, <1>7, <3>1, AgainType
  <2>2. Apart(grown) /\ ItemsIn(grown) = ItemsIn(retry) \cup c.items
    <3>1. Apart(retry) /\ ItemsIn(retry) \cap c.items = {}
      BY <1>3 DEF Places
    <3>2. ItemsIn({again}) = c.items /\ Apart({again})
      BY <2>1, ItemsInBase, ApartOne
    <3> QED BY <1>7, <3>1, <3>2, ApartUnion, ItemsInUnion
  <2>3. Surplus(grown) \subseteq grown
    BY DEF Surplus
  <2>4. /\ Apart(retry')
        /\ ItemsIn(Surplus(grown)) \cap ItemsIn(retry') = {}
        /\ ItemsIn(Surplus(grown)) \cup ItemsIn(retry') = ItemsIn(retry) \cup ItemsIn(inFlight)
    BY <1>3, <1>7, <2>2, <2>3, ApartSplit
  <2>5. Places'
    <3>1. ItemsIn(inFlight') = {} /\ Apart(inFlight')
      BY <1>2, ItemsInBase, ApartOne
    <3>2. reported' = reported \cup ItemsIn(Surplus(grown))
      BY <1>7
    <3> QED BY <1>2, <1>4, <2>4, <3>1, <3>2 DEF Places, Settled
  <2>6. AttemptsOK'
    <3>1. again.attempts < MaxAttempts
      BY <1>3, <1>7, <2>1, ConstantsOK DEF OutOfAttempts, Chunk
    <3>2. \A d \in retry' : d \in retry \/ d = again
      BY <1>7
    <3> QED BY <1>2, <3>1, <3>2 DEF AttemptsOK
  <2> QED BY <2>5, <2>6
<1>8. Places' /\ AttemptsOK'
  BY <1>1, <1>6, <1>7
<1> QED BY <1>4, <1>5, <1>8

(***************************************************************************)
(* Steps of the worker, of shutdown, and time                              *)
(***************************************************************************)

\* A step that moves no item, makes no promise and leaves the drain lock.
LEMMA MovesNoItem ==
  ASSUME UNCHANGED <<hand, pending, overflow, retry, work, inFlight, delivered, reported, taken,
                     captures>>
  PROVE  /\ InHand' = InHand /\ Settled' = Settled
         /\ (Places => Places') /\ (AttemptsOK => AttemptsOK')
  BY DEF InHand, Settled, Places, AttemptsOK

LEMMA WorkerStep ==
  ASSUME IInv, WorkerRuns
  PROVE  Account'
<1> USE DEF IInv, Account
<1>1. /\ pc[Worker] # "gone" /\ (pc[Worker] = "flushing" => drainer # Worker)
      /\ \E place \in {"gone", "sleeping", "flushing"} : pc' = [pc EXCEPT ![Worker] = place]
  BY DEF WorkerRuns, WorkerLooks, WorkerWakes, WorkerStops, WorkerCancelled, Goes
<1>2. UNCHANGED <<sdk, hand, closed, stuck, pending, overflow, retry, drainer, work, inFlight,
                  deadline, promised, delivered, reported, taken, captures>>
  BY DEF WorkerRuns, WorkerLooks, WorkerWakes, WorkerStops, WorkerCancelled, WorkerUnchanged,
         queueVars, drainVars, closerVars, historyVars, boundVars
<1>3. InHand' = InHand /\ Places' /\ AttemptsOK'
  BY <1>2, MovesNoItem
<1>4. \A t \in Thread : t # Worker => pc'[t] = pc[t]
  BY <1>1 DEF TypeOK
<1>5. HandsOK'
  BY <1>2, <1>4, ThreadsDiffer DEF HandsOK
<1>6. drainer # Worker
  BY <1>1, ThreadsDiffer DEF DrainOK
<1>7. DrainOK'
  BY <1>2, <1>4, <1>6 DEF DrainOK, TypeOK
<1>8. PromiseOK'
  BY <1>2, <1>3 DEF PromiseOK
<1>9. CloserOK'
  BY <1>1, <1>2, <1>4, ThreadsDiffer DEF CloserOK, ShutdownRan
<1> QED BY <1>3, <1>5, <1>7, <1>8, <1>9

LEMMA ShutdownCalledStep ==
  ASSUME IInv, ShutdownCalled
  PROVE  Account'
<1> USE DEF IInv, Account
<1>1. /\ pc[Closer] = "idle"
      /\ pc' = [pc EXCEPT ![Closer] = IF sdk = "python" THEN "flushing" ELSE "joining"]
      /\ promised' = [promised EXCEPT ![Closer] =
                        pending \cup overflow \cup ItemsIn(retry \cup work \cup inFlight)]
      /\ UNCHANGED <<sdk, hand, stuck, pending, overflow, retry, drainer, work, inFlight,
                     delivered, reported, taken, captures>>
  BY DEF ShutdownCalled, Goes, queueVars, drainVars, boundVars
<1>2. InHand' = InHand /\ Places' /\ AttemptsOK'
  BY <1>1, MovesNoItem
<1>3. drainer # Closer
  BY <1>1, ThreadsDiffer DEF DrainOK
<1>4. \A t \in Thread : t # Closer => pc'[t] = pc[t] /\ promised'[t] = promised[t]
  BY <1>1 DEF TypeOK
<1>5. HandsOK' /\ DrainOK'
  BY <1>1, <1>3, <1>4, ThreadsDiffer DEF HandsOK, DrainOK, TypeOK
<1>6. PromiseOK'
  <2>1. ItemsIn(retry \cup work \cup inFlight)
          = ItemsIn(retry) \cup ItemsIn(work) \cup ItemsIn(inFlight)
    BY DEF ItemsIn
  <2>2. promised'[Closer] \subseteq 1 .. captures /\ promised'[Closer] \cap InHand = {}
    BY <1>1, <2>1, ThreadsDiffer DEF Places, TypeOK
  <2> QED BY <1>1, <1>2, <1>3, <1>4, <2>2 DEF PromiseOK
<1>7. pc'[Closer] = IF sdk = "python" THEN "flushing" ELSE "joining"
  BY <1>1, ThreadsDiffer DEF TypeOK
<1>8. CloserOK'
  BY <1>1, <1>3, <1>7 DEF CloserOK, ShutdownRan
<1> QED BY <1>2, <1>5, <1>6, <1>8

LEMMA CloserStep ==
  ASSUME IInv, CloserRuns
  PROVE  Account'
<1> USE DEF IInv, Account
<1>1. UNCHANGED <<sdk, hand, closed, stuck, pending, overflow, retry, drainer, work, inFlight,
                  promised, delivered, reported, taken, captures>>
  BY DEF CloserRuns, WorkerJoined, ShutdownGivesUp, ShutdownChecks, ShutdownWakes, ShutdownCounts,
         CloserUnchanged, queueVars, drainVars, historyVars, boundVars
<1>2. \/ /\ pc[Closer] = "joining" /\ pc[Worker] = "gone"
         /\ pc' = [pc EXCEPT ![Closer] = "flushing"]
      \/ /\ sdk = "dotnet" /\ pc[Closer] = "flushing" /\ drainer # Closer
         /\ deadline = 0 /\ deadline' = 0
         /\ pc' = [pc EXCEPT ![Closer] = "counting"]
      \/ /\ pc[Closer] \in {"checking", "sleeping"} /\ deadline' = deadline
         /\ \E place \in {"counting", "sleeping", "flushing"} : pc' = [pc EXCEPT ![Closer] = place]
      \/ /\ pc[Closer] = "counting" /\ deadline' = deadline
         /\ pc' = [pc EXCEPT ![Closer] = "done"]
  BY DEF CloserRuns, WorkerJoined, WorkerGone, ShutdownGivesUp, ShutdownChecks, ShutdownWakes,
         ShutdownCounts, Goes, closerVars
<1>3. InHand' = InHand /\ Places' /\ AttemptsOK'
  BY <1>1, MovesNoItem
<1>4. \A t \in Thread : t # Closer => pc'[t] = pc[t]
  BY <1>2 DEF TypeOK
<1>5. drainer # Closer
  BY <1>2, ThreadsDiffer DEF DrainOK
<1>6. HandsOK' /\ DrainOK' /\ PromiseOK'
  BY <1>1, <1>3, <1>4, <1>5, ThreadsDiffer DEF HandsOK, DrainOK, PromiseOK, TypeOK
<1>7. \/ pc[Closer] = "joining" /\ pc[Worker] = "gone" /\ pc'[Closer] = "flushing"
      \/ sdk = "dotnet" /\ deadline' = 0 /\ pc[Closer] = "flushing" /\ pc'[Closer] = "counting"
      \/ pc[Closer] \in {"checking", "sleeping"} /\ pc'[Closer] \in {"counting", "sleeping", "flushing"}
      \/ pc[Closer] = "counting" /\ pc'[Closer] = "done" /\ deadline' = deadline
  BY <1>2, ThreadsDiffer DEF TypeOK
<1>8. ShutdownRan' => ShutdownRan
  BY <1>1, <1>5, <1>7 DEF ShutdownRan
<1>9. pc'[Worker] = pc[Worker]
  BY <1>4, ThreadsDiffer
<1>10. CloserOK'
  BY <1>1, <1>7, <1>8, <1>9 DEF CloserOK
<1> QED BY <1>3, <1>6, <1>10

\* A unit of time leaves every chunk its items and its attempts.
LEMMA TickKeeps ==
  ASSUME TypeOK, Apart(retry), retry' = {[c EXCEPT !.wait = Later(@)] : c \in retry}
  PROVE  /\ ItemsIn(retry') = ItemsIn(retry)
         /\ Apart(retry')
         /\ \A d \in retry' : \E c \in retry : d.items = c.items /\ d.attempts = c.attempts
                                               /\ d.wait = Later(c.wait)
<1> DEFINE Aged(c) == [c EXCEPT !.wait = Later(@)]
<1>1. \A c \in retry : /\ Aged(c).items = c.items /\ Aged(c).attempts = c.attempts
                       /\ Aged(c).wait = Later(c.wait)
  BY DEF TypeOK, Chunk
<1>2. retry' = {Aged(c) : c \in retry}
  OBVIOUS
<1> HIDE DEF Aged
<1>3. ItemsIn(retry') = ItemsIn(retry)
  BY <1>1, <1>2 DEF ItemsIn
<1>4. Apart(retry')
  BY <1>1, <1>2 DEF Apart
<1>5. \A d \in retry' : \E c \in retry : d.items = c.items /\ d.attempts = c.attempts
                                          /\ d.wait = Later(c.wait)
  <2> TAKE d \in retry'
  <2>1. PICK c \in retry : d = Aged(c)
    BY <1>2
  <2> QED BY <1>1, <2>1
<1> QED BY <1>3, <1>4, <1>5

LEMMA TickStep ==
  ASSUME IInv, Tick
  PROVE  Account'
<1> USE DEF IInv, Account
<1>1. /\ retry' = {[c EXCEPT !.wait = Later(@)] : c \in retry}
      /\ deadline' = Later(deadline)
      /\ UNCHANGED <<sdk, pc, hand, closed, stuck, pending, overflow, drainer, work, inFlight,
                     promised, delivered, reported, taken, captures>>
  BY DEF Tick, drainVars, historyVars, boundVars
<1>2. /\ ItemsIn(retry') = ItemsIn(retry) /\ Apart(retry')
      /\ \A d \in retry' : \E c \in retry : d.attempts = c.attempts
  <2>1. Apart(retry)
    BY DEF Places
  <2> QED BY <1>1, <2>1, TickKeeps
<1>3. UNCHANGED <<sdk, pc, hand, closed, stuck, pending, overflow, drainer, work, inFlight,
                  promised, delivered, reported, taken, captures>>
  BY <1>1
<1>4. InHand' = InHand /\ Settled' = Settled
  BY <1>3 DEF InHand, Settled
<1>5. HandsOK' /\ DrainOK' /\ PromiseOK'
  BY <1>3, <1>4 DEF HandsOK, DrainOK, PromiseOK
<1>6. Places'
  BY <1>2, <1>3, <1>4 DEF Places, Settled
<1>7. AttemptsOK'
  BY <1>2, <1>3 DEF AttemptsOK
<1>8. deadline = 0 => deadline' = 0
  BY <1>1 DEF Later
<1>9. CloserOK'
  BY <1>3, <1>8 DEF CloserOK, ShutdownRan
<1> QED BY <1>5, <1>6, <1>7, <1>9

LEMMA Step == IInv /\ [Next]_vars => IInv'
<1> SUFFICES ASSUME IInv, [Next]_vars PROVE IInv'
  OBVIOUS
<1>1. TypeOK'
  BY TypeStep DEF IInv
<1>2. ASSUME NEW t \in App, CaptureBegins(t) \/ CaptureEnds(t) \/ FlushCalled(t) \/ Fork(t)
      PROVE  Account'
  BY <1>2, CaptureBeginsStep, CaptureEndsStep, FlushCalledStep, ForkStep
<1>3. ASSUME NEW t \in Thread, FlushStarts(t) \/ FlushEnds(t)
      PROVE  Account'
  BY <1>3, FlushStartsStep, FlushEndsStep
<1>4. ASSUME SendStarts \/ Answer PROVE Account'
  BY <1>4, SendStartsStep, SendSettledStep, SendFailedStep DEF Answer
<1>5. ASSUME WorkerRuns \/ ShutdownCalled \/ CloserRuns \/ Tick PROVE Account'
  BY <1>5, WorkerStep, ShutdownCalledStep, CloserStep, TickStep
<1>6. ASSUME UNCHANGED vars PROVE Account'
  <2>1. UNCHANGED <<sdk, pc, hand, closed, stuck, pending, overflow, retry, drainer, work,
                    inFlight, deadline, promised, delivered, reported, taken, captures>>
    BY <1>6 DEF vars, queueVars, drainVars, closerVars, historyVars, boundVars
  <2>2. InHand' = InHand /\ Places' /\ AttemptsOK'
    BY <2>1, MovesNoItem DEF IInv, Account
  <2>3. HandsOK' /\ DrainOK' /\ PromiseOK' /\ CloserOK'
    BY <2>1, <2>2 DEF IInv, Account, HandsOK, DrainOK, PromiseOK, CloserOK, ShutdownRan
  <2> QED BY <2>2, <2>3 DEF Account
<1> QED BY <1>1, <1>2, <1>3, <1>4, <1>5, <1>6 DEF IInv, Next

LEMMA Invariance == Spec => []IInv
  BY InitInvariant, Step, PTL DEF Spec

(***************************************************************************)
(* The theorems                                                            *)
(***************************************************************************)

\* Whatever threads, failures, full queues, shutdowns and forks do, every item
\* captured is in one place and in one only: held by its thread, queued, shed,
\* in a chunk that waits, is to be sent or is in flight, or settled.
THEOREM EveryItemOnce == Spec => []ItemsOnce
<1>1. IInv => ItemsOnce
  BY PlacesDecide DEF IInv, Account
<1> QED BY <1>1, Invariance, PTL

\* sendOne drops a chunk at its last attempt, whichever threads sent it before:
\* none is sent more than MaxAttempts times.
THEOREM AttemptsBounded == Spec => []AttemptsBound
<1>1. IInv => AttemptsBound
  BY ConstantsOK DEF IInv, Account, AttemptsOK, AttemptsBound, TypeOK, Chunk
<1> QED BY <1>1, Invariance, PTL

(***************************************************************************)
(* What TelemetryDelivery promises                                         *)
(***************************************************************************)

\* An item waits exactly as long as it has not settled, and settles in one way.
LEMMA WaitingIsUnsettled ==
  ASSUME Places
  PROVE  /\ Waiting = 1 .. captures \ (delivered \cup taken \cup Lost)
         /\ delivered \cap (taken \cup Lost) = {} /\ taken \cap Lost = {}
         /\ (delivered \cup taken \cup Lost) \subseteq 1 .. captures
<1>1. InDrain = ItemsIn(work) \cup ItemsIn(inFlight)
  BY ItemsInUnion DEF InDrain
<1> QED BY <1>1 DEF Places, Waiting, Lost, Settled

\* A step that captures nothing and settles items in at most one way is a step
\* of the promise.
LEMMA SettlesSome ==
  ASSUME Places, Places', captures' = captures,
         \/ Lost \subseteq Lost' /\ UNCHANGED <<delivered, taken>>
         \/ delivered \subseteq delivered' /\ UNCHANGED <<Lost, taken>>
         \/ taken \subseteq taken' /\ UNCHANGED <<Lost, delivered>>
  PROVE  Promise!Next
<1>1. /\ Waiting = 1 .. captures \ (delivered \cup taken \cup Lost)
      /\ delivered \cap (taken \cup Lost) = {} /\ taken \cap Lost = {}
      /\ (delivered \cup taken \cup Lost) \subseteq 1 .. captures
  BY WaitingIsUnsettled
<1>2. /\ Waiting' = 1 .. captures' \ (delivered' \cup taken' \cup Lost')
      /\ delivered' \cap (taken' \cup Lost') = {} /\ taken' \cap Lost' = {}
      /\ (delivered' \cup taken' \cup Lost') \subseteq 1 .. captures'
  <2>1. InDrain' = ItemsIn(work') \cup ItemsIn(inFlight')
    BY ItemsInUnion DEF InDrain
  <2> QED BY <2>1 DEF Places, Waiting, Lost, Settled
<1>3. (1 .. captures)' = 1 .. captures
  OBVIOUS
<1> HIDE DEF Waiting, Lost
<1>4. CASE Lost \subseteq Lost' /\ UNCHANGED <<delivered, taken>>
  <2> DEFINE batch == Lost' \ Lost
  <2>1. /\ batch \in SUBSET Waiting
        /\ Waiting' = Waiting \ batch /\ Lost' = Lost \cup batch
    BY <1>1, <1>2, <1>4
  <2>2. Promise!GiveUp
    BY <1>3, <1>4, <2>1 DEF Promise!GiveUp
  <2> QED BY <2>2 DEF Promise!Next
<1>5. CASE delivered \subseteq delivered' /\ UNCHANGED <<Lost, taken>>
  <2> DEFINE batch == delivered' \ delivered
  <2>1. /\ batch \in SUBSET Waiting
        /\ Waiting' = Waiting \ batch /\ delivered' = delivered \cup batch
    BY <1>1, <1>2, <1>5
  <2>2. Promise!Accept
    BY <1>3, <1>5, <2>1 DEF Promise!Accept
  <2> QED BY <2>2 DEF Promise!Next
<1>6. CASE taken \subseteq taken' /\ UNCHANGED <<Lost, delivered>>
  <2> DEFINE batch == taken' \ taken
  <2>1. /\ batch \in SUBSET Waiting
        /\ Waiting' = Waiting \ batch /\ taken' = taken \cup batch
    BY <1>1, <1>2, <1>6
  <2>2. Promise!HandOver
    BY <1>3, <1>6, <2>1 DEF Promise!HandOver
  <2> QED BY <2>2 DEF Promise!Next
<1> QED BY <1>4, <1>5, <1>6

\* A capture that begins makes a new item, which waits.
LEMMA CaptureIsNew ==
  ASSUME TypeOK, Places, Places', NEW t \in App, CaptureBegins(t)
  PROVE  Promise!Next
<1>1. /\ captures \in Nat /\ captures < MaxCaptures /\ captures' = captures + 1
      /\ UNCHANGED <<delivered, taken, Lost>>
  BY DEF CaptureBegins, TypeOK, queueVars, historyVars, Lost
<1> DEFINE item == captures + 1
<1>2. /\ item \in Item \ 1 .. captures
      /\ 1 .. captures' = 1 .. captures \cup {item}
  BY <1>1, ConstantsOK DEF Item
<1>3. /\ Waiting = 1 .. captures \ (delivered \cup taken \cup Lost)
      /\ (delivered \cup taken \cup Lost) \subseteq 1 .. captures
  BY WaitingIsUnsettled
<1>4. Waiting' = 1 .. captures' \ (delivered' \cup taken' \cup Lost')
  <2>1. InDrain' = ItemsIn(work') \cup ItemsIn(inFlight')
    BY ItemsInUnion DEF InDrain
  <2> QED BY <2>1 DEF Places, Waiting, Lost, Settled
<1> HIDE DEF Waiting, Lost, item
<1>5. Waiting' = (Waiting \cup {item}) \ {} /\ Lost' = Lost \cup {}
  BY <1>1, <1>2, <1>3, <1>4
<1>6. {} \in SUBSET (Waiting \cup {item})
  OBVIOUS
<1>7. Promise!Capture
  BY <1>1, <1>2, <1>5, <1>6 DEF Promise!Capture
<1> QED BY <1>7 DEF Promise!Next

LEMMA NextKeepsPromise ==
  TypeOK /\ Places /\ Places' /\ [Next]_vars => [Promise!Next]_(Promise!vars)
<1> SUFFICES ASSUME TypeOK, Places, Places', [Next]_vars PROVE Promise!Next
  OBVIOUS
<1> USE DEF queueVars, drainVars, workerVars, closerVars, historyVars, boundVars
<1>1. ASSUME NEW t \in App, CaptureBegins(t) PROVE Promise!Next
  BY <1>1, CaptureIsNew
<1>2. ASSUME Lost \subseteq Lost', UNCHANGED <<captures, delivered, taken>> PROVE Promise!Next
  BY <1>2, SettlesSome
<1>3. ASSUME NEW t \in App, CaptureEnds(t) PROVE Promise!Next
  <2>1. UNCHANGED <<captures, delivered, taken, reported>> /\ overflow \subseteq overflow'
    BY <1>3 DEF CaptureEnds
  <2> QED BY <1>2, <2>1 DEF Lost
<1>4. ASSUME NEW t \in App, FlushCalled(t) PROVE Promise!Next
  BY <1>2, <1>4 DEF FlushCalled, Lost
<1>5. ASSUME NEW t \in App, Fork(t) PROVE Promise!Next
  <2>1. UNCHANGED <<captures, delivered, Lost>> /\ taken \subseteq taken'
    BY <1>5 DEF Fork, Lost
  <2> QED BY <2>1, SettlesSome
<1>6. ASSUME NEW t \in Thread, FlushStarts(t) PROVE Promise!Next
  BY <1>2, <1>6 DEF FlushStarts, Lost
<1>7. ASSUME NEW t \in Thread, FlushEnds(t) PROVE Promise!Next
  BY <1>2, <1>7 DEF FlushEnds, Lost
<1>8. CASE SendStarts
  BY <1>2, <1>8 DEF SendStarts, Lost
<1>9. CASE SendAccepted
  <2>1. UNCHANGED <<captures, taken, Lost>> /\ delivered \subseteq delivered'
    BY <1>9 DEF SendAccepted, AnswerUnchanged, Lost
  <2> QED BY <2>1, SettlesSome
<1>10. CASE SendRejected
  BY <1>2, <1>10 DEF SendRejected, AnswerUnchanged, Lost
<1>11. CASE SendFailed
  <2>1. UNCHANGED <<captures, delivered, taken, overflow>> /\ reported \subseteq reported'
    BY <1>11 DEF SendFailed, AnswerUnchanged
  <2> QED BY <1>2, <2>1 DEF Lost
<1>12. CASE WorkerRuns
  BY <1>2, <1>12 DEF WorkerRuns, WorkerLooks, WorkerWakes, WorkerStops, WorkerCancelled,
                     WorkerUnchanged, Lost
<1>13. CASE ShutdownCalled
  BY <1>2, <1>13 DEF ShutdownCalled, Lost
<1>14. CASE CloserRuns
  BY <1>2, <1>14 DEF CloserRuns, WorkerJoined, ShutdownGivesUp, ShutdownChecks, ShutdownWakes,
                     ShutdownCounts, CloserUnchanged, Lost
<1>15. CASE Tick
  BY <1>2, <1>15 DEF Tick, Lost
<1>16. CASE UNCHANGED vars
  BY <1>2, <1>16 DEF vars, Lost
<1> QED BY <1>1, <1>3, <1>4, <1>5, <1>6, <1>7, <1>8, <1>9, <1>10, <1>11, <1>12, <1>13, <1>14,
           <1>15, <1>16 DEF Next, Answer

\* The threaded queues keep what TelemetryDelivery promises, as the queue in
\* core does: every step is a capture, a batch that settles in one way, or one
\* that settles nothing.
THEOREM ThreadedKeepsPromise == Spec => KeepsPromise
<1>1. Init => Promise!Init
  <2> SUFFICES ASSUME Init PROVE Promise!Init
    OBVIOUS
  <2>1. TypeOK /\ Places
    BY InitInvariant DEF IInv, Account
  <2>2. 1 .. captures = {} /\ delivered = {} /\ taken = {} /\ Lost = {}
    BY DEF Init, Lost
  <2>3. Waiting = {}
    BY <2>1, <2>2, WaitingIsUnsettled
  <2> QED BY <2>2, <2>3 DEF Promise!Init
<1>2. IInv => TypeOK /\ Places
  BY DEF IInv, Account
<1>3. TypeOK /\ Places /\ Places' /\ [Next]_vars => [Promise!Next]_(Promise!vars)
  BY NextKeepsPromise
<1> QED BY <1>1, <1>2, <1>3, Invariance, PTL DEF Spec, KeepsPromise, Promise!Spec

\* flush() of the application returns only after its own round: every item that
\* was queued when it was called and is not in the hands of a retry, the bound
\* or a fork by then has been sent.  Shutdown returns with what was queued
\* when it was called delivered, reported or counted as left over, but for what
\* a thread it does not wait for is sending.  With the promise for the items,
\* that is PromisesKept.
THEOREM PromisesAreKept == Spec => PromisesKept
<1>1. IInv /\ [Next]_vars =>
        [\A t \in App : FlushEnds(t) =>
           promised[t] \cap (pending \cup ItemsIn(work \cup inFlight)) = {}]_vars
  <2> SUFFICES ASSUME IInv, NEW t \in App, FlushEnds(t)
               PROVE  promised[t] \cap (pending \cup ItemsIn(work \cup inFlight)) = {}
    OBVIOUS
  <2>1. drainer = t /\ ~ stuck /\ work = {} /\ inFlight = {}
    BY DEF FlushEnds, RoundOver
  <2>2. promised[t] \cap pending = {}
    BY <2>1, ThreadsDiffer DEF IInv, Account, PromiseOK
  <2>3. ItemsIn(work \cup inFlight) = {}
    BY <2>1, ItemsInBase
  <2> QED BY <2>2, <2>3
<1>2. IInv /\ [Next]_vars =>
        [ShutdownCounts =>
           LET open == promised[Closer] \ (Settled \cup leftOver')
               unwaited == App \cup (IF sdk = "python" THEN {Worker} ELSE {})
           IN  /\ open \subseteq (IF drainer \in unwaited THEN InDrain ELSE {})
                                 \cup (IF sdk = "dotnet" /\ deadline = 0 THEN overflow ELSE {})
               /\ promised[Closer] \cap pending = {} \/ (sdk = "dotnet" /\ deadline = 0)]_vars
  <2> SUFFICES ASSUME IInv, ShutdownCounts
               PROVE  LET open == promised[Closer] \ (Settled \cup leftOver')
                          unwaited == App \cup (IF sdk = "python" THEN {Worker} ELSE {})
                      IN  /\ open \subseteq (IF drainer \in unwaited THEN InDrain ELSE {})
                                 \cup (IF sdk = "dotnet" /\ deadline = 0 THEN overflow ELSE {})
                          /\ \/ promised[Closer] \cap pending = {}
                             \/ sdk = "dotnet" /\ deadline = 0
    OBVIOUS
  <2> DEFINE open == promised[Closer] \ (Settled \cup leftOver')
             unwaited == App \cup (IF sdk = "python" THEN {Worker} ELSE {})
             late == sdk = "dotnet" /\ deadline = 0
  <2>1. pc[Closer] = "counting" /\ leftOver' = pending \cup ItemsIn(retry)
    BY DEF ShutdownCounts
  <2>2. InDrain = ItemsIn(work) \cup ItemsIn(inFlight)
    BY ItemsInUnion DEF InDrain
  <2>3. open \subseteq overflow \cup InDrain
    BY <2>1, <2>2, ThreadsDiffer DEF IInv, Account, Places, PromiseOK
  <2>4. late \/ promised[Closer] \cap (pending \cup overflow) = {}
    BY <2>1 DEF IInv, Account, CloserOK, ShutdownRan
  <2>5. drainer \in unwaited \/ InDrain = {}
    <3>1. CASE drainer = None
      BY <3>1, <2>2, ItemsInBase DEF IInv, Account, DrainOK
    <3>2. CASE drainer # None
      <4>1. drainer \in Thread /\ pc[drainer] = "flushing"
        BY <3>2 DEF IInv, Account, DrainOK, TypeOK
      <4>2. drainer # Closer
        BY <4>1, <2>1
      <4>3. sdk # "python" => drainer # Worker
        BY <4>1, <2>1 DEF IInv, Account, CloserOK
      <4> QED BY <4>1, <4>2, <4>3 DEF Thread
    <3> QED BY <3>1, <3>2
  <2> QED BY <2>3, <2>4, <2>5
<1> QED BY <1>1, <1>2, Invariance, ThreadedKeepsPromise, PTL
        DEF Spec, PromisesKept, FlushPromise, ShutdownAccounts

(***************************************************************************)
(* The worker's sleep                                                      *)
(***************************************************************************)

LEMMA NoticesStep ==
  TypeOK /\ Places /\ WorkerNoticesRetry /\ [Next]_vars => WorkerNoticesRetry'
<1> SUFFICES ASSUME TypeOK, Places, WorkerNoticesRetry, [Next]_vars,
                    sdk' # "go", pc'[Worker] = "sleeping", ~ stop', wake' = 0
             PROVE  \A c \in retry' : alarm' <= c.wait
  BY DEF WorkerNoticesRetry
\* The worker slept before, and nobody signals: the alarm holds as long as no
\* retry is added.
<1>1. ASSUME sdk' = sdk, pc'[Worker] = pc[Worker], stop' = stop, wake' = wake, alarm' = alarm,
             retry' \subseteq retry
      PROVE  \A c \in retry' : alarm' <= c.wait
  BY <1>1 DEF WorkerNoticesRetry
<1>2. ASSUME NEW t \in App, CaptureBegins(t) \/ FlushCalled(t)
      PROVE  \A c \in retry' : alarm' <= c.wait
  BY <1>1, <1>2, ThreadsDiffer DEF CaptureBegins, FlushCalled, Goes, TypeOK, queueVars, workerVars
<1>3. ASSUME NEW t \in App, CaptureEnds(t)
      PROVE  \A c \in retry' : alarm' <= c.wait
  <2>1. wake' = wake
    BY <1>3 DEF CaptureEnds, Signalled, TypeOK
  <2> QED BY <1>1, <1>3, <2>1, ThreadsDiffer DEF CaptureEnds, Goes, TypeOK
<1>4. ASSUME NEW t \in App, Fork(t)
      PROVE  \A c \in retry' : alarm' <= c.wait
  BY <1>4 DEF Fork
<1>5. ASSUME NEW t \in Thread, FlushStarts(t)
      PROVE  \A c \in retry' : alarm' <= c.wait
  BY <1>1, <1>5 DEF FlushStarts, NotDue, workerVars
<1>6. ASSUME NEW t \in Thread, FlushEnds(t)
      PROVE  \A c \in retry' : alarm' <= c.wait
  <2>1. t # Worker
    BY <1>6, ThreadsDiffer DEF FlushEnds, Goes, TypeOK
  <2> QED BY <1>1, <1>6, <2>1, ThreadsDiffer DEF FlushEnds, Goes, TypeOK, queueVars, workerVars
<1>7. CASE SendStarts
  BY <1>1, <1>7 DEF SendStarts, queueVars, workerVars
<1>8. CASE SendAccepted \/ SendRejected
  BY <1>1, <1>8 DEF SendAccepted, SendRejected, AnswerUnchanged
<1>9. CASE SendFailed
  <2>1. UNCHANGED <<retry, wake>> \/ wake' = RetrySignal
    BY <1>9 DEF SendFailed
  <2>2. UNCHANGED <<sdk, pc, stop, alarm>>
    BY <1>9 DEF SendFailed, AnswerUnchanged
  <2>3. wake' # RetrySignal
    BY <2>2 DEF RetrySignal, Signalled, TypeOK
  <2> QED BY <1>1, <2>1, <2>2, <2>3
<1>10. CASE WorkerLooks
  <2>1. alarm' = Soonest(Interval) /\ retry' = retry
    BY <1>10, ThreadsDiffer DEF WorkerLooks, WorkerUnchanged, Goes, TypeOK, queueVars
  <2> QED BY <2>1, SoonestFound, ConstantsOK DEF TypeOK
<1>11. CASE WorkerWakes \/ WorkerStops \/ WorkerCancelled
  BY <1>11, ThreadsDiffer DEF WorkerWakes, WorkerStops, WorkerCancelled, Goes, TypeOK
<1>12. CASE ShutdownCalled
  BY <1>12 DEF ShutdownCalled
<1>13. CASE CloserRuns
  BY <1>1, <1>13, ThreadsDiffer DEF CloserRuns, WorkerJoined, ShutdownGivesUp, ShutdownChecks,
       ShutdownWakes, ShutdownCounts, CloserUnchanged, Goes, TypeOK, queueVars, workerVars
<1>14. CASE Tick
  <2>1. /\ retry' = {[c EXCEPT !.wait = Later(@)] : c \in retry}
        /\ alarm' = Later(alarm) /\ UNCHANGED <<sdk, pc, stop, wake>>
    BY <1>14 DEF Tick
  <2>2. \A c \in retry : alarm <= c.wait
    BY <2>1 DEF WorkerNoticesRetry
  <2>3. \A d \in retry' : \E c \in retry : d.wait = Later(c.wait)
    <3>1. Apart(retry)
      BY DEF Places
    <3> QED BY <2>1, <3>1, TickKeeps
  <2>4. alarm \in Nat /\ \A c \in retry : c.wait \in Nat
    BY DEF TypeOK, Chunk
  <2>5. alarm' = Later(alarm)
    BY <2>1
  <2> QED BY <2>2, <2>3, <2>4, <2>5, LaterType
<1>15. CASE UNCHANGED vars
  BY <1>1, <1>15 DEF vars, queueVars, workerVars
<1> QED BY <1>2, <1>3, <1>4, <1>5, <1>6, <1>7, <1>8, <1>9, <1>10, <1>11, <1>12, <1>13, <1>14,
           <1>15 DEF Next, Answer, WorkerRuns

\* The sleep of the Python and the .NET worker never ends after a retry is due,
\* also when another thread's round added it: every addition signals.
THEOREM WorkerNotices == Spec => []WorkerNoticesRetry
<1>1. Init => WorkerNoticesRetry
  BY DEF Init, WorkerNoticesRetry
<1>2. IInv => TypeOK /\ Places
  BY DEF IInv, Account
<1> QED BY <1>1, <1>2, NoticesStep, Invariance, PTL DEF Spec

=============================================================================
