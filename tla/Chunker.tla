------------------------------ MODULE Chunker ------------------------------
(***************************************************************************)
(* What a flush puts into requests: core/src/truncate.ts fits an item into *)
(* one request, core/src/chunker.ts fills requests with items, counting    *)
(* the bytes of a body before it is put together.                          *)
(*                                                                         *)
(* Abstractions.  A string is its length in bytes.  An item is its         *)
(* message, its stack, the longest string and the rest of its metadata     *)
(* bag, and everything else.  A cut keeps as many bytes as it may.         *)
(***************************************************************************)
EXTENDS Integers, Sequences

CONSTANTS
  MaxBytes, MaxItems,   \* a request's limits
  Overhead,             \* bytes of a body without items, with the longest key
  MessageCap, StackCap, FieldCap, MessageFinal, StackFinal,   \* TRUNCATE_*
  Marker,               \* bytes of "...[truncated n bytes]"
  BagMarker,            \* bytes of what replaces a metadata bag
  FlagBytes,            \* bytes of "_watchup_truncated":true
  Items,                \* bound: the items that are captured
  MaxPending            \* bound: items of one flush

Kind == 1 .. 3          \* KIND_ORDER: errors, traces, events

Caps == {MessageCap, StackCap, FieldCap, MessageFinal, StackFinal, Marker, BagMarker, FlagBytes}

ASSUME ChunkerConstants ==
  /\ MaxItems \in Nat \ {0} /\ MaxBytes \in Nat /\ Overhead \in 0 .. MaxBytes
  /\ Caps \subseteq Nat /\ MessageFinal <= MessageCap /\ StackFinal <= StackCap
  /\ Items \subseteq [message : Nat, stack : Nat, text : Nat, bag : Nat, rest : Nat]
  /\ MaxPending \in Nat

(***************************************************************************)
(* Fitting an item                                                         *)
(***************************************************************************)
Cut(n, max) == IF n <= max THEN n ELSE max + Marker

ItemBytes(i) == i.message + i.stack + i.text + i.bag + i.rest

\* Step 1 caps every long string, step 2 replaces the metadata bag, step 3 caps
\* message and stack again.
CapStrings(i) ==
  [i EXCEPT !.message = Cut(@, MessageCap), !.stack = Cut(@, StackCap), !.text = Cut(@, FieldCap)]
DropBag(i)    == IF i.text + i.bag = 0 THEN i ELSE [i EXCEPT !.text = 0, !.bag = BagMarker]
FinalCaps(i)  == [i EXCEPT !.message = Cut(@, MessageFinal), !.stack = Cut(@, StackFinal)]

\* Mutant of FitSteps: the last step is left out.
TwoSteps(i, budget) ==
  LET one == CapStrings(i) IN IF ItemBytes(one) + FlagBytes <= budget THEN one ELSE DropBag(one)

FitSteps(i, budget) ==
  LET one == CapStrings(i)
      two == DropBag(one)
  IN  IF ItemBytes(one) + FlagBytes <= budget THEN one
      ELSE IF ItemBytes(two) + FlagBytes <= budget THEN two
      ELSE FinalCaps(two)

\* fitItem: an item that fits is left alone, one that was not cut has no flag.
FitItem(i, budget) ==
  LET cut   == FitSteps(i, budget)
      bytes == ItemBytes(cut) + (IF cut = i THEN 0 ELSE FlagBytes)
  IN  IF ItemBytes(i) <= budget
      THEN [bytes |-> ItemBytes(i), truncated |-> FALSE, oversized |-> FALSE]
      ELSE [bytes |-> bytes, truncated |-> cut # i, oversized |-> bytes > budget]

\* enqueue: the budget is what an otherwise empty request has room for.
Budget == MaxBytes - Overhead
Prepare(i) == FitItem(i, Budget)

(***************************************************************************)
(* Filling requests                                                        *)
(***************************************************************************)
VARIABLES
  pending,   \* the items of the flush, by kind and then by age
  next,      \* the item the loop is at
  group,     \* how many items of a kind the open request has, and their bytes  (groups)
  bytes,     \* the bytes counted for it
  count,     \* its items
  first,     \* its first item
  chunks     \* the requests that are complete

groupVars == <<group, bytes, count, first>>
vars == <<pending, next, groupVars, chunks>>

EmptyGroup == [k \in Kind |-> [n |-> 0, size |-> 0]]

\* The bytes of a kind's array: its items and the commas between them.
ArrayBytes(a) == IF a.n = 0 THEN 0 ELSE a.size + a.n - 1

\* assembleBody: the body the request really has.
BodyBytes(g) == Overhead + ArrayBytes(g[1]) + ArrayBytes(g[2]) + ArrayBytes(g[3])

\* close(): the open request is complete.
Chunk == [first |-> first, last |-> next - 1, body |-> group]

\* Mutant of Comma: a separator is only counted within the first kind.
CommaOnce(k, n) == IF k = 1 /\ n > 0 THEN 1 ELSE 0

\* The separator before an item of kind k, when the array has n items.
Comma(k, n) == IF n > 0 THEN 1 ELSE 0

\* Mutant of Full: the number of items is not looked at.
FullOfBytes(k, b) == count > 0 /\ bytes + b + Comma(k, group[k].n) > MaxBytes

\* The item does not fit into the open request.
Full(k, b) ==
  count > 0 /\ (bytes + b + Comma(k, group[k].n) > MaxBytes \/ count + 1 > MaxItems)

\* One step of the loop without a close(): the item joins the open request.
Join ==
  /\ next <= Len(pending)
  /\ LET k == pending[next].kind
         b == pending[next].bytes
     IN  /\ ~ Full(k, b)
         /\ group' = [group EXCEPT ![k] = [n |-> @.n + 1, size |-> @.size + b]]
         /\ bytes' = bytes + b + Comma(k, group[k].n)
         /\ count' = count + 1
         /\ next' = next + 1
  /\ UNCHANGED <<pending, first, chunks>>

Reset ==
  /\ chunks' = Append(chunks, Chunk)
  /\ group' = EmptyGroup /\ bytes' = Overhead /\ count' = 0 /\ first' = next
  /\ UNCHANGED <<pending, next>>

\* close() before the item that does not fit, after an item that is too large for
\* any request, and at the end.
CloseFull ==
  /\ next <= Len(pending) /\ Full(pending[next].kind, pending[next].bytes)
  /\ Reset
CloseOversized == count > 0 /\ bytes > MaxBytes /\ Reset
CloseLast == count > 0 /\ next > Len(pending) /\ Reset

\* What a flush may find: every kind in the order it was captured.
Prepared == [kind : Kind, bytes : {Prepare(i).bytes : i \in Items}]
Pendings ==
  {p \in UNION {[1 .. n -> Prepared] : n \in 0 .. MaxPending} :
     \A i, j \in DOMAIN p : i < j => p[i].kind <= p[j].kind}

Init ==
  /\ pending \in Pendings
  /\ next = 1 /\ first = 1 /\ count = 0 /\ bytes = Overhead
  /\ group = EmptyGroup /\ chunks = <<>>

\* An oversized request is closed before the loop goes on.
Next ==
  \/ bytes <= MaxBytes /\ (Join \/ CloseFull)
  \/ CloseOversized
  \/ CloseLast

Spec == Init /\ [][Next]_vars

(***************************************************************************)
(* Properties                                                              *)
(***************************************************************************)

\* The bytes counted are the bytes of the body, separators included.
BytesExact == bytes = BodyBytes(group)

\* How many items a chunk has.
ItemsOf(c) == c.last - c.first + 1

\* No request is too large or has too many items, unless its only item is too
\* large for any request.
ChunksFit ==
  \A i \in DOMAIN chunks :
    /\ ItemsOf(chunks[i]) \in 1 .. MaxItems
    /\ BodyBytes(chunks[i].body) <= MaxBytes \/ ItemsOf(chunks[i]) = 1

\* The requests hold every item up to the loop's, once and in order.
ChunksInOrder ==
  /\ \A i \in DOMAIN chunks : chunks[i].first = IF i = 1 THEN 1 ELSE chunks[i - 1].last + 1
  /\ first = IF chunks = <<>> THEN 1 ELSE chunks[Len(chunks)].last + 1
  /\ next - first = count

\* An item whose fixed part leaves room for what the last step keeps fits into a
\* request, and one that does not is flagged as oversized; nothing is cut from
\* an item that fits.
Fits ==
  \A i \in Items :
    LET fit == Prepare(i)
        kept == Cut(i.message, MessageFinal) + Cut(i.stack, StackFinal) + BagMarker + FlagBytes
    IN  /\ i.rest + kept <= Budget => fit.bytes <= Budget
        /\ fit.bytes <= Budget \/ fit.oversized
        /\ ItemBytes(i) <= Budget => ~ fit.truncated /\ fit.bytes = ItemBytes(i)
=============================================================================
