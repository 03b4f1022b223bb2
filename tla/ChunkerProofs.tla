--------------------------- MODULE ChunkerProofs ---------------------------
(***************************************************************************)
(* Proofs about Chunker: the byte count of the loop is exact, and no       *)
(* request it completes breaks a limit or the order, for every limit,      *)
(* every set of items and every number of them; and about MockIngest,      *)
(* which gets these requests: client and server agree on what arrived.     *)
(***************************************************************************)
EXTENDS MockIngest, SequenceTheorems, TLAPS

Array == [n : Nat, size : Nat]
Group == [Kind -> Array]

\* Where the loop's variables live.
ChunkerTypeOK ==
  /\ pending \in Seq([kind : Kind, bytes : Nat])
  /\ next \in 1 .. Len(pending) + 1 /\ first \in 1 .. next
  /\ group \in Group /\ bytes \in Nat /\ count \in Nat
  /\ chunks \in Seq([first : Nat, last : Nat, body : Group])

\* The open request: its items are counted, and it only breaks the limit of bytes
\* when it has one item.
OpenFits ==
  /\ count = group[1].n + group[2].n + group[3].n
  /\ \A k \in Kind : group[k].n = 0 => group[k].size = 0
  /\ count <= MaxItems
  /\ bytes <= MaxBytes \/ count = 1

IInv == ChunkerTypeOK /\ BytesExact /\ OpenFits /\ ChunksInOrder /\ ChunksFit

\* What fitItem returns has a size: the bytes of a cut item are a number.
LEMMA PreparedType == \A i \in Items : Prepare(i).bytes \in Nat
<1> SUFFICES ASSUME NEW i \in Items PROVE Prepare(i).bytes \in Nat
  OBVIOUS
<1> DEFINE Item == [message : Nat, stack : Nat, text : Nat, bag : Nat, rest : Nat]
<1>1. i \in Item
  BY ChunkerConstants
<1>2. \A n, m \in Nat : Cut(n, m) \in Nat
  BY ChunkerConstants DEF Cut, Caps
<1>3. \A x \in Item : CapStrings(x) \in Item
  BY <1>2, ChunkerConstants DEF CapStrings, Caps
<1>4. \A x \in Item : DropBag(x) \in Item
  BY ChunkerConstants DEF DropBag, Caps
<1>5. \A x \in Item : FinalCaps(x) \in Item
  BY <1>2, ChunkerConstants DEF FinalCaps, Caps
<1>6. FitSteps(i, Budget) \in Item
  <2>1. CapStrings(i) \in Item
    BY <1>1, <1>3
  <2>2. DropBag(CapStrings(i)) \in Item
    BY <2>1, <1>4
  <2>3. FinalCaps(DropBag(CapStrings(i))) \in Item
    BY <2>2, <1>5
  <2> QED BY <2>1, <2>2, <2>3 DEF FitSteps
<1>7. \A x \in Item : ItemBytes(x) \in Nat
  BY DEF ItemBytes
<1>8. FlagBytes \in Nat
  BY ChunkerConstants DEF Caps
<1> HIDE DEF Item
<1>9. ItemBytes(i) \in Nat /\ ItemBytes(FitSteps(i, Budget)) \in Nat
  BY <1>1, <1>6, <1>7
<1> QED BY <1>8, <1>9 DEF Prepare, FitItem

\* What a flush finds is a sequence of items with a kind and a size.
LEMMA PendingType == Pendings \subseteq Seq([kind : Kind, bytes : Nat])
<1> SUFFICES ASSUME NEW p \in Pendings PROVE p \in Seq([kind : Kind, bytes : Nat])
  OBVIOUS
<1>1. Prepared \subseteq [kind : Kind, bytes : Nat]
  BY PreparedType DEF Prepared
<1>2. PICK n \in 0 .. MaxPending : p \in [1 .. n -> Prepared]
  BY DEF Pendings
<1>3. n \in Nat
  BY <1>2, ChunkerConstants
<1> DEFINE T == [kind : Kind, bytes : Nat]
<1> HIDE DEF T
<1>4. Prepared \subseteq T
  BY <1>1 DEF T
<1>5. p \in [1 .. n -> T]
  BY <1>2, <1>4
<1>6. p \in Seq(T)
  BY <1>3, <1>5, SeqDef
<1> QED BY <1>6 DEF T

\* Adding an item of b bytes to kind k adds its separator and its bytes to the
\* body, which is what the loop counts (chunker.ts:79-83).
LEMMA CommaCounts ==
  ASSUME NEW g \in Group, NEW k \in Kind, NEW b \in Nat, g[k].n = 0 => g[k].size = 0
  PROVE  LET h == [g EXCEPT ![k] = [n |-> @.n + 1, size |-> @.size + b]] IN
         h \in Group /\ BodyBytes(h) = BodyBytes(g) + b + Comma(k, g[k].n)
<1> DEFINE h == [g EXCEPT ![k] = [n |-> @.n + 1, size |-> @.size + b]]
<1>1. h \in Group /\ \A j \in Kind \ {k} : h[j] = g[j]
  BY DEF Group, Array
<1>2. h[k].n = g[k].n + 1 /\ h[k].size = g[k].size + b
  BY DEF Group, Array
<1>3. g[k].n \in Nat /\ g[k].size \in Nat
  BY DEF Group, Array
<1>4. ArrayBytes(h[k]) = ArrayBytes(g[k]) + b + Comma(k, g[k].n)
  BY <1>2, <1>3 DEF ArrayBytes, Comma
<1>5. \A j \in Kind : ArrayBytes(g[j]) \in Int
  BY DEF ArrayBytes, Group, Array
<1>6. Comma(k, g[k].n) \in Nat
  BY DEF Comma
<1>7. 1 \in Kind /\ 2 \in Kind /\ 3 \in Kind /\ (k = 1 \/ k = 2 \/ k = 3)
  BY DEF Kind
<1>8. Overhead \in Nat
  BY ChunkerConstants
<1>9. \A j \in Kind \ {k} : ArrayBytes(h[j]) = ArrayBytes(g[j])
  BY <1>1
<1> HIDE DEF h
<1>10. BodyBytes(h) = BodyBytes(g) + b + Comma(k, g[k].n)
  <2>1. CASE k = 1
    BY <2>1, <1>4, <1>5, <1>6, <1>7, <1>8, <1>9 DEF BodyBytes
  <2>2. CASE k = 2
    BY <2>2, <1>4, <1>5, <1>6, <1>7, <1>8, <1>9 DEF BodyBytes
  <2>3. CASE k = 3
    BY <2>3, <1>4, <1>5, <1>6, <1>7, <1>8, <1>9 DEF BodyBytes
  <2> QED BY <1>7, <2>1, <2>2, <2>3
<1> QED BY <1>1, <1>10 DEF h

LEMMA ChunkerInitial == Init => IInv
<1> SUFFICES ASSUME Init PROVE IInv
  OBVIOUS
<1>1. pending \in Seq([kind : Kind, bytes : Nat])
  BY PendingType DEF Init
<1>2. Len(pending) \in Nat
  BY <1>1
<1>3. EmptyGroup \in Group /\ \A k \in Kind : EmptyGroup[k].n = 0 /\ EmptyGroup[k].size = 0
  BY DEF EmptyGroup, Group, Array
<1>4. 1 \in Kind /\ 2 \in Kind /\ 3 \in Kind
  BY DEF Kind
<1>5. BodyBytes(EmptyGroup) = Overhead
  BY <1>3, <1>4, ChunkerConstants DEF BodyBytes, ArrayBytes
<1>6. ChunkerTypeOK
  BY <1>1, <1>2, <1>3, ChunkerConstants DEF Init, ChunkerTypeOK
<1>7. OpenFits
  BY <1>3, <1>4, ChunkerConstants DEF Init, OpenFits
<1>8. ChunksInOrder /\ ChunksFit
  BY DEF Init, ChunksInOrder, ChunksFit
<1> QED BY <1>5, <1>6, <1>7, <1>8 DEF IInv, Init, BytesExact

\* An item joins the open request.
LEMMA JoinKeeps == ASSUME IInv, bytes <= MaxBytes, Join PROVE IInv'
<1> DEFINE k == pending[next].kind
           b == pending[next].bytes
<1> USE DEF IInv
<1>1. next \in 1 .. Len(pending) /\ k \in Kind /\ b \in Nat
  <2>1. next \in 1 .. Len(pending) /\ pending \in Seq([kind : Kind, bytes : Nat])
    BY DEF ChunkerTypeOK, Join
  <2> DEFINE T == [kind : Kind, bytes : Nat]
  <2> HIDE DEF T
  <2>2. pending \in Seq(T)
    BY <2>1 DEF T
  <2>3. pending[next] \in T
    BY <2>1, <2>2, ElementOfSeq
  <2> QED BY <2>1, <2>3 DEF T
<1>2. /\ ~ Full(k, b)
      /\ group' = [group EXCEPT ![k] = [n |-> @.n + 1, size |-> @.size + b]]
      /\ bytes' = bytes + b + Comma(k, group[k].n)
      /\ count' = count + 1 /\ next' = next + 1
      /\ UNCHANGED <<pending, first, chunks>>
  BY DEF Join
<1> HIDE DEF k, b
<1>3. group[k].n = 0 => group[k].size = 0
  BY <1>1 DEF OpenFits
<1>4. group \in Group
  BY DEF ChunkerTypeOK
<1>5. group' \in Group /\ BodyBytes(group') = BodyBytes(group) + b + Comma(k, group[k].n)
  BY <1>1, <1>2, <1>3, <1>4, CommaCounts
<1>6. Comma(k, group[k].n) \in Nat
  BY DEF Comma
<1>7. ChunkerTypeOK'
  BY <1>1, <1>2, <1>5, <1>6 DEF ChunkerTypeOK
<1>8. BytesExact'
  <2>1. BodyBytes(group)' = BodyBytes(group')
    BY DEF BodyBytes, ArrayBytes
  <2> QED BY <1>2, <1>5, <2>1 DEF BytesExact
<1>9. OpenFits'
  <2>1. count' = group'[1].n + group'[2].n + group'[3].n
    <3>1. k = 1 \/ k = 2 \/ k = 3
      BY <1>1 DEF Kind
    <3>2. 1 \in Kind /\ 2 \in Kind /\ 3 \in Kind
      BY DEF Kind
    <3>3. \A j \in Kind : group[j].n \in Nat
      BY <1>4 DEF Group, Array
    <3>4. \A j \in Kind : group'[j].n = IF j = k THEN group[j].n + 1 ELSE group[j].n
      BY <1>2, <1>4 DEF Group, Array
    <3> QED BY <3>1, <3>2, <3>3, <3>4, <1>2 DEF OpenFits
  <2>2. \A j \in Kind : group'[j].n = 0 => group'[j].size = 0
    BY <1>1, <1>2, <1>4 DEF OpenFits, Group, Array
  <2>3. count' <= MaxItems
    BY <1>2, ChunkerConstants DEF Full, OpenFits, ChunkerTypeOK
  <2>4. bytes' <= MaxBytes \/ count' = 1
    BY <1>1, <1>2, <1>6, ChunkerConstants DEF Full, ChunkerTypeOK
  <2> QED BY <2>1, <2>2, <2>3, <2>4 DEF OpenFits
<1>10. ChunksInOrder'
  <2>0. next' = next + 1 /\ count' = count + 1 /\ first' = first
    BY <1>2
  <2>3. next \in Int /\ first \in Int /\ count \in Int /\ next - first = count
    BY DEF ChunksInOrder, ChunkerTypeOK
  <2>1. next' - first' = count'
    BY <2>0, <2>3
  <2>2. chunks' = chunks /\ first' = first
    BY <1>2
  <2> QED BY <2>1, <2>2 DEF ChunksInOrder
<1>11. ChunksFit'
  BY <1>2 DEF ChunksFit, ItemsOf, BodyBytes, ArrayBytes
<1> QED BY <1>7, <1>8, <1>9, <1>10, <1>11

\* The open request is closed.
LEMMA ResetKeeps == ASSUME IInv, count > 0, Reset PROVE IInv'
<1> USE DEF IInv
<1>1. /\ chunks' = Append(chunks, Chunk)
      /\ group' = EmptyGroup /\ bytes' = Overhead /\ count' = 0 /\ first' = next
      /\ UNCHANGED <<pending, next>>
  BY DEF Reset
<1>2. Chunk \in [first : Nat, last : Nat, body : Group]
  BY DEF Chunk, ChunkerTypeOK
<1>3. EmptyGroup \in Group /\ \A k \in Kind : EmptyGroup[k].n = 0 /\ EmptyGroup[k].size = 0
  BY DEF EmptyGroup, Group, Array
<1>4. 1 \in Kind /\ 2 \in Kind /\ 3 \in Kind
  BY DEF Kind
<1>5. BodyBytes(EmptyGroup) = Overhead
  BY <1>3, <1>4, ChunkerConstants DEF BodyBytes, ArrayBytes
<1>6. /\ Len(chunks') = Len(chunks) + 1
      /\ \A i \in 1 .. Len(chunks) : chunks'[i] = chunks[i]
      /\ chunks'[Len(chunks) + 1] = Chunk
      /\ chunks' # <<>>
  <2> DEFINE Body == [first : Nat, last : Nat, body : Group]
             new == Chunk
  <2>1. chunks \in Seq(Body) /\ new \in Body /\ chunks' = Append(chunks, new)
    BY <1>1, <1>2 DEF ChunkerTypeOK
  <2> HIDE DEF Body, new
  <2>2. /\ Len(chunks') = Len(chunks) + 1
        /\ \A i \in 1 .. Len(chunks) : chunks'[i] = chunks[i]
        /\ chunks'[Len(chunks) + 1] = new
        /\ chunks' # <<>>
    BY ONLY <2>1
  <2> QED BY <2>2 DEF new
<1>7. Len(chunks) \in Nat
  BY DEF ChunkerTypeOK
<1>8. ChunkerTypeOK'
  BY <1>1, <1>2, <1>3, ChunkerConstants DEF ChunkerTypeOK
<1>9. BytesExact'
  BY <1>1, <1>5 DEF BytesExact, BodyBytes, ArrayBytes
<1>10. OpenFits'
  BY <1>1, <1>3, <1>4, ChunkerConstants DEF OpenFits
<1>11. Chunk.first = first /\ Chunk.last = next - 1 /\ Chunk.body = group
  BY DEF Chunk
<1>12. ItemsOf(Chunk) = count
  <2>1. ItemsOf(Chunk) = (next - 1) - first + 1
    BY <1>11 DEF ItemsOf
  <2>2. next \in Int /\ first \in Int /\ next - first = count
    BY DEF ChunksInOrder, ChunkerTypeOK
  <2> QED BY ONLY <2>1, <2>2
<1>13. ChunksInOrder'
  <2>1. DOMAIN chunks' = 1 .. Len(chunks) + 1 /\ DOMAIN chunks = 1 .. Len(chunks)
    BY <1>6, <1>8 DEF ChunkerTypeOK
  <2>2. \A i \in DOMAIN chunks' : chunks'[i].first = IF i = 1 THEN 1 ELSE chunks'[i - 1].last + 1
    <3> SUFFICES ASSUME NEW i \in DOMAIN chunks'
                 PROVE  chunks'[i].first = IF i = 1 THEN 1 ELSE chunks'[i - 1].last + 1
      OBVIOUS
    <3>1. CASE i \in 1 .. Len(chunks)
      BY <3>1, <2>1, <1>6, <1>7 DEF ChunksInOrder
    <3>2. CASE i = Len(chunks) + 1
      <4>1. chunks'[i].first = first
        BY <3>2, <1>6, <1>11
      <4>2. CASE chunks = <<>>
        BY <4>1, <4>2, <3>2 DEF ChunksInOrder
      <4>3. CASE chunks # <<>>
        <5>1. Len(chunks) > 0
          BY <4>3, <1>7 DEF ChunkerTypeOK
        <5> QED BY <4>1, <4>3, <5>1, <3>2, <1>6, <1>7 DEF ChunksInOrder
      <4> QED BY <4>2, <4>3
    <3> QED BY <2>1, <3>1, <3>2, <1>7
  <2>3. first' = chunks'[Len(chunks')].last + 1
    BY <1>1, <1>6, <1>11 DEF ChunkerTypeOK
  <2>4. next' - first' = count'
    BY <1>1 DEF ChunkerTypeOK
  <2> QED BY <2>2, <2>3, <2>4, <1>6 DEF ChunksInOrder
<1>14. ChunksFit'
  <2>1. ItemsOf(Chunk) \in 1 .. MaxItems
    BY <1>12, ChunkerConstants DEF OpenFits, ChunkerTypeOK
  <2>2. BodyBytes(Chunk.body) <= MaxBytes \/ ItemsOf(Chunk) = 1
    BY <1>11, <1>12 DEF OpenFits, BytesExact
  <2>3. DOMAIN chunks' = 1 .. Len(chunks) + 1 /\ DOMAIN chunks = 1 .. Len(chunks)
    BY <1>6, <1>8 DEF ChunkerTypeOK
  <2>4. \A i \in DOMAIN chunks' :
          /\ ItemsOf(chunks'[i]) \in 1 .. MaxItems
          /\ BodyBytes(chunks'[i].body) <= MaxBytes \/ ItemsOf(chunks'[i]) = 1
    BY <2>1, <2>2, <2>3, <1>6, <1>7 DEF ChunksFit
  <2> QED BY <2>4 DEF ChunksFit, ItemsOf, BodyBytes, ArrayBytes
<1> QED BY <1>8, <1>9, <1>10, <1>13, <1>14

LEMMA ChunkerStep == IInv /\ [Next]_vars => IInv'
<1> SUFFICES ASSUME IInv, [Next]_vars PROVE IInv'
  OBVIOUS
<1>1. CASE bytes <= MaxBytes /\ Join
  BY <1>1, JoinKeeps
<1>2. CASE CloseFull \/ CloseOversized \/ CloseLast
  <2>1. count > 0 /\ Reset
    BY <1>2 DEF CloseFull, CloseOversized, CloseLast, Full
  <2> QED BY <2>1, ResetKeeps
<1>3. CASE UNCHANGED vars
  BY <1>3 DEF vars, groupVars, IInv, ChunkerTypeOK, BytesExact, OpenFits, ChunksInOrder, ChunksFit,
              ItemsOf, BodyBytes, ArrayBytes
<1> QED BY <1>1, <1>2, <1>3 DEF Next

LEMMA ChunkerInvariant == Spec => []IInv
<1> QED BY ChunkerInitial, ChunkerStep, PTL DEF Spec

\* The bytes counted for the open request are those of the body that is put
\* together from it, whatever kinds its items have (chunker.ts:79-83).
THEOREM BytesAreExact == Spec => []BytesExact
<1>1. IInv => BytesExact
  BY DEF IInv
<1> QED BY <1>1, ChunkerInvariant, PTL

\* No completed request breaks the limit of items, and only a request of one item
\* breaks the limit of bytes.
THEOREM RequestsFit == Spec => []ChunksFit
<1>1. IInv => ChunksFit
  BY DEF IInv
<1> QED BY <1>1, ChunkerInvariant, PTL

\* The completed requests are consecutive and lose, repeat or reorder no item.
THEOREM RequestsInOrder == Spec => []ChunksInOrder
<1>1. IInv => ChunksInOrder
  BY DEF IInv
<1> QED BY <1>1, ChunkerInvariant, PTL

(***************************************************************************)
(* The server                                                              *)
(***************************************************************************)

\* Cutting a string twice leaves no more than the last cut does.
LEMMA CutTwice ==
  ASSUME NEW n \in Nat, NEW cap \in Nat, NEW final \in Nat, final <= cap
  PROVE  Cut(Cut(n, cap), final) <= Cut(n, final) /\ Cut(n, final) \in Nat
  BY ChunkerConstants DEF Cut, Caps

\* What fitItem leaves of an item that it had to cut to the last.
LEMMA FinalFits ==
  ASSUME NEW i \in Items
  PROVE  LET last == FinalCaps(DropBag(CapStrings(i))) IN
         ItemBytes(last) <= i.rest + Cut(i.message, MessageFinal) + Cut(i.stack, StackFinal) + BagMarker
<1> DEFINE one  == CapStrings(i)
           two  == DropBag(one)
           last == FinalCaps(two)
<1>1. i \in [message : Nat, stack : Nat, text : Nat, bag : Nat, rest : Nat]
  BY ChunkerConstants
<1>2. /\ {MessageCap, StackCap, FieldCap, MessageFinal, StackFinal, Marker, BagMarker} \subseteq Nat
      /\ MessageFinal <= MessageCap /\ StackFinal <= StackCap
  BY ChunkerConstants DEF Caps
<1> DEFINE Item == [message : Nat, stack : Nat, text : Nat, bag : Nat, rest : Nat]
<1>3. \A n, k \in Nat : Cut(n, k) \in Nat
  BY <1>2 DEF Cut
<1>4. /\ one \in Item
      /\ one.message = Cut(i.message, MessageCap) /\ one.stack = Cut(i.stack, StackCap) /\ one.rest = i.rest
  BY <1>1, <1>2, <1>3 DEF CapStrings
<1>5. /\ two \in Item
      /\ two.message = one.message /\ two.stack = one.stack /\ two.rest = one.rest
      /\ two.text = 0 /\ two.bag \in 0 .. BagMarker
  <2> HIDE DEF one
  <2>1. CASE one.text + one.bag = 0
    <3>1. two = one /\ one.text = 0 /\ one.bag = 0
      BY <1>4, <2>1 DEF DropBag
    <3> QED BY <1>2, <1>4, <3>1
  <2>2. CASE one.text + one.bag # 0
    <3>1. two = [one EXCEPT !.text = 0, !.bag = BagMarker]
      BY <2>2 DEF DropBag
    <3> HIDE DEF two
    <3>2. two.text = 0 /\ two.bag = BagMarker /\ BagMarker \in 0 .. BagMarker
      BY <1>2, <1>4, <3>1
    <3>3. two \in Item /\ two.message = one.message /\ two.stack = one.stack /\ two.rest = one.rest
      BY <1>2, <1>4, <3>1
    <3> QED BY <3>2, <3>3
  <2> HIDE DEF two
  <2> QED BY <2>1, <2>2
<1> HIDE DEF one, two
<1>6. /\ last.message = Cut(Cut(i.message, MessageCap), MessageFinal)
      /\ last.stack = Cut(Cut(i.stack, StackCap), StackFinal)
      /\ last.text = 0 /\ last.bag \in 0 .. BagMarker /\ last.rest = i.rest
  <2>1. last = [two EXCEPT !.message = Cut(@, MessageFinal), !.stack = Cut(@, StackFinal)]
    BY DEF FinalCaps
  <2> HIDE DEF last
  <2>2. last.message = Cut(two.message, MessageFinal) /\ last.stack = Cut(two.stack, StackFinal)
    BY <1>5, <2>1
  <2>3. last.text = two.text /\ last.bag = two.bag /\ last.rest = two.rest
    BY <1>5, <2>1
  <2> QED BY <1>4, <1>5, <2>2, <2>3
<1> HIDE DEF last
<1>7. /\ last.message <= Cut(i.message, MessageFinal) /\ Cut(i.message, MessageFinal) \in Nat
      /\ last.stack <= Cut(i.stack, StackFinal) /\ Cut(i.stack, StackFinal) \in Nat
  BY <1>1, <1>2, <1>6, CutTwice
<1>8. last.message \in Nat /\ last.stack \in Nat
  <2>1. i.message \in Nat /\ i.stack \in Nat
    BY <1>1
  <2>2. Cut(i.message, MessageCap) \in Nat /\ Cut(i.stack, StackCap) \in Nat
    BY <1>2, <1>3, <2>1
  <2> QED BY <1>2, <1>3, <1>6, <2>2
<1>9. i.rest \in Nat /\ BagMarker \in Nat
  BY <1>1, <1>2
<1>10. ItemBytes(last) <= i.rest + Cut(i.message, MessageFinal) + Cut(i.stack, StackFinal) + BagMarker
  BY <1>6, <1>7, <1>8, <1>9 DEF ItemBytes
<1> QED BY <1>10 DEF last, two, one

\* fitItem makes an item fit that can be made to fit (truncate.ts), for every set of
\* items.
LEMMA ItemsFit == Fits
<1> SUFFICES ASSUME NEW i \in Items
             PROVE  LET fit == Prepare(i)
                        kept == Cut(i.message, MessageFinal) + Cut(i.stack, StackFinal) + BagMarker + FlagBytes
                    IN  /\ i.rest + kept <= Budget => fit.bytes <= Budget
                        /\ fit.bytes <= Budget \/ fit.oversized
                        /\ ItemBytes(i) <= Budget => ~ fit.truncated /\ fit.bytes = ItemBytes(i)
  BY DEF Fits
<1> DEFINE fit == Prepare(i)
           m == Cut(i.message, MessageFinal)
           s == Cut(i.stack, StackFinal)
           one == CapStrings(i)
           two == DropBag(one)
           last == FinalCaps(two)
           cut == FitSteps(i, Budget)
<1>1. fit.bytes \in Nat
  BY PreparedType
<1>2. FlagBytes \in Nat /\ BagMarker \in Nat /\ Budget \in Int /\ i.rest \in Nat
  BY ChunkerConstants DEF Caps, Budget
<1>3. m \in Nat /\ s \in Nat
  BY ChunkerConstants DEF Cut, Caps
<1>4. ItemBytes(last) <= i.rest + m + s + BagMarker
  BY FinalFits
<1>5. /\ ItemBytes(i) \in Nat /\ ItemBytes(one) \in Nat /\ ItemBytes(two) \in Nat /\ ItemBytes(last) \in Nat
  <2> DEFINE Item == [message : Nat, stack : Nat, text : Nat, bag : Nat, rest : Nat]
  <2>1. i \in Item /\ Caps \subseteq Nat
    BY ChunkerConstants
  <2>2. \A n, k \in Nat : Cut(n, k) \in Nat
    BY <2>1 DEF Cut, Caps
  <2>3. \A x \in Item : CapStrings(x) \in Item /\ FinalCaps(x) \in Item
    BY <2>1, <2>2 DEF CapStrings, FinalCaps, Caps
  <2>4. \A x \in Item : DropBag(x) \in Item
    BY <2>1 DEF DropBag, Caps
  <2>5. \A x \in Item : ItemBytes(x) \in Nat
    BY DEF ItemBytes
  <2> HIDE DEF Item
  <2> QED BY <2>1, <2>3, <2>4, <2>5
<1>6. CASE ItemBytes(i) <= Budget
  <2>1. fit = [bytes |-> ItemBytes(i), truncated |-> FALSE, oversized |-> FALSE]
    BY <1>6 DEF Prepare, FitItem
  <2> QED BY <1>6, <2>1
<1>7. CASE ~ ItemBytes(i) <= Budget
  <2>1. /\ fit.bytes = ItemBytes(cut) + (IF cut = i THEN 0 ELSE FlagBytes)
        /\ fit.oversized = (fit.bytes > Budget)
    BY <1>7 DEF Prepare, FitItem
  <2>2. fit.bytes <= Budget \/ fit.oversized
    <3>1. fit.bytes <= Budget \/ fit.bytes > Budget
      <4> HIDE DEF fit
      <4> QED BY <1>1, <1>2
    <3> QED BY <3>1, <2>1
  <2>3. \/ cut = one /\ ItemBytes(one) + FlagBytes <= Budget
        \/ cut = two /\ ItemBytes(two) + FlagBytes <= Budget
        \/ cut = last
    BY DEF FitSteps
  <2>4. fit.bytes <= ItemBytes(cut) + FlagBytes
    <3>1. ItemBytes(cut) \in Nat
      BY <2>3, <1>5
    <3> QED BY <3>1, <2>1, <1>2
  <2>5. ASSUME i.rest + (m + s + BagMarker + FlagBytes) <= Budget
        PROVE  fit.bytes <= Budget
    <3> HIDE DEF fit, m, s, one, two, last, cut
    <3>1. CASE cut = last
      BY <3>1, <2>4, <2>5, <1>1, <1>2, <1>3, <1>4, <1>5
    <3>2. CASE cut = one /\ ItemBytes(one) + FlagBytes <= Budget
      BY <3>2, <2>4, <1>1, <1>2, <1>5
    <3>3. CASE cut = two /\ ItemBytes(two) + FlagBytes <= Budget
      BY <3>3, <2>4, <1>1, <1>2, <1>5
    <3> QED BY <2>3, <3>1, <3>2, <3>3
  <2> QED BY <1>7, <2>2, <2>5
<1> QED BY <1>6, <1>7

\* The items of request i, by their places.
Covers(i) == chunks[i].first .. chunks[i].last

\* Requests follow each other and hold places there are.
RangesApart ==
  /\ Len(pending) <= MaxPending
  /\ \A i \in DOMAIN chunks :
       1 <= chunks[i].first /\ chunks[i].first <= chunks[i].last /\ chunks[i].last < first
  /\ \A i, j \in DOMAIN chunks : i < j => chunks[i].last < chunks[j].first

\* The server has the client's requests under their keys, and has accepted the items of
\* those it has, once; what the client believes delivered is among them.
ServerHas ==
  /\ wire \subseteq {Request(i) : i \in DOMAIN chunks}
  /\ DOMAIN keys \subseteq DOMAIN chunks
  /\ \A k \in DOMAIN keys : keys[k] = chunks[k]
  /\ accepted \in [1 .. MaxPending -> Nat]
  /\ \A x \in 1 .. MaxPending :
       accepted[x] = IF \E k \in DOMAIN keys : x \in Covers(k) THEN 1 ELSE 0
  /\ acked \subseteq {Request(k) : k \in DOMAIN keys}

IngestInv == IInv /\ RangesApart /\ ServerHas /\ KeepsContract

LEMMA RequestTypes ==
  ASSUME IInv
  PROVE  /\ Len(pending) \in Nat /\ Len(chunks) \in Nat /\ DOMAIN chunks = 1 .. Len(chunks)
         /\ first \in Nat /\ next \in Nat /\ count \in Nat /\ 1 <= first /\ first <= Len(pending) + 1
         /\ \A i \in DOMAIN chunks :
              i \in Nat /\ chunks[i].first \in Nat /\ chunks[i].last \in Nat /\ chunks[i].body \in Group
<1> DEFINE T == [first : Nat, last : Nat, body : Group]
           P == [kind : Kind, bytes : Nat]
<1> HIDE DEF T, P
<1>1. pending \in Seq(P) /\ chunks \in Seq(T)
  BY DEF IInv, ChunkerTypeOK, T, P
<1>2. Len(pending) \in Nat /\ Len(chunks) \in Nat /\ DOMAIN chunks = 1 .. Len(chunks)
  BY <1>1
<1>3. first \in Nat /\ next \in Nat /\ count \in Nat /\ 1 <= first /\ first <= Len(pending) + 1
  BY <1>2 DEF IInv, ChunkerTypeOK
<1>4. \A i \in DOMAIN chunks : i \in Nat /\ chunks[i] \in T
  BY <1>1, <1>2, ElementOfSeq
<1> QED BY <1>2, <1>3, <1>4 DEF T

LEMMA IngestInitial == IngestInit => IngestInv
<1> SUFFICES ASSUME IngestInit PROVE IngestInv
  OBVIOUS
<1>1. IInv /\ pending \in Pendings /\ chunks = <<>>
  BY ChunkerInitial DEF IngestInit, Init
<1>2. Len(pending) <= MaxPending
  <2>1. PICK n \in 0 .. MaxPending : pending \in [1 .. n -> Prepared]
    BY <1>1 DEF Pendings
  <2>2. n \in Nat /\ n <= MaxPending
    BY ChunkerConstants
  <2>3. pending \in Seq(Prepared) /\ Len(pending) = n
    BY <2>1, <2>2, LenProperties, SeqDef
  <2> QED BY <2>2, <2>3
<1>3. RangesApart
  BY <1>1, <1>2 DEF RangesApart
<1>4. ServerHas
  BY <1>1 DEF ServerHas, IngestInit
<1>5. KeepsContract
  BY DEF KeepsContract, IngestInit
<1> QED BY <1>1, <1>3, <1>4, <1>5 DEF IngestInv

\* A step of the chunker at most appends a request.
LEMMA ChunkerAppends ==
  ASSUME IInv, Next
  PROVE  /\ pending' = pending
         /\ \/ chunks' = chunks /\ first' = first
            \/ /\ chunks' = Append(chunks, Chunk) /\ first' = next /\ count > 0
<1>1. CASE bytes <= MaxBytes /\ Join
  BY <1>1 DEF Join
<1>2. CASE CloseFull \/ CloseOversized \/ CloseLast
  BY <1>2 DEF CloseFull, CloseOversized, CloseLast, Full, Reset
<1> QED BY <1>1, <1>2 DEF Next

LEMMA ChunkerStepIngest ==
  ASSUME IngestInv, Next, UNCHANGED <<clientVars, serverVars, wire>>
  PROVE  IngestInv'
<1>0. IInv /\ IInv'
  BY ChunkerStep DEF IngestInv
<1>1. UNCHANGED <<sends, settled, acked, script, keys, accepted, violations, wire>>
  BY DEF clientVars, serverVars
<1>2. KeepsContract'
  BY <1>1 DEF IngestInv, KeepsContract, ItemsOf
<1>3. CASE pending' = pending /\ chunks' = chunks /\ first' = first
  <2>1. RangesApart'
    BY <1>3 DEF IngestInv, RangesApart
  <2>2. ServerHas'
    BY <1>1, <1>3 DEF IngestInv, ServerHas, Covers, Request, Key
  <2> QED BY <1>0, <1>2, <2>1, <2>2 DEF IngestInv
<1>4. CASE pending' = pending /\ chunks' = Append(chunks, Chunk) /\ first' = next /\ count > 0
  <2> DEFINE n == Len(chunks)
  <2>1. /\ n \in Nat /\ DOMAIN chunks = 1 .. n /\ DOMAIN chunks' = 1 .. n + 1
        /\ \A i \in 1 .. n : chunks'[i] = chunks[i]
        /\ chunks'[n + 1] = Chunk
    <3>1. Chunk \in [first : Nat, last : Nat, body : Group]
      BY <1>0 DEF Chunk, IInv, ChunkerTypeOK
    <3> QED BY <1>0, <1>4, <3>1 DEF IInv, ChunkerTypeOK
  <2>2. Chunk.first = first /\ Chunk.last = next - 1
    BY DEF Chunk
  <2>3. first \in Nat /\ next \in Nat /\ count \in Nat /\ next - first = count /\ 1 <= first
    BY <1>0, RequestTypes DEF IInv, ChunksInOrder
  <2>4. \A i \in 1 .. n : chunks[i].last \in Nat /\ chunks[i].first \in Nat
    BY <1>0, <2>1, RequestTypes
  <2>5. RangesApart'
    <3>1. Len(pending') <= MaxPending
      BY <1>4 DEF IngestInv, RangesApart
    <3>2. ASSUME NEW i \in DOMAIN chunks'
          PROVE  1 <= chunks'[i].first /\ chunks'[i].first <= chunks'[i].last /\ chunks'[i].last < first'
      <4>1. CASE i \in 1 .. n
        BY <4>1, <1>4, <2>1, <2>3, <2>4 DEF IngestInv, RangesApart
      <4>2. CASE i = n + 1
        BY <4>2, <1>4, <2>1, <2>2, <2>3
      <4> QED BY <2>1, <4>1, <4>2
    <3>3. ASSUME NEW i \in DOMAIN chunks', NEW j \in DOMAIN chunks', i < j
          PROVE  chunks'[i].last < chunks'[j].first
      <4>1. i \in 1 .. n
        BY <2>1, <3>3
      <4>2. CASE j \in 1 .. n
        BY <4>1, <4>2, <2>1, <3>3 DEF IngestInv, RangesApart
      <4>3. CASE j = n + 1
        BY <4>1, <4>3, <2>1, <2>2 DEF IngestInv, RangesApart
      <4> QED BY <2>1, <4>2, <4>3
    <3> QED BY <3>1, <3>2, <3>3 DEF RangesApart
  <2>6. \A k \in DOMAIN chunks : chunks'[k] = chunks[k] /\ k \in DOMAIN chunks'
    BY <2>1
  <2>7. ServerHas'
    <3>1. \A k \in DOMAIN chunks : Request(k)' = Request(k)
      BY <2>6 DEF Request, Key
    <3>2. wire' \subseteq {Request(i)' : i \in DOMAIN chunks'}
      BY <1>1, <2>6, <3>1 DEF IngestInv, ServerHas
    <3>3. DOMAIN keys' \subseteq DOMAIN chunks' /\ \A k \in DOMAIN keys' : keys'[k] = chunks'[k]
      BY <1>1, <2>6 DEF IngestInv, ServerHas
    <3>4. acked' \subseteq {Request(k)' : k \in DOMAIN keys'}
      BY <1>1, <3>1 DEF IngestInv, ServerHas
    <3>5. \A k \in DOMAIN keys : Covers(k)' = Covers(k)
      BY <2>6 DEF Covers, IngestInv, ServerHas
    <3>6. /\ accepted' \in [1 .. MaxPending -> Nat]
          /\ \A x \in 1 .. MaxPending :
               accepted'[x] = IF \E k \in DOMAIN keys' : x \in Covers(k)' THEN 1 ELSE 0
      BY <1>1, <3>5 DEF IngestInv, ServerHas
    <3> QED BY <3>2, <3>3, <3>4, <3>6 DEF ServerHas, Request
  <2> QED BY <1>0, <1>2, <2>5, <2>7 DEF IngestInv
<1> QED BY <1>0, <1>3, <1>4, ChunkerAppends

LEMMA SendStep ==
  ASSUME IngestInv, NEW i \in DOMAIN chunks, Send(i)
  PROVE  IngestInv'
<1>1. /\ wire' = wire \cup {Request(i)}
      /\ UNCHANGED <<pending, next, group, bytes, count, first, chunks>>
      /\ UNCHANGED <<script, keys, accepted, violations, settled, acked>>
  BY DEF Send, vars, groupVars, serverVars
<1>2. IInv'
  BY <1>1, ChunkerStep DEF IngestInv, vars, groupVars
<1>3. RangesApart' /\ KeepsContract'
  BY <1>1 DEF IngestInv, RangesApart, KeepsContract, ItemsOf
<1>4. ServerHas'
  BY <1>1 DEF IngestInv, ServerHas, Covers, Request, Key
<1> QED BY <1>2, <1>3, <1>4 DEF IngestInv

\* The server complains of an oversized item only.
LEMMA ComplaintsFew ==
  ASSUME IngestInv, NEW i \in DOMAIN chunks, NEW fails \in BOOLEAN, NEW v \in Complaints(Request(i), fails)
  PROVE  v \in {"limit", "target"} /\ ItemsOf(chunks[i]) = 1
<1> DEFINE size == BodyBytes(chunks[i].body)
<1>1. Request(i).body = chunks[i] /\ Request(i).key = i
  BY DEF Request, Key
<1>2. ItemsOf(chunks[i]) \in 1 .. MaxItems /\ (size <= MaxBytes \/ ItemsOf(chunks[i]) = 1)
  BY DEF IngestInv, IInv, ChunksFit
<1>3. size \in Int
  <2>1. chunks[i].body \in Group
    BY RequestTypes DEF IngestInv
  <2>2. 1 \in Kind /\ 2 \in Kind /\ 3 \in Kind
    BY DEF Kind
  <2> QED BY <2>1, <2>2, ChunkerConstants DEF BodyBytes, ArrayBytes, Group, Array
<1>4. i \in DOMAIN keys => keys[i] = chunks[i]
  BY DEF IngestInv, ServerHas
<1>5. \/ v = "limit" /\ size > ServerLimit
      \/ v = "target" /\ size > ChunkTarget
      \/ v = "count" /\ ItemsOf(chunks[i]) > CountGuard
      \/ v = "reused" /\ i \in DOMAIN keys /\ keys[i] # chunks[i]
  BY <1>1 DEF Complaints
<1> HIDE DEF size
<1> QED BY <1>2, <1>3, <1>4, <1>5, IngestConstants, ChunkerConstants

LEMMA ArriveStep ==
  ASSUME IngestInv, NEW q \in wire, Arrive(q)
  PROVE  IngestInv'
<1>0. /\ UNCHANGED <<pending, next, group, bytes, count, first, chunks>>
      /\ wire' \in {wire, wire \ {q}}
  BY DEF Arrive, vars, groupVars
<1>1. IInv' /\ RangesApart'
  <2>1. IInv'
    BY <1>0, ChunkerStep DEF IngestInv, vars, groupVars
  <2>2. RangesApart'
    BY <1>0 DEF IngestInv, RangesApart
  <2> QED BY <2>1, <2>2
<1>2. PICK i \in DOMAIN chunks : q = Request(i)
  BY DEF IngestInv, ServerHas
<1>3. q.key = i /\ q.index = i /\ q.body = chunks[i] /\ ItemsIn(q) = Covers(i)
  BY <1>2 DEF Request, Key, ItemsIn, Covers
<1> DEFINE refused == BodyBytes(q.body.body) > ServerLimit
           fails   == ~ refused /\ script > 0
<1>4. /\ \/ refused /\ UNCHANGED <<keys, accepted>>
            /\ violations' = violations \cup {<<v, q.body>> : v \in Complaints(q, TRUE)}
         \/ ~ refused /\ HandleBatch(q, fails)
      /\ \/ ~ fails /\ acked' = IF refused THEN acked ELSE acked \cup {q}
         \/ UNCHANGED acked
  BY DEF Arrive
<1>5. KeepsContract'
  <2>1. PICK f \in BOOLEAN : violations' = violations \cup {<<v, q.body>> : v \in Complaints(q, f)}
    BY <1>4 DEF HandleBatch
  <2>2. \A v \in Complaints(q, f) : v \in {"limit", "target"} /\ ItemsOf(q.body) = 1
    BY <1>2, <1>3, ComplaintsFew
  <2>3. \A w \in violations' : w[1] \in {"limit", "target"} /\ ItemsOf(w[2]) = 1
    BY <2>1, <2>2 DEF IngestInv, KeepsContract
  <2> QED BY <2>3 DEF KeepsContract, ItemsOf
<1> DEFINE taken == ~ refused /\ ~ fails /\ i \notin DOMAIN keys
<1>6. /\ ~ taken => UNCHANGED <<keys, accepted>>
      /\ taken => /\ keys' = [k \in DOMAIN keys \cup {i} |-> IF k = i THEN chunks[i] ELSE keys[k]]
                  /\ accepted' = [x \in DOMAIN accepted |-> accepted[x] + (IF x \in Covers(i) THEN 1 ELSE 0)]
  BY <1>3, <1>4 DEF HandleBatch, RecordsKey
<1>7. acked' \subseteq acked \cup {q} /\ (acked' # acked => ~ refused /\ ~ fails)
  BY <1>4
<1> HIDE DEF refused, fails
<1>8. DOMAIN keys' = IF taken THEN DOMAIN keys \cup {i} ELSE DOMAIN keys
  BY <1>6
<1>9. DOMAIN keys' \subseteq DOMAIN chunks /\ \A k \in DOMAIN keys' : keys'[k] = chunks[k]
  BY <1>6, <1>8 DEF IngestInv, ServerHas
<1>10. acked' \subseteq {Request(k) : k \in DOMAIN keys'}
  <2>1. acked \subseteq {Request(k) : k \in DOMAIN keys'}
    BY <1>8 DEF IngestInv, ServerHas
  <2>2. acked' # acked => i \in DOMAIN keys'
    BY <1>7, <1>8
  <2> QED BY <1>2, <1>7, <2>1, <2>2
<1>11. /\ accepted' \in [1 .. MaxPending -> Nat]
       /\ \A x \in 1 .. MaxPending :
            accepted'[x] = IF \E k \in DOMAIN keys' : x \in Covers(k) THEN 1 ELSE 0
  <2>1. CASE ~ taken
    BY <2>1, <1>6 DEF IngestInv, ServerHas
  <2>2. CASE taken
    <3>1. /\ accepted \in [1 .. MaxPending -> Nat]
          /\ accepted' = [x \in 1 .. MaxPending |-> accepted[x] + (IF x \in Covers(i) THEN 1 ELSE 0)]
      BY <2>2, <1>6 DEF IngestInv, ServerHas
    <3>2. accepted' \in [1 .. MaxPending -> Nat]
      BY <3>1
    <3>3. ASSUME NEW k \in DOMAIN keys PROVE Covers(k) \cap Covers(i) = {}
      <4>1. k \in DOMAIN chunks /\ k # i
        BY <2>2 DEF IngestInv, ServerHas
      <4>2. \A m, n \in DOMAIN chunks : m < n => chunks[m].last < chunks[n].first
        BY DEF IngestInv, RangesApart
      <4>3. /\ k \in Nat /\ i \in Nat
            /\ {chunks[k].first, chunks[k].last, chunks[i].first, chunks[i].last} \subseteq Nat
        BY <4>1, RequestTypes DEF IngestInv
      <4>4. k < i \/ i < k
        BY <4>1, <4>3
      <4>5. chunks[k].last < chunks[i].first \/ chunks[i].last < chunks[k].first
        BY <4>1, <4>2, <4>4
      <4> QED BY <4>3, <4>5 DEF Covers
    <3>4. ASSUME NEW x \in 1 .. MaxPending
          PROVE  accepted'[x] = IF \E k \in DOMAIN keys' : x \in Covers(k) THEN 1 ELSE 0
      <4>1. accepted[x] = IF \E k \in DOMAIN keys : x \in Covers(k) THEN 1 ELSE 0
        BY DEF IngestInv, ServerHas
      <4>2. accepted'[x] = accepted[x] + (IF x \in Covers(i) THEN 1 ELSE 0)
        BY <3>1
      <4>3. CASE x \in Covers(i)
        <5>1. ~ \E k \in DOMAIN keys : x \in Covers(k)
          BY <4>3, <3>3
        <5>2. \E k \in DOMAIN keys' : x \in Covers(k)
          BY <4>3, <1>8, <2>2
        <5> QED BY <4>1, <4>2, <4>3, <5>1, <5>2
      <4>4. CASE x \notin Covers(i)
        <5>1. (\E k \in DOMAIN keys' : x \in Covers(k)) <=> (\E k \in DOMAIN keys : x \in Covers(k))
          BY <4>4, <1>8, <2>2
        <5> QED BY <4>1, <4>2, <4>4, <5>1
      <4> QED BY <4>3, <4>4
    <3> QED BY <3>2, <3>4
  <2> QED BY <2>1, <2>2
<1>12. ServerHas'
  <2>1. \A k : Request(k)' = Request(k) /\ Covers(k)' = Covers(k)
    BY <1>0 DEF Request, Key, Covers
  <2>2. wire' \subseteq {Request(k)' : k \in DOMAIN chunks'}
    BY <1>0, <2>1 DEF IngestInv, ServerHas
  <2> QED BY <1>0, <1>9, <1>10, <1>11, <2>1, <2>2 DEF ServerHas
<1> QED BY <1>1, <1>5, <1>12 DEF IngestInv

LEMMA IngestStep == IngestInv /\ [IngestNext]_ingestVars => IngestInv'
<1> SUFFICES ASSUME IngestInv, [IngestNext]_ingestVars PROVE IngestInv'
  OBVIOUS
<1>1. CASE Next /\ UNCHANGED <<clientVars, serverVars, wire>>
  BY <1>1, ChunkerStepIngest
<1>2. CASE \E i \in DOMAIN chunks : Send(i)
  BY <1>2, SendStep
<1>3. CASE \E q \in wire : Arrive(q)
  BY <1>3, ArriveStep
<1>4. CASE UNCHANGED ingestVars \/ \E n \in 1 .. MaxScript : Script(n)
  <2>1. UNCHANGED <<pending, next, group, bytes, count, first, chunks, wire, keys, accepted, acked, violations>>
    BY <1>4 DEF Script, ingestVars, vars, groupVars, clientVars, serverVars
  <2>2. IInv'
    BY <2>1, ChunkerStep DEF IngestInv, vars, groupVars
  <2>3. RangesApart' /\ KeepsContract'
    BY <2>1 DEF IngestInv, RangesApart, KeepsContract, ItemsOf
  <2>4. ServerHas'
    BY <2>1 DEF IngestInv, ServerHas, Covers, Request, Key
  <2> QED BY <2>2, <2>3, <2>4 DEF IngestInv
<1> QED BY <1>1, <1>2, <1>3, <1>4 DEF IngestNext

\* Whatever the client sends again, the server refuses, fails or answers into the
\* void: what the client holds for delivered was accepted once, and the server
\* complains of single items above the limit only (server.mjs:72-130).
THEOREM ServerAgreesAlways == IngestSpec => []ServerAgrees
<1>1. IngestInv => ServerAgrees
  <2> SUFFICES ASSUME IngestInv PROVE AckedIsAccepted /\ KeepsContract
    BY ItemsFit DEF ServerAgrees
  <2>1. ASSUME NEW q \in acked, NEW x \in ItemsIn(q) PROVE accepted[x] = 1
    <3>1. PICK k \in DOMAIN keys : q = Request(k)
      BY DEF IngestInv, ServerHas
    <3>2. x \in Covers(k) /\ k \in DOMAIN chunks
      BY <3>1 DEF ItemsIn, Request, Covers, IngestInv, ServerHas
    <3>3. /\ chunks[k].first \in Nat /\ chunks[k].last \in Nat /\ first \in Nat /\ Len(pending) \in Nat
          /\ first <= Len(pending) + 1
      BY <3>2, RequestTypes DEF IngestInv
    <3>4. 1 <= chunks[k].first /\ chunks[k].last < first /\ Len(pending) <= MaxPending
      BY <3>2 DEF IngestInv, RangesApart
    <3>5. x \in 1 .. MaxPending
      BY <3>2, <3>3, <3>4, ChunkerConstants DEF Covers
    <3> QED BY <3>1, <3>2, <3>5 DEF IngestInv, ServerHas
  <2>2. \A x \in DOMAIN accepted : accepted[x] <= 1
    BY DEF IngestInv, ServerHas
  <2>3. AckedIsAccepted
    BY <2>1, <2>2 DEF AckedIsAccepted
  <2> QED BY <2>3 DEF IngestInv
<1> QED BY <1>1, IngestInitial, IngestStep, PTL DEF IngestSpec
=============================================================================
