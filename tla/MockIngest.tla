----------------------------- MODULE MockIngest -----------------------------
(***************************************************************************)
(* The requests of Chunker on their way to the ingest service, as          *)
(* tools/mock-ingest/server.mjs stands in for it: it acknowledges a        *)
(* repeated idempotency key without accepting the items again, can be told *)
(* to fail, and writes down every violation of the SDK's contract.         *)
(*                                                                         *)
(* Abstractions.  A client sends a complete request, perhaps again and     *)
(* again: DeliveryQueue and the clients say when.  A request's body is the *)
(* request.  Credentials, JSON and redaction are left out.                 *)
(***************************************************************************)
EXTENDS Chunker, FiniteSets

CONSTANTS
  ServerLimit, ChunkTarget, CountGuard,   \* SERVER_BODY_LIMIT, SDK_CHUNK_TARGET, COUNT_GUARD
  MaxSends,     \* bound: sends of one request
  MaxScript     \* bound: failures the server is told of

\* The client's limits are within the server's (constants.ts:16-18, server.mjs:22-24).
ASSUME IngestConstants ==
  /\ {ServerLimit, ChunkTarget, CountGuard, MaxSends, MaxScript} \subseteq Nat
  /\ MaxBytes <= ChunkTarget /\ ChunkTarget <= ServerLimit /\ MaxItems <= CountGuard

VARIABLES
  wire,       \* requests in flight, with their keys
  sends,      \* how often request i was sent
  settled,    \* requests the client is done with
  script,     \* failures to come  (state.script)
  keys,       \* idempotency key -> body  (state.keys)
  accepted,   \* how often an item was accepted, by its place  (state.accepted)
  acked,      \* history: requests the client believes delivered
  violations  \* (state.violations)

serverVars == <<script, keys, accepted, violations>>
clientVars == <<sends, settled, acked>>

\* Mutant of Key: the chunks of a batch share its key.
BatchKey(i) == 0

\* idempotencyKey(batchId, index), of one batch.
Key(i) == i

Request(i) == [key |-> Key(i), index |-> i, body |-> chunks[i]]

ItemsIn(q) == q.body.first .. q.body.last

\* What the server writes down about a request.
Complaints(q, fails) ==
  LET size == BodyBytes(q.body.body) IN
  {v \in {"limit", "target", "count", "reused"} :
     \/ v = "limit" /\ size > ServerLimit
     \/ v = "target" /\ size > ChunkTarget /\ size <= ServerLimit
     \/ v = "count" /\ ItemsOf(q.body) > CountGuard /\ size <= ServerLimit
     \/ v = "reused" /\ ~ fails /\ q.key \in DOMAIN keys /\ keys[q.key] # q.body /\ size <= ServerLimit}

\* Mutant of RecordsKey: the key is recorded before the scripted failure.
RecordsAlways(q, fails) == q.key \notin DOMAIN keys

\* The key of a failure is not recorded, so that the retry can succeed.
RecordsKey(q, fails) == ~ fails /\ q.key \notin DOMAIN keys

\* handleBatch: too large, told to fail, known, or accepted.
HandleBatch(q, fails) ==
  /\ violations' = violations \cup {<<v, q.body>> : v \in Complaints(q, fails)}
  /\ IF RecordsKey(q, fails)
     THEN keys' = [k \in DOMAIN keys \cup {q.key} |-> IF k = q.key THEN q.body ELSE keys[k]]
     ELSE UNCHANGED keys
  /\ IF ~ fails /\ q.key \notin DOMAIN keys
     THEN accepted' = [x \in DOMAIN accepted |->
                         accepted[x] + (IF x \in ItemsIn(q) THEN 1 ELSE 0)]
     ELSE UNCHANGED accepted

\* The client sends a request it is not done with, also while an earlier send is
\* still on its way.
Send(i) ==
  /\ next > Len(pending) /\ count = 0
  /\ i \in DOMAIN chunks \ settled /\ sends[i] < MaxSends
  /\ wire' = wire \cup {Request(i)}
  /\ sends' = [sends EXCEPT ![i] = @ + 1]
  /\ UNCHANGED <<vars, serverVars, settled, acked>>

\* A request reaches the server.  The answer is lost, or reaches the client: a
\* success or a refusal settles the request, a failure leaves it to a retry.
Arrive(q) ==
  LET refused == BodyBytes(q.body.body) > ServerLimit
      fails   == ~ refused /\ script > 0
  IN  /\ IF refused
         THEN /\ violations' = violations \cup {<<v, q.body>> : v \in Complaints(q, TRUE)}
              /\ UNCHANGED <<keys, accepted>>
         ELSE HandleBatch(q, fails)
      /\ script' = IF fails THEN script - 1 ELSE script
      /\ \/ /\ ~ fails
            /\ settled' = settled \cup {q.index}
            /\ acked' = IF refused THEN acked ELSE acked \cup {q}
         \/ UNCHANGED <<settled, acked>>
  /\ wire' \in {wire, wire \ {q}}
  /\ UNCHANGED <<vars, sends>>

\* POST /__mock/script.
Script(n) ==
  /\ script = 0 /\ n > 0 /\ sends = [i \in DOMAIN sends |-> 0] /\ keys = <<>>
  /\ script' = n
  /\ UNCHANGED <<vars, clientVars, wire, keys, accepted, violations>>

IngestInit ==
  /\ Init
  /\ wire = {} /\ settled = {} /\ acked = {}
  /\ sends = [i \in 1 .. MaxPending |-> 0]
  /\ script = 0 /\ keys = <<>> /\ violations = {}
  /\ accepted = [x \in 1 .. MaxPending |-> 0]

IngestNext ==
  \/ Next /\ UNCHANGED <<clientVars, serverVars, wire>>
  \/ \E i \in DOMAIN chunks : Send(i)
  \/ \E q \in wire : Arrive(q)
  \/ \E n \in 1 .. MaxScript : Script(n)

ingestVars == <<vars, clientVars, serverVars, wire>>
IngestSpec == IngestInit /\ [][IngestNext]_ingestVars

(***************************************************************************)
(* Properties                                                              *)
(***************************************************************************)

\* The server only ever complains of a request whose one item is too large for
\* any request: none is over the SDK's own target or the count guard, and no
\* key comes back with another body.
KeepsContract ==
  \A v \in violations : v[1] \in {"limit", "target"} /\ ItemsOf(v[2]) = 1

\* A request the client believes delivered was accepted, and no item was accepted
\* twice, however often its request was sent, failed or lost its answer.
AckedIsAccepted ==
  /\ \A q \in acked : \A x \in ItemsIn(q) : accepted[x] = 1
  /\ \A x \in DOMAIN accepted : accepted[x] <= 1

\* Server and client agree: items are cut to what a request may hold, the server has
\* nothing to complain of, and what the client holds for delivered was accepted,
\* once.
ServerAgrees == Fits /\ KeepsContract /\ AckedIsAccepted
=============================================================================
