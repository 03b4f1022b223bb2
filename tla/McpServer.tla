----------------------------- MODULE McpServer -----------------------------
(***************************************************************************)
(* mcp/src/server.ts: tool calls of an assistant that become requests to   *)
(* the WatchUp API.  A call is refused for want of a credential, waits for *)
(* one or several requests, each with a timeout, and ends in a result or a *)
(* failure.  The assistant walks through a list by asking for next_page.   *)
(*                                                                         *)
(* Abstractions.  A list is the set of its items, numbered in its order;   *)
(* redaction, the cap of the output and other arguments are left out, and  *)
(* so are tools that are one plain GET beyond "get".                       *)
(***************************************************************************)
EXTENDS Integers, Sequences, FiniteSets

CONSTANTS
  ChannelTypes,  \* the types watchup_list_alert_channels asks for
  Total,         \* items of a list
  MaxLimit,      \* bound: items of a page
  MaxCalls       \* bound: calls of one tool

VARIABLES
  env,      \* the configuration the server was started with
  limit,    \* the assistant's page size
  calls,    \* the call of a tool that is under way: its page and its requests
  shown,    \* the results of a tool's calls, in order
  created   \* posts and flags the API has created

vars == <<env, limit, calls, shown, created>>

\* list: listTool; posts: community posts; get: the tools that fetch one thing.
ListTools  == {"projects", "list", "posts", "alerts"}
WriteTools == {"create_post", "create_flag"}
Tools      == ListTools \cup {"channels", "get"} \cup WriteTools

\* The requests of a call.
Requests(t) ==
  CASE t = "alerts"   -> {"rules", "incidents"}
    [] t = "channels" -> ChannelTypes
    [] OTHER          -> {"one"}

\* A request's state, and a tool without a call.
Open      == [state |-> "open", items |-> {}]
Ok(items) == [state |-> "ok", items |-> items]
Failed    == [state |-> "failed", items |-> {}]
Idle      == [page |-> 0, got |-> <<>>]

Refusal == [ok |-> FALSE, parts |-> <<>>]

\* credential, assertReadable, assertWritable and projectId.
Credential == env.token \/ env.key
NeedsProject(t) == t \notin {"projects", "posts", "create_post"}
Permitted(t, project) ==
  /\ Credential
  /\ t \in WriteTools => env.token /\ ~ env.readOnly
  /\ NeedsProject(t) => project \/ env.project

\* What the API answers: the items of the page it was asked for, or of the whole
\* list when the request names no page.
Sent(t) == t \in {"list", "posts"}
Listed(t, page) ==
  IF Sent(t) THEN ((page - 1) * limit + 1 .. page * limit) \cap (1 .. Total)
  ELSE 1 .. Total

\* paginate: at most limit items, and the page that follows when there were more.
FirstOf(items) == {i \in items : Cardinality({j \in items : j < i}) < limit}
Paginate(items, page) ==
  [items |-> FirstOf(items), page |-> page,
   next  |-> IF Cardinality(items) > limit THEN page + 1 ELSE 0]

\* The page the assistant asks for: the one the last result names, or the first.
PageToAsk(t, r) ==
  LET last == shown[t][Len(shown[t])] IN
  IF t \in ListTools /\ shown[t] # <<>> /\ last.ok THEN last.parts[r].next ELSE 1

\* A tool call arrives; a refused one ends at once.
Ask(t) ==
  /\ calls[t].page = 0 /\ Len(shown[t]) < MaxCalls
  /\ \E r \in Requests(t), project \in BOOLEAN :
       /\ PageToAsk(t, r) > 0
       /\ IF Permitted(t, project)
          THEN /\ calls' = [calls EXCEPT ![t] =
                              [page |-> PageToAsk(t, r), got |-> [q \in Requests(t) |-> Open]]]
               /\ UNCHANGED shown
          ELSE shown' = [shown EXCEPT ![t] = Append(@, Refusal)] /\ UNCHANGED calls
  /\ UNCHANGED <<env, limit, created>>

\* The API takes a POST, whether its answer arrives or not.
Creates(t, n) == created' = IF t \in WriteTools THEN created + n ELSE created

\* A request is answered, or times out or fails: no answer, a status, ok: false.
Answer(t, r) ==
  /\ calls[t].page > 0 /\ calls[t].got[r] = Open
  /\ \/ /\ calls' = [calls EXCEPT ![t].got[r] =
                       Ok(IF t \in ListTools THEN Listed(t, calls[t].page) ELSE {})]
        /\ Creates(t, 1)
     \/ /\ calls' = [calls EXCEPT ![t].got[r] = Failed]
        /\ \E n \in 0 .. 1 : Creates(t, n)
  /\ UNCHANGED <<env, limit, shown>>

\* What a call returns: the alerts fail as soon as one of their requests does, the
\* channels report each failure, a list is paginated.
HasFailed(t) == t # "channels" /\ \E r \in Requests(t) : calls[t].got[r] = Failed
Result(t) ==
  IF HasFailed(t) THEN Refusal
  ELSE [ok |-> TRUE,
        parts |-> [r \in Requests(t) |->
          IF t \in ListTools THEN Paginate(calls[t].got[r].items, calls[t].page) ELSE calls[t].got[r]]]

Return(t) ==
  /\ calls[t].page > 0
  /\ HasFailed(t) \/ \A r \in Requests(t) : calls[t].got[r] # Open
  /\ shown' = [shown EXCEPT ![t] = Append(@, Result(t))]
  /\ calls' = [calls EXCEPT ![t] = Idle]
  /\ UNCHANGED <<env, limit, created>>

Init ==
  /\ env \in [token : BOOLEAN, key : BOOLEAN, readOnly : BOOLEAN, project : BOOLEAN]
  /\ limit \in 1 .. MaxLimit
  /\ calls = [t \in Tools |-> Idle]
  /\ shown = [t \in Tools |-> <<>>]
  /\ created = 0

Next == \E t \in Tools : Ask(t) \/ Return(t) \/ \E r \in Requests(t) : Answer(t, r)

Spec == Init /\ [][Next]_vars

(***************************************************************************)
(* Properties                                                              *)
(***************************************************************************)

\* An assistant that follows next_page meets no item of a list on two pages: that
\* is what a page is (mcp/README.md:62).
PagesDisjoint ==
  \A t \in ListTools : \A i, j \in DOMAIN shown[t] : \A r \in Requests(t) :
    i < j /\ shown[t][i].ok /\ shown[t][j].ok
      => shown[t][i].parts[r].items \cap shown[t][j].parts[r].items = {}
=============================================================================
