---------------------------- MODULE MCDocumented ----------------------------
(***************************************************************************)
(* Sentences of the repository that its code does not keep, about six      *)
(* parts that share no state: the React Native client over launches        *)
(* (OfflineClient), the browser client's unload (BrowserClient), errors in *)
(* a Node server (NodeRequests), the history patch (AutoCapture), flags    *)
(* (FlagCache) and the installer (Setup).                                  *)
(*                                                                         *)
(* The parts take turns: one moves until it has broken what is said of it, *)
(* then the next one does.                                                 *)
(***************************************************************************)
EXTENDS OfflineClient, AutoCapture, FlagCache, Setup

CONSTANTS c1, c2, Tab, MaxStored, MaxLoads, r1, Shared, Default, Nobody

VARIABLES
  \* BrowserClient
  page, webClosing, queue, fetching, unsent, webWire, webAccepted, rejected, webCaptures,
  webKeys, loads, webReported, released, sends,
  \* NodeRequests
  nodeClosed, globalUser, kind, scopeUser, startUser, sampled, ended, wrote, over, fault,
  handled, captured, traces, reports, sent,
  broken   \* the sentences that a step has broken

webVars ==
  <<page, webClosing, queue, fetching, unsent, webWire, webAccepted, rejected, webCaptures,
    webKeys, loads, webReported, released, sends>>
nodeVars ==
  <<nodeClosed, globalUser, kind, scopeUser, startUser, sampled, ended, wrote, over, fault,
    handled, captured, traces, reports, sent>>

Web == INSTANCE BrowserClient WITH
  closing <- webClosing, wire <- webWire, accepted <- webAccepted, captures <- webCaptures,
  keys <- webKeys, reported <- webReported, StorageFails <- TRUE

\* One Route Handler, which throws a string.
Node == INSTANCE NodeRequests WITH
  closed <- nodeClosed, Requests <- {r1}, Codes <- {200},
  Through <- [r \in {r1} |-> {"route"}], Thrown <- [r \in {r1} |-> {<<"text", r>>}]

(***************************************************************************)
(* Two clients, one flag for a plan, one project                           *)
(***************************************************************************)
TwoClients == {c1, c2}

Value(t, text) == {[type |-> t, is |-> text]}
BooleanPlan ==
  [userId : Value("string", "u"), user_id : {Missing}, email : {Missing}, plan : Value("boolean", "true")]
PlanFlag ==
  [enabled : {TRUE}, rollout : {100}, variants : {<<>>},
   rules : {<<[attribute |-> "plan", operator |-> "equals", values |-> <<"true">>]>>}]
UserBuckets == [u |-> 10]

ExpressProject == {{"package.json", "express"}}
NextAndReact   == {"", "next", "react"}

(***************************************************************************)
(* The parts and what is said of them                                      *)
(***************************************************************************)
Parts == <<"offline", "web", "node", "history", "flags", "setup">>

SaidOf ==
  [offline |-> {"NeverCountedTwice", "ShutdownPersists"},
   web     |-> {"RefusedIsKept"},
   node    |-> {"HandlersReportOnce"},
   history |-> {"NeverDoubleCounted"},
   flags   |-> {"RuntimesIdentical"},
   setup   |-> {"PublicKeysPlaced", "NextWired", "PlaceholdersNoted"}]

Sentences == UNION {SaidOf[Parts[i]] : i \in DOMAIN Parts}

\* The step, and the state after it, keep a sentence.
Kept ==
  [NeverCountedTwice |-> NeverCountedTwice', ShutdownPersists |-> ShutdownPersists,
   RefusedIsKept |-> Web!RefusedIsKept, HandlersReportOnce |-> Node!HandlersReportOnce,
   NeverDoubleCounted |-> NeverDoubleCounted', RuntimesIdentical |-> RuntimesIdentical',
   PublicKeysPlaced |-> PublicKeysPlaced', NextWired |-> NextWired',
   PlaceholdersNoted |-> PlaceholdersNoted']

Turn(part) ==
  \E i \in DOMAIN Parts :
    /\ Parts[i] = part
    /\ ~ (SaidOf[part] \subseteq broken)
    /\ \A j \in 1 .. i - 1 : SaidOf[Parts[j]] \subseteq broken

DocumentedInit ==
  /\ Init /\ Web!Init /\ Node!Init /\ FlagInit
  /\ CaptureInit /\ platform = "browser"
  /\ SetupInit /\ layout.shape = "odd"
  /\ runtime = "node"
  /\ broken = {}

DocumentedNext ==
  /\ IF Turn("offline") THEN Next ELSE UNCHANGED vars
  /\ IF Turn("web") THEN Web!Next ELSE UNCHANGED webVars
  /\ IF Turn("node") THEN Node!Next ELSE UNCHANGED nodeVars
  /\ IF Turn("history") THEN CaptureNext ELSE UNCHANGED captureVars
  /\ IF Turn("setup") THEN SetupNext ELSE UNCHANGED setupVars
  /\ UNCHANGED flagVars \* a flag is decided as soon as it is looked at
  /\ broken' = broken \cup {s \in Sentences : ~ Kept[s]}

documentedVars ==
  <<vars, webVars, nodeVars, captureVars, flagVars, setupVars, broken>>

DocumentedSpec == DocumentedInit /\ [][DocumentedNext]_documentedVars

\* What a part did before its last sentence broke no longer matters to the others.
View ==
  <<broken, IF Turn("offline") THEN vars ELSE <<>>, IF Turn("web") THEN webVars ELSE <<>>,
    IF Turn("node") THEN nodeVars ELSE <<>>, IF Turn("history") THEN captureVars ELSE <<>>,
    IF Turn("setup") THEN setupVars ELSE <<>>>>

\* Each of these sentences is said of the program.  What they say together at the
\* least is that no behaviour breaks all of them.
SomeSentenceHolds == Sentences \ broken # {}
=============================================================================
