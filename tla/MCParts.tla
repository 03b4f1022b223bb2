------------------------------ MODULE MCParts ------------------------------
(***************************************************************************)
(* Small instances of the parts that keep little state and share none:     *)
(* Chunker with MockIngest, AutoCapture, FlagCache, WebVitals,             *)
(* SvelteHandle, and Setup.  A behaviour is one of them, or just a flag    *)
(* that is decided, so that their state spaces add up.                     *)
(***************************************************************************)
EXTENDS MockIngest, AutoCapture, FlagCache, Setup, WebVitals, SvelteHandle, TLC

CONSTANTS c1, c2

VARIABLE part

(***************************************************************************)
(* Requests: scaled byte counts, and items that are small, in need of one  *)
(* to three cuts, and beyond help                                          *)
(***************************************************************************)
Item(m, s, t, b, r) == [message |-> m, stack |-> s, text |-> t, bag |-> b, rest |-> r]

SomeItems ==
  {Item(1, 0, 0, 0, 1), Item(1, 0, 20, 0, 0), Item(2, 0, 1, 14, 1), Item(7, 6, 0, 0, 0), Item(1, 0, 0, 0, 16)}

(***************************************************************************)
(* Clients that capture, and users with their buckets                      *)
(***************************************************************************)
TwoClients == {c1, c2}

UserBuckets == [u |-> 10, v |-> 50] @@ ("0" :> 10) @@ ("1" :> 50) @@ ("1.0" :> 10) @@ ("true" :> 50) @@ ("True" :> 10)
Parts == {<<"v", "v">>, <<"", "v">>, <<"", "">>}

Rules ==
  {<<>>} \cup
  {<<[attribute |-> "email", operator |-> op, values |-> vals]>> :
     op \in {"in", "not_in", "contains", "equals", "other"}, vals \in {<<>>, <<"v">>, <<"u", "v">>}} \cup
  {<<[attribute |-> "plan", operator |-> "equals", values |-> <<"true">>]>>}

SomeFlags ==
  [enabled : BOOLEAN, rollout : {0, 10, 11, 50, 100}, rules : Rules,
   variants : {<<>>, <<[key |-> "a", weight |-> 10], [key |-> "b", weight |-> 40]>>}]

Value(t, texts) == {[type |-> t, is |-> text] : text \in texts}
SomeContexts ==
  [userId : {Missing} \cup Value("string", {"", "u", "0"}) \cup Value("number", {"0", "1"}),
   user_id : {Missing}, email : {Missing} \cup Value("string", {"", "u", "v"}),
   plan : Value("boolean", {"true"}) \cup Value("string", {"true"})]

OneDecision == CHOOSE d \in [flag : SomeFlags, ctx : SomeContexts] : TRUE

(***************************************************************************)
(* Projects to set up: an Express server, React Native, SvelteKit beside   *)
(* Vue, and nothing at all; the developer may name Next                    *)
(***************************************************************************)
SomeProjects ==
  {{"package.json", "express"}, {"package.json", "react-native"}, {"package.json", "@sveltejs/kit", "vue"}, {}}
SomeArguments == {"", "next"}

(***************************************************************************)
(* Shifts within the gap's limit, at it, and past the window's; one user   *)
(***************************************************************************)
OneValue  == {1}
ShortLong == {2, 3}
OneUser   == {"u"}

(***************************************************************************)
(* One part at a time                                                      *)
(***************************************************************************)
PartsInit ==
  /\ part \in {"requests", "capture", "flags", "vitals", "svelte", "decision", "setup"}
  /\ VitalsInit /\ SvelteInit
  /\ IngestInit  /\ (part # "requests" => pending = <<>>)
  /\ CaptureInit /\ (part # "capture" => platform = "browser")
  /\ SetupInit   /\ (part # "setup" => facts = {} /\ layout.shape = "none")
  /\ FlagInit    /\ (part # "flags" => runtime = "node") /\ (part # "decision" => tried = OneDecision)

PartsNext ==
  /\ UNCHANGED part
  /\ \/ part = "requests" /\ IngestNext
        /\ UNCHANGED <<captureVars, flagVars, vitalVars, svelteVars, setupVars>>
     \/ part = "capture" /\ CaptureNext
        /\ UNCHANGED <<ingestVars, flagVars, vitalVars, svelteVars, setupVars>>
     \/ part = "flags" /\ FlagNext
        /\ UNCHANGED <<ingestVars, captureVars, vitalVars, svelteVars, setupVars>>
     \/ part = "vitals" /\ VitalsNext
        /\ UNCHANGED <<ingestVars, captureVars, flagVars, svelteVars, setupVars>>
     \/ part = "svelte" /\ SvelteNext
        /\ UNCHANGED <<ingestVars, captureVars, flagVars, vitalVars, setupVars>>
     \/ part = "setup" /\ SetupNext
        /\ UNCHANGED <<ingestVars, captureVars, flagVars, vitalVars, svelteVars>>

partsVars == <<ingestVars, captureVars, flagVars, vitalVars, svelteVars, setupVars, part>>
PartsSpec == PartsInit /\ [][PartsNext]_partsVars
=============================================================================
