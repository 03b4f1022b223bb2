---------------------------- MODULE SvelteHandle ----------------------------
(***************************************************************************)
(* The Svelte SDK in the browser: every <WatchupProvider> makes a handle   *)
(* when it is initialised, a client when it is mounted, and shuts it down  *)
(* when it is destroyed (svelte/src/client.ts, context.ts).  What the      *)
(* application calls before that is buffered; actions and event handlers   *)
(* reach the handle of the provider that is active.                        *)
(*                                                                         *)
(* Abstractions.  A call captures something, sets a user or none, or ends  *)
(* a trace; a capture is its number.  What a client captures reaches its   *)
(* queue in order (DeliveryQueue has the rest).  Flag listeners are one.   *)
(***************************************************************************)
EXTENDS Naturals, Sequences, FiniteSets, SequencesExt

CONSTANTS
  Providers, \* <WatchupProvider> components
  People,    \* users
  Nobody,    \* no user, no handle
  MaxBuffered,
  MaxCalls,  \* bound: calls of the application
  MaxTraces  \* bound: traces

ASSUME HandleConstants ==
  /\ MaxBuffered \in Nat \ {0} /\ {MaxCalls, MaxTraces} \subseteq Nat
  /\ Nobody \notin People \cup Providers

VARIABLES
  component, \* new, created (initialised), mounted, keyless (without an API key), destroyed
  client,    \* the client of a handle: none, open, or closed by stop
  buffered,   \* WatchupHandle.buffer
  person,    \* the user of a handle's client
  recorded,  \* what a handle's client captured
  tells,     \* the handles whose flag listeners a client would call
  active,    \* context.ts: the handle of actions and event handlers
  spans,     \* the traces begun, each of them ended by a function the application holds
  meant,     \* history: of call n, its handle, the user that was set, and whether it
             \* is a capture that is due
  current,   \* history: the user the application set last, through a handle
  overflown, \* history: handles whose buffer was full for a call
  calls

handleVars == <<client, buffered, person, recorded, tells>>
callVars   == <<spans, meant, current, overflown, calls>>
svelteVars == <<component, handleVars, active, callVars>>

(***************************************************************************)
(* The handle                                                              *)
(***************************************************************************)

\* Calls: to capture n, or to set user u.
CaptureCall(n) == [what |-> "capture", id |-> n]
UserCall(u)    == [what |-> "user", user |-> u]

\* A call to a client with user u, which has captured c: both afterwards.
Made(u, c, call) ==
  CASE call.what = "user"    -> [user |-> call.user, items |-> c]
    [] call.what = "capture" -> [user |-> u, items |-> Append(c, [id |-> call.id, user |-> u])]

\* What a client without a user is after the first k of some calls.
Replay(list) ==
  LET after[k \in 0 .. Len(list)] ==
        IF k = 0 THEN [user |-> Nobody, items |-> <<>>]
        ELSE Made(after[k - 1].user, after[k - 1].items, list[k])
  IN  after

\* Mutant of Replayed: the buffer is worked off from its end.
ReplayedReversed(h) == Replay(Reverse(buffered[h]))[Len(buffered[h])]

\* start: the calls of the buffer, in order.
Replayed(h) == Replay(buffered[h])[Len(buffered[h])]

\* Mutant of Buffers: a handle without a client drops what it is asked.
BuffersNothing(h) == FALSE

Buffers(h) == Len(buffered[h]) < MaxBuffered

\* run: to the client if there is one, else to the buffer while it has room.
Run(h, call) ==
  IF client[h] = "open"
  THEN LET after == Made(person[h], recorded[h], call) IN
       /\ person' = [person EXCEPT ![h] = after.user]
       /\ recorded' = [recorded EXCEPT ![h] = after.items]
       /\ UNCHANGED <<buffered, overflown>>
  ELSE /\ buffered' = IF Buffers(h) THEN [buffered EXCEPT ![h] = Append(@, call)] ELSE buffered
       /\ overflown' = IF Len(buffered[h]) < MaxBuffered THEN overflown ELSE overflown \cup {h}
       /\ UNCHANGED <<person, recorded>>

(***************************************************************************)
(* Providers                                                               *)
(***************************************************************************)

\* Component init: a new handle, which is the active one.
Create(p) ==
  /\ component[p] = "new"
  /\ component' = [component EXCEPT ![p] = "created"]
  /\ active' = p
  /\ UNCHANGED <<handleVars, callVars>>

\* onMount, and start; without a key there never is a client.
Mount(p) ==
  /\ component[p] = "created"
  /\ component' = [component EXCEPT ![p] = "mounted"]
  /\ client' = [client EXCEPT ![p] = "open"]
  /\ person' = [person EXCEPT ![p] = Replayed(p).user]
  /\ recorded' = [recorded EXCEPT ![p] = Replayed(p).items]
  /\ buffered' = [buffered EXCEPT ![p] = <<>>]
  /\ tells' = tells \cup {p}
  /\ UNCHANGED <<active, callVars>>
MountKeyless(p) ==
  /\ component[p] = "created"
  /\ component' = [component EXCEPT ![p] = "keyless"]
  /\ UNCHANGED <<handleVars, active, callVars>>

\* Mutant of Deactivated: the handle stays where it is.
StaysActive(p) == active

\* onDestroy: a handle that another provider has replaced is not active.
Deactivated(p) == IF active = p THEN Nobody ELSE active

\* onDestroy, and stop: the client's shutdown closes it at once.
Destroy(p) ==
  /\ component[p] \in {"created", "mounted", "keyless"}
  /\ component' = [component EXCEPT ![p] = "destroyed"]
  /\ active' = Deactivated(p)
  /\ client' = [client EXCEPT ![p] = IF @ = "open" THEN "closed" ELSE @]
  /\ tells' = tells \ {p}
  /\ UNCHANGED <<buffered, person, recorded, callVars>>

(***************************************************************************)
(* The application                                                         *)
(***************************************************************************)

\* A handle that a component holds, or the active one.  A held handle may outlive
\* its provider.
Reachable == {p \in Providers : component[p] # "new"}

Called == calls < MaxCalls /\ calls' = calls + 1
Meant(h, u, due) == meant' = Append(meant, [by |-> h, user |-> u, due |-> due])

\* setUser and clearUser.
Identify(h, u) ==
  /\ Called /\ Run(h, UserCall(u))
  /\ current' = [current EXCEPT ![h] = u]
  /\ Meant(h, u, FALSE)
  /\ UNCHANGED <<component, client, tells, active, spans>>

\* track, captureError, captureLog.
CaptureBy(h) ==
  /\ Called /\ Run(h, CaptureCall(calls + 1))
  /\ Meant(h, current[h], client[h] # "closed")
  /\ UNCHANGED <<component, client, tells, active, spans, current>>

\* trackClick, and SvelteKit's handleError on the client: nothing without an active
\* handle.
CaptureActive ==
  /\ active # Nobody /\ CaptureBy(active)

\* startTrace: the client's own trace keeps the user of its start; without a client,
\* only the start time is kept, and the trace begins and ends when it is ended.
StartTrace(h) ==
  /\ Len(spans) < MaxTraces
  /\ spans' = Append(spans, [handle |-> h, lazy |-> client[h] # "open", user |-> person[h], ended |-> FALSE])
  /\ UNCHANGED <<component, handleVars, active, meant, current, overflown, calls>>

\* The end of a client's trace counts once, and not for a closed client.
EndOwn(i) ==
  LET h     == spans[i].handle
      takes == ~ spans[i].ended /\ client[h] = "open"
  IN
  /\ Called /\ Meant(h, spans[i].user, takes)
  /\ recorded' = IF takes THEN [recorded EXCEPT ![h] = Append(@, [id |-> calls + 1, user |-> spans[i].user])]
                 ELSE recorded
  /\ UNCHANGED <<buffered, person, overflown>>
EndTrace(i) ==
  /\ i \in DOMAIN spans
  /\ IF spans[i].lazy
     THEN LET h == spans[i].handle IN
          /\ Called /\ Run(h, CaptureCall(calls + 1))
          /\ Meant(h, current[h], client[h] # "closed")
     ELSE EndOwn(i)
  /\ spans' = [spans EXCEPT ![i].ended = TRUE]
  /\ UNCHANGED <<component, client, tells, active, current>>

SvelteInit ==
  /\ component = [p \in Providers |-> "new"] /\ active = Nobody
  /\ client = [p \in Providers |-> "none"] /\ buffered = [p \in Providers |-> <<>>]
  /\ person = [p \in Providers |-> Nobody] /\ recorded = [p \in Providers |-> <<>>] /\ tells = {}
  /\ spans = <<>> /\ meant = <<>> /\ current = [p \in Providers |-> Nobody] /\ overflown = {}
  /\ calls = 0

SvelteNext ==
  \/ \E p \in Providers : Create(p) \/ Mount(p) \/ MountKeyless(p) \/ Destroy(p)
  \/ \E h \in Reachable : CaptureBy(h) \/ StartTrace(h) \/ \E u \in People \cup {Nobody} : Identify(h, u)
  \/ CaptureActive
  \/ \E i \in 1 .. MaxTraces : EndTrace(i)

SvelteSpec == SvelteInit /\ [][SvelteNext]_svelteVars

(***************************************************************************)
(* Properties                                                              *)
(***************************************************************************)

\* What a handle is asked before there is a client is neither lost, doubled,
\* reordered nor given to somebody else: its client captures in the order of the
\* calls, each once, with the user that the application had set then, and has
\* captured everything up to its end that the buffer had room for.  Once the buffer
\* was full that is only true of the order: a dropped clearUser() leaves the user
\* before it.
Ids(h) == [i \in DOMAIN recorded[h] |-> recorded[h][i].id]
InOrder(h) == \A i, j \in DOMAIN recorded[h] : i < j => Ids(h)[i] < Ids(h)[j]
Faithful(h) == \A i \in DOMAIN recorded[h] : recorded[h][i].user = meant[Ids(h)[i]].user
Complete(h) ==
  \A n \in DOMAIN meant :
    meant[n].by = h /\ meant[n].due =>
      Contains(Ids(h), n) \/ \E i \in DOMAIN buffered[h] : buffered[h][i] = CaptureCall(n)

\* Buffered calls are for a client that is not there yet, or will never be.
Buffered(h) == buffered[h] # <<>> => client[h] # "open"

\* An action never reaches a handle whose provider is gone, and flag listeners are
\* called by open clients only.
ActiveIsAlive == active # Nobody => component[active] \in {"created", "mounted", "keyless"}
ListenersLive == \A p \in Providers : p \in tells <=> client[p] = "open"

HandlesKeep ==
  /\ \A h \in Providers : InOrder(h) /\ Buffered(h) /\ (h \notin overflown => Faithful(h) /\ Complete(h))
  /\ ActiveIsAlive /\ ListenersLive
=============================================================================
