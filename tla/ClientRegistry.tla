--------------------------- MODULE ClientRegistry ---------------------------
(***************************************************************************)
(* The registry of shared browser clients of the React binding:            *)
(* react/src/registry.ts and its only user, react/src/WatchupProvider.tsx. *)
(*                                                                         *)
(* A provider takes a client while it renders and retains it in an effect, *)
(* after the commit; React may run other tasks in between, may throw the   *)
(* render away, and in StrictMode runs the effect's cleanup and the effect *)
(* once more.  The last release starts a timer; when it fires, the client  *)
(* is shut down and its entry removed.                                     *)
(*                                                                         *)
(* Abstractions.  An entry is one with its client: refs[c] and timer[c]    *)
(* are the fields of c's entry, which its timer's closure keeps alive when *)
(* the map no longer holds it.  A key stands for apiKey|baseUrl.           *)
(* Providers that are given a client, or have no key, never come here.     *)
(***************************************************************************)
EXTENDS Integers, FiniteSets

CONSTANTS
  Providers,   \* places where a <WatchupProvider> may be mounted
  Keys,        \* apiKey|baseUrl
  KeyOf,       \* the key of each provider's options
  MaxClients   \* bound: clients created in a behaviour

ASSUME ConstantsOK ==
  /\ IsFiniteSet(Providers) /\ Keys # {}
  /\ KeyOf \in [Providers -> Keys]
  /\ MaxClients \in Nat

Client == 1 .. MaxClients
None == 0

VARIABLES
  phase,     \* where each provider is in its life
  holds,     \* the client in its useState              (instance)
  entries,   \* the client of each key's entry          (entries)
  refs,      \* providers that retain a client          (entry.refs)
  timer,     \* the entry's shutdown timer              (entry.pendingShutdown)
  open,      \* clients that are not shut down          (! client.isClosed)
  keyOfClient, \* the key a client was created for
  made,      \* how many clients were created
  used       \* history: clients that were retained

registryVars == <<entries, refs, timer, open, keyOfClient, made, used>>
reactVars == <<phase, holds, registryVars>>

Phase == {"idle", "rendered", "mounted"}

\* A timer that has fired is still recorded: pendingShutdown is not reset.
Timer == {"none", "set", "fired"}

TypeOK ==
  /\ phase \in [Providers -> Phase]
  /\ holds \in [Providers -> Client \cup {None}]
  /\ entries \in [Keys -> Client \cup {None}]
  /\ refs \in [Client -> Nat]
  /\ timer \in [Client -> Timer]
  /\ {open, used} \subseteq SUBSET Client
  /\ keyOfClient \in [Client -> Keys]
  /\ made \in 0 .. MaxClients

\* The entry of c is in the map.
Registered(c) == c # None /\ entries[keyOfClient[c]] = c

(***************************************************************************)
(* The registry's operations                                               *)
(***************************************************************************)

\* Mutant of Acquire: a new client is made though there is an open one.
AcquireNew(k, c) ==
  /\ made < MaxClients /\ c = made + 1
  /\ made' = c
  /\ entries' = [entries EXCEPT ![k] = c]
  /\ open' = open \cup {c}
  /\ keyOfClient' = [keyOfClient EXCEPT ![c] = k]
  /\ UNCHANGED <<refs, timer, used>>

\* acquireClient(): the key's open client, or a new one.
Acquire(k, c) ==
  \/ /\ entries[k] \in open
     /\ c = entries[k]
     /\ UNCHANGED registryVars
  \/ /\ entries[k] \notin open
     /\ made < MaxClients /\ c = made + 1
     /\ made' = c
     /\ entries' = [entries EXCEPT ![k] = c]
     /\ open' = open \cup {c}
     /\ keyOfClient' = [keyOfClient EXCEPT ![c] = k]
     /\ UNCHANGED <<refs, timer, used>>

\* Mutant of Retained: the timer is cleared, but its field is not reset.
RetainedStale(e) ==
  [refs |-> e.refs + 1, timer |-> IF e.timer = "set" THEN "fired" ELSE e.timer]

\* What retainClient makes of an entry [refs, timer].
Retained(e) == [refs |-> e.refs + 1, timer |-> "none"]

\* Mutant of Released: one release ends all uses.
ReleasedAtOnce(e) == [refs |-> 0, timer |-> "set"]

\* What releaseClient makes of it.
Released(e) ==
  LET left == IF e.refs > 0 THEN e.refs - 1 ELSE 0
  IN  [refs  |-> left,
       timer |-> IF left > 0 \/ e.timer # "none" THEN e.timer ELSE "set"]

\* c's entry becomes e; nothing happens to a client the map does not hold.
SetEntry(c, e) ==
  /\ refs' = IF Registered(c) THEN [refs EXCEPT ![c] = e.refs] ELSE refs
  /\ timer' = IF Registered(c) THEN [timer EXCEPT ![c] = e.timer] ELSE timer

Entry(c) == [refs |-> refs[c], timer |-> timer[c]]

\* The callback of releaseClient's timer: it looks at the count again, deletes
\* what the map holds for the key, and shuts its own client down.
TimerFires(c) ==
  /\ timer[c] = "set"
  /\ timer' = [timer EXCEPT ![c] = "fired"]
  /\ IF refs[c] = 0
       THEN /\ entries' = [entries EXCEPT ![keyOfClient[c]] = None]
            /\ open' = open \ {c}
       ELSE UNCHANGED <<entries, open>>
  /\ UNCHANGED <<phase, holds, refs, keyOfClient, made, used>>

(***************************************************************************)
(* The provider                                                            *)
(***************************************************************************)

\* The first render of a provider: useState's initializer.
Render(p) ==
  /\ phase[p] = "idle"
  /\ phase' = [phase EXCEPT ![p] = "rendered"]
  /\ \E c \in Client : Acquire(KeyOf[p], c) /\ holds' = [holds EXCEPT ![p] = c]

\* The render is thrown away before its effects run.
Discard(p) ==
  /\ phase[p] = "rendered"
  /\ phase' = [phase EXCEPT ![p] = "idle"]
  /\ holds' = [holds EXCEPT ![p] = None]
  /\ UNCHANGED registryVars

\* The effect.
Mount(p) ==
  /\ phase[p] = "rendered"
  /\ phase' = [phase EXCEPT ![p] = "mounted"]
  /\ SetEntry(holds[p], Retained(Entry(holds[p])))
  /\ used' = used \cup {holds[p]}
  /\ UNCHANGED <<holds, entries, open, keyOfClient, made>>

\* Its cleanup.
Unmount(p) ==
  /\ phase[p] = "mounted"
  /\ phase' = [phase EXCEPT ![p] = "idle"]
  /\ holds' = [holds EXCEPT ![p] = None]
  /\ SetEntry(holds[p], Released(Entry(holds[p])))
  /\ UNCHANGED <<entries, open, keyOfClient, made, used>>

\* StrictMode: the cleanup and the effect again, in one task.
Remount(p) ==
  /\ phase[p] = "mounted"
  /\ SetEntry(holds[p], Retained(Released(Entry(holds[p]))))
  /\ UNCHANGED <<phase, holds, entries, open, keyOfClient, made, used>>

\* The application calls shutdown() on the client useWatchup() gave it.
AppShutsDown(p) ==
  /\ phase[p] = "mounted"
  /\ open' = open \ {holds[p]}
  /\ UNCHANGED <<phase, holds, entries, refs, timer, keyOfClient, made, used>>

(***************************************************************************)
(* The specification                                                       *)
(***************************************************************************)
RegistryInit ==
  /\ phase = [p \in Providers |-> "idle"]
  /\ holds = [p \in Providers |-> None]
  /\ entries = [k \in Keys |-> None]
  /\ refs = [c \in Client |-> 0]
  /\ timer = [c \in Client |-> "none"]
  /\ open = {} /\ used = {} /\ made = 0
  /\ keyOfClient = [c \in Client |-> CHOOSE k \in Keys : TRUE]

Provider(p) == Render(p) \/ Discard(p) \/ Mount(p) \/ Unmount(p) \/ Remount(p)

\* An application that leaves the shared client's life to the providers.
SharedNext ==
  \/ \E p \in Providers : Provider(p)
  \/ \E c \in Client : TimerFires(c)

SharedSpec == RegistryInit /\ [][SharedNext]_reactVars

\* A timer that is set fires, unless it is cleared.
TimersFire == \A c \in Client : WF_reactVars(TimerFires(c))

RegistryNext == SharedNext \/ \E p \in Providers : AppShutsDown(p)

RegistrySpec == RegistryInit /\ [][RegistryNext]_reactVars

(***************************************************************************)
(* Properties                                                              *)
(***************************************************************************)
Users(c) == {p \in Providers : phase[p] = "mounted" /\ holds[p] = c}

\* An entry counts exactly the mounted providers that use its client, over
\* every order of renders, effects, StrictMode remounts and timers.
RefsCount == \A c \in Client : Registered(c) => refs[c] = Cardinality(Users(c))

\* One client per key (registry.ts:4): listeners and queues are never
\* duplicated.
OneClient ==
  \A c, d \in open : keyOfClient[c] = keyOfClient[d] => c = d

\* No timer takes away a client that a mounted provider retains.
InUseStaysOpen ==
  [][\A p \in Providers :
       phase[p] = "mounted" /\ holds[p] \in open /\ phase'[p] = "mounted"
         => holds[p] \in open']_reactVars

\* A client its last provider left is shut down, unless one comes back.
IdleIsShutDown ==
  \A c \in Client :
    c \in used \cap open /\ Users(c) = {} ~> c \notin open \/ Users(c) # {}

=============================================================================
