------------------------ MODULE ClientRegistryProofs ------------------------
(***************************************************************************)
(* Proofs about ClientRegistry, for any set of providers and keys: the     *)
(* count of an entry is exact whatever the application does, and without   *)
(* shutdown() calls of the application there is one open client per key,   *)
(* which no timer takes away from a mounted provider.                      *)
(***************************************************************************)
EXTENDS ClientRegistry, FiniteSetTheorems, TLAPS

\* Whoever got past its render holds a client that was created.
HoldersHold ==
  /\ \A p \in Providers : phase[p] # "idle" => holds[p] \in 1 .. made
  /\ \A k \in Keys : entries[k] # None =>
       entries[k] \in 1 .. made /\ keyOfClient[entries[k]] = k

\* Nothing is known of a client that was not created.
FutureIsBlank ==
  /\ open \subseteq 1 .. made
  /\ \A c \in Client : c > made => refs[c] = 0

IInv == TypeOK /\ HoldersHold /\ FutureIsBlank /\ RefsCount

USE DEF None, Client

LEMMA UsersFinite ==
  ASSUME NEW c
  PROVE  IsFiniteSet(Users(c)) /\ Cardinality(Users(c)) \in Nat
<1>1. Users(c) \subseteq Providers
  BY DEF Users
<1> QED BY <1>1, FS_Subset, FS_CardinalityType, ConstantsOK

\* A step that leaves the providers alone leaves the users alone.
LEMMA SameUsers ==
  ASSUME UNCHANGED <<phase, holds>>, NEW c
  PROVE  Users(c)' = Users(c)
  BY DEF Users

LEMMA InitInv == RegistryInit => IInv
<1> SUFFICES ASSUME RegistryInit PROVE IInv
  OBVIOUS
<1>1. TypeOK
  <2>1. (CHOOSE k \in Keys : TRUE) \in Keys
    BY ConstantsOK
  <2> QED BY <2>1, ConstantsOK DEF RegistryInit, TypeOK, Phase, Timer
<1>2. HoldersHold /\ FutureIsBlank
  BY ConstantsOK DEF RegistryInit, HoldersHold, FutureIsBlank
<1>3. \A c \in Client : ~ Registered(c)
  BY <1>1 DEF RegistryInit, TypeOK, Registered
<1> QED BY <1>1, <1>2, <1>3 DEF IInv, RefsCount

LEMMA RenderInv ==
  ASSUME IInv, NEW p \in Providers, Render(p)
  PROVE  IInv'
<1>1. PICK c \in Client : Acquire(KeyOf[p], c) /\ holds' = [holds EXCEPT ![p] = c]
  BY DEF Render
<1> DEFINE k == KeyOf[p]
<1>2. k \in Keys
  BY ConstantsOK
<1>3. phase' = [phase EXCEPT ![p] = "rendered"] /\ phase[p] = "idle"
  BY DEF Render
<1>4. \A d \in Client : Users(d)' = Users(d)
  <2> TAKE d \in Client
  <2>1. \A q \in Providers : (phase'[q] = "mounted" /\ holds'[q] = d)
                               <=> (phase[q] = "mounted" /\ holds[q] = d)
    BY <1>1, <1>3 DEF IInv, TypeOK
  <2> QED BY <2>1 DEF Users
<1>5. CASE c = entries[k] /\ entries[k] \in open /\ UNCHANGED registryVars
  <2>1. TypeOK'
    BY <1>1, <1>3, <1>5 DEF IInv, TypeOK, Phase, registryVars
  <2>2. HoldersHold' /\ FutureIsBlank'
    BY <1>1, <1>2, <1>3, <1>5 DEF IInv, TypeOK, HoldersHold, FutureIsBlank, registryVars
  <2>3. RefsCount'
    BY <1>4, <1>5 DEF IInv, RefsCount, Registered, registryVars
  <2> QED BY <2>1, <2>2, <2>3 DEF IInv
<1>6. CASE /\ made < MaxClients /\ c = made + 1
           /\ made' = c
           /\ entries' = [entries EXCEPT ![k] = c]
           /\ open' = open \cup {c}
           /\ keyOfClient' = [keyOfClient EXCEPT ![c] = k]
           /\ UNCHANGED <<refs, timer, used>>
  <2>1. TypeOK'
    BY <1>1, <1>2, <1>3, <1>6, ConstantsOK DEF IInv, TypeOK, Phase
  <2>2. HoldersHold'
    BY <1>1, <1>2, <1>3, <1>6 DEF IInv, TypeOK, HoldersHold
  <2>3. FutureIsBlank'
    BY <1>6 DEF IInv, TypeOK, FutureIsBlank
  <2>4. RefsCount'
    <3> SUFFICES ASSUME NEW d \in Client, Registered(d)'
                 PROVE  refs'[d] = Cardinality(Users(d)')
      BY DEF RefsCount
    <3>1. CASE d = c
      <4>1. Users(c) = {}
        BY <1>6 DEF IInv, TypeOK, HoldersHold, Users
      <4>2. refs[c] = 0
        BY <1>6 DEF IInv, TypeOK, FutureIsBlank
      <4> QED BY <3>1, <4>1, <4>2, <1>4, <1>6, FS_EmptySet
    <3>2. CASE d # c
      <4>1. Registered(d)
        BY <1>2, <1>6, <3>2 DEF IInv, TypeOK, Registered
      <4> QED BY <4>1, <1>4, <1>6 DEF IInv, RefsCount
    <3> QED BY <3>1, <3>2
  <2> QED BY <2>1, <2>2, <2>3, <2>4 DEF IInv
<1> QED BY <1>1, <1>5, <1>6 DEF Acquire

LEMMA DiscardInv ==
  ASSUME IInv, NEW p \in Providers, Discard(p)
  PROVE  IInv'
<1>1. TypeOK'
  BY DEF IInv, TypeOK, Discard, Phase, registryVars
<1>2. HoldersHold' /\ FutureIsBlank'
  BY DEF IInv, TypeOK, Discard, HoldersHold, FutureIsBlank, registryVars
<1>3. \A c \in Client : Users(c)' = Users(c)
  <2> TAKE c \in Client
  <2>1. \A q \in Providers : (phase'[q] = "mounted" /\ holds'[q] = c)
                               <=> (phase[q] = "mounted" /\ holds[q] = c)
    BY DEF IInv, TypeOK, Discard
  <2> QED BY <2>1 DEF Users
<1>4. RefsCount'
  BY <1>3 DEF IInv, RefsCount, Registered, Discard, registryVars
<1> QED BY <1>1, <1>2, <1>4 DEF IInv

\* What retain and release do to the entry of a client that p uses.
LEMMA EntryTypes ==
  ASSUME TypeOK, NEW c \in Client
  PROVE  /\ Entry(c) \in [refs : Nat, timer : Timer]
         /\ \A e \in [refs : Nat, timer : Timer] :
              /\ Retained(e) \in [refs : Nat, timer : Timer]
              /\ Retained(e).refs = e.refs + 1
              /\ Released(e) \in [refs : Nat, timer : Timer]
              /\ e.refs > 0 => Released(e).refs = e.refs - 1
BY DEF TypeOK, Entry, Retained, Released, Timer

LEMMA SetEntryTypes ==
  ASSUME TypeOK, NEW c \in Client, NEW e \in [refs : Nat, timer : Timer],
         SetEntry(c, e)
  PROVE  /\ refs' \in [Client -> Nat] /\ timer' \in [Client -> Timer]
         /\ \A d \in Client : refs'[d] = IF d = c /\ Registered(c) THEN e.refs ELSE refs[d]
BY DEF TypeOK, SetEntry

LEMMA MountInv ==
  ASSUME IInv, NEW p \in Providers, Mount(p)
  PROVE  IInv'
<1> DEFINE c == holds[p]
           e == Retained(Entry(c))
<1>1. c \in 1 .. made /\ c \in Client
  BY DEF IInv, TypeOK, HoldersHold, Mount
<1>2. e \in [refs : Nat, timer : Timer] /\ e.refs = refs[c] + 1
  BY <1>1, EntryTypes DEF IInv, Entry
<1>3. /\ refs' \in [Client -> Nat] /\ timer' \in [Client -> Timer]
      /\ \A d \in Client : refs'[d] = IF d = c /\ Registered(c) THEN e.refs ELSE refs[d]
  BY <1>1, <1>2, SetEntryTypes DEF IInv, Mount
<1>4. TypeOK'
  BY <1>1, <1>3 DEF IInv, TypeOK, Mount, Phase
<1>5. HoldersHold' /\ FutureIsBlank'
  BY <1>1, <1>3 DEF IInv, TypeOK, Mount, HoldersHold, FutureIsBlank
<1>6. RefsCount'
  <2> SUFFICES ASSUME NEW d \in Client, Registered(d)'
               PROVE  refs'[d] = Cardinality(Users(d)')
    BY DEF RefsCount
  <2>1. Registered(d) /\ refs[d] = Cardinality(Users(d))
    BY DEF IInv, RefsCount, Registered, Mount
  <2>2. CASE d = c
    <3>1. Users(d)' = Users(d) \cup {p} /\ p \notin Users(d)
      BY <2>2 DEF IInv, TypeOK, Mount, Users
    <3>2. Cardinality(Users(d) \cup {p}) = Cardinality(Users(d)) + 1
      BY <3>1, UsersFinite, FS_AddElement
    <3>3. refs'[d] = refs[d] + 1
      BY <1>2, <1>3, <2>1, <2>2
    <3> QED BY <2>1, <3>1, <3>2, <3>3
  <2>3. CASE d # c
    <3>1. Users(d)' = Users(d)
      BY <2>3 DEF IInv, TypeOK, Mount, Users
    <3> QED BY <1>3, <2>1, <2>3, <3>1
  <2> QED BY <2>2, <2>3
<1> QED BY <1>4, <1>5, <1>6 DEF IInv

LEMMA UnmountInv ==
  ASSUME IInv, NEW p \in Providers, Unmount(p)
  PROVE  IInv'
<1> DEFINE c == holds[p]
           e == Released(Entry(c))
<1>1. c \in 1 .. made /\ c \in Client
  BY DEF IInv, TypeOK, HoldersHold, Unmount
<1>2. /\ e \in [refs : Nat, timer : Timer]
      /\ refs[c] > 0 => e.refs = refs[c] - 1
  BY <1>1, EntryTypes DEF IInv, Entry
<1>3. /\ refs' \in [Client -> Nat] /\ timer' \in [Client -> Timer]
      /\ \A d \in Client : refs'[d] = IF d = c /\ Registered(c) THEN e.refs ELSE refs[d]
  BY <1>1, <1>2, SetEntryTypes DEF IInv, Unmount
<1>4. TypeOK'
  BY <1>1, <1>3 DEF IInv, TypeOK, Unmount, Phase
<1>5. HoldersHold' /\ FutureIsBlank'
  BY <1>1, <1>3 DEF IInv, TypeOK, Unmount, HoldersHold, FutureIsBlank
<1>6. RefsCount'
  <2> SUFFICES ASSUME NEW d \in Client, Registered(d)'
               PROVE  refs'[d] = Cardinality(Users(d)')
    BY DEF RefsCount
  <2>1. Registered(d) /\ refs[d] = Cardinality(Users(d))
    BY DEF IInv, RefsCount, Registered, Unmount
  <2>2. CASE d = c
    <3>1. Users(d)' = Users(d) \ {p} /\ p \in Users(d)
      BY <2>2 DEF IInv, TypeOK, Unmount, Users
    <3>2. Cardinality(Users(d)') = Cardinality(Users(d)) - 1
      BY <3>1, UsersFinite, FS_RemoveElement
    <3>3. Cardinality(Users(d)) > 0
      BY <3>1, UsersFinite, FS_EmptySet
    <3> QED BY <1>2, <1>3, <2>1, <2>2, <3>2, <3>3, UsersFinite
  <2>3. CASE d # c
    <3>1. Users(d)' = Users(d)
      BY <2>3 DEF IInv, TypeOK, Unmount, Users
    <3> QED BY <1>3, <2>1, <2>3, <3>1
  <2> QED BY <2>2, <2>3
<1> QED BY <1>4, <1>5, <1>6 DEF IInv

LEMMA RemountInv ==
  ASSUME IInv, NEW p \in Providers, Remount(p)
  PROVE  IInv'
<1> DEFINE c == holds[p]
           e == Retained(Released(Entry(c)))
<1>1. c \in 1 .. made /\ c \in Client
  BY DEF IInv, TypeOK, HoldersHold, Remount
<1>2. /\ e \in [refs : Nat, timer : Timer]
      /\ refs[c] > 0 => e.refs = refs[c]
  <2>1. /\ Released(Entry(c)) \in [refs : Nat, timer : Timer]
        /\ refs[c] > 0 => Released(Entry(c)).refs = refs[c] - 1
    BY <1>1, EntryTypes DEF IInv, Entry
  <2>2. e.refs = Released(Entry(c)).refs + 1
    BY <1>1, <2>1, EntryTypes DEF IInv
  <2>3. refs[c] \in Nat
    BY <1>1 DEF IInv, TypeOK
  <2>4. e \in [refs : Nat, timer : Timer]
    BY <1>1, <2>1, EntryTypes DEF IInv
  <2>5. ASSUME refs[c] > 0 PROVE e.refs = refs[c]
    <3> HIDE DEF e, c
    <3> QED BY <2>1, <2>2, <2>3, <2>5
  <2> QED BY <2>4, <2>5
<1>3. /\ refs' \in [Client -> Nat] /\ timer' \in [Client -> Timer]
      /\ \A d \in Client : refs'[d] = IF d = c /\ Registered(c) THEN e.refs ELSE refs[d]
  BY <1>1, <1>2, SetEntryTypes DEF IInv, Remount
<1>4. TypeOK'
  BY <1>3 DEF IInv, TypeOK, Remount
<1>5. HoldersHold' /\ FutureIsBlank'
  BY <1>1, <1>3 DEF IInv, TypeOK, Remount, HoldersHold, FutureIsBlank
<1>6. RefsCount'
  <2> SUFFICES ASSUME NEW d \in Client, Registered(d)'
               PROVE  refs'[d] = Cardinality(Users(d)')
    BY DEF RefsCount
  <2>1. Registered(d) /\ refs[d] = Cardinality(Users(d))
    BY DEF IInv, RefsCount, Registered, Remount
  <2>2. Users(d)' = Users(d)
    BY DEF Remount, Users
  <2>3. CASE d = c
    <3>1. p \in Users(d)
      BY <2>3 DEF Remount, Users
    <3>2. Cardinality(Users(d)) > 0
      BY <3>1, UsersFinite, FS_EmptySet
    <3> QED BY <1>2, <1>3, <2>1, <2>2, <2>3, <3>2
  <2>4. CASE d # c
    BY <1>3, <2>1, <2>2, <2>4
  <2> QED BY <2>3, <2>4
<1> QED BY <1>4, <1>5, <1>6 DEF IInv

LEMMA TimerInv ==
  ASSUME IInv, NEW c \in Client, TimerFires(c)
  PROVE  IInv'
<1>1. TypeOK'
  BY DEF IInv, TypeOK, TimerFires, Timer
<1>2. HoldersHold' /\ FutureIsBlank'
  BY DEF IInv, TypeOK, TimerFires, HoldersHold, FutureIsBlank
<1>3. \A d \in Client : Registered(d)' => Registered(d)
  BY DEF IInv, TypeOK, TimerFires, Registered
<1>4. RefsCount'
  BY <1>3, SameUsers DEF IInv, RefsCount, TimerFires
<1> QED BY <1>1, <1>2, <1>4 DEF IInv

LEMMA AppShutdownInv ==
  ASSUME IInv, NEW p \in Providers, AppShutsDown(p)
  PROVE  IInv'
<1>1. TypeOK' /\ HoldersHold' /\ FutureIsBlank'
  BY DEF IInv, TypeOK, AppShutsDown, HoldersHold, FutureIsBlank
<1>2. RefsCount'
  BY SameUsers DEF IInv, RefsCount, Registered, AppShutsDown
<1> QED BY <1>1, <1>2 DEF IInv

LEMMA StutterInv ==
  ASSUME IInv, UNCHANGED reactVars
  PROVE  IInv'
<1>1. TypeOK' /\ HoldersHold' /\ FutureIsBlank'
  BY DEF IInv, TypeOK, HoldersHold, FutureIsBlank, reactVars, registryVars
<1>2. RefsCount'
  BY SameUsers DEF IInv, RefsCount, Registered, reactVars, registryVars
<1> QED BY <1>1, <1>2 DEF IInv

LEMMA SharedNextInv ==
  ASSUME IInv, SharedNext
  PROVE  IInv'
BY RenderInv, DiscardInv, MountInv, UnmountInv, RemountInv, TimerInv
   DEF SharedNext, Provider

LEMMA NextInv ==
  ASSUME IInv, [RegistryNext]_reactVars
  PROVE  IInv'
BY SharedNextInv, AppShutdownInv, StutterInv DEF RegistryNext

(***************************************************************************)
(* Theorems                                                                *)
(***************************************************************************)

\* Whatever the application does, an entry counts its mounted users
\* (registry.ts:32-46).
THEOREM CountIsExact == RegistrySpec => []RefsCount
<1>1. IInv => RefsCount
  BY DEF IInv
<1> QED BY <1>1, InitInv, NextInv, PTL DEF RegistrySpec

\* As long as only the registry shuts clients down, the open clients are those
\* the map holds, and so are the clients with a timer.
OpenIsRegistered == \A c \in Client : c \in open <=> Registered(c)
TimerIsRegistered == \A c \in Client : timer[c] = "set" => Registered(c)

SInv == IInv /\ OpenIsRegistered /\ TimerIsRegistered

LEMMA InitSInv == RegistryInit => SInv
<1> SUFFICES ASSUME RegistryInit PROVE SInv
  OBVIOUS
<1>1. IInv
  BY InitInv
<1>2. \A c \in Client : ~ Registered(c)
  BY <1>1 DEF RegistryInit, IInv, TypeOK, Registered
<1> QED BY <1>1, <1>2 DEF RegistryInit, SInv, OpenIsRegistered, TimerIsRegistered

LEMMA RenderShared ==
  ASSUME SInv, NEW p \in Providers, Render(p)
  PROVE  OpenIsRegistered' /\ TimerIsRegistered'
<1>1. PICK c \in Client : Acquire(KeyOf[p], c)
  BY DEF Render
<1>2. KeyOf[p] \in Keys
  BY ConstantsOK
<1>3. CASE UNCHANGED registryVars
  BY <1>3 DEF SInv, OpenIsRegistered, TimerIsRegistered, Registered, registryVars
<1>4. CASE /\ entries[KeyOf[p]] \notin open
           /\ c = made + 1
           /\ entries' = [entries EXCEPT ![KeyOf[p]] = c]
           /\ open' = open \cup {c}
           /\ keyOfClient' = [keyOfClient EXCEPT ![c] = KeyOf[p]]
           /\ UNCHANGED timer
  <2>1. Registered(c)'
    BY <1>2, <1>4 DEF SInv, IInv, TypeOK, Registered
  <2>2. ASSUME NEW d \in Client, d # c
        PROVE  Registered(d)' <=> Registered(d)
    <3>1. keyOfClient'[d] = keyOfClient[d] /\ keyOfClient[d] \in Keys
      BY <1>4, <2>2 DEF SInv, IInv, TypeOK
    <3>2. Registered(d) => keyOfClient[d] # KeyOf[p]
      BY <1>4 DEF SInv, OpenIsRegistered, Registered
    <3> QED BY <1>2, <1>4, <2>2, <3>1, <3>2 DEF SInv, IInv, TypeOK, Registered
  <2> QED BY <1>4, <2>1, <2>2 DEF SInv, OpenIsRegistered, TimerIsRegistered
<1> QED BY <1>1, <1>3, <1>4 DEF Acquire

LEMMA TimerShared ==
  ASSUME SInv, NEW c \in Client, TimerFires(c)
  PROVE  OpenIsRegistered' /\ TimerIsRegistered'
<1>1. Registered(c)
  BY DEF SInv, TimerIsRegistered, TimerFires
<1>2. CASE UNCHANGED <<entries, open>>
  BY <1>2 DEF SInv, IInv, TypeOK, OpenIsRegistered, TimerIsRegistered, Registered, TimerFires
<1>3. CASE /\ entries' = [entries EXCEPT ![keyOfClient[c]] = None]
           /\ open' = open \ {c}
  <2>1. ASSUME NEW d \in Client
        PROVE  Registered(d)' <=> Registered(d) /\ d # c
    BY <1>1, <1>3 DEF SInv, IInv, TypeOK, Registered, TimerFires
  <2> QED BY <1>3, <2>1 DEF SInv, IInv, TypeOK, OpenIsRegistered, TimerIsRegistered, TimerFires
<1> QED BY <1>2, <1>3 DEF TimerFires

\* A mount or a release touches the entry of a client the map holds.
LEMMA EntryShared ==
  ASSUME SInv, NEW c \in Client, NEW e \in [refs : Nat, timer : Timer],
         SetEntry(c, e), UNCHANGED <<entries, open, keyOfClient>>
  PROVE  OpenIsRegistered' /\ TimerIsRegistered'
<1>1. \A d \in Client : Registered(d)' <=> Registered(d)
  BY DEF Registered
<1>2. \A d \in Client : timer'[d] = "set" => timer[d] = "set" \/ Registered(d)
  BY DEF SInv, IInv, TypeOK, SetEntry
<1> QED BY <1>1, <1>2 DEF SInv, OpenIsRegistered, TimerIsRegistered

LEMMA ProviderShared ==
  ASSUME SInv, NEW p \in Providers, Mount(p) \/ Unmount(p) \/ Remount(p)
  PROVE  OpenIsRegistered' /\ TimerIsRegistered'
<1>1. holds[p] \in Client
  BY DEF SInv, IInv, TypeOK, HoldersHold, Mount, Unmount, Remount
<1> DEFINE e == Entry(holds[p])
<1>2. {Retained(e), Released(e), Retained(Released(e))} \subseteq [refs : Nat, timer : Timer]
  BY <1>1, EntryTypes DEF SInv, IInv
<1> QED BY <1>1, <1>2, EntryShared DEF Mount, Unmount, Remount

LEMMA SharedNextSInv ==
  ASSUME SInv, [SharedNext]_reactVars
  PROVE  SInv'
<1>1. IInv'
  BY SharedNextInv, StutterInv DEF SInv
<1>2. OpenIsRegistered' /\ TimerIsRegistered'
  <2>1. CASE UNCHANGED <<entries, open, keyOfClient, timer>>
    BY <2>1 DEF SInv, OpenIsRegistered, TimerIsRegistered, Registered
  <2> QED BY <2>1, RenderShared, TimerShared, ProviderShared
          DEF SharedNext, Provider, Discard, reactVars, registryVars
<1> QED BY <1>1, <1>2 DEF SInv

\* One open client per key (registry.ts:4), as long as the application leaves
\* shutdown to the providers.
THEOREM OneClientPerKey == SharedSpec => []OneClient
<1>1. SInv => OneClient
  BY DEF SInv, IInv, TypeOK, OpenIsRegistered, OneClient, Registered
<1> QED BY <1>1, InitSInv, SharedNextSInv, PTL DEF SharedSpec

\* No timer shuts down a client that a mounted provider retains.
THEOREM InUseIsSafe == SharedSpec => InUseStaysOpen
<1> DEFINE Safe == \A p \in Providers :
                     phase[p] = "mounted" /\ holds[p] \in open /\ phase'[p] = "mounted"
                       => holds[p] \in open'
<1>1. ASSUME SInv, [SharedNext]_reactVars PROVE Safe
  <2>1. CASE UNCHANGED open
    BY <2>1
  <2>2. CASE \E p \in Providers : Render(p)
    BY <2>2 DEF Render, Acquire, registryVars
  <2>3. CASE \E c \in Client : TimerFires(c)
    <3>1. PICK c \in Client : TimerFires(c)
      BY <2>3
    <3>2. CASE refs[c] = 0
      <4>1. Registered(c) /\ Cardinality(Users(c)) = 0
        BY <1>1, <3>1, <3>2 DEF SInv, IInv, TimerIsRegistered, TimerFires, RefsCount
      <4>2. Users(c) = {}
        BY <4>1, UsersFinite, FS_EmptySet
      <4> QED BY <3>1, <4>2 DEF TimerFires, Users
    <3>3. CASE refs[c] # 0
      BY <3>1, <3>3 DEF TimerFires
    <3> QED BY <3>2, <3>3
  <2> QED BY <1>1, <2>1, <2>2, <2>3
          DEF SharedNext, Provider, Discard, Mount, Unmount, Remount, reactVars, registryVars
<1>2. SInv /\ [SharedNext]_reactVars => [Safe]_reactVars
  BY <1>1
<1> HIDE DEF Safe
<1>3. SharedSpec => [][Safe]_reactVars
  BY <1>2, InitSInv, SharedNextSInv, PTL DEF SharedSpec
<1> QED BY <1>3 DEF Safe, InUseStaysOpen

=============================================================================
