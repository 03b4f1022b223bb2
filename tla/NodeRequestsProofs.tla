------------------------- MODULE NodeRequestsProofs -------------------------
(***************************************************************************)
(* Proofs about NodeRequests, for every set of requests, every way they    *)
(* may come through and every status code: no item carries the user of     *)
(* another request, a request's errors keep its user, an error is reported *)
(* once, and a request is traced once, truthfully.                         *)
(***************************************************************************)
EXTENDS NodeRequests, TLAPS

User == Requests \cup {Default, Nobody}

\* Where the variables live.
RequestsTypeOK ==
  /\ closed \in BOOLEAN /\ globalUser \in {Default, Nobody}
  /\ kind \in [Requests -> Kinds \cup {"none"}]
  /\ scopeUser \in [Requests -> User] /\ startUser \in [Requests -> User]
  /\ sampled \in [Requests -> BOOLEAN] /\ ended \in [Requests -> BOOLEAN]
  /\ handled \in [Requests -> BOOLEAN]
  /\ wrote \in [Requests -> Nat]
  /\ over \in [Requests -> {"no", "finished", "gone"}]
  /\ fault \in [Requests -> Errors \cup {Nobody}]
  /\ \A r \in Requests : handled[r] => fault[r] \in Errors
  /\ captured \in SUBSET Objects
  /\ traces \in [Requests -> Seq(Nat)]
  /\ reports \in [Errors -> Nat]

\* A request's scope holds its own user, the default or none.
OwnUsers ==
  \A r \in Requests : scopeUser[r] \in {r, Default, Nobody} /\ startUser[r] \in {r, Default, Nobody}

\* The set of reported objects says how often each was reported, and what a
\* handler of the SDK has seen was reported.
Counted == \A e \in Objects : reports[e] = IF e \in captured THEN 1 ELSE 0
ReportsCount ==
  /\ Counted
  /\ \A r \in Requests : handled[r] /\ ~ closed => reports[fault[r]] >= 1

\* Before it arrives nothing has happened to a request; a wrapper's trace ends
\* with its call.
Untouched(r) ==
  /\ kind[r] = "none" => wrote[r] = 0 /\ ~ ended[r] /\ over[r] = "no" /\ ~ handled[r]
  /\ kind[r] \in {"route", "handle", "job"} /\ over[r] = "no" => wrote[r] = 0 /\ ~ ended[r]

\* Every trace of r is true of it, and was answered with a real status code.
TracesTrue(r) ==
  \A i \in DOMAIN traces[r] : traces[r][i] # 0 /\ Truthful(r, traces[r][i])

\* The flag of the trace says whether it was recorded, and only a closed client
\* or a Pages Router route leaves a request that is over without.
TracesCount(r) ==
  /\ ended[r] /\ sampled[r] => Len(traces[r]) = 1
  /\ ~ (ended[r] /\ sampled[r]) => Len(traces[r]) = 0
  /\ TracesTrue(r)
  /\ over[r] # "no" /\ ~ closed => ended[r] \/ (kind[r] = "api" /\ over[r] = "gone")
  /\ kind[r] = "api" /\ handled[r] /\ ~ closed => ended[r]

\* The inductive invariants, one for each property.
UsersInv   == RequestsTypeOK /\ OwnUsers /\ NoForeignUser
ReportsInv == RequestsTypeOK /\ ReportsCount
TracesInv  == RequestsTypeOK /\ \A r \in Requests : Untouched(r) /\ TracesCount(r)

(***************************************************************************)
(* The operators that several actions share                                *)
(***************************************************************************)

\* Ending a trace appends at most one status code, and only once.
LEMMA EndTraceType ==
  ASSUME RequestsTypeOK, NEW r \in Requests, NEW code \in Nat, EndTrace(r, code)
  PROVE  /\ ended' \in [Requests -> BOOLEAN] /\ traces' \in [Requests -> Seq(Nat)]
         /\ \A q \in Requests \ {r} : ended'[q] = ended[q] /\ traces'[q] = traces[q]
         /\ closed => ended'[r] = ended[r] /\ traces'[r] = traces[r]
         /\ ~ closed => ended'[r]
         /\ ended[r] => traces'[r] = traces[r]
         /\ ended'[r] /\ ~ ended[r] =>
              traces'[r] = IF sampled[r] THEN Append(traces[r], code) ELSE traces[r]
         /\ ended[r] => ended'[r]
         /\ ~ ended'[r] => traces'[r] = traces[r]
<1>1. CASE ended[r] \/ closed
  BY <1>1 DEF EndTrace, Recorded, RequestsTypeOK
<1>2. CASE ~ (ended[r] \/ closed)
  <2>1. /\ ended' = [ended EXCEPT ![r] = TRUE]
        /\ traces' = IF sampled[r] THEN [traces EXCEPT ![r] = Append(@, code)] ELSE traces
    BY <1>2 DEF EndTrace, Recorded
  <2>2. ended \in [Requests -> BOOLEAN] /\ traces \in [Requests -> Seq(Nat)]
    BY DEF RequestsTypeOK
  <2>3. Append(traces[r], code) \in Seq(Nat)
    BY <2>2
  <2>4. traces' \in [Requests -> Seq(Nat)]
    BY <2>1, <2>2, <2>3
  <2>5. ended' \in [Requests -> BOOLEAN] /\ ended'[r]
    BY <2>1, <2>2
  <2>6. \A q \in Requests \ {r} : ended'[q] = ended[q] /\ traces'[q] = traces[q]
    BY <2>1, <2>2
  <2>7. traces'[r] = IF sampled[r] THEN Append(traces[r], code) ELSE traces[r]
    BY <2>1, <2>2
  <2> QED BY <1>2, <2>4, <2>5, <2>6, <2>7
<1> QED BY <1>1, <1>2

\* captureError remembers an object, counts a report only for a new one, and
\* forgets none.
LEMMA CaptureErrorCounts ==
  ASSUME RequestsTypeOK, NEW e \in Errors, CaptureError(e)
  PROVE  /\ captured' \in SUBSET Objects /\ reports' \in [Errors -> Nat]
         /\ \A d \in Errors : reports'[d] >= reports[d]
         /\ Counted => Counted' /\ (~ closed => reports'[e] >= 1)
<1>1. captured \in SUBSET Objects /\ reports \in [Errors -> Nat] /\ Objects \subseteq Errors
  BY DEF RequestsTypeOK, Errors
<1>2. CASE closed \/ e \in captured
  BY <1>1, <1>2 DEF CaptureError, Repeated, Counted
<1>3. CASE ~ (closed \/ e \in captured)
  <2>1. /\ captured' = captured \cup ({e} \cap Objects)
        /\ reports' = [reports EXCEPT ![e] = IF @ < 2 THEN @ + 1 ELSE @]
    BY <1>3 DEF CaptureError, Repeated, MaxReports
  <2>2. captured' \in SUBSET Objects /\ reports' \in [Errors -> Nat]
    BY <1>1, <2>1
  <2>3. \A d \in Errors : reports'[d] >= reports[d]
    BY <1>1, <2>1
  <2>4. reports'[e] >= 1
    BY <1>1, <2>1
  <2>5. Counted => Counted'
    BY <1>1, <1>3, <2>1 DEF Counted
  <2> QED BY <2>2, <2>3, <2>4, <2>5
<1> QED BY <1>2, <1>3

\* Status codes are numbers, and 0 is none of them.
LEMMA CodesType == Codes \subseteq Nat /\ 0 \notin Codes /\ {Threw, Expected, Redirect, Left} \subseteq Nat
BY RequestConstants DEF Threw, Expected, Redirect, Left

\* What a request throws is an error, and a request is one of its own.
LEMMA ErrorsOfRequests == \A r \in Requests : Thrown[r] \subseteq Errors /\ r # Nobody
BY RequestConstants DEF Errors, Objects, Texts

LEMMA NobodyApart == Nobody \notin Errors /\ Nobody \notin Requests /\ Default # Nobody /\ Default \notin Requests
BY RequestConstants DEF Errors, Objects

(***************************************************************************)
(* Types                                                                   *)
(***************************************************************************)
LEMMA TypeInit == Init => RequestsTypeOK
<1> SUFFICES ASSUME Init PROVE RequestsTypeOK
  OBVIOUS
<1>1. traces \in [Requests -> Seq(Nat)]
  <2>1. <<>> \in Seq(Nat)
    OBVIOUS
  <2> QED BY <2>1 DEF Init
<1> QED BY <1>1 DEF Init, RequestsTypeOK, User

LEMMA TypeStep == RequestsTypeOK /\ [Next]_vars => RequestsTypeOK'
<1> SUFFICES ASSUME RequestsTypeOK, [Next]_vars PROVE RequestsTypeOK'
  OBVIOUS
<1> USE CodesType, ErrorsOfRequests, NobodyApart
<1>1. ASSUME NEW c \in Contexts, SetUser(c) PROVE RequestsTypeOK'
  <2>1. SetUserTo(c, IF c \in Requests THEN c ELSE Default) /\ UNCHANGED <<closed, requestVars, itemVars>>
    BY <1>1 DEF SetUser
  <2>2. scopeUser' \in [Requests -> User] /\ globalUser' \in {Default, Nobody}
    <3>1. scopeUser \in [Requests -> User] /\ globalUser \in {Default, Nobody} /\ Default \in User
      BY DEF RequestsTypeOK, User
    <3>2. CASE c \in Requests
      <4>1. c \in User
        BY <3>2 DEF User
      <4>2. scopeUser' = [scopeUser EXCEPT ![c] = c] /\ globalUser' = globalUser
        BY <2>1, <3>2 DEF SetUserTo
      <4> QED BY ONLY <3>1, <4>1, <4>2
    <3>3. CASE c \notin Requests
      <4>1. scopeUser' = scopeUser /\ globalUser' = Default
        BY <2>1, <3>3 DEF SetUserTo
      <4> QED BY ONLY <3>1, <4>1
    <3> QED BY <3>2, <3>3
  <2> QED BY <2>1, <2>2 DEF RequestsTypeOK, requestVars, itemVars
<1>2. ASSUME NEW c \in Contexts, ClearUser(c) PROVE RequestsTypeOK'
  BY <1>2 DEF ClearUser, SetUserTo, Contexts, RequestsTypeOK, User, requestVars, itemVars
<1>3. ASSUME NEW c \in Contexts, Track(c) PROVE RequestsTypeOK'
  BY <1>3 DEF Track, RequestsTypeOK, requestVars, itemVars
<1>4. ASSUME NEW r \in Requests, NEW k \in Through[r], Arrive(r, k) PROVE RequestsTypeOK'
  <2>1. k \in Kinds
    BY RequestConstants
  <2> QED BY <1>4, <2>1 DEF Arrive, RequestsTypeOK, User, itemVars
<1>5. ASSUME NEW r \in Requests, NEW code \in Codes, Respond(r, code) PROVE RequestsTypeOK'
  BY <1>5 DEF Respond, RequestsTypeOK, itemVars
<1>6. ASSUME NEW r \in Requests, NEW code \in Codes \cup {Threw, Expected}, Return(r, code) PROVE RequestsTypeOK'
  <2>1. code \in Nat /\ EndTrace(r, code)
    BY <1>6 DEF Return
  <2> QED BY <1>6, <2>1, EndTraceType DEF Return, RequestsTypeOK
<1>7. ASSUME NEW r \in Requests, Finish(r) PROVE RequestsTypeOK'
  <2>1. wrote[r] \in Nat
    BY DEF RequestsTypeOK
  <2>2. ended' \in [Requests -> BOOLEAN] /\ traces' \in [Requests -> Seq(Nat)]
    BY <1>7, <2>1, EndTraceType DEF Finish, RequestsTypeOK
  <2> QED BY <1>7, <2>2 DEF Finish, RequestsTypeOK
<1>8. ASSUME NEW r \in Requests, ClientLeaves(r) PROVE RequestsTypeOK'
  <2>1. ended' \in [Requests -> BOOLEAN] /\ traces' \in [Requests -> Seq(Nat)]
    BY <1>8, EndTraceType DEF ClientLeaves, RequestsTypeOK
  <2> QED BY <1>8, <2>1 DEF ClientLeaves, RequestsTypeOK
<1>9. ASSUME NEW r \in Requests, NextRedirects(r) PROVE RequestsTypeOK'
  BY <1>9, EndTraceType DEF NextRedirects, RequestsTypeOK
<1>10. ASSUME NEW r \in Requests, RequestError(r) PROVE RequestsTypeOK'
  BY <1>10, CaptureErrorCounts DEF RequestError, RequestsTypeOK, requestVars
<1>11. ASSUME NEW r \in Requests, NEW c \in Contexts, ErrorMiddleware(r, c) PROVE RequestsTypeOK'
  BY <1>11, CaptureErrorCounts DEF ErrorMiddleware, RequestsTypeOK
<1>12. ASSUME NEW r \in Requests, NEW e \in Thrown[r], CaptureManually(r, e) PROVE RequestsTypeOK'
  BY <1>12, CaptureErrorCounts DEF CaptureManually, RequestsTypeOK, requestVars
<1>13. ASSUME NEW r \in Requests, NEW e \in Thrown[r], ExpressThrows(r, e) PROVE RequestsTypeOK'
  BY <1>13 DEF ExpressThrows, Throws, RequestsTypeOK, itemVars
<1>14. ASSUME NEW r \in Requests, NEW e \in Thrown[r], NextThrows(r, e) PROVE RequestsTypeOK'
  <2>1. EndTrace(r, Threw) /\ CaptureError(e) /\ e \in Errors
    BY <1>14 DEF NextThrows
  <2>2. ended' \in [Requests -> BOOLEAN] /\ traces' \in [Requests -> Seq(Nat)]
    BY <2>1, EndTraceType
  <2>3. captured' \in SUBSET Objects /\ reports' \in [Errors -> Nat]
    BY <2>1, CaptureErrorCounts
  <2>4. over' \in [Requests -> {"no", "finished", "gone"}]
    BY <1>14 DEF NextThrows, RequestsTypeOK
  <2>5. /\ handled' \in [Requests -> BOOLEAN] /\ fault' \in [Requests -> Errors \cup {Nobody}]
        /\ \A q \in Requests : handled'[q] => fault'[q] \in Errors
    BY <1>14, <2>1 DEF NextThrows, Throws, RequestsTypeOK
  <2> QED BY <1>14, <2>2, <2>3, <2>4, <2>5 DEF NextThrows, RequestsTypeOK
<1>15. ASSUME NEW r \in Requests, NEW e \in Thrown[r], SvelteFails(r, e) PROVE RequestsTypeOK'
  <2>1. PICK expected \in BOOLEAN : HandleError(r, e, r, expected)
    BY <1>15 DEF SvelteFails
  <2>2. CASE expected
    BY <1>15, <2>1, <2>2 DEF HandleError, SvelteFails, Throws, RequestsTypeOK
  <2>3. CASE ~ expected
    BY <1>15, <2>1, <2>3, CaptureErrorCounts DEF HandleError, SvelteFails, Throws, RequestsTypeOK
  <2> QED BY <2>2, <2>3
<1>19. ASSUME NEW r \in Requests, SvelteCatches(r) PROVE RequestsTypeOK'
  BY <1>19, CaptureErrorCounts DEF SvelteCatches, HandleError, RequestsTypeOK
<1>16. ASSUME NEW r \in Requests, NEW e \in Thrown[r], JobThrows(r, e) PROVE RequestsTypeOK'
  <2>1. EndTrace(r, Threw) /\ e \in Errors
    BY <1>16 DEF JobThrows
  <2>2. ended' \in [Requests -> BOOLEAN] /\ traces' \in [Requests -> Seq(Nat)]
    BY <2>1, EndTraceType
  <2>3. over' \in [Requests -> {"no", "finished", "gone"}]
    BY <1>16 DEF JobThrows, RequestsTypeOK
  <2>4. /\ fault' \in [Requests -> Errors \cup {Nobody}]
        /\ \A q \in Requests : handled[q] => fault'[q] \in Errors
    BY <1>16, <2>1 DEF JobThrows, Throws, RequestsTypeOK
  <2> QED BY <1>16, <2>2, <2>3, <2>4 DEF JobThrows, RequestsTypeOK
<1>17. CASE Shutdown
  BY <1>17 DEF Shutdown, RequestsTypeOK, requestVars, itemVars
<1>18. CASE UNCHANGED vars
  BY <1>18 DEF RequestsTypeOK, vars, requestVars, itemVars
<1> QED BY <1>1, <1>2, <1>3, <1>4, <1>5, <1>6, <1>7, <1>8, <1>9, <1>10, <1>11, <1>12, <1>13,
           <1>14, <1>15, <1>16, <1>17, <1>18, <1>19 DEF Next

(***************************************************************************)
(* Users                                                                   *)
(***************************************************************************)

\* What a context sees is its own user, the default, or none.
LEMMA UserInContext ==
  ASSUME RequestsTypeOK, OwnUsers, NEW c \in Contexts
  PROVE  UserIn(c) \in {c, Default, Nobody}
BY NobodyApart DEF UserIn, Contexts, OwnUsers, RequestsTypeOK

LEMMA ErrorItemUser ==
  ASSUME RequestsTypeOK, OwnUsers, NEW e, NEW c \in Contexts, NEW r, r = c \/ c = Nobody
  PROVE  \A x \in ErrorItem(e, c, r) : x.user \in {x.for, Default, Nobody}
BY UserInContext DEF ErrorItem, Item

LEMMA TraceItemUser ==
  ASSUME RequestsTypeOK, OwnUsers, NEW r \in Requests
  PROVE  \A x \in TraceItem(r) : x.user \in {x.for, Default, Nobody}
BY DEF TraceItem, Item, OwnUsers

LEMMA UsersStep == UsersInv /\ [Next]_vars => OwnUsers' /\ NoForeignUser'
<1> SUFFICES ASSUME UsersInv, [Next]_vars PROVE OwnUsers' /\ NoForeignUser'
  OBVIOUS
<1>0. RequestsTypeOK /\ OwnUsers /\ NoForeignUser
  BY DEF UsersInv
<1> USE NobodyApart
<1> DEFINE Others == UNCHANGED <<scopeUser, startUser>>
<1>1. ASSUME Others PROVE OwnUsers'
  BY <1>0, <1>1 DEF OwnUsers
<1>2. ASSUME sent' = {} PROVE NoForeignUser'
  BY <1>2 DEF NoForeignUser
<1>3. ASSUME NEW c \in Contexts, SetUser(c) PROVE OwnUsers' /\ NoForeignUser'
  <2>1. OwnUsers'
    BY <1>0, <1>3 DEF SetUser, SetUserTo, OwnUsers, RequestsTypeOK, requestVars
  <2> QED BY <1>2, <1>3, <2>1 DEF SetUser
<1>4. ASSUME NEW c \in Contexts, ClearUser(c) PROVE OwnUsers' /\ NoForeignUser'
  <2>1. OwnUsers'
    BY <1>0, <1>4 DEF ClearUser, SetUserTo, OwnUsers, RequestsTypeOK, requestVars
  <2> QED BY <1>2, <1>4, <2>1 DEF ClearUser
<1>5. ASSUME NEW c \in Contexts, Track(c) PROVE OwnUsers' /\ NoForeignUser'
  <2>1. NoForeignUser'
    BY <1>0, <1>5, UserInContext DEF Track, Item, NoForeignUser
  <2> QED BY <1>1, <1>5, <2>1 DEF Track, requestVars
<1>6. ASSUME NEW r \in Requests, NEW k \in Through[r], Arrive(r, k) PROVE OwnUsers' /\ NoForeignUser'
  <2>1. OwnUsers'
    BY <1>0, <1>6 DEF Arrive, OwnUsers, RequestsTypeOK
  <2> QED BY <1>2, <1>6, <2>1 DEF Arrive
<1>7. ASSUME NEW r \in Requests, NEW code \in Codes, Respond(r, code) PROVE OwnUsers' /\ NoForeignUser'
  BY <1>1, <1>2, <1>7 DEF Respond
<1>8. ASSUME NEW r \in Requests, NEW code \in Codes \cup {Threw, Expected}, Return(r, code)
      PROVE OwnUsers' /\ NoForeignUser'
  BY <1>0, <1>1, <1>8, TraceItemUser DEF Return, NoForeignUser
<1>9. ASSUME NEW r \in Requests, Finish(r) PROVE OwnUsers' /\ NoForeignUser'
  BY <1>0, <1>1, <1>9, TraceItemUser DEF Finish, NoForeignUser
<1>10. ASSUME NEW r \in Requests, ClientLeaves(r) PROVE OwnUsers' /\ NoForeignUser'
  BY <1>0, <1>1, <1>10, TraceItemUser DEF ClientLeaves, NoForeignUser
<1>11. ASSUME NEW r \in Requests, NextRedirects(r) PROVE OwnUsers' /\ NoForeignUser'
  BY <1>0, <1>1, <1>11, TraceItemUser DEF NextRedirects, NoForeignUser
<1>12. ASSUME NEW r \in Requests, RequestError(r) PROVE OwnUsers' /\ NoForeignUser'
  BY <1>0, <1>1, <1>12, ErrorItemUser DEF RequestError, NoForeignUser, Contexts, requestVars
<1>13. ASSUME NEW r \in Requests, NEW c \in Contexts, ErrorMiddleware(r, c)
       PROVE OwnUsers' /\ NoForeignUser'
  BY <1>0, <1>1, <1>13, ErrorItemUser DEF ErrorMiddleware, ScopeFor, NoForeignUser, Contexts
<1>14. ASSUME NEW r \in Requests, NEW e \in Thrown[r], CaptureManually(r, e)
       PROVE OwnUsers' /\ NoForeignUser'
  BY <1>0, <1>1, <1>14, ErrorItemUser DEF CaptureManually, NoForeignUser, Contexts, requestVars
<1>15. ASSUME NEW r \in Requests, NEW e \in Thrown[r], ExpressThrows(r, e)
       PROVE OwnUsers' /\ NoForeignUser'
  BY <1>1, <1>2, <1>15 DEF ExpressThrows
<1>16. ASSUME NEW r \in Requests, NEW e \in Thrown[r], NextThrows(r, e)
       PROVE OwnUsers' /\ NoForeignUser'
  BY <1>0, <1>1, <1>16, TraceItemUser, ErrorItemUser DEF NextThrows, NoForeignUser, Contexts
<1>17. ASSUME NEW r \in Requests, NEW e \in Thrown[r], SvelteFails(r, e)
       PROVE OwnUsers' /\ NoForeignUser'
  BY <1>0, <1>1, <1>17, ErrorItemUser DEF SvelteFails, HandleError, NoForeignUser, Contexts
<1>21. ASSUME NEW r \in Requests, SvelteCatches(r) PROVE OwnUsers' /\ NoForeignUser'
  BY <1>0, <1>1, <1>21, ErrorItemUser DEF SvelteCatches, HandleError, NoForeignUser, Contexts
<1>18. ASSUME NEW r \in Requests, NEW e \in Thrown[r], JobThrows(r, e)
       PROVE OwnUsers' /\ NoForeignUser'
  BY <1>0, <1>1, <1>18, TraceItemUser DEF JobThrows, NoForeignUser
<1>19. CASE Shutdown
  BY <1>1, <1>2, <1>19 DEF Shutdown, requestVars
<1>20. CASE UNCHANGED vars
  BY <1>0, <1>1, <1>20 DEF vars, requestVars, NoForeignUser
<1> QED BY <1>3, <1>4, <1>5, <1>6, <1>7, <1>8, <1>9, <1>10, <1>11, <1>12, <1>13, <1>14, <1>15,
           <1>16, <1>17, <1>18, <1>19, <1>20, <1>21 DEF Next

\* Concurrent requests never see each other's user.
THEOREM UsersApart == Spec => []NoForeignUser
<1>1. Init => UsersInv
  <2>1. Init => OwnUsers /\ NoForeignUser
    BY NobodyApart DEF Init, OwnUsers, NoForeignUser
  <2> QED BY <2>1, TypeInit DEF UsersInv
<1>2. UsersInv /\ [Next]_vars => UsersInv'
  BY TypeStep, UsersStep DEF UsersInv
<1>3. UsersInv => NoForeignUser
  BY DEF UsersInv
<1> QED BY <1>1, <1>2, <1>3, PTL DEF Spec

\* Every item of request r that an action captures carries scopeUser[r], if it
\* has one: the trace of the middleware, and the errors reported in r's context.
Attributed(r) ==
  kind[r] = "express" /\ scopeUser[r] # Nobody => \A x \in sent' : x.for = r => x.user = scopeUser[r]

\* A request's user is on what is reported of it, wherever the error handler runs.
THEOREM UserKept == Spec => KeepsItsUser
<1>1. ASSUME Next, NEW r \in Requests PROVE Attributed(r)
  <2>1. ASSUME NEW q \in Requests PROVE \A x \in TraceItem(q) : x.for = r /\ kind[r] = "express" => x.user = scopeUser[r]
    BY DEF TraceItem, Item
  <2>2. ASSUME NEW q \in Requests, NEW e PROVE \A x \in ErrorItem(e, q, q) : x.for = r /\ scopeUser[r] # Nobody => x.user = scopeUser[r]
    BY DEF ErrorItem, Item, UserIn
  <2>3. ASSUME sent' = {} PROVE Attributed(r)
    BY <2>3 DEF Attributed
  <2>4. ASSUME NEW c \in Contexts, Track(c) PROVE Attributed(r)
    BY <2>4 DEF Track, Item, UserIn, Attributed, Contexts
  <2>5. ASSUME NEW q \in Requests, sent' = TraceItem(q) \/ sent' = {} PROVE Attributed(r)
    BY <2>1, <2>5 DEF Attributed
  <2>6. ASSUME NEW q \in Requests, NEW e, sent' \subseteq TraceItem(q) \cup ErrorItem(e, q, q) PROVE Attributed(r)
    BY <2>1, <2>2, <2>6 DEF Attributed
  <2>7. ASSUME NEW q \in Requests, RequestError(q) \/ SvelteCatches(q) PROVE Attributed(r)
    BY <2>7 DEF RequestError, SvelteCatches, HandleError, ErrorItem, Item, Attributed
  <2>8. ASSUME NEW q \in Requests, NEW c \in Contexts, ErrorMiddleware(q, c) PROVE Attributed(r)
    BY <2>6, <2>8 DEF ErrorMiddleware, ScopeFor
  <2>9. ASSUME NEW c \in Contexts, SetUser(c) \/ ClearUser(c) PROVE Attributed(r)
    BY <2>3, <2>9 DEF SetUser, ClearUser
  <2>10. ASSUME NEW q \in Requests, NEW k, Arrive(q, k) \/ Respond(q, k) PROVE Attributed(r)
    BY <2>3, <2>10 DEF Arrive, Respond
  <2>11. ASSUME NEW q \in Requests, NEW code, Return(q, code) PROVE Attributed(r)
    BY <2>5, <2>11 DEF Return
  <2>12. ASSUME NEW q \in Requests, Finish(q) \/ ClientLeaves(q) \/ NextRedirects(q) PROVE Attributed(r)
    BY <2>5, <2>12 DEF Finish, ClientLeaves, NextRedirects
  <2>13. ASSUME NEW q \in Requests, NEW e, CaptureManually(q, e) \/ NextThrows(q, e) \/ SvelteFails(q, e)
         PROVE Attributed(r)
    BY <2>6, <2>13 DEF CaptureManually, NextThrows, SvelteFails, HandleError
  <2>14. ASSUME NEW q \in Requests, NEW e, ExpressThrows(q, e) \/ JobThrows(q, e) PROVE Attributed(r)
    BY <2>3, <2>5, <2>14 DEF ExpressThrows, JobThrows
  <2>15. CASE Shutdown
    BY <2>3, <2>15 DEF Shutdown
  <2> QED BY <1>1, <2>4, <2>7, <2>8, <2>9, <2>10, <2>11, <2>12, <2>13, <2>14, <2>15 DEF Next
<1>2. [Next]_vars =>
        [\A r \in Requests : kind[r] = "express" /\ scopeUser[r] # Nobody =>
           \A x \in sent' : x.for = r => x.user = scopeUser[r]]_vars
  BY <1>1 DEF Attributed
<1> QED BY <1>2, PTL DEF Spec, KeepsItsUser

(***************************************************************************)
(* Reports                                                                 *)
(***************************************************************************)
LEMMA ReportsStep == ReportsInv /\ [Next]_vars => ReportsCount'
<1> SUFFICES ASSUME ReportsInv, [Next]_vars PROVE ReportsCount'
  OBVIOUS
<1>0. RequestsTypeOK /\ ReportsCount
  BY DEF ReportsInv
<1> USE ErrorsOfRequests, NobodyApart
<1> DEFINE Faultless == UNCHANGED <<captured, reports, fault, handled>> /\ (closed => closed')
<1>1. ASSUME Faultless PROVE ReportsCount'
  BY <1>0, <1>1 DEF ReportsCount, Counted, RequestsTypeOK
<1>2. ASSUME NEW e \in Errors, CaptureError(e), UNCHANGED <<closed, fault, handled>> PROVE ReportsCount'
  <2>1. Counted' /\ \A d \in Errors : reports'[d] >= reports[d] /\ reports[d] \in Nat /\ reports'[d] \in Nat
    BY <1>0, <1>2, CaptureErrorCounts DEF ReportsCount, RequestsTypeOK
  <2>2. ASSUME NEW q \in Requests, handled[q], ~ closed PROVE reports'[fault[q]] >= 1
    <3>1. fault[q] \in Errors /\ reports[fault[q]] >= 1
      BY <1>0, <2>2 DEF ReportsCount, RequestsTypeOK
    <3> QED BY <2>1, <3>1
  <2> QED BY <1>2, <2>1, <2>2 DEF ReportsCount
<1>3. ASSUME NEW e \in Errors, CaptureError(e), NEW r \in Requests, fault'[r] = e,
             \A q \in Requests \ {r} : fault'[q] = fault[q] /\ handled'[q] = handled[q], UNCHANGED closed
      PROVE ReportsCount'
  <2>1. Counted' /\ \A d \in Errors : reports'[d] >= reports[d] /\ reports[d] \in Nat /\ reports'[d] \in Nat
    BY <1>0, <1>3, CaptureErrorCounts DEF ReportsCount, RequestsTypeOK
  <2>2. ASSUME NEW q \in Requests, handled'[q], ~ closed PROVE reports'[fault'[q]] >= 1
    <3>1. CASE q = r
      BY <1>0, <1>3, <2>2, <3>1, CaptureErrorCounts DEF ReportsCount
    <3>2. CASE q # r
      <4>1. fault'[q] = fault[q] /\ handled[q]
        BY <1>3, <2>2, <3>2
      <4>2. fault[q] \in Errors /\ reports[fault[q]] >= 1
        BY <1>0, <2>2, <4>1 DEF ReportsCount, RequestsTypeOK
      <4> QED BY <2>1, <4>1, <4>2
    <3> QED BY <3>1, <3>2
  <2> QED BY <1>3, <2>1, <2>2 DEF ReportsCount
<1>4. ASSUME NEW e, NEW r \in Requests, Throws(r, e), UNCHANGED <<captured, reports, handled, closed>>
      PROVE ReportsCount'
  BY <1>0, <1>4 DEF ReportsCount, Counted, Throws, RequestsTypeOK
<1>5. ASSUME NEW c \in Contexts, SetUser(c) \/ ClearUser(c) \/ Track(c) PROVE ReportsCount'
  BY <1>1, <1>5 DEF SetUser, ClearUser, Track, requestVars, itemVars
<1>6. ASSUME NEW r \in Requests, NEW k \in Through[r], Arrive(r, k) PROVE ReportsCount'
  BY <1>1, <1>6 DEF Arrive, itemVars
<1>7. ASSUME NEW r \in Requests, NEW code, Respond(r, code) \/ Return(r, code)
      PROVE ReportsCount'
  BY <1>1, <1>7 DEF Respond, Return, itemVars
<1>8. ASSUME NEW r \in Requests, Finish(r) \/ ClientLeaves(r) \/ NextRedirects(r) PROVE ReportsCount'
  BY <1>1, <1>8 DEF Finish, ClientLeaves, NextRedirects
<1>9. ASSUME NEW r \in Requests, RequestError(r) PROVE ReportsCount'
  BY <1>0, <1>2, <1>9 DEF RequestError, RequestsTypeOK, requestVars
<1>10. ASSUME NEW r \in Requests, (\E c \in Contexts : ErrorMiddleware(r, c)) \/ SvelteCatches(r)
       PROVE ReportsCount'
  <2>1. /\ fault[r] \in Errors /\ CaptureError(fault[r]) /\ UNCHANGED <<closed, fault>>
        /\ \A q \in Requests \ {r} : handled'[q] = handled[q]
    BY <1>0, <1>10 DEF ErrorMiddleware, SvelteCatches, HandleError, RequestsTypeOK
  <2> QED BY <1>3, <2>1
<1>11. ASSUME NEW r \in Requests, NEW e \in Thrown[r], CaptureManually(r, e) PROVE ReportsCount'
  BY <1>2, <1>11 DEF CaptureManually, requestVars
<1>12. ASSUME NEW r \in Requests, NEW e \in Thrown[r], ExpressThrows(r, e) \/ JobThrows(r, e)
       PROVE ReportsCount'
  BY <1>4, <1>12 DEF ExpressThrows, JobThrows, itemVars
<1>13. ASSUME NEW r \in Requests, NEW e \in Thrown[r], NextThrows(r, e) PROVE ReportsCount'
  <2>1. /\ e \in Errors /\ CaptureError(e) /\ UNCHANGED closed /\ fault'[r] = e
        /\ \A q \in Requests \ {r} : fault'[q] = fault[q] /\ handled'[q] = handled[q]
    BY <1>0, <1>13 DEF NextThrows, Throws, RequestsTypeOK
  <2> QED BY <1>3, <2>1
<1>14. ASSUME NEW r \in Requests, NEW e \in Thrown[r], SvelteFails(r, e) PROVE ReportsCount'
  <2>1. PICK expected \in BOOLEAN : HandleError(r, e, r, expected)
    BY <1>14 DEF SvelteFails
  <2>2. /\ e \in Errors /\ Throws(r, e) /\ UNCHANGED closed /\ fault'[r] = e
        /\ \A q \in Requests \ {r} : fault'[q] = fault[q]
    BY <1>0, <1>14 DEF SvelteFails, Throws, RequestsTypeOK
  <2>3. CASE expected
    BY <1>4, <2>1, <2>2, <2>3 DEF HandleError
  <2>4. CASE ~ expected
    <3>1. CaptureError(e) /\ \A q \in Requests \ {r} : handled'[q] = handled[q]
      BY <1>0, <2>1, <2>4 DEF HandleError, RequestsTypeOK
    <3> QED BY <1>3, <2>2, <3>1
  <2> QED BY <2>3, <2>4
<1>15. CASE Shutdown
  BY <1>1, <1>15 DEF Shutdown, requestVars, itemVars
<1>16. CASE UNCHANGED vars
  BY <1>1, <1>16 DEF vars, requestVars, itemVars
<1> QED BY <1>5, <1>6, <1>7, <1>8, <1>9, <1>10, <1>11, <1>12, <1>13, <1>14, <1>15, <1>16 DEF Next

\* Every error object that went through a handler of the SDK is reported once,
\* whoever else reports or throws it; anything else that is thrown is reported.
THEOREM ErrorsReportedOnce == Spec => []ReportedOnce
<1>1. Init => ReportsInv
  <2>1. Init => ReportsCount
    BY DEF Init, ReportsCount, Counted, Errors
  <2> QED BY <2>1, TypeInit DEF ReportsInv
<1>2. ReportsInv /\ [Next]_vars => ReportsInv'
  BY TypeStep, ReportsStep DEF ReportsInv
<1>3. ReportsInv => ReportedOnce
  BY DEF ReportsInv, ReportsCount, Counted, ReportedOnce
<1> QED BY <1>1, <1>2, <1>3, PTL DEF Spec

(***************************************************************************)
(* Traces                                                                  *)
(***************************************************************************)

\* A step that leaves what is known of request q leaves its part of the
\* invariant.
LEMMA OtherRequest ==
  ASSUME NEW q \in Requests, Untouched(q), TracesCount(q), closed => closed',
         kind'[q] = kind[q], sampled'[q] = sampled[q], wrote'[q] = wrote[q], over'[q] = over[q],
         fault'[q] = fault[q], handled'[q] = handled[q], ended'[q] = ended[q], traces'[q] = traces[q]
  PROVE  Untouched(q)' /\ TracesCount(q)'
BY DEF Untouched, TracesCount, TracesTrue, Truthful

\* What makes a status code true of request r is not taken back.
Stands(r) ==
  /\ wrote[r] # 0 => wrote'[r] = wrote[r]
  /\ over[r] = "gone" => over'[r] = "gone"
  /\ fault[r] # Nobody => fault'[r] # Nobody

\* So what its traces said stays true.
LEMMA StaysTrue ==
  ASSUME NEW r \in Requests, TracesTrue(r), Stands(r), traces'[r] = traces[r]
  PROVE  TracesTrue(r)'
BY DEF TracesTrue, Truthful, Stands

\* A trace that ends with a true status code is the only one.
LEMMA TraceEnds ==
  ASSUME RequestsTypeOK, NEW r \in Requests, TracesCount(r), NEW code \in Nat \ {0},
         EndTrace(r, code), sampled' = sampled, Truthful(r, code)', Stands(r)
  PROVE  /\ ended'[r] /\ sampled'[r] => Len(traces'[r]) = 1
         /\ ~ (ended'[r] /\ sampled'[r]) => Len(traces'[r]) = 0
         /\ TracesTrue(r)'
         /\ ~ closed => ended'[r]
         /\ ended[r] => ended'[r]
<1>1. traces[r] \in Seq(Nat) /\ traces'[r] \in Seq(Nat)
  BY EndTraceType DEF RequestsTypeOK
<1>2. (~ closed => ended'[r]) /\ (ended[r] => ended'[r])
  BY EndTraceType
<1>3. CASE ended[r] \/ ~ ended'[r]
  <2>1. traces'[r] = traces[r] /\ (ended'[r] <=> ended[r])
    BY <1>2, <1>3, EndTraceType
  <2>2. TracesTrue(r)'
    BY <2>1, StaysTrue DEF TracesCount
  <2> QED BY <1>2, <2>1, <2>2 DEF TracesCount
<1>4. CASE ~ ended[r] /\ ended'[r]
  <2>1. traces'[r] = IF sampled[r] THEN Append(traces[r], code) ELSE traces[r]
    BY <1>4, EndTraceType
  <2>2. Len(traces[r]) = 0
    BY <1>4 DEF TracesCount
  <2>3. CASE sampled[r]
    <3>1. Len(traces'[r]) = 1 /\ traces'[r][1] = code
      BY <1>1, <2>1, <2>2, <2>3
    <3>2. DOMAIN traces'[r] = {1}
      BY <1>1, <3>1
    <3>3. TracesTrue(r)'
      BY <3>1, <3>2 DEF TracesTrue, Truthful
    <3> QED BY <1>2, <1>4, <2>3, <3>1, <3>3
  <2>4. CASE ~ sampled[r]
    <3>1. traces'[r] = traces[r]
      BY <2>1, <2>4
    <3>2. TracesTrue(r)'
      BY <3>1, StaysTrue DEF TracesCount
    <3> QED BY <1>2, <1>4, <2>2, <2>4, <3>1, <3>2
  <2> QED BY <2>3, <2>4
<1> QED BY <1>3, <1>4

LEMMA TracesStep ==
  TracesInv /\ [Next]_vars => (\A r \in Requests : Untouched(r) /\ TracesCount(r))'
<1> SUFFICES ASSUME TracesInv, [Next]_vars PROVE \A r \in Requests : Untouched(r)' /\ TracesCount(r)'
  OBVIOUS
<1>0. RequestsTypeOK /\ \A r \in Requests : Untouched(r) /\ TracesCount(r)
  BY DEF TracesInv
<1> DEFINE Goal == \A r \in Requests : Untouched(r)' /\ TracesCount(r)'
           Kept == UNCHANGED <<kind, sampled, wrote, over, ended, traces>> /\ (closed => closed')
<1>1. ASSUME Kept, UNCHANGED <<fault, handled>> PROVE Goal
  BY <1>0, <1>1, OtherRequest
<1>2. ASSUME NEW c \in Contexts, SetUser(c) \/ ClearUser(c) \/ Track(c) PROVE Goal
  BY <1>1, <1>2 DEF SetUser, ClearUser, Track, requestVars, itemVars
<1>3. ASSUME NEW r \in Requests, NEW k \in Through[r], Arrive(r, k) PROVE Goal
  <2>1. \A q \in Requests \ {r} : Untouched(q)' /\ TracesCount(q)'
    BY <1>0, <1>3, OtherRequest DEF Arrive, RequestsTypeOK, itemVars
  <2>2. /\ wrote[r] = 0 /\ ~ ended[r] /\ over[r] = "no" /\ ~ handled[r]
        /\ UNCHANGED <<wrote, ended, over, handled, traces, fault, closed>>
    BY <1>0, <1>3 DEF Arrive, Untouched, itemVars
  <2>3. Len(traces[r]) = 0
    BY <1>0, <2>2 DEF TracesCount
  <2>4. Untouched(r)' /\ Stands(r)
    BY <2>2 DEF Untouched, Stands
  <2>5. TracesTrue(r)'
    BY <1>0, <2>2, <2>4, StaysTrue DEF TracesCount
  <2>6. TracesCount(r)'
    BY <2>2, <2>3, <2>5 DEF TracesCount
  <2> QED BY <2>1, <2>4, <2>6
<1>4. ASSUME NEW r \in Requests, NEW code \in Codes, Respond(r, code) PROVE Goal
  <2>1. \A q \in Requests \ {r} : Untouched(q)' /\ TracesCount(q)'
    BY <1>0, <1>4, OtherRequest DEF Respond, RequestsTypeOK, itemVars
  <2>2. /\ kind[r] \in {"express", "api"} /\ wrote[r] = 0
        /\ UNCHANGED <<kind, sampled, ended, over, handled, traces, fault, closed>>
    BY <1>4 DEF Respond, itemVars
  <2>3. Untouched(r)' /\ Stands(r)
    BY <2>2 DEF Untouched, Stands
  <2>4. TracesTrue(r)'
    BY <1>0, <2>2, <2>3, StaysTrue DEF TracesCount
  <2> QED BY <1>0, <2>1, <2>2, <2>3, <2>4 DEF TracesCount
<1>5. ASSUME NEW r \in Requests, NEW code \in Codes \cup {Threw, Expected}, Return(r, code) PROVE Goal
  <2>6. code \in Nat \ {0}
    BY CodesType DEF Threw, Expected
  <2>0. /\ EndTrace(r, code) /\ code \in Nat \ {0} /\ wrote' = [wrote EXCEPT ![r] = code]
        /\ kind[r] \in {"route", "handle", "job"} /\ over[r] = "no"
        /\ over' = [over EXCEPT ![r] = "finished"]
        /\ UNCHANGED <<closed, kind, sampled, fault, handled>>
    BY <1>5, <2>6 DEF Return
  <2>1. \A q \in Requests \ {r} : Untouched(q)' /\ TracesCount(q)'
    BY <1>0, <2>0, EndTraceType, OtherRequest DEF RequestsTypeOK
  <2>2. wrote[r] = 0 /\ wrote'[r] = code /\ over'[r] = "finished"
    BY <1>0, <2>0 DEF Untouched, RequestsTypeOK
  <2>3. Truthful(r, code)' /\ Stands(r)
    BY <2>0, <2>2 DEF Truthful, Stands
  <2>4. /\ ended'[r] /\ sampled'[r] => Len(traces'[r]) = 1
        /\ ~ (ended'[r] /\ sampled'[r]) => Len(traces'[r]) = 0
        /\ TracesTrue(r)'
        /\ ~ closed => ended'[r]
    BY <1>0, <2>0, <2>3, TraceEnds
  <2> QED BY <2>0, <2>1, <2>2, <2>4 DEF Untouched, TracesCount
<1>6. ASSUME NEW r \in Requests, Finish(r) PROVE Goal
  <2>0. /\ kind[r] \in {"express", "api"} /\ wrote[r] \in Nat \ {0}
        /\ over' = [over EXCEPT ![r] = IF @ = "no" THEN "finished" ELSE @]
        /\ UNCHANGED <<closed, kind, sampled, wrote, fault, handled>>
    BY <1>0, <1>6 DEF Finish, RequestsTypeOK
  <2>1. over'[r] = (IF over[r] = "no" THEN "finished" ELSE over[r]) /\ Untouched(r)'
    BY <1>0, <2>0 DEF Untouched, RequestsTypeOK
  <2>2. Truthful(r, wrote[r])' /\ Stands(r)
    BY <2>0, <2>1 DEF Truthful, Stands
  <2>3. CASE EndTrace(r, wrote[r])
    <3>1. \A q \in Requests \ {r} : Untouched(q)' /\ TracesCount(q)'
      BY <1>0, <2>0, <2>3, EndTraceType, OtherRequest DEF RequestsTypeOK
    <3>2. /\ ended'[r] /\ sampled'[r] => Len(traces'[r]) = 1
          /\ ~ (ended'[r] /\ sampled'[r]) => Len(traces'[r]) = 0
          /\ TracesTrue(r)'
          /\ ~ closed => ended'[r]
      BY <1>0, <2>0, <2>2, <2>3, TraceEnds
    <3> QED BY <2>0, <2>1, <3>1, <3>2 DEF TracesCount
  <2>4. CASE kind[r] = "api" /\ handled[r] /\ UNCHANGED <<ended, traces>>
    <3>1. \A q \in Requests \ {r} : Untouched(q)' /\ TracesCount(q)'
      BY <1>0, <2>0, <2>4, OtherRequest DEF RequestsTypeOK
    <3>2. TracesTrue(r)'
      BY <1>0, <2>2, <2>4, StaysTrue DEF TracesCount
    <3>3. TracesCount(r)'
      BY <1>0, <2>0, <2>4, <3>2 DEF TracesCount
    <3> QED BY <2>1, <3>1, <3>3
  <2> QED BY <1>6, <2>3, <2>4 DEF Finish
<1>7. ASSUME NEW r \in Requests, ClientLeaves(r) PROVE Goal
  <2>0. /\ kind[r] \in {"express", "api"} /\ over[r] = "no"
        /\ over' = [over EXCEPT ![r] = "gone"]
        /\ UNCHANGED <<closed, kind, sampled, wrote, fault, handled>>
    BY <1>7 DEF ClientLeaves
  <2>1. over'[r] = "gone" /\ Untouched(r)'
    BY <1>0, <2>0 DEF Untouched, RequestsTypeOK
  <2>2. Truthful(r, Left)' /\ Stands(r)
    BY <2>0, <2>1 DEF Truthful, Stands
  <2>3. CASE kind[r] = "express" /\ EndTrace(r, Left)
    <3>1. \A q \in Requests \ {r} : Untouched(q)' /\ TracesCount(q)'
      BY <1>0, <2>0, <2>3, CodesType, EndTraceType, OtherRequest DEF RequestsTypeOK
    <3>2. Left \in Nat \ {0}
      BY DEF Left
    <3>3. /\ ended'[r] /\ sampled'[r] => Len(traces'[r]) = 1
          /\ ~ (ended'[r] /\ sampled'[r]) => Len(traces'[r]) = 0
          /\ TracesTrue(r)'
          /\ ~ closed => ended'[r]
      BY <1>0, <2>0, <2>2, <2>3, <3>2, TraceEnds
    <3> QED BY <2>0, <2>1, <3>1, <3>3 DEF TracesCount
  <2>4. CASE kind[r] = "api" /\ UNCHANGED <<ended, traces>>
    <3>1. \A q \in Requests \ {r} : Untouched(q)' /\ TracesCount(q)'
      BY <1>0, <2>0, <2>4, OtherRequest DEF RequestsTypeOK
    <3>2. TracesTrue(r)'
      BY <1>0, <2>2, <2>4, StaysTrue DEF TracesCount
    <3>3. TracesCount(r)'
      BY <1>0, <2>0, <2>1, <2>4, <3>2 DEF TracesCount
    <3> QED BY <2>1, <3>1, <3>3
  <2> QED BY <1>7, <2>0, <2>3, <2>4 DEF ClientLeaves, ListensForClose
<1>8. ASSUME NEW r \in Requests, NextRedirects(r) PROVE Goal
  <2>0. /\ EndTrace(r, Redirect) /\ wrote' = [wrote EXCEPT ![r] = Redirect]
        /\ kind[r] = "route" /\ over[r] = "no"
        /\ over' = [over EXCEPT ![r] = "finished"]
        /\ UNCHANGED <<closed, kind, sampled, fault, handled>>
    BY <1>8 DEF NextRedirects
  <2>1. \A q \in Requests \ {r} : Untouched(q)' /\ TracesCount(q)'
    BY <1>0, <2>0, CodesType, EndTraceType, OtherRequest DEF RequestsTypeOK
  <2>2. wrote[r] = 0 /\ wrote'[r] = Redirect /\ over'[r] = "finished"
    BY <1>0, <2>0 DEF Untouched, RequestsTypeOK
  <2>3. Truthful(r, Redirect)' /\ Stands(r)
    BY <2>0, <2>2 DEF Truthful, Stands
  <2>4. Redirect \in Nat \ {0}
    BY DEF Redirect
  <2>5. /\ ended'[r] /\ sampled'[r] => Len(traces'[r]) = 1
        /\ ~ (ended'[r] /\ sampled'[r]) => Len(traces'[r]) = 0
        /\ TracesTrue(r)'
        /\ ~ closed => ended'[r]
    BY <1>0, <2>0, <2>3, <2>4, TraceEnds
  <2> QED BY <2>0, <2>1, <2>2, <2>5 DEF Untouched, TracesCount
<1>9. ASSUME NEW r \in Requests, RequestError(r) PROVE Goal
  BY <1>1, <1>9 DEF RequestError, requestVars
<1>10. ASSUME NEW r \in Requests, (\E c \in Contexts : ErrorMiddleware(r, c)) \/ SvelteCatches(r) PROVE Goal
  <2>0. /\ kind[r] \in {"express", "handle"} /\ kind[r] # "none" /\ Kept /\ UNCHANGED fault
        /\ handled' = [handled EXCEPT ![r] = TRUE]
    BY <1>10 DEF ErrorMiddleware, SvelteCatches, HandleError
  <2>1. \A q \in Requests \ {r} : Untouched(q)' /\ TracesCount(q)'
    BY <1>0, <2>0, OtherRequest DEF RequestsTypeOK
  <2>2. Untouched(r)'
    BY <1>0, <2>0 DEF Untouched
  <2>3. /\ TracesCount(r) /\ kind'[r] = kind[r] /\ kind[r] # "api" /\ over'[r] = over[r]
        /\ ended'[r] = ended[r] /\ sampled'[r] = sampled[r] /\ traces'[r] = traces[r]
        /\ wrote'[r] = wrote[r] /\ fault'[r] = fault[r] /\ (closed => closed')
    BY <1>0, <2>0
  <2>4. TracesTrue(r)'
    BY ONLY <2>3 DEF TracesCount, TracesTrue, Truthful
  <2>5. TracesCount(r)'
    BY ONLY <2>3, <2>4 DEF TracesCount
  <2> QED BY <2>1, <2>2, <2>5
<1>11. ASSUME NEW r \in Requests, NEW e \in Thrown[r], CaptureManually(r, e) PROVE Goal
  BY <1>1, <1>11 DEF CaptureManually, requestVars
<1>12. ASSUME NEW r \in Requests, NEW e \in Thrown[r], ExpressThrows(r, e) \/ SvelteFails(r, e) PROVE Goal
  <2>0. /\ kind[r] \in {"express", "handle"} /\ Kept
        /\ fault[r] = Nobody /\ fault' = [fault EXCEPT ![r] = e]
        /\ \A q \in Requests \ {r} : handled'[q] = handled[q]
    BY <1>0, <1>12 DEF ExpressThrows, SvelteFails, HandleError, Throws, RequestsTypeOK, itemVars
  <2>1. \A q \in Requests \ {r} : Untouched(q)' /\ TracesCount(q)'
    BY <1>0, <2>0, OtherRequest DEF RequestsTypeOK
  <2>2. Untouched(r)'
    BY <1>0, <2>0 DEF Untouched
  <2>3. \A code : Truthful(r, code) => Truthful(r, code)'
    BY <2>0 DEF Truthful
  <2>4. TracesCount(r)'
    <3>1. /\ TracesCount(r) /\ kind'[r] = kind[r] /\ kind[r] # "api" /\ over'[r] = over[r]
          /\ ended'[r] = ended[r] /\ sampled'[r] = sampled[r] /\ traces'[r] = traces[r]
          /\ closed => closed'
      BY <1>0, <2>0
    <3>2. TracesTrue(r)'
      BY <2>3, <3>1 DEF TracesCount, TracesTrue
    <3> QED BY ONLY <3>1, <3>2 DEF TracesCount
  <2> QED BY <2>1, <2>2, <2>4
<1>13. ASSUME NEW r \in Requests, NEW e \in Thrown[r], NextThrows(r, e) PROVE Goal
  <2>0. /\ EndTrace(r, Threw) /\ UNCHANGED <<closed, kind, sampled, wrote>>
        /\ fault[r] = Nobody /\ fault' = [fault EXCEPT ![r] = e]
        /\ handled' = [handled EXCEPT ![r] = TRUE]
        /\ \/ kind[r] = "route" /\ over[r] = "no" /\ over' = [over EXCEPT ![r] = "finished"]
           \/ kind[r] = "api" /\ over' = over
    BY <1>13 DEF NextThrows, Throws
  <2>1. \A q \in Requests \ {r} : Untouched(q)' /\ TracesCount(q)'
    BY <1>0, <2>0, CodesType, EndTraceType, OtherRequest DEF RequestsTypeOK
  <2>2. /\ fault'[r] # Nobody
        /\ \/ kind[r] = "route" /\ over[r] = "no" /\ over'[r] = "finished"
           \/ kind[r] = "api" /\ over'[r] = over[r]
    BY <1>0, <2>0, ErrorsOfRequests, NobodyApart DEF RequestsTypeOK
  <2>3. Truthful(r, Threw)' /\ Stands(r)
    BY <2>0, <2>2 DEF Truthful, Stands
  <2>4. Threw \in Nat \ {0}
    BY DEF Threw
  <2>5. /\ ended'[r] /\ sampled'[r] => Len(traces'[r]) = 1
        /\ ~ (ended'[r] /\ sampled'[r]) => Len(traces'[r]) = 0
        /\ TracesTrue(r)'
        /\ ~ closed => ended'[r]
    BY <1>0, <2>0, <2>3, <2>4, TraceEnds
  <2> QED BY <2>0, <2>1, <2>2, <2>5 DEF Untouched, TracesCount
<1>14. ASSUME NEW r \in Requests, NEW e \in Thrown[r], JobThrows(r, e) PROVE Goal
  <2>0. /\ EndTrace(r, Threw) /\ UNCHANGED <<closed, kind, sampled, wrote, handled>>
        /\ fault[r] = Nobody /\ fault' = [fault EXCEPT ![r] = e]
        /\ kind[r] \in {"job", "handle"} /\ over[r] = "no" /\ over' = [over EXCEPT ![r] = "finished"]
    BY <1>14 DEF JobThrows, Throws
  <2>1. \A q \in Requests \ {r} : Untouched(q)' /\ TracesCount(q)'
    BY <1>0, <2>0, CodesType, EndTraceType, OtherRequest DEF RequestsTypeOK
  <2>2. fault'[r] # Nobody /\ over'[r] = "finished"
    BY <1>0, <2>0, ErrorsOfRequests, NobodyApart DEF RequestsTypeOK
  <2>3. Truthful(r, Threw)' /\ Stands(r)
    BY <2>0, <2>2 DEF Truthful, Stands
  <2>4. Threw \in Nat \ {0}
    BY DEF Threw
  <2>5. /\ ended'[r] /\ sampled'[r] => Len(traces'[r]) = 1
        /\ ~ (ended'[r] /\ sampled'[r]) => Len(traces'[r]) = 0
        /\ TracesTrue(r)'
        /\ ~ closed => ended'[r]
    BY <1>0, <2>0, <2>3, <2>4, TraceEnds
  <2> QED BY <2>0, <2>1, <2>2, <2>5 DEF Untouched, TracesCount
<1>15. CASE Shutdown
  BY <1>1, <1>15 DEF Shutdown, requestVars, itemVars
<1>16. CASE UNCHANGED vars
  BY <1>1, <1>16 DEF vars, requestVars, itemVars
<1> QED BY <1>2, <1>3, <1>4, <1>5, <1>6, <1>7, <1>8, <1>9, <1>10, <1>11, <1>12, <1>13, <1>14,
           <1>15, <1>16 DEF Next

\* While the client is open every sampled request that is over was traced once,
\* with a status code that is true of it.
THEOREM RequestsTracedOnce == Spec => []TracedOnce
<1>1. Init => TracesInv
  <2>1. ASSUME Init, NEW r \in Requests PROVE Untouched(r) /\ TracesCount(r)
    <3>1. traces[r] = <<>>
      BY <2>1 DEF Init
    <3>2. Len(traces[r]) = 0 /\ DOMAIN traces[r] = {}
      BY <3>1
    <3>3. TracesTrue(r)
      BY <3>2 DEF TracesTrue
    <3> QED BY <2>1, <3>2, <3>3 DEF Init, Untouched, TracesCount
  <2> QED BY <2>1, TypeInit DEF TracesInv
<1>2. TracesInv /\ [Next]_vars => TracesInv'
  BY TypeStep, TracesStep DEF TracesInv
<1>3. TracesInv => TracedOnce
  <2> SUFFICES ASSUME TracesInv, NEW r \in Requests
               PROVE  /\ Len(traces[r]) <= 1
                      /\ \A i \in DOMAIN traces[r] : Truthful(r, traces[r][i])
                      /\ over[r] # "no" /\ sampled[r] /\ ~ closed =>
                           Len(traces[r]) = 1 \/ (kind[r] = "api" /\ over[r] = "gone")
    BY Zenon DEF TracedOnce
  <2>1. TracesCount(r)
    BY DEF TracesInv
  <2>2. \A i \in DOMAIN traces[r] : Truthful(r, traces[r][i])
    BY <2>1, Zenon DEF TracesCount, TracesTrue
  <2>3. Len(traces[r]) <= 1
    <3>1. Len(traces[r]) = 1 \/ Len(traces[r]) = 0
      BY <2>1, Zenon DEF TracesCount
    <3>2. \A n \in {0, 1} : n <= 1
      OBVIOUS
    <3> QED BY <3>1, <3>2, Zenon
  <2>4. over[r] # "no" /\ sampled[r] /\ ~ closed =>
          Len(traces[r]) = 1 \/ (kind[r] = "api" /\ over[r] = "gone")
    BY <2>1 DEF TracesCount
  <2> QED BY <2>2, <2>3, <2>4, Zenon
<1> QED BY <1>1, <1>2, <1>3, PTL DEF Spec
=============================================================================
