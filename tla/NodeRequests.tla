---------------------------- MODULE NodeRequests ----------------------------
(***************************************************************************)
(* Requests of a Node server and what the SDK captures for them:           *)
(* node/src/watchup.ts (middleware, context, manual capture), the wrappers *)
(* of nextjs/src/server/withWatchupRoute.ts and the hooks of               *)
(* svelte/src/server.ts.                                                   *)
(*                                                                         *)
(* Every request has a scope of its own, which AsyncLocalStorage finds     *)
(* again in whatever the request's handler awaits or calls.  Requests,     *)
(* jobs (runWithContext) and code outside of both interleave.              *)
(*                                                                         *)
(* Abstractions.  An item is what it is attributed to: its user and, for a *)
(* trace, the status code.  The user that belongs to request r is r.       *)
(***************************************************************************)
EXTENDS Naturals, Sequences

CONSTANTS
  Requests,   \* the requests and jobs of a behaviour
  Through,    \* bound: the kinds each of them may have
  Thrown,     \* bound: what each of them may throw
  Codes,      \* bound: status codes the application answers with
  Shared,     \* an error object that several requests may throw
  Default,    \* the user set outside of requests
  Nobody      \* no user, no error, no scope

\* requestMiddleware, withWatchupRoute, withWatchupApi, watchupHandle, and
\* trace() in runWithContext().
Kinds  == {"express", "route", "api", "handle", "job"}

\* What may be thrown: an error object of r's own, the shared one, or something
\* that is no object, a string for one.
Text(r) == <<"text", r>>
Texts   == {Text(r) : r \in Requests}
Objects == Requests \cup {Shared}
Errors  == Objects \cup Texts

ASSUME RequestConstants ==
  /\ Shared \notin Requests /\ Default \notin Requests /\ Nobody \notin Requests
  /\ Nobody \notin {Shared, Default}
  /\ Texts \cap (Objects \cup {Default, Nobody}) = {}
  /\ Through \in [Requests -> SUBSET Kinds]
  /\ \A r \in Requests : Thrown[r] \subseteq {r, Shared, Text(r)}
  /\ Codes \subseteq Nat \ {0}

\* Further status codes: an error nobody handled, one SvelteKit calls expected,
\* Next's redirect() and a client that left.
Threw    == 500
Expected == 404
Redirect == 307
Left     == 499

\* Bound: how far the reports of a thrown value are counted.
MaxReports == 2

VARIABLES
  closed,      \* (this.closed)
  globalUser,  \* (this.globalUser)
  kind,        \* what r came through, "none" before it arrived
  scopeUser,   \* scope.user of r
  startUser,   \* the user when r's trace was started
  sampled,     \* shouldSample() for r
  ended,       \* r's trace was recorded  (recorded, ended)
  wrote,       \* the status code r's handler answered with, 0 before that
  over,        \* how the response ended: no, finished, gone
  fault,       \* the error r's handler threw
  handled,     \* the error went through the SDK's handler
  captured,    \* the error objects reported before  (the WeakSet)
  traces,      \* history: the status codes of r's traces
  reports,     \* history: how often an error was reported, up to MaxReports
  sent         \* what the last step captured

requestVars == <<kind, sampled, startUser, wrote, over, fault, handled>>
itemVars    == <<ended, captured, traces, reports>>
vars == <<closed, globalUser, scopeUser, requestVars, itemVars, sent>>

\* An item of context c.
Item(c, user) == [for |-> c, user |-> user]

(***************************************************************************)
(* Users                                                                   *)
(***************************************************************************)

\* The user in context c: a request's scope, or Nobody outside of requests.
\* An unset user of the scope falls back to the default (scope?.user ?? globalUser).
UserIn(c) == IF c \in Requests /\ scopeUser[c] # Nobody THEN scopeUser[c] ELSE globalUser

Arrived(c) == c \in Requests => kind[c] # "none"
Contexts   == Requests \cup {Nobody}

\* Mutant of SetUserTo: the request's scope is not looked for.
SetsDefault(c, u) == globalUser' = u /\ UNCHANGED scopeUser

\* setUser and clearUser write the scope they run in, or the default.
SetUserTo(c, u) ==
  \/ c \in Requests /\ scopeUser' = [scopeUser EXCEPT ![c] = u] /\ UNCHANGED globalUser
  \/ c \notin Requests /\ globalUser' = u /\ UNCHANGED scopeUser

SetUser(c) ==
  /\ Arrived(c)
  /\ SetUserTo(c, IF c \in Requests THEN c ELSE Default)
  /\ sent' = {}
  /\ UNCHANGED <<closed, requestVars, itemVars>>

ClearUser(c) ==
  /\ Arrived(c)
  /\ SetUserTo(c, Nobody)
  /\ sent' = {}
  /\ UNCHANGED <<closed, requestVars, itemVars>>

(***************************************************************************)
(* Capturing                                                               *)
(***************************************************************************)

\* track() and captureLog().
Track(c) ==
  /\ Arrived(c) /\ ~ closed
  /\ sent' = {Item(c, UserIn(c))}
  /\ UNCHANGED <<closed, globalUser, scopeUser, requestVars, itemVars>>

\* Mutant of Repeated: captureError does not look whether it knows the error.
NeverRepeated(e) == FALSE
Repeated(e) == e \in captured

\* captureError(e), and what it captures with context c for request r.  Only an
\* object can be remembered.
CaptureError(e) ==
  IF closed \/ Repeated(e)
  THEN UNCHANGED <<captured, reports>>
  ELSE /\ captured' = captured \cup ({e} \cap Objects)
       /\ reports' = [reports EXCEPT ![e] = IF @ < MaxReports THEN @ + 1 ELSE @]

ErrorItem(e, c, r) == IF closed \/ Repeated(e) THEN {} ELSE {Item(r, UserIn(c))}

\* Mutant of Recorded: the trace does not remember that it was recorded.
NotRecorded(r) == FALSE
Recorded(r) == ended[r]

\* record() and the end() of startTrace().
EndTrace(r, code) ==
  IF Recorded(r) \/ closed
  THEN UNCHANGED <<ended, traces>>
  ELSE /\ ended' = [ended EXCEPT ![r] = TRUE]
       /\ traces' = IF sampled[r] THEN [traces EXCEPT ![r] = Append(@, code)] ELSE traces

\* The middleware's trace has the user the scope has now, the others the one at
\* their start.
TraceItem(r) ==
  IF Recorded(r) \/ closed \/ ~ sampled[r] THEN {}
  ELSE {Item(r, IF kind[r] = "express" THEN scopeUser[r] ELSE startUser[r])}

\* The application catches an error and reports it itself.
CaptureManually(r, e) ==
  /\ Arrived(r) /\ ~ closed
  /\ CaptureError(e) /\ sent' = ErrorItem(e, r, r)
  /\ UNCHANGED <<closed, globalUser, scopeUser, requestVars, ended, traces>>

(***************************************************************************)
(* A request arrives and is answered                                       *)
(***************************************************************************)

\* The middleware copies the default user into the scope, the others start a
\* trace in an empty one.
Arrive(r, k) ==
  /\ kind[r] = "none"
  /\ kind' = [kind EXCEPT ![r] = k]
  /\ scopeUser' = [scopeUser EXCEPT ![r] = IF k = "express" THEN globalUser ELSE Nobody]
  /\ startUser' = [startUser EXCEPT ![r] = IF k = "express" THEN Nobody ELSE globalUser]
  /\ \E s \in BOOLEAN : (k # "express" => s) /\ sampled' = [sampled EXCEPT ![r] = s]
  /\ sent' = {}
  /\ UNCHANGED <<closed, globalUser, wrote, over, fault, handled, itemVars>>

\* The handler ends the response.  It reaches the client later.
Respond(r, code) ==
  /\ kind[r] \in {"express", "api"} /\ wrote[r] = 0
  /\ wrote' = [wrote EXCEPT ![r] = code]
  /\ sent' = {}
  /\ UNCHANGED <<closed, globalUser, scopeUser, kind, sampled, startUser, over, fault, handled, itemVars>>

\* The response's 'finish'.  It may still come after the client left.
Finish(r) ==
  /\ wrote[r] # 0 /\ kind[r] \in {"express", "api"}
  /\ over' = [over EXCEPT ![r] = IF @ = "no" THEN "finished" ELSE @]
  /\ \/ /\ kind[r] = "express" \/ ~ handled[r]
        /\ EndTrace(r, wrote[r]) /\ sent' = TraceItem(r)
     \/ /\ kind[r] = "api" /\ handled[r]
        /\ sent' = {} /\ UNCHANGED <<ended, traces>>
  /\ UNCHANGED <<closed, globalUser, scopeUser, kind, sampled, startUser, wrote, fault, handled, captured, reports>>

\* Mutant of ListensForClose: a client that leaves is not noticed.
NeverListens(r) == FALSE
ListensForClose(r) == kind[r] = "express"

\* The client leaves before 'finish': the response only emits 'close'.
ClientLeaves(r) ==
  /\ kind[r] \in {"express", "api"} /\ over[r] = "no"
  /\ over' = [over EXCEPT ![r] = "gone"]
  /\ IF ListensForClose(r)
     THEN EndTrace(r, Left) /\ sent' = TraceItem(r)
     ELSE sent' = {} /\ UNCHANGED <<ended, traces>>
  /\ UNCHANGED <<closed, globalUser, scopeUser, kind, sampled, startUser, wrote, fault, handled, captured, reports>>

\* A Route Handler, resolve() or the function given to trace() returns.
Return(r, code) ==
  /\ kind[r] \in {"route", "handle", "job"} /\ over[r] = "no"
  /\ \/ fault[r] = Nobody /\ code \in Codes
     \/ kind[r] = "handle" /\ fault[r] # Nobody /\ code = IF handled[r] THEN Threw ELSE Expected
  /\ wrote' = [wrote EXCEPT ![r] = code]
  /\ over' = [over EXCEPT ![r] = "finished"]
  /\ EndTrace(r, code) /\ sent' = TraceItem(r)
  /\ UNCHANGED <<closed, globalUser, scopeUser, kind, sampled, startUser, fault, handled, captured, reports>>

(***************************************************************************)
(* A handler throws                                                        *)
(***************************************************************************)
Throws(r, e) ==
  /\ Arrived(r) /\ fault[r] = Nobody
  /\ fault' = [fault EXCEPT ![r] = e]

\* A handler of Express throws, or rejects and wrapAsync forwards it.
ExpressThrows(r, e) ==
  /\ kind[r] = "express" /\ Throws(r, e)
  /\ sent' = {}
  /\ UNCHANGED <<closed, globalUser, scopeUser, kind, sampled, startUser, wrote, over, handled, itemVars>>

\* Mutant of ScopeFor: the error handler relies on the context it runs in.
ScopeOfCall(r, c) == c
ScopeFor(r, c) == r

\* errorMiddleware takes the scope from the request: a library that calls next()
\* may have lost the context, or run in that of another request.
ErrorMiddleware(r, c) ==
  /\ kind[r] = "express" /\ fault[r] # Nobody /\ Arrived(c)
  /\ handled' = [handled EXCEPT ![r] = TRUE]
  /\ CaptureError(fault[r]) /\ sent' = ErrorItem(fault[r], ScopeFor(r, c), r)
  /\ UNCHANGED <<closed, globalUser, scopeUser, kind, sampled, startUser, wrote, over, fault, ended, traces>>

\* The wrappers of Next: the trace ends with 500, the error is reported.
NextThrows(r, e) ==
  /\ \/ kind[r] = "route" /\ over[r] = "no"
     \/ kind[r] = "api"
  /\ Throws(r, e)
  /\ handled' = [handled EXCEPT ![r] = TRUE]
  /\ over' = IF kind[r] = "route" THEN [over EXCEPT ![r] = "finished"] ELSE over
  /\ EndTrace(r, Threw) /\ CaptureError(e)
  /\ sent' = TraceItem(r) \cup ErrorItem(e, r, r)
  /\ UNCHANGED <<closed, globalUser, scopeUser, kind, sampled, startUser, wrote>>

\* redirect() and notFound() throw too, and are no incident.
NextRedirects(r) ==
  /\ kind[r] = "route" /\ over[r] = "no" /\ fault[r] = Nobody
  /\ wrote' = [wrote EXCEPT ![r] = Redirect]
  /\ over' = [over EXCEPT ![r] = "finished"]
  /\ EndTrace(r, Redirect) /\ sent' = TraceItem(r)
  /\ UNCHANGED <<closed, globalUser, scopeUser, kind, sampled, startUser, fault, handled, captured, reports>>

\* Next calls captureRequestError with what a wrapper threw, outside its context.
RequestError(r) ==
  /\ kind[r] \in {"route", "api"} /\ handled[r]
  /\ CaptureError(fault[r]) /\ sent' = ErrorItem(fault[r], Nobody, r)
  /\ UNCHANGED <<closed, globalUser, scopeUser, requestVars, ended, traces>>

\* watchupHandleError, which SvelteKit calls in context c with what r threw: an
\* expected error, a 4xx, is none of its business.
HandleError(r, e, c, expected) ==
  IF expected
  THEN sent' = {} /\ UNCHANGED <<handled, captured, reports>>
  ELSE /\ handled' = [handled EXCEPT ![r] = TRUE]
       /\ CaptureError(e) /\ sent' = ErrorItem(e, c, r)

\* A load function or an endpoint throws in resolve(), which calls the hook and
\* returns an error page.
SvelteFails(r, e) ==
  /\ kind[r] = "handle" /\ over[r] = "no" /\ Throws(r, e)
  /\ \E expected \in BOOLEAN : HandleError(r, e, r, expected)
  /\ UNCHANGED <<closed, globalUser, scopeUser, kind, sampled, startUser, wrote, over, ended, traces>>

\* The function given to trace() throws, or resolve() because another handle in
\* it did: the trace says so, and the caller gets the error.
JobThrows(r, e) ==
  /\ kind[r] \in {"job", "handle"} /\ over[r] = "no" /\ Throws(r, e)
  /\ over' = [over EXCEPT ![r] = "finished"]
  /\ EndTrace(r, Threw) /\ sent' = TraceItem(r)
  /\ UNCHANGED <<closed, globalUser, scopeUser, kind, sampled, startUser, wrote, handled, captured, reports>>

\* The caller of the handle is SvelteKit, which calls the hook, outside its context.
SvelteCatches(r) ==
  /\ kind[r] = "handle" /\ over[r] = "finished" /\ wrote[r] = 0
  /\ fault[r] # Nobody /\ ~ handled[r]
  /\ HandleError(r, fault[r], Nobody, FALSE)
  /\ UNCHANGED <<closed, globalUser, scopeUser, kind, sampled, startUser, wrote, over, fault, ended, traces>>

Shutdown ==
  /\ ~ closed /\ closed' = TRUE /\ sent' = {}
  /\ UNCHANGED <<globalUser, scopeUser, requestVars, itemVars>>

(***************************************************************************)
(* The specification                                                       *)
(***************************************************************************)
Init ==
  /\ closed = FALSE /\ globalUser = Nobody
  /\ kind = [r \in Requests |-> "none"]
  /\ scopeUser = [r \in Requests |-> Nobody] /\ startUser = [r \in Requests |-> Nobody]
  /\ sampled = [r \in Requests |-> FALSE] /\ ended = [r \in Requests |-> FALSE]
  /\ wrote = [r \in Requests |-> 0] /\ over = [r \in Requests |-> "no"]
  /\ fault = [r \in Requests |-> Nobody] /\ handled = [r \in Requests |-> FALSE]
  /\ captured = {} /\ sent = {}
  /\ traces = [r \in Requests |-> <<>>] /\ reports = [e \in Errors |-> 0]

Next ==
  \/ \E c \in Contexts : SetUser(c) \/ ClearUser(c) \/ Track(c)
  \/ \E r \in Requests :
       \/ \E k \in Through[r] : Arrive(r, k)
       \/ \E code \in Codes : Respond(r, code)
       \/ \E code \in Codes \cup {Threw, Expected} : Return(r, code)
       \/ Finish(r) \/ ClientLeaves(r)
       \/ NextRedirects(r) \/ RequestError(r) \/ SvelteCatches(r)
       \/ \E c \in Contexts : ErrorMiddleware(r, c)
       \/ \E e \in Thrown[r] :
            \/ CaptureManually(r, e)
            \/ ExpressThrows(r, e) \/ NextThrows(r, e) \/ SvelteFails(r, e) \/ JobThrows(r, e)
  \/ Shutdown

Spec == Init /\ [][Next]_vars

(***************************************************************************)
(* Properties                                                              *)
(***************************************************************************)

\* No item carries the user of another request: concurrent requests never see
\* each other's user (context.ts:4), and code outside of requests sees none of
\* theirs.
NoForeignUser == \A x \in sent : x.user \in {x.for, Default, Nobody}

\* A request that has a user when its error is reported, or when its middleware
\* records the trace, is reported with that user, wherever the handler that
\* reports it runs.
KeepsItsUser ==
  [][\A r \in Requests : kind[r] = "express" /\ scopeUser[r] # Nobody =>
       \A x \in sent' : x.for = r => x.user = scopeUser[r]]_vars

\* What a trace may say of request r: what was answered, that its client left,
\* or that its handler threw.
Truthful(r, code) ==
  \/ code = wrote[r]
  \/ code = Left /\ over[r] = "gone"
  \/ code = Threw /\ fault[r] # Nobody

\* While the client is open, every sampled request that is over has one trace,
\* with a status code that is true of it.  A Pages Router route whose client
\* leaves is left out: nothing listens for that.
TracedOnce ==
  \A r \in Requests :
    /\ Len(traces[r]) <= 1
    /\ \A i \in DOMAIN traces[r] : Truthful(r, traces[r][i])
    /\ over[r] # "no" /\ sampled[r] /\ ~ closed =>
         Len(traces[r]) = 1 \/ (kind[r] = "api" /\ over[r] = "gone")

\* An error object that went through a handler of the SDK was reported once, also
\* when the application, a wrapper and the framework's hook all report it, or when
\* two requests throw the same object; anything else that is thrown was reported.
ReportedOnce ==
  /\ \A e \in Objects : reports[e] <= 1
  /\ \A r \in Requests : handled[r] /\ ~ closed => reports[fault[r]] >= 1

\* A step keeps "An error is reported once even if it passes through several
\* handlers" (watchup.ts:230): a handler of the SDK that gets what another one has
\* reported captures nothing.
HandlersReportOnce ==
  \A r \in Requests :
    handled[r] /\ (RequestError(r) \/ \E c \in Contexts : ErrorMiddleware(r, c)) => sent' = {}
=============================================================================
