---------------------------- MODULE NodeProcess ----------------------------
(***************************************************************************)
(* How a Node process that runs the SDK comes to its end:                  *)
(* node/src/watchup.ts, the lifecycle part.                                *)
(*                                                                         *)
(* The process ends by itself, by a signal, by an error nobody caught, or  *)
(* because the application exits.  The SDK listens for the first three,    *)
(* flushes or shuts down, and then ends the process itself, or leaves that *)
(* to the application.  JavaScript runs one handler at a time: an action   *)
(* is what a handler does up to its next await.                            *)
(*                                                                         *)
(* Abstractions.  The queue is what is captured and not sent (`fresh`),    *)
(* what the drain awaits (`sending`) and what waits for a retry            *)
(* (`waiting`); DeliveryQueue has its mechanism.  Whether a retry is due,  *)
(* and whether shutdown's deadline leaves time for it, is a free choice.   *)
(***************************************************************************)
EXTENDS Naturals, FiniteSets

CONSTANTS
  Others,       \* how many listeners for a signal others may have: a set of numbers
  MaxAttempts,  \* sends of one item
  MaxCaptures,  \* bound: items captured in a behaviour
  MaxSignals    \* bound: signals sent to the process

ASSUME NodeConstants ==
  /\ Others \subseteq Nat
  /\ {MaxAttempts, MaxCaptures, MaxSignals} \subseteq Nat

Item   == 1 .. MaxCaptures
Signal == {"SIGTERM", "SIGINT"}

\* What process.on is used for, by option.
SignalHooks    == Signal \cup {"beforeExit"}    \* handleSignals
UnhandledHooks == {"uncaughtException"}         \* captureUnhandled

\* Who awaits a shutdown() and then ends the process: the signal handler
\* re-raises, the handler of fatal errors and the application exit.
Caller == {"reraise", "fatal", "app"}

VARIABLES
  others,    \* listeners for a signal that are not this client's
  hooks,     \* this client's listeners on process          (this.cleanup)
  handles,   \* the client was created with handleSignals
  busy,      \* the application has work that keeps the process alive
  captured,  \* how many items were captured
  fresh, sending, waiting, rerun, tries,
  delivered, \* history: items the server accepted
  reported,  \* history: items lost, with a diagnostic that says so
  closed,    \* (this.closed)
  closing,   \* where queue.shutdown() is
  awaits,    \* the callers whose shutdown() call waits for it to end
  returned,  \* the callers whose shutdown() call returned at once
  exitTimer, \* the timer of a fatal error is set
  signals,   \* signals sent to the process
  raised,    \* history: the SDK sent the process a signal
  ended      \* how the process ended

queueVars == <<fresh, sending, waiting, rerun, tries, delivered, reported>>
endVars   == <<closed, closing, awaits, returned, exitTimer>>
environ   == <<others, handles, busy, signals>>
vars == <<hooks, captured, raised, ended, queueVars, endVars, environ>>

Up == ended = "no"

(***************************************************************************)
(* The queue                                                               *)
(***************************************************************************)

\* One round of the drain: everything fresh and the retries that are due.
Round(f, w, due) ==
  /\ sending' = f \cup due /\ waiting' = w \ due
  /\ fresh' = {} /\ rerun' = FALSE

\* flush() joins a drain that runs, or starts a round.
FlushCall(f) ==
  /\ UNCHANGED <<tries, delivered, reported>>
  /\ \/ /\ sending # {}
        /\ rerun' = TRUE /\ fresh' = f
        /\ UNCHANGED <<sending, waiting>>
     \/ /\ sending = {}
        /\ \E due \in SUBSET waiting : Round(f, waiting, due)

\* A flush that was awaited has ended when nothing is being sent.
AfterFlush == IF sending' = {} THEN "checking" ELSE "flushing"

\* track, captureError, captureLog, traces.
Capture ==
  /\ Up /\ busy /\ ~ closed /\ captured < MaxCaptures
  /\ captured' = captured + 1
  /\ fresh' = fresh \cup {captured'}
  /\ UNCHANGED <<hooks, raised, ended, sending, waiting, rerun, tries, delivered, reported, endVars, environ>>

\* The application, a full queue or the interval flushes.
Flush ==
  /\ Up /\ ~ closed
  /\ FlushCall(fresh)
  /\ UNCHANGED <<hooks, captured, raised, ended, endVars, environ>>

\* The sends of a round are answered: each item is accepted, dropped, or waits
\* for a retry.  The transport times out, so an answer always comes.
SendAnswered ==
  /\ Up /\ sending # {}
  /\ tries' = [i \in Item |-> IF i \in sending THEN tries[i] + 1 ELSE tries[i]]
  /\ \E ok, lost \in SUBSET sending :
       LET again == sending \ (ok \cup lost)
           w     == waiting \cup again
       IN  /\ ok \cap lost = {}
           /\ \A i \in again : tries'[i] < MaxAttempts
           /\ delivered' = delivered \cup ok /\ reported' = reported \cup lost
           /\ \/ rerun /\ \E due \in SUBSET w : Round(fresh, w, due)
              \/ /\ ~ rerun
                 /\ sending' = {} /\ waiting' = w
                 /\ UNCHANGED <<fresh, rerun>>
  /\ closing' = IF closing = "flushing" THEN AfterFlush ELSE closing
  /\ UNCHANGED <<hooks, captured, raised, ended, closed, awaits, returned, exitTimer, environ>>

(***************************************************************************)
(* shutdown()                                                              *)
(***************************************************************************)

\* Mutant of Cleanup: the listeners for signals stay.
KeepsSignals == hooks \cap Signal

\* What shutdown() leaves of the listeners.
Cleanup == {}

\* shutdown() is called for `first` and, in the same turn, for the rest, with f
\* as what is not sent yet: only a call that finds the client open waits.
ShutdownCalls(first, rest, f) ==
  \/ /\ closed
     /\ returned' = returned \cup first \cup rest
     /\ fresh' = f
     /\ UNCHANGED <<closed, closing, awaits, sending, waiting, rerun, tries, delivered, reported>>
  \/ /\ ~ closed
     /\ closed' = TRUE
     /\ awaits' = first /\ returned' = returned \cup rest
     /\ FlushCall(f)
     /\ closing' = AfterFlush

\* The loop of queue.shutdown(): over when nothing is left or the deadline is
\* too close for the next retry, and then it reports what is left.
ShutdownChecks ==
  /\ Up /\ closing = "checking"
  /\ \/ closing' = "over" /\ reported' = reported \cup fresh \cup waiting
     \/ waiting # {} /\ closing' = "sleeping" /\ UNCHANGED reported
  /\ UNCHANGED <<hooks, captured, raised, ended, fresh, sending, waiting, rerun, tries, delivered,
                 closed, awaits, returned, exitTimer, environ>>

\* It wakes when a retry is due.
ShutdownWakes ==
  /\ Up /\ closing = "sleeping"
  /\ \E due \in SUBSET waiting : due # {} /\ Round(fresh, waiting, due)
  /\ closing' = "flushing"
  /\ UNCHANGED <<hooks, captured, raised, ended, tries, delivered, reported, closed, awaits, returned,
                 exitTimer, environ>>

\* A caller goes on: its call returned at once, or the shutdown is over.
Resumes(who) == who \in returned \/ (who \in awaits /\ closing = "over")

(***************************************************************************)
(* What ends the process                                                   *)
(***************************************************************************)

\* await watchup.shutdown(), and perhaps process.exit() after it.
AppShutdown ==
  /\ Up /\ busy
  /\ \E who \in {{}, {"app"}} : ShutdownCalls(who, {}, fresh)
  /\ hooks' = Cleanup
  /\ UNCHANGED <<captured, raised, ended, exitTimer, environ>>

AppExits ==
  /\ Up /\ Resumes("app")
  /\ ended' = "app"
  /\ UNCHANGED <<hooks, captured, raised, queueVars, endVars, environ>>

\* The handler asks whether others listen.  It was installed with once, so its
\* own listener is gone when it looks.
AppHandles == others > 1

\* A signal reaches every listener in the order they were added, also one that
\* an earlier listener removes.  Listeners of the application may shut the
\* client down and exit.
SignalArrives ==
  /\ Up /\ signals < MaxSignals
  /\ signals' = signals + 1
  /\ UNCHANGED <<others, handles, busy, captured, raised, exitTimer>>
  /\ \E sig \in Signal, appCalls \in SUBSET {"app"} :
       LET sdk == sig \in hooks
           sdkCalls == IF AppHandles THEN {} ELSE {"reraise"}
       IN  /\ others = 0 => appCalls = {}
           /\ \/ /\ ~ sdk /\ others = 0
                 /\ ended' = "signal"
                 /\ UNCHANGED <<hooks, queueVars, closed, closing, awaits, returned>>
              \/ /\ ~ sdk /\ others > 0 /\ appCalls = {}
                 /\ UNCHANGED <<hooks, ended, queueVars, closed, closing, awaits, returned>>
              \/ /\ ~ sdk /\ appCalls # {}
                 /\ ShutdownCalls(appCalls, {}, fresh)
                 /\ hooks' = Cleanup /\ UNCHANGED ended
              \/ /\ sdk
                 /\ \/ ShutdownCalls(sdkCalls, appCalls, fresh)
                    \/ appCalls # {} /\ ShutdownCalls(appCalls, sdkCalls, fresh)
                 /\ hooks' = Cleanup \ {sig} /\ UNCHANGED ended

\* shutdown().finally: process.kill(process.pid, sig), whose listener is gone.
Reraise ==
  /\ Up /\ Resumes("reraise")
  /\ awaits' = awaits \ {"reraise"} /\ returned' = returned \ {"reraise"}
  /\ raised' = TRUE
  /\ ended' = IF others = 0 THEN "reraised" ELSE "no"
  /\ UNCHANGED <<hooks, captured, queueVars, closed, closing, exitTimer, environ>>

\* An error nobody caught: captured, and the process exits when the client is
\* shut down, or when the timer fires.  Without the listener Node ends it.
Throw ==
  /\ Up /\ busy
  /\ \/ /\ hooks \cap UnhandledHooks # {} /\ captured < MaxCaptures
        /\ captured' = captured + 1
        /\ ShutdownCalls({"fatal"}, {}, fresh \cup {captured'})
        /\ hooks' = Cleanup /\ exitTimer' = TRUE
        /\ UNCHANGED <<raised, ended, environ>>
     \/ /\ hooks \cap UnhandledHooks = {}
        /\ ended' = "crash"
        /\ UNCHANGED <<hooks, captured, raised, queueVars, endVars, environ>>

FatalExits ==
  /\ Up /\ Resumes("fatal")
  /\ ended' = "fatal"
  /\ UNCHANGED <<hooks, captured, raised, queueVars, endVars, environ>>

\* The timer fires after shutdown's deadline: only a send can take that long.
ExitTimerFires ==
  /\ Up /\ exitTimer /\ sending # {}
  /\ ended' = "late"
  /\ UNCHANGED <<hooks, captured, raised, queueVars, endVars, environ>>

\* The application has nothing left to do.
AppDone ==
  /\ Up /\ busy
  /\ busy' = FALSE
  /\ UNCHANGED <<others, handles, signals, hooks, captured, raised, ended, queueVars, endVars>>

\* Mutant of HoldsProcess: the periodic timers are not unref'd.
HoldsAlways == sending # {} \/ ~ closed

\* What keeps the event loop alive: a request, shutdown's sleep, a promise to go
\* on with.  The timers of the queue, the flags and the fatal exit are unref'd.
HoldsProcess ==
  sending # {} \/ closing \in {"checking", "sleeping"} \/ \E who \in Caller : Resumes(who)

\* Mutant of ExitHook: beforeExit is not listened to.
NoHook == FALSE
ExitHook == "beforeExit" \in hooks

\* The event loop is empty: beforeExit flushes, and the process ends unless
\* that gave it something to wait for.
LoopEmpty ==
  /\ Up /\ ~ busy /\ ~ HoldsProcess
  /\ \/ /\ ExitHook
        /\ FlushCall(fresh)
        /\ ended' = IF sending' = {} THEN "natural" ELSE "no"
     \/ ~ ExitHook /\ ended' = "natural" /\ UNCHANGED queueVars
  /\ UNCHANGED <<hooks, captured, raised, endVars, environ>>

(***************************************************************************)
(* The specification                                                       *)
(***************************************************************************)
Init ==
  /\ others \in Others /\ handles \in BOOLEAN
  /\ \E unhandled \in BOOLEAN :
       hooks = {h \in SignalHooks \cup UnhandledHooks :
                  IF h \in SignalHooks THEN handles ELSE unhandled}
  /\ busy = TRUE /\ captured = 0 /\ signals = 0 /\ raised = FALSE /\ ended = "no"
  /\ fresh = {} /\ sending = {} /\ waiting = {} /\ rerun = FALSE
  /\ tries = [i \in Item |-> 0]
  /\ delivered = {} /\ reported = {}
  /\ closed = FALSE /\ closing = "no" /\ awaits = {} /\ returned = {} /\ exitTimer = FALSE

Next ==
  \/ Capture \/ Flush \/ SendAnswered
  \/ ShutdownChecks \/ ShutdownWakes
  \/ AppShutdown \/ AppExits
  \/ SignalArrives \/ Reraise
  \/ Throw \/ FatalExits \/ ExitTimerFires
  \/ AppDone \/ LoopEmpty

Spec == Init /\ [][Next]_vars

\* Requests are answered or time out, and the event loop runs what is ready.
LoopRuns ==
  /\ WF_vars(SendAnswered)
  /\ WF_vars(ShutdownChecks) /\ WF_vars(ShutdownWakes)
  /\ WF_vars(Reraise) /\ WF_vars(FatalExits) /\ WF_vars(AppExits)
  /\ WF_vars(LoopEmpty)

FairSpec == Spec /\ LoopRuns

(***************************************************************************)
(* Properties                                                              *)
(***************************************************************************)

\* When the SDK ends the process, its own shutdown is over and every item was
\* accepted or reported: no second signal, fatal error or call of the
\* application lets one of its handlers end the process under a delivery.
OrderlyEnd ==
  ended \in {"reraised", "fatal"} =>
    closing = "over" /\ 1 .. captured \subseteq delivered \cup reported

\* A process that ends by itself has at least tried to send what was captured:
\* only items that wait for another attempt are left (watchup.ts:548).
NaturalEndSendsAll ==
  ended = "natural" /\ handles =>
    1 .. captured \subseteq delivered \cup reported \cup {i \in waiting : tries[i] > 0}

\* The SDK does not keep a process that has nothing left to do, or that a signal
\* or a fatal error is to end.
ProcessEnds ==
  ~ busy \/ awaits # {} \/ returned # {} ~> ended # "no"

\* A process with signal handlers of its own decides when to exit: the SDK sends
\* it no signal ("it owns the exit; we only flush", watchup.ts:554).
AppOwnsExit == raised => others = 0

=============================================================================
