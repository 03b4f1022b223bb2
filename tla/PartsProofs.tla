---------------------------- MODULE PartsProofs ----------------------------
(***************************************************************************)
(* Proofs about the components that share no state and whose proofs are    *)
(* short, for every value of their constants: NodeProcess, FlagCache,      *)
(* Setup, AutoCapture, WebVitals and SvelteHandle.                         *)
(***************************************************************************)
EXTENDS NodeProcess, FlagCache, Setup, AutoCapture, WebVitals, SvelteHandle,
        FiniteSetTheorems, NaturalsInduction, TLAPS

\* A set of numbers has a least one.
LEMMA LeastOf ==
  ASSUME NEW W \in SUBSET Nat, W # {}
  PROVE  \E x \in W : \A y \in W : x <= y
<1>1. IsWellFoundedOn(OpToRel(<, Nat), Nat)
  BY NatLessThanWellFounded
<1>2. PICK x \in W : \A y \in W : ~ (<<y, x>> \in OpToRel(<, Nat))
  BY <1>1, WFMin
<1>3. \A y \in W : x <= y
  <2> TAKE y \in W
  <2>1. ~ (y < x)
    BY <1>2 DEF OpToRel
  <2> QED BY <2>1
<1> QED BY <1>3

\* f is made step by step from a beginning.
StepsFrom(base, n, step, f) == f = [i \in 0 .. n |-> IF i = 0 THEN base ELSE step[i][f[i - 1]]]

\* What is made step by step exists, and stays what the steps keep.
LEMMA StepsExist ==
  ASSUME NEW n \in Nat, NEW S, NEW base \in S, NEW step \in [1 .. n -> [S -> S]]
  PROVE  /\ \E f : StepsFrom(base, n, step, f)
         /\ \A f : StepsFrom(base, n, step, f) =>
              /\ f[0] = base
              /\ \A i \in 1 .. n : f[i] = step[i][f[i - 1]]
              /\ \A i \in 0 .. n : f[i] \in S
<1> DEFINE Prefix(k, f) == f = [i \in 0 .. k |-> IF i = 0 THEN base ELSE step[i][f[i - 1]]]
<1>1. \E f : Prefix(n, f)
  <2> DEFINE W == {k \in 0 .. n : ~ \E f : Prefix(k, f)}
  <2>1. SUFFICES ASSUME W # {} PROVE FALSE
    <3>1. n \in 0 .. n
      OBVIOUS
    <3> HIDE DEF Prefix
    <3> QED BY <3>1
  <2>2. PICK x \in W : \A y \in W : x <= y
    <3>1. W \in SUBSET Nat
      OBVIOUS
    <3> HIDE DEF W
    <3> QED BY <2>1, <3>1, LeastOf
  <2>3. x # 0
    <3> SUFFICES ASSUME x = 0 PROVE FALSE
      OBVIOUS
    <3> DEFINE f == [i \in 0 .. 0 |-> base]
    <3>1. f = [i \in 0 .. x |-> IF i = 0 THEN base ELSE step[i][f[i - 1]]]
      OBVIOUS
    <3>2. Prefix(x, f)
      BY <3>1
    <3> QED BY <3>2
  <2>4. PICK f : Prefix(x - 1, f)
    <3>1. x - 1 \in 0 .. n /\ ~ (x <= x - 1)
      BY <2>3
    <3> QED BY <2>2, <3>1
  <2> DEFINE g == [i \in 0 .. x |-> IF i = x THEN step[x][f[x - 1]] ELSE f[i]]
  <2>5. \A i \in 0 .. x : g[i] = IF i = 0 THEN base ELSE step[i][g[i - 1]]
    <3> TAKE i \in 0 .. x
    <3>1. CASE i = x
      BY <2>3, <3>1
    <3>2. CASE i # x
      <4>1. i \in 0 .. x - 1 /\ g[i] = f[i] /\ (i # 0 => i - 1 \in 0 .. x /\ i - 1 # x)
        BY <3>2
      <4>2. f[i] = IF i = 0 THEN base ELSE step[i][f[i - 1]]
        BY <2>4, <4>1
      <4> QED BY <4>1, <4>2
    <3> QED BY <3>1, <3>2
  <2>6. g = [i \in 0 .. x |-> g[i]]
    OBVIOUS
  <2> HIDE DEF g
  <2>7. g = [i \in 0 .. x |-> IF i = 0 THEN base ELSE step[i][g[i - 1]]]
    BY <2>5, <2>6
  <2>8. Prefix(x, g)
    BY <2>7
  <2> QED BY <2>8
<1>2. ASSUME NEW f, Prefix(n, f)
      PROVE  /\ f[0] = base
             /\ \A i \in 1 .. n : f[i] = step[i][f[i - 1]]
             /\ \A i \in 0 .. n : f[i] \in S
  <2>1. \A i \in 0 .. n : f[i] = IF i = 0 THEN base ELSE step[i][f[i - 1]]
    BY <1>2
  <2>2. f[0] = base /\ \A i \in 1 .. n : f[i] = step[i][f[i - 1]]
    BY <2>1
  <2> HIDE DEF Prefix
  <2>3. \A i \in 0 .. n : f[i] \in S
    <3> DEFINE W == {k \in 0 .. n : f[k] \notin S}
    <3>1. SUFFICES ASSUME W # {} PROVE FALSE
      OBVIOUS
    <3>2. PICK x \in W : \A y \in W : x <= y
      <4>1. W \in SUBSET Nat
        OBVIOUS
      <4> HIDE DEF W
      <4> QED BY <3>1, <4>1, LeastOf
    <3>3. x # 0
      BY <2>2
    <3>4. x - 1 \in 0 .. n /\ ~ (x <= x - 1) /\ x \in 1 .. n
      BY <3>3
    <3>5. f[x - 1] \in S
      BY <3>2, <3>4
    <3> QED BY <2>2, <3>4, <3>5
  <2> QED BY <2>2, <2>3
<1> QED BY <1>1, <1>2 DEF StepsFrom

(***************************************************************************)
(* NodeProcess                                                             *)
(***************************************************************************)

NodeType ==
  /\ {fresh, sending, waiting} \subseteq SUBSET Item
  /\ tries \in [Item -> Nat] /\ captured \in 0 .. MaxCaptures
  /\ closed \in BOOLEAN
  /\ closing \in {"no", "flushing", "checking", "sleeping", "over"}

\* No item is lost silently, and one that waits for a retry was sent.
Somewhere == 1 .. captured \subseteq fresh \cup sending \cup waiting \cup delivered \cup reported
Tried == \A i \in waiting : tries[i] > 0

\* A client that is closed listens no longer; one that is open, and was created
\* with handleSignals, hears when the event loop is empty.
Listening == IF closed THEN hooks = {} ELSE handles => "beforeExit" \in hooks

\* Where shutdown() is, and what that says of the queue.
Stage ==
  /\ closed <=> closing # "no"
  /\ closing = "flushing" => sending # {}
  /\ closing \in {"checking", "sleeping", "over"} => sending = {}
  /\ closing = "over" => 1 .. captured \subseteq delivered \cup reported

\* A handler of the SDK whose shutdown() returned at once does not end the process.
Waiters == "fatal" \notin returned /\ ("reraise" \in returned => others # 0)

NodeInv == NodeType /\ Somewhere /\ Tried /\ Listening /\ Stage /\ Waiters

\* A round moves what was captured or is due to be sent, and loses nothing.
LEMMA RoundKeeps ==
  ASSUME NEW f \in SUBSET Item, NEW w \in SUBSET Item, NEW due \in SUBSET w, Round(f, w, due)
  PROVE  /\ {fresh', sending', waiting'} \subseteq SUBSET Item /\ waiting' \subseteq w
         /\ fresh' \cup sending' \cup waiting' = f \cup w
         /\ sending' = {} => f = {} /\ fresh' = {}
  BY DEF Round

\* A flush leaves every item in the queue, and starts a send if it can.
LEMMA FlushKeeps ==
  ASSUME NodeInv, NEW f \in SUBSET Item, FlushCall(f)
  PROVE  /\ {fresh', sending', waiting'} \subseteq SUBSET Item /\ waiting' \subseteq waiting
         /\ fresh' \cup sending' \cup waiting' = f \cup sending \cup waiting
         /\ sending # {} => sending' # {}
         /\ sending = {} /\ sending' = {} => fresh' = {}
         /\ UNCHANGED <<tries, delivered, reported>>
<1>1. {fresh, sending, waiting} \subseteq SUBSET Item
  BY DEF NodeInv, NodeType
<1>2. UNCHANGED <<tries, delivered, reported>>
  BY DEF FlushCall
<1>3. CASE sending # {} /\ fresh' = f /\ UNCHANGED <<sending, waiting>>
  BY <1>1, <1>2, <1>3
<1>4. CASE sending = {} /\ \E due \in SUBSET waiting : Round(f, waiting, due)
  <2>1. PICK due \in SUBSET waiting : Round(f, waiting, due)
    BY <1>4
  <2>2. /\ {fresh', sending', waiting'} \subseteq SUBSET Item /\ waiting' \subseteq waiting
        /\ fresh' \cup sending' \cup waiting' = f \cup waiting
        /\ sending' = {} => f = {} /\ fresh' = {}
    BY <1>1, <2>1, RoundKeeps
  <2> QED BY <1>2, <1>4, <2>2
<1> QED BY <1>3, <1>4 DEF FlushCall

\* A flush by an open client that stays open.
LEMMA FlushStep ==
  ASSUME NodeInv, FlushCall(fresh), ~ closed,
         UNCHANGED <<hooks, captured, endVars, environ>>
  PROVE  NodeInv'
<1>1. /\ fresh \in SUBSET Item /\ tries \in [Item -> Nat]
      /\ {fresh', sending', waiting'} \subseteq SUBSET Item /\ waiting' \subseteq waiting
      /\ fresh' \cup sending' \cup waiting' = fresh \cup sending \cup waiting
      /\ UNCHANGED <<tries, delivered, reported>>
  BY FlushKeeps DEF NodeInv, NodeType
<1>2. NodeType'
  BY <1>1 DEF NodeInv, NodeType, endVars
<1>3. Somewhere' /\ Tried'
  BY <1>1 DEF NodeInv, Somewhere, Tried
<1>4. Listening' /\ Waiters'
  BY DEF NodeInv, Listening, Waiters, endVars, environ
<1>5. closing = "no"
  BY DEF NodeInv, Stage
<1>6. Stage'
  BY <1>5 DEF NodeInv, Stage, endVars
<1> QED BY <1>2, <1>3, <1>4, <1>6 DEF NodeInv

\* shutdown() is called, with f as what is not sent yet.
LEMMA ShutdownStep ==
  ASSUME NodeInv, NEW f \in SUBSET Item, NEW first \in SUBSET Caller, NEW rest \in SUBSET Caller,
         ShutdownCalls(first, rest, f), hooks' = {}, handles' = handles, others' = others,
         captured' \in 0 .. MaxCaptures,
         1 .. captured' \subseteq f \cup sending \cup waiting \cup delivered \cup reported,
         closed => f = fresh /\ captured' = captured,
         "fatal" \notin rest /\ (closed => "fatal" \notin first),
         "reraise" \in rest => others # 0, closed => "reraise" \notin first
  PROVE  NodeInv'
<1>1. CASE /\ closed
           /\ returned' = returned \cup first \cup rest
           /\ fresh' = f
           /\ UNCHANGED <<closed, closing, awaits, sending, waiting, rerun, tries, delivered, reported>>
  <2>1. NodeType'
    BY <1>1 DEF NodeInv, NodeType
  <2>2. Somewhere' /\ Tried' /\ Listening'
    BY <1>1 DEF NodeInv, Somewhere, Tried, Listening
  <2>3. Stage'
    BY <1>1 DEF NodeInv, Stage
  <2>4. Waiters'
    BY <1>1 DEF NodeInv, Waiters
  <2> QED BY <2>1, <2>2, <2>3, <2>4 DEF NodeInv
<1>2. CASE /\ ~ closed
           /\ closed' = TRUE
           /\ awaits' = first /\ returned' = returned \cup rest
           /\ FlushCall(f)
           /\ closing' = AfterFlush
  <2>1. /\ {fresh', sending', waiting'} \subseteq SUBSET Item /\ waiting' \subseteq waiting
        /\ fresh' \cup sending' \cup waiting' = f \cup sending \cup waiting
        /\ UNCHANGED <<tries, delivered, reported>>
    BY <1>2, FlushKeeps
  <2>2. closing' = IF sending' = {} THEN "checking" ELSE "flushing"
    BY <1>2 DEF AfterFlush
  <2>3. NodeType'
    BY <1>2, <2>1, <2>2 DEF NodeInv, NodeType
  <2>4. Somewhere' /\ Tried' /\ Listening'
    BY <1>2, <2>1 DEF NodeInv, Somewhere, Tried, Listening
  <2>5. Stage'
    BY <1>2, <2>2 DEF Stage
  <2>6. Waiters'
    BY <1>2 DEF NodeInv, Waiters
  <2> QED BY <2>3, <2>4, <2>5, <2>6 DEF NodeInv
<1> QED BY <1>1, <1>2 DEF ShutdownCalls

\* The answer of a send.
LEMMA AnswerStep ==
  ASSUME NodeInv, SendAnswered
  PROVE  NodeInv'
<1>1. /\ sending # {}
      /\ tries' = [i \in Item |-> IF i \in sending THEN tries[i] + 1 ELSE tries[i]]
      /\ closing' = IF closing = "flushing" THEN AfterFlush ELSE closing
      /\ UNCHANGED <<hooks, captured, raised, ended, closed, awaits, returned, exitTimer, environ>>
  BY DEF SendAnswered
<1>2. PICK ok \in SUBSET sending, lost \in SUBSET sending :
        LET again == sending \ (ok \cup lost)
            w     == waiting \cup again
        IN  /\ delivered' = delivered \cup ok /\ reported' = reported \cup lost
            /\ \/ rerun /\ \E due \in SUBSET w : Round(fresh, w, due)
               \/ /\ ~ rerun
                  /\ sending' = {} /\ waiting' = w
                  /\ UNCHANGED <<fresh, rerun>>
  BY DEF SendAnswered
<1> DEFINE w == waiting \cup (sending \ (ok \cup lost))
<1>3. {fresh, sending, waiting} \subseteq SUBSET Item /\ tries \in [Item -> Nat] /\ w \in SUBSET Item
  BY DEF NodeInv, NodeType
<1>4. /\ {fresh', sending', waiting'} \subseteq SUBSET Item /\ waiting' \subseteq w
      /\ fresh' \cup sending' \cup waiting' = fresh \cup w
  <2> HIDE DEF w
  <2>1. CASE \E due \in SUBSET w : Round(fresh, w, due)
    <3>1. PICK due \in SUBSET w : Round(fresh, w, due)
      BY <2>1
    <3> QED BY <1>3, <3>1, RoundKeeps
  <2>2. CASE sending' = {} /\ waiting' = w /\ fresh' = fresh
    BY <1>3, <2>2
  <2> QED BY <1>2, <2>1, <2>2 DEF w
<1>5. tries' \in [Item -> Nat] /\ \A i \in w : tries'[i] > 0
  <2>1. ASSUME NEW i \in Item
        PROVE  /\ tries[i] \in Nat /\ tries'[i] \in Nat
               /\ tries'[i] = IF i \in sending THEN tries[i] + 1 ELSE tries[i]
    BY <1>1, <1>3
  <2>2. tries' \in [Item -> Nat]
    BY <1>1, <2>1
  <2>3. ASSUME NEW i \in w PROVE tries'[i] > 0
    <3>1. i \in Item /\ (i \in sending \/ i \in waiting)
      BY <1>3
    <3>2. i \in waiting => tries[i] > 0
      BY DEF NodeInv, Tried
    <3> QED BY <2>1, <3>1, <3>2
  <2> QED BY <2>2, <2>3
<1>6. closing \in {"no", "flushing"}
  BY <1>1 DEF NodeInv, NodeType, Stage
<1>7. closing' = IF closing = "flushing" THEN (IF sending' = {} THEN "checking" ELSE "flushing") ELSE "no"
  BY <1>1, <1>6 DEF AfterFlush
<1>8. NodeType'
  BY <1>1, <1>4, <1>5, <1>6, <1>7 DEF NodeInv, NodeType
<1>9. Somewhere'
  <2>1. sending \subseteq ok \cup lost \cup w /\ waiting \subseteq w
    OBVIOUS
  <2>2. delivered' = delivered \cup ok /\ reported' = reported \cup lost
    BY <1>2
  <2> HIDE DEF w
  <2> QED BY <1>1, <1>4, <2>1, <2>2 DEF NodeInv, Somewhere
<1>10. Tried' /\ Listening' /\ Waiters'
  BY <1>1, <1>4, <1>5 DEF NodeInv, Tried, Listening, Waiters, environ
<1>11. Stage'
  BY <1>1, <1>6, <1>7 DEF NodeInv, Stage
<1> QED BY <1>8, <1>9, <1>10, <1>11 DEF NodeInv

\* A capture.
LEMMA CaptureStep ==
  ASSUME NodeInv, Capture
  PROVE  NodeInv'
<1>1. /\ ~ closed /\ captured < MaxCaptures /\ captured' = captured + 1
      /\ fresh' = fresh \cup {captured'}
      /\ UNCHANGED <<hooks, sending, waiting, tries, delivered, reported, endVars, environ>>
  BY DEF Capture
<1>2. /\ captured' \in Item /\ captured' \in 0 .. MaxCaptures
      /\ 1 .. captured' = (1 .. captured) \cup {captured'}
  BY <1>1, NodeConstants DEF NodeInv, NodeType, Item
<1>3. NodeType'
  BY <1>1, <1>2 DEF NodeInv, NodeType, endVars
<1>4. Somewhere' /\ Tried' /\ Listening' /\ Waiters'
  BY <1>1, <1>2 DEF NodeInv, Somewhere, Tried, Listening, Waiters, endVars, environ
<1>5. Stage'
  BY <1>1 DEF NodeInv, Stage, endVars
<1> QED BY <1>3, <1>4, <1>5 DEF NodeInv

\* The loop of a shutdown.
LEMMA LoopStep ==
  ASSUME NodeInv, ShutdownChecks \/ ShutdownWakes
  PROVE  NodeInv'
<1>1. CASE ShutdownChecks
  <2>1. /\ closing = "checking" /\ sending = {} /\ reported \subseteq reported'
        /\ \/ closing' = "over" /\ reported' = reported \cup fresh \cup waiting
           \/ closing' = "sleeping" /\ reported' = reported
        /\ UNCHANGED <<hooks, captured, fresh, sending, waiting, tries, delivered, closed, returned, environ>>
    BY <1>1 DEF ShutdownChecks, NodeInv, Stage
  <2>2. NodeType' /\ Somewhere' /\ Tried' /\ Listening' /\ Waiters'
    BY <2>1 DEF NodeInv, NodeType, Somewhere, Tried, Listening, Waiters, environ
  <2>3. closing' = "over" => 1 .. captured' \subseteq delivered' \cup reported'
    BY <2>1 DEF NodeInv, Somewhere
  <2>4. Stage'
    BY <2>1, <2>3 DEF NodeInv, Stage
  <2> QED BY <2>2, <2>4 DEF NodeInv
<1>2. CASE ShutdownWakes
  <2>1. PICK due \in SUBSET waiting : due # {} /\ Round(fresh, waiting, due)
    BY <1>2 DEF ShutdownWakes
  <2>2. /\ closing = "sleeping" /\ sending = {} /\ closing' = "flushing"
        /\ UNCHANGED <<hooks, captured, tries, delivered, reported, closed, returned, environ>>
    BY <1>2 DEF ShutdownWakes, NodeInv, Stage
  <2>3. /\ {fresh', sending', waiting'} \subseteq SUBSET Item /\ waiting' \subseteq waiting
        /\ fresh' \cup sending' \cup waiting' = fresh \cup waiting
    BY <2>1, RoundKeeps DEF NodeInv, NodeType
  <2>4. sending' # {}
    BY <2>1 DEF Round
  <2>5. NodeType' /\ Somewhere' /\ Tried' /\ Listening' /\ Waiters'
    BY <2>2, <2>3 DEF NodeInv, NodeType, Somewhere, Tried, Listening, Waiters, environ
  <2>6. Stage'
    BY <2>2, <2>4 DEF NodeInv, Stage
  <2> QED BY <2>5, <2>6 DEF NodeInv
<1> QED BY <1>1, <1>2

\* A shutdown of the application, a signal, or an exception.
LEMMA CallersStep ==
  ASSUME NodeInv, AppShutdown \/ SignalArrives \/ Throw
  PROVE  NodeInv'
<1>1. /\ fresh \in SUBSET Item /\ captured \in 0 .. MaxCaptures
      /\ 1 .. captured \subseteq fresh \cup sending \cup waiting \cup delivered \cup reported
      /\ closed => hooks = {}
  BY DEF NodeInv, NodeType, Somewhere, Listening
<1>2. ASSUME UNCHANGED <<hooks, captured, queueVars, closed, closing, returned, others, handles>>
      PROVE  NodeInv'
  BY <1>2 DEF NodeInv, NodeType, Somewhere, Tried, Listening, Stage, Waiters, queueVars
<1>3. CASE AppShutdown
  <2>1. PICK who \in {{}, {"app"}} : ShutdownCalls(who, {}, fresh)
    BY <1>3 DEF AppShutdown
  <2>2. hooks' = {} /\ captured' = captured /\ handles' = handles /\ others' = others
    BY <1>3 DEF AppShutdown, Cleanup, environ
  <2>3. who \in SUBSET Caller /\ "fatal" \notin who /\ "reraise" \notin who /\ {} \in SUBSET Caller
    BY DEF Caller
  <2> QED BY <1>1, <2>1, <2>2, <2>3, ShutdownStep
<1>4. CASE SignalArrives
  <2>1. UNCHANGED <<others, handles, captured>>
    BY <1>4 DEF SignalArrives
  <2>2. PICK sig \in Signal, appCalls \in SUBSET {"app"} :
          LET sdkCalls == IF AppHandles THEN {} ELSE {"reraise"}
          IN  /\ others = 0 => appCalls = {}
              /\ \/ UNCHANGED <<hooks, queueVars, closed, closing, awaits, returned>>
                 \/ ShutdownCalls(appCalls, {}, fresh) /\ hooks' = Cleanup
                 \/ /\ sig \in hooks /\ hooks' = Cleanup \ {sig}
                    /\ \/ ShutdownCalls(sdkCalls, appCalls, fresh)
                       \/ appCalls # {} /\ ShutdownCalls(appCalls, sdkCalls, fresh)
    BY <1>4 DEF SignalArrives
  <2> DEFINE sdkCalls == IF AppHandles THEN {} ELSE {"reraise"}
  <2>3. /\ {appCalls, sdkCalls, {}} \subseteq SUBSET Caller
        /\ "fatal" \notin appCalls /\ "reraise" \notin appCalls /\ "fatal" \notin sdkCalls
    BY DEF Caller
  <2> HIDE DEF sdkCalls
  <2>4. CASE UNCHANGED <<hooks, queueVars, closed, closing, awaits, returned>>
    BY <1>2, <2>1, <2>4
  <2>5. CASE ShutdownCalls(appCalls, {}, fresh) /\ hooks' = Cleanup
    BY <1>1, <2>1, <2>3, <2>5, ShutdownStep DEF Cleanup
  <2>6. CASE /\ sig \in hooks /\ hooks' = Cleanup \ {sig}
             /\ ShutdownCalls(sdkCalls, appCalls, fresh)
    <3>1. ~ closed /\ hooks' = {}
      BY <1>1, <2>6 DEF Cleanup
    <3> QED BY <1>1, <2>1, <2>3, <2>6, <3>1, ShutdownStep
  <2>7. CASE /\ sig \in hooks /\ hooks' = Cleanup \ {sig}
             /\ appCalls # {} /\ ShutdownCalls(appCalls, sdkCalls, fresh)
    <3>1. ~ closed /\ hooks' = {} /\ others # 0
      BY <1>1, <2>2, <2>7 DEF Cleanup
    <3> QED BY <1>1, <2>1, <2>3, <2>7, <3>1, ShutdownStep
  <2> QED BY <2>2, <2>4, <2>5, <2>6, <2>7 DEF sdkCalls
<1>5. CASE Throw
  <2>1. CASE /\ hooks \cap UnhandledHooks # {} /\ captured < MaxCaptures
             /\ captured' = captured + 1
             /\ ShutdownCalls({"fatal"}, {}, fresh \cup {captured'})
             /\ hooks' = Cleanup /\ UNCHANGED environ
    <3>1. ~ closed /\ hooks' = {} /\ handles' = handles /\ others' = others
      BY <1>1, <2>1 DEF Cleanup, environ
    <3>2. /\ captured' \in 0 .. MaxCaptures /\ fresh \cup {captured'} \in SUBSET Item
          /\ 1 .. captured' = (1 .. captured) \cup {captured'}
      BY <1>1, <2>1, NodeConstants DEF Item
    <3>3. {"fatal"} \in SUBSET Caller /\ {} \in SUBSET Caller
      BY DEF Caller
    <3>4. 1 .. captured' \subseteq (fresh \cup {captured'}) \cup sending \cup waiting \cup delivered \cup reported
      BY <1>1, <3>2
    <3> DEFINE f == fresh \cup {captured'}
    <3>5. f \in SUBSET Item /\ ShutdownCalls({"fatal"}, {}, f)
          /\ 1 .. captured' \subseteq f \cup sending \cup waiting \cup delivered \cup reported
      BY <2>1, <3>2, <3>4
    <3> HIDE DEF f
    <3> QED BY <3>1, <3>2, <3>3, <3>5, ShutdownStep
  <2>2. CASE UNCHANGED <<hooks, captured, raised, queueVars, endVars, environ>>
    BY <1>2, <2>2 DEF endVars, environ
  <2> QED BY <1>5, <2>1, <2>2 DEF Throw
<1> QED BY <1>3, <1>4, <1>5

\* What ends the process leaves the client as it was, and so does an application
\* that is done.
LEMMA EndStep ==
  ASSUME NodeInv,
         AppExits \/ Reraise \/ FatalExits \/ ExitTimerFires \/ AppDone \/ UNCHANGED vars
  PROVE  NodeInv'
<1>1. /\ UNCHANGED <<hooks, captured, queueVars, closed, closing, others, handles>>
      /\ returned' \subseteq returned
  <2>1. CASE Reraise
    BY <2>1 DEF Reraise, environ
  <2>2. CASE AppDone
    BY <2>2 DEF AppDone, endVars
  <2>3. CASE AppExits \/ FatalExits \/ ExitTimerFires \/ UNCHANGED vars
    BY <2>3 DEF AppExits, FatalExits, ExitTimerFires, vars, endVars, environ
  <2> QED BY <2>1, <2>2, <2>3
<1> QED BY <1>1 DEF NodeInv, NodeType, Somewhere, Tried, Listening, Stage, Waiters, queueVars

\* beforeExit flushes, as long as the client is open.
LEMMA LoopEmptyStep ==
  ASSUME NodeInv, LoopEmpty
  PROVE  NodeInv'
<1>1. UNCHANGED <<hooks, captured, raised, endVars, environ>>
  BY DEF LoopEmpty
<1>2. CASE ExitHook /\ FlushCall(fresh)
  <2>1. ~ closed
    BY <1>2 DEF ExitHook, NodeInv, Listening, NodeType
  <2> QED BY <1>1, <1>2, <2>1, FlushStep
<1>3. CASE UNCHANGED queueVars
  BY <1>1, <1>3 DEF NodeInv, NodeType, Somewhere, Tried, Listening, Stage, Waiters, queueVars, endVars, environ
<1> QED BY <1>2, <1>3 DEF LoopEmpty

\* Initially the invariant holds.
LEMMA NodeInvInit == Init => NodeInv
<1> SUFFICES ASSUME Init PROVE NodeInv
  OBVIOUS
<1>1. NodeType
  <2>1. 0 \in 0 .. MaxCaptures /\ [i \in Item |-> 0] \in [Item -> Nat]
    BY NodeConstants
  <2> QED BY <2>1 DEF Init, NodeType
<1>2. Somewhere /\ Tried /\ Stage /\ Waiters
  BY DEF Init, Somewhere, Tried, Stage, Waiters
<1>3. Listening
  BY DEF Init, Listening, SignalHooks
<1> QED BY <1>1, <1>2, <1>3 DEF NodeInv

\* Every step keeps it.
LEMMA NodeInvStep == NodeInv /\ [Next]_vars => NodeInv'
<1> SUFFICES ASSUME NodeInv, [Next]_vars PROVE NodeInv'
  OBVIOUS
<1>1. CASE Flush
  BY <1>1, FlushStep DEF Flush
<1> QED BY <1>1, CaptureStep, AnswerStep, LoopStep, CallersStep, EndStep, LoopEmptyStep DEF Next

\* It always holds.
LEMMA NodeInvariant == Spec => []NodeInv
  BY NodeInvInit, NodeInvStep, PTL DEF Spec

\* When the SDK ends the process, after a signal or an error nobody caught, its
\* own shutdown is over and every item was accepted or reported, however many
\* signals, errors and shutdowns came while it delivered.
THEOREM EndsInOrder == Spec => []OrderlyEnd
<1>1. Init => OrderlyEnd
  BY DEF Init, OrderlyEnd
<1>2. OrderlyEnd /\ NodeInv /\ NodeInv' /\ [Next]_vars => OrderlyEnd'
  <2> SUFFICES ASSUME OrderlyEnd, NodeInv, NodeInv', [Next]_vars, ended' \in {"reraised", "fatal"}
               PROVE  closing' = "over" /\ 1 .. captured' \subseteq delivered' \cup reported'
    BY DEF OrderlyEnd
  <2>1. CASE ended' = ended
    <3>1. closing = "over" /\ 1 .. captured \subseteq delivered \cup reported /\ ~ Up
      BY <2>1 DEF OrderlyEnd, Up
    <3>2. UNCHANGED vars
      BY <3>1 DEF Next, Capture, Flush, SendAnswered, ShutdownChecks, ShutdownWakes, AppShutdown, AppExits,
                  SignalArrives, Reraise, Throw, FatalExits, ExitTimerFires, AppDone, LoopEmpty
    <3> QED BY <3>1, <3>2 DEF vars, queueVars, endVars
  <2>2. CASE ended' # ended
    <3>1. Reraise \/ FatalExits
      BY <2>2 DEF Next, Capture, Flush, SendAnswered, ShutdownChecks, ShutdownWakes, AppShutdown, AppExits,
                  SignalArrives, Throw, ExitTimerFires, AppDone, LoopEmpty, vars
    <3>2. closing = "over" /\ closing' = closing
      <4>1. CASE Reraise
        <5>1. others = 0 /\ Resumes("reraise") /\ closing' = closing
          BY <2>2, <4>1 DEF Reraise, Up
        <5> QED BY <5>1 DEF Resumes, NodeInv, Waiters
      <4>2. CASE FatalExits
        BY <4>2 DEF FatalExits, Resumes, NodeInv, Waiters, endVars
      <4> QED BY <3>1, <4>1, <4>2
    <3> QED BY <3>2 DEF NodeInv, Stage
  <2> QED BY <2>1, <2>2
<1> QED BY <1>1, <1>2, NodeInvariant, PTL DEF Spec

\* A process that ends by itself has at least tried to send what was captured:
\* only items that wait for another attempt are left (watchup.ts:548).
THEOREM NaturalEndTriesAll == Spec => []NaturalEndSendsAll
<1>1. Init => NaturalEndSendsAll
  BY DEF Init, NaturalEndSendsAll
<1>2. NaturalEndSendsAll /\ NodeInv /\ NodeInv' /\ [Next]_vars => NaturalEndSendsAll'
  <2> SUFFICES ASSUME NaturalEndSendsAll, NodeInv, NodeInv', [Next]_vars, ended' = "natural", handles'
               PROVE  1 .. captured' \subseteq delivered' \cup reported' \cup {i \in waiting' : tries'[i] > 0}
    BY DEF NaturalEndSendsAll
  <2>0. waiting' = {i \in waiting' : tries'[i] > 0}
    BY DEF NodeInv, Tried
  <2>1. CASE ended = "natural"
    <3>1. UNCHANGED vars
      BY <2>1 DEF Up, Next, Capture, Flush, SendAnswered, ShutdownChecks, ShutdownWakes, AppShutdown, AppExits,
                  SignalArrives, Reraise, Throw, FatalExits, ExitTimerFires, AppDone, LoopEmpty
    <3> QED BY <2>1, <3>1 DEF NaturalEndSendsAll, vars, queueVars, environ
  <2>2. CASE ended # "natural"
    <3>1. LoopEmpty
      BY <2>2 DEF Next, Capture, Flush, SendAnswered, ShutdownChecks, ShutdownWakes, AppShutdown, AppExits,
                  SignalArrives, Reraise, Throw, FatalExits, ExitTimerFires, AppDone, vars
    <3>2. ~ HoldsProcess /\ UNCHANGED <<hooks, captured, raised, endVars, environ>>
      BY <3>1 DEF LoopEmpty
    <3>3. sending = {} /\ closing \notin {"checking", "sleeping"}
      BY <3>2 DEF HoldsProcess
    <3>4. CASE ExitHook /\ FlushCall(fresh) /\ ended' = IF sending' = {} THEN "natural" ELSE "no"
      <4>1. sending' = {}
        BY <3>4
      <4>2. fresh' = {}
        BY <3>3, <3>4, <4>1, FlushKeeps DEF NodeInv, NodeType
      <4> QED BY <2>0, <4>1, <4>2 DEF NodeInv, Somewhere
    <3>5. CASE ~ ExitHook /\ UNCHANGED queueVars
      <4>1. handles /\ closed
        BY <3>2, <3>5 DEF ExitHook, NodeInv, Listening, NodeType, environ
      <4>2. closing = "over"
        BY <3>3, <4>1 DEF NodeInv, NodeType, Stage
      <4> QED BY <3>2, <3>5, <4>2 DEF NodeInv, Stage, queueVars
    <3> QED BY <3>1, <3>4, <3>5 DEF LoopEmpty
  <2> QED BY <2>1, <2>2
<1> QED BY <1>1, <1>2, NodeInvariant, PTL DEF Spec

(***************************************************************************)
(* FlagCache                                                               *)
(***************************************************************************)

FlagType ==
  /\ runtime \in {"node", "browser", "python", "go"}
  /\ version \in Nat \ {0} /\ version - 1 <= MaxVersions
  /\ until \in [1 .. MaxVersions -> Nat]
  /\ clock \in 0 .. MaxClock /\ nextPoll \in Nat
  /\ cache \in [version : Nat, at : Nat, asked : Nat, extra : BOOLEAN]
  /\ cache.version <= version /\ cache.asked <= cache.at /\ cache.at <= clock
  /\ asks \in SUBSET [at : Nat, seen : Nat, extra : BOOLEAN]
  /\ \A a \in asks : a.at <= clock /\ a.seen <= version

\* No refresh outlives its timeout.
Young == runtime # "browser" => \A a \in asks : clock - a.at <= Timeout

\* A refresh that was answered with flags the server has given up since was under
\* way when it gave them up, so that the cache got them at most a timeout later.
AskedBefore == \A v \in 1 .. version - 1 : \A a \in asks : a.seen = v => a.at <= until[v]
CachedSoon ==
  runtime # "browser" => \A v \in 1 .. version - 1 : cache.version = v => cache.at <= until[v] + Timeout

\* In Python and Go one refresh of the poll is under way: what it was answered is
\* no older than what the poll put into the cache.
OnePoll ==
  runtime \in {"python", "go"} =>
    \A a \in asks :
      ~ a.extra =>
        /\ \A b \in asks : ~ b.extra => a = b
        /\ ~ cache.extra /\ a.seen > 0 => a.seen >= cache.version

\* Node asks once in an interval.
Spaced(m, n) == m >= n + Interval \/ n >= m + Interval
PollsSpaced ==
  runtime = "node" =>
    /\ nextPoll <= clock + Interval
    /\ \A a \in asks : ~ a.extra => nextPoll >= a.at + Interval
    /\ \A a, b \in asks : ~ a.extra /\ ~ b.extra => a = b \/ Spaced(a.at, b.at)
    /\ ~ cache.extra /\ cache.version > 0 =>
         /\ nextPoll >= cache.asked + Interval
         /\ \A a \in asks : ~ a.extra => Spaced(a.at, cache.asked)

\* A refresh whose answer is older than the cache was under way with the one that
\* filled the cache, which took no longer than a timeout.
Overlap ==
  /\ \A a \in asks : 0 < a.seen /\ a.seen < cache.version => a.at <= cache.at
  /\ runtime # "browser" => cache.at <= cache.asked + Timeout

FlagInv == FlagType /\ Young /\ AskedBefore /\ CachedSoon /\ OnePoll /\ PollsSpaced /\ Overlap

\* Initially the invariant holds.
LEMMA FlagInvInit == FlagInit => FlagInv
<1> SUFFICES ASSUME FlagInit PROVE FlagInv
  OBVIOUS
<1>1. /\ version = 1 /\ clock = 0 /\ nextPoll = 0 /\ asks = {}
      /\ cache = [version |-> 0, at |-> 0, asked |-> 0, extra |-> FALSE]
      /\ until = [v \in 1 .. MaxVersions |-> 0]
  BY DEF FlagInit
<1>2. 0 \in 0 .. MaxClock /\ MaxVersions \in Nat /\ Timeout \in Nat
  BY FlagConstants
<1>3. FlagType
  <2>1. runtime \in {"node", "browser", "python", "go"}
    BY DEF FlagInit
  <2>2. version \in Nat \ {0} /\ version - 1 <= MaxVersions /\ until \in [1 .. MaxVersions -> Nat]
    BY <1>1, <1>2
  <2>3. cache \in [version : Nat, at : Nat, asked : Nat, extra : BOOLEAN]
    BY <1>1
  <2>4. cache.version <= version /\ cache.asked <= cache.at /\ cache.at <= clock
    BY <1>1
  <2> QED BY <1>1, <1>2, <2>1, <2>2, <2>3, <2>4 DEF FlagType
<1>4. 1 .. version - 1 = {}
  BY <1>1
<1>5. Young /\ AskedBefore /\ OnePoll
  BY <1>1 DEF Young, AskedBefore, OnePoll
<1>6. CachedSoon
  BY <1>4 DEF CachedSoon
<1>7. PollsSpaced
  <2>1. 0 <= 0 + Interval
    BY FlagConstants
  <2> QED BY <1>1, <2>1 DEF PollsSpaced
<1>8. Overlap
  BY <1>1, <1>2 DEF Overlap
<1> QED BY <1>3, <1>5, <1>6, <1>7, <1>8 DEF FlagInv

\* Times are numbers.
LEMMA FlagNumbers ==
  ASSUME FlagInv
  PROVE  /\ {clock, nextPoll, version, MaxClock, Interval, Timeout} \subseteq Nat /\ Interval > 0
         /\ {cache.version, cache.at, cache.asked} \subseteq Nat
         /\ \A a \in asks : {a.at, a.seen} \subseteq Nat /\ a.extra \in BOOLEAN
BY FlagConstants DEF FlagInv, FlagType

\* A refresh is asked for: by the application, or by a poll that in Python and Go
\* has none under way.
LEMMA AskStep ==
  ASSUME FlagInv, NEW e \in BOOLEAN, asks' \in {asks, asks \cup {Asked(e)}},
         UNCHANGED <<runtime, version, until, clock, cache>>, nextPoll' \in Nat,
         e => nextPoll' = nextPoll,
         ~ e /\ runtime \in {"python", "go"} => \A a \in asks : a.extra,
         ~ e /\ runtime = "node" => clock >= nextPoll /\ nextPoll' = clock + Interval
  PROVE  FlagInv'
<1> DEFINE new == Asked(e)
<1>1. new \in [at : Nat, seen : Nat, extra : BOOLEAN] /\ new.at = clock /\ new.seen = 0 /\ new.extra = e
  BY DEF Asked, FlagInv, FlagType
<1> HIDE DEF new
<1>2. asks' \subseteq asks \cup {new} /\ asks \subseteq asks'
  BY DEF new
<1>3. FlagType'
  BY <1>1, <1>2 DEF FlagInv, FlagType
<1>4. Young'
  BY <1>1, <1>2, FlagConstants DEF FlagInv, Young, FlagType
<1>5. AskedBefore'
  BY <1>1, <1>2 DEF FlagInv, AskedBefore
<1>6. CachedSoon'
  BY DEF FlagInv, CachedSoon
<1>7. OnePoll'
  <2> SUFFICES ASSUME runtime \in {"python", "go"}, NEW a \in asks', ~ a.extra
               PROVE  /\ \A b \in asks' : ~ b.extra => a = b
                      /\ ~ cache.extra /\ a.seen > 0 => a.seen >= cache.version
    BY DEF OnePoll
  <2>1. CASE e
    <3>1. a \in asks /\ \A b \in asks' : ~ b.extra => b \in asks
      BY <1>1, <1>2, <2>1
    <3> QED BY <3>1 DEF FlagInv, OnePoll
  <2>2. CASE ~ e
    <3>1. a = new /\ \A b \in asks' : ~ b.extra => b = new
      BY <1>2, <2>2
    <3> QED BY <1>1, <3>1
  <2> QED BY <2>1, <2>2
<1>8. PollsSpaced'
  <2> SUFFICES ASSUME runtime = "node" PROVE PollsSpaced'
    BY DEF PollsSpaced
  <2>0. PollsSpaced /\ UNCHANGED <<cache, runtime, clock>>
    BY DEF FlagInv
  <2>1. CASE e
    <3>1. \A b \in asks' : ~ b.extra => b \in asks
      BY <1>1, <1>2, <2>1
    <3> QED BY <2>0, <2>1, <3>1 DEF PollsSpaced
  <2>2. CASE ~ e
    <3>1. clock >= nextPoll /\ nextPoll' = clock + Interval
      BY <2>2
    <3>2. ASSUME NEW a \in asks, ~ a.extra PROVE clock >= a.at + Interval /\ nextPoll' >= a.at + Interval
      <4>1. nextPoll >= a.at + Interval
        BY <2>0, <3>2 DEF PollsSpaced
      <4>2. {clock, nextPoll, a.at, Interval} \subseteq Nat
        BY FlagNumbers
      <4> QED BY ONLY <3>1, <4>1, <4>2
    <3>3. ASSUME ~ cache.extra, cache.version > 0
          PROVE clock >= cache.asked + Interval /\ nextPoll' >= cache.asked + Interval
      <4>1. nextPoll >= cache.asked + Interval
        BY <2>0, <3>3 DEF PollsSpaced
      <4>2. {clock, nextPoll, cache.asked, Interval} \subseteq Nat
        BY FlagNumbers
      <4> QED BY ONLY <3>1, <4>1, <4>2
    <3>4. new.at = clock /\ clock + Interval >= clock + Interval
      BY <1>1, FlagNumbers
    <3>5. \A a \in asks' : ~ a.extra => nextPoll' >= a.at + Interval
      BY <1>2, <3>1, <3>2, <3>4
    <3>6. \A a, b \in asks' : ~ a.extra /\ ~ b.extra => a = b \/ Spaced(a.at, b.at)
      BY <1>2, <2>0, <3>2, <3>4 DEF PollsSpaced, Spaced
    <3>7. ~ cache.extra /\ cache.version > 0 => \A a \in asks' : ~ a.extra => Spaced(a.at, cache.asked)
      BY <1>2, <2>0, <3>3, <3>4 DEF PollsSpaced, Spaced
    <3>8. nextPoll' <= clock + Interval
      BY <3>1, FlagNumbers
    <3> QED BY <2>0, <3>3, <3>5, <3>6, <3>7, <3>8 DEF PollsSpaced
  <2> QED BY <2>1, <2>2
<1>9. Overlap'
  BY <1>1, <1>2 DEF FlagInv, Overlap
<1> QED BY <1>3, <1>4, <1>5, <1>6, <1>7, <1>8, <1>9 DEF FlagInv

\* A poll.
LEMMA PollStep ==
  ASSUME FlagInv, Poll
  PROVE  FlagInv'
<1>1. /\ clock >= nextPoll /\ (runtime \in {"python", "go"} => ~ Polling)
      /\ asks' \in {asks, asks \cup {Asked(FALSE)}}
      /\ UNCHANGED <<runtime, version, until, clock, cache>>
  BY DEF Poll
<1>2. nextPoll' \in {Never, NextTick, clock + Interval} /\ (runtime = "node" => nextPoll' = clock + Interval)
  BY DEF Poll
<1>3. {clock, nextPoll, MaxClock, Interval} \subseteq Nat /\ Interval > 0
  BY FlagNumbers
<1>4. (clock - nextPoll) \div Interval \in Nat
  BY <1>1, <1>3
<1>5. Interval * (1 + (clock - nextPoll) \div Interval) \in Nat
  <2>1. \A m, n \in Nat : m * (1 + n) \in Nat
    OBVIOUS
  <2> QED BY <1>3, <1>4, <2>1
<1>6. nextPoll' \in Nat
  BY <1>2, <1>3, <1>5 DEF Never, NextTick
<1>7. runtime \in {"python", "go"} => \A a \in asks : a.extra
  BY <1>1, FlagNumbers DEF Polling
<1>8. FALSE \in BOOLEAN
  OBVIOUS
<1> QED BY <1>1, <1>2, <1>6, <1>7, <1>8, AskStep

\* A refresh that no poll asked for.
LEMMA ExtraStep ==
  ASSUME FlagInv, RefreshFlags \/ Visibility
  PROVE  FlagInv'
<1>1. /\ asks' \in {asks, asks \cup {Asked(TRUE)}}
      /\ UNCHANGED <<runtime, version, until, clock, cache, nextPoll>>
  BY DEF RefreshFlags, Visibility
<1>2. nextPoll' \in Nat /\ TRUE \in BOOLEAN
  BY <1>1 DEF FlagInv, FlagType
<1> QED BY <1>1, <1>2, AskStep

\* The flags change at the server.
LEMMA ChangeStep ==
  ASSUME FlagInv, FlagsChange
  PROVE  FlagInv'
<1>1. /\ version < MaxVersions /\ version' = version + 1
      /\ until' = [until EXCEPT ![version] = clock]
      /\ UNCHANGED <<runtime, clock, cache, asks, nextPoll>>
  BY DEF FlagsChange
<1>2. /\ version \in 1 .. MaxVersions /\ clock \in Nat /\ version' \in Nat \ {0} /\ version' - 1 = version
      /\ until \in [1 .. MaxVersions -> Nat] /\ Timeout \in Nat
  <2>1. version \in Nat \ {0} /\ clock \in Nat /\ until \in [1 .. MaxVersions -> Nat]
    BY DEF FlagInv, FlagType
  <2>2. MaxVersions \in Nat /\ Timeout \in Nat
    BY FlagConstants
  <2> QED BY <1>1, <2>1, <2>2
<1>3. until' \in [1 .. MaxVersions -> Nat] /\ until'[version] = clock
      /\ \A v \in 1 .. version - 1 : until'[v] = until[v]
  BY <1>1, <1>2
<1>4. FlagType'
  <2>1. cache.version <= version' /\ \A a \in asks : a.seen <= version'
    BY <1>1, <1>2 DEF FlagInv, FlagType
  <2>2. version' - 1 <= MaxVersions
    BY <1>1, <1>2, FlagConstants
  <2> QED BY <1>1, <1>2, <1>3, <2>1, <2>2 DEF FlagInv, FlagType
<1>5. Young' /\ OnePoll' /\ PollsSpaced' /\ Overlap'
  BY <1>1 DEF FlagInv, Young, OnePoll, PollsSpaced, Overlap
<1>6. 1 .. version' - 1 = (1 .. version - 1) \cup {version}
  BY <1>1, <1>2
<1>7. AskedBefore'
  <2>1. \A a \in asks : a.at <= clock
    BY DEF FlagInv, FlagType
  <2> QED BY <1>1, <1>3, <1>6, <2>1 DEF FlagInv, AskedBefore
<1>8. CachedSoon'
  <2>1. cache.at \in Nat /\ cache.at <= clock
    BY DEF FlagInv, FlagType
  <2>2. cache.at <= until'[version] + Timeout
    BY <1>2, <1>3, <2>1
  <2> QED BY <1>1, <1>3, <1>6, <2>2 DEF FlagInv, CachedSoon
<1> QED BY <1>4, <1>5, <1>7, <1>8 DEF FlagInv

\* Time passes.
LEMMA TickStep ==
  ASSUME FlagInv, Tick
  PROVE  FlagInv'
<1>1. /\ clock < MaxClock /\ clock' = clock + 1 /\ \A a \in asks : ~ TimedOut(a)
      /\ UNCHANGED <<runtime, version, until, cache, asks, nextPoll>>
  BY DEF Tick
<1>2. clock \in Nat /\ {MaxClock, Timeout} \subseteq Nat
  BY FlagConstants DEF FlagInv, FlagType
<1>3. FlagType'
  BY <1>1, <1>2 DEF FlagInv, FlagType
<1>4. Young'
  <2> SUFFICES ASSUME runtime # "browser", NEW a \in asks PROVE clock' - a.at <= Timeout
    BY <1>1 DEF Young
  <2>1. a.at \in Nat /\ clock - a.at < Timeout
    BY <1>1, <1>2 DEF TimedOut, FlagInv, FlagType
  <2> QED BY <1>1, <1>2, <2>1
<1>5. AskedBefore' /\ CachedSoon' /\ OnePoll' /\ Overlap'
  BY <1>1 DEF FlagInv, AskedBefore, CachedSoon, OnePoll, Overlap
<1>6. nextPoll <= clock + Interval => nextPoll' <= clock' + Interval
  <2>1. {nextPoll, Interval} \subseteq Nat
    BY FlagNumbers
  <2> QED BY <1>1, <1>2, <2>1
<1>7. PollsSpaced'
  BY <1>1, <1>6 DEF FlagInv, PollsSpaced
<1> QED BY <1>3, <1>4, <1>5, <1>7 DEF FlagInv

\* The server reads the flags for an answer.
LEMMA ServerStep ==
  ASSUME FlagInv, NEW a \in asks, ServerAnswers(a)
  PROVE  FlagInv'
<1> DEFINE b == [a EXCEPT !.seen = version]
<1>1. /\ asks' = (asks \ {a}) \cup {b}
      /\ UNCHANGED <<runtime, version, until, clock, cache, nextPoll>>
  BY DEF ServerAnswers
<1>2. /\ a \in [at : Nat, seen : Nat, extra : BOOLEAN] /\ version \in Nat /\ a.at <= clock
      /\ cache.version <= version /\ cache.version \in Nat
  BY DEF FlagInv, FlagType
<1>3. b \in [at : Nat, seen : Nat, extra : BOOLEAN] /\ b.at = a.at /\ b.seen = version /\ b.extra = a.extra
  BY <1>2
<1> HIDE DEF b
<1>4. FlagType'
  BY <1>1, <1>2, <1>3 DEF FlagInv, FlagType
<1>5. Young'
  BY <1>1, <1>3 DEF FlagInv, Young
<1>6. AskedBefore'
  BY <1>1, <1>2, <1>3 DEF FlagInv, AskedBefore
<1>7. CachedSoon'
  BY <1>1 DEF FlagInv, CachedSoon
<1>8. OnePoll'
  <2> SUFFICES ASSUME runtime \in {"python", "go"}, NEW c \in asks', ~ c.extra
               PROVE  /\ \A d \in asks' : ~ d.extra => c = d
                      /\ ~ cache.extra /\ c.seen > 0 => c.seen >= cache.version
    BY <1>1 DEF OnePoll
  <2>1. CASE c = b
    <3>1. \A d \in asks : ~ d.extra => a = d
      BY <1>3, <2>1 DEF FlagInv, OnePoll
    <3>2. \A d \in asks' : ~ d.extra => c = d
      BY <1>1, <2>1, <3>1
    <3> QED BY <1>2, <1>3, <2>1, <3>2
  <2>2. CASE c # b
    <3>1. c \in asks /\ c # a
      BY <1>1, <2>2
    <3>2. a.extra
      BY <1>2, <3>1 DEF FlagInv, OnePoll
    <3> QED BY <1>1, <1>3, <3>1, <3>2 DEF FlagInv, OnePoll
  <2> QED BY <2>1, <2>2
<1>9. PollsSpaced'
  <2> SUFFICES ASSUME runtime = "node" PROVE PollsSpaced'
    BY <1>1 DEF PollsSpaced
  <2>1. \A c \in asks' : \E d \in asks : d.at = c.at /\ d.extra = c.extra /\ (c = b => d = a) /\ (c # b => d = c /\ c # a)
    BY <1>1, <1>3
  <2>2. PollsSpaced
    BY DEF FlagInv
  <2>3. ASSUME NEW c \in asks', ~ c.extra
        PROVE  /\ nextPoll >= c.at + Interval
               /\ ~ cache.extra /\ cache.version > 0 => Spaced(c.at, cache.asked)
               /\ \A e \in asks' : ~ e.extra => c = e \/ Spaced(c.at, e.at)
    <3>1. PICK d \in asks : d.at = c.at /\ d.extra = c.extra /\ (c = b => d = a) /\ (c # b => d = c /\ c # a)
      BY <2>1
    <3>2. ASSUME NEW e \in asks', ~ e.extra, c # e PROVE Spaced(c.at, e.at)
      <4>1. PICK f \in asks : f.at = e.at /\ f.extra = e.extra /\ (e = b => f = a) /\ (e # b => f = e /\ e # a)
        BY <2>1
      <4>2. d # f
        BY <3>1, <3>2, <4>1
      <4> QED BY <2>2, <2>3, <3>1, <3>2, <4>1, <4>2 DEF PollsSpaced
    <3> QED BY <2>2, <2>3, <3>1, <3>2 DEF PollsSpaced
  <2> QED BY <1>1, <2>2, <2>3 DEF PollsSpaced
<1>10. Overlap'
  <2>1. ~ (b.seen < cache.version)
    BY <1>2, <1>3
  <2> QED BY <1>1, <2>1 DEF FlagInv, Overlap
<1> QED BY <1>4, <1>5, <1>6, <1>7, <1>8, <1>9, <1>10 DEF FlagInv

\* A refresh ends, and may have replaced what is cached.
LEMMA EndedStep ==
  ASSUME FlagInv, NEW a \in asks, Replace(a) \/ RefreshFails(a)
  PROVE  FlagInv'
<1>1. /\ asks' = asks \ {a}
      /\ nextPoll' = IF nextPoll = Never /\ ~ a.extra THEN clock + Interval ELSE nextPoll
      /\ UNCHANGED <<runtime, version, until, clock>>
      /\ \/ cache' = cache
         \/ a.seen > 0 /\ cache' = [version |-> a.seen, at |-> clock, asked |-> a.at, extra |-> a.extra]
  BY DEF Replace, RefreshFails, Ended, KeptOnFailure
<1>2. /\ a \in [at : Nat, seen : Nat, extra : BOOLEAN] /\ clock \in Nat /\ nextPoll \in Nat
      /\ a.seen <= version /\ a.at <= clock /\ {Interval, Timeout} \subseteq Nat
  BY FlagConstants DEF FlagInv, FlagType
<1>3. \/ cache' = cache
      \/ /\ cache' \in [version : Nat, at : Nat, asked : Nat, extra : BOOLEAN]
         /\ cache'.version = a.seen /\ cache'.at = clock /\ cache'.asked = a.at /\ cache'.extra = a.extra
  BY <1>1, <1>2
<1>4. nextPoll' \in Nat
  BY <1>1, <1>2
<1>5. FlagType'
  BY <1>1, <1>2, <1>3, <1>4 DEF FlagInv, FlagType
<1>6. Young' /\ AskedBefore'
  BY <1>1 DEF FlagInv, Young, AskedBefore
<1>7. CachedSoon'
  <2>1. CASE cache' = cache
    BY <1>1, <2>1 DEF FlagInv, CachedSoon
  <2>2. CASE cache'.version = a.seen /\ cache'.at = clock
    <3> SUFFICES ASSUME runtime # "browser", NEW v \in 1 .. version - 1, a.seen = v
                 PROVE  clock <= until[v] + Timeout
      BY <1>1, <2>2 DEF CachedSoon
    <3>1. a.at <= until[v] /\ clock - a.at <= Timeout
      BY DEF FlagInv, AskedBefore, Young
    <3>2. until[v] \in Nat
      <4>1. v \in 1 .. MaxVersions
        BY FlagConstants DEF FlagInv, FlagType
      <4> QED BY <4>1 DEF FlagInv, FlagType
    <3> QED BY <1>2, <3>1, <3>2
  <2> QED BY <1>3, <2>1, <2>2
<1>8. OnePoll'
  <2> SUFFICES ASSUME runtime \in {"python", "go"}, NEW c \in asks', ~ c.extra
               PROVE  /\ \A d \in asks' : ~ d.extra => c = d
                      /\ ~ cache'.extra /\ c.seen > 0 => c.seen >= cache'.version
    BY <1>1 DEF OnePoll
  <2>1. c \in asks /\ c # a
    BY <1>1
  <2>2. a.extra
    BY <1>2, <2>1 DEF FlagInv, OnePoll
  <2>3. cache' = cache \/ cache'.extra
    BY <1>3, <2>2
  <2> QED BY <1>1, <2>1, <2>3 DEF FlagInv, OnePoll
<1>9. PollsSpaced'
  <2> SUFFICES ASSUME runtime = "node" PROVE PollsSpaced'
    BY <1>1 DEF PollsSpaced
  <2>0. PollsSpaced
    BY DEF FlagInv
  <2>1. nextPoll' = nextPoll
    <3>1. nextPoll <= clock + Interval /\ clock <= MaxClock
      BY <2>0 DEF PollsSpaced, FlagInv, FlagType
    <3>2. {clock, nextPoll, MaxClock, Interval} \subseteq Nat
      BY FlagNumbers
    <3>3. nextPoll # Never
      BY ONLY <3>1, <3>2 DEF Never
    <3> QED BY <1>1, <3>3
  <2>2. ASSUME NEW c \in asks', ~ c.extra PROVE nextPoll' >= c.at + Interval
    <3>1. nextPoll >= c.at + Interval /\ c.at \in Nat
      BY <1>1, <2>0, <2>2, FlagNumbers DEF PollsSpaced
    <3> QED BY ONLY <1>2, <1>4, <2>1, <3>1
  <2>3. \A c, d \in asks' : ~ c.extra /\ ~ d.extra => c = d \/ Spaced(c.at, d.at)
    BY <1>1, <2>0 DEF PollsSpaced
  <2>4. ASSUME ~ cache'.extra, cache'.version > 0
        PROVE  /\ nextPoll' >= cache'.asked + Interval
               /\ \A c \in asks' : ~ c.extra => Spaced(c.at, cache'.asked)
    <3>1. CASE cache' = cache
      <4>1. nextPoll >= cache.asked + Interval /\ cache.asked \in Nat
        BY <2>0, <2>4, <3>1, FlagNumbers DEF PollsSpaced
      <4>2. nextPoll' >= cache.asked + Interval
        BY ONLY <1>2, <1>4, <2>1, <4>1
      <4> QED BY <1>1, <2>0, <2>4, <3>1, <4>2 DEF PollsSpaced
    <3>2. CASE cache'.asked = a.at /\ cache'.extra = a.extra
      <4>1. nextPoll >= a.at + Interval /\ a.at \in Nat /\ ~ a.extra
        BY <1>2, <2>0, <2>4, <3>2 DEF PollsSpaced
      <4>2. nextPoll' >= a.at + Interval
        BY ONLY <1>2, <1>4, <2>1, <4>1
      <4>3. \A c \in asks' : ~ c.extra => Spaced(c.at, a.at)
        BY <1>1, <2>0, <4>1 DEF PollsSpaced
      <4> QED BY <3>2, <4>2, <4>3
    <3> QED BY <1>3, <3>1, <3>2
  <2>5. nextPoll' <= clock' + Interval
    BY <1>1, <2>0, <2>1 DEF PollsSpaced
  <2> QED BY <1>1, <2>2, <2>3, <2>4, <2>5 DEF PollsSpaced
<1>10. Overlap'
  <2>1. CASE cache' = cache
    BY <1>1, <2>1 DEF FlagInv, Overlap
  <2>2. CASE cache'.version = a.seen /\ cache'.at = clock /\ cache'.asked = a.at
    <3>1. \A c \in asks' : c.at <= clock
      BY <1>1 DEF FlagInv, FlagType
    <3>2. runtime # "browser" => clock <= a.at + Timeout
      BY <1>2 DEF FlagInv, Young
    <3> QED BY <1>1, <2>2, <3>1, <3>2 DEF Overlap
  <2> QED BY <1>3, <2>1, <2>2
<1> QED BY <1>5, <1>6, <1>7, <1>8, <1>9, <1>10 DEF FlagInv

\* Every step keeps it.
LEMMA FlagInvStep == FlagInv /\ [FlagNext]_flagVars => FlagInv'
<1> SUFFICES ASSUME FlagInv, [FlagNext]_flagVars PROVE FlagInv'
  OBVIOUS
<1>1. CASE UNCHANGED flagVars
  BY <1>1 DEF flagVars, FlagInv, FlagType, Young, AskedBefore, CachedSoon, OnePoll, PollsSpaced, Overlap
<1> QED BY <1>1, PollStep, ExtraStep, ChangeStep, TickStep, ServerStep, EndedStep DEF FlagNext

\* It always holds.
LEMMA FlagInvariant == FlagSpec => []FlagInv
  BY FlagInvInit, FlagInvStep, PTL DEF FlagSpec

\* However many refreshes fail or come late, Node, Python and Go serve no flags
\* that the server gave up longer ago than the cache may be old plus one timeout.
THEOREM StaleWithinBounds == FlagSpec => []StaleBounded
<1>1. FlagInv => StaleBounded
  <2> SUFFICES ASSUME FlagInv, runtime # "browser", Served \in 1 .. version - 1
               PROVE  clock - until[Served] <= MaxAge + Timeout
    BY DEF StaleBounded
  <2>1. version \in Nat /\ {MaxVersions, MaxAge, Timeout} \subseteq Nat /\ version - 1 <= MaxVersions
    BY FlagConstants DEF FlagInv, FlagType
  <2>2. Served # 0
    BY <2>1
  <2>3. ~ (cache.version = 0 \/ clock - cache.at > MaxAge) /\ Served = cache.version
    BY <2>2 DEF Served, Expired
  <2>4. {clock, cache.at, until[Served]} \subseteq Nat
    BY <2>1 DEF FlagInv, FlagType
  <2>5. cache.at <= until[Served] + Timeout
    BY <2>3 DEF FlagInv, CachedSoon
  <2> QED BY <2>1, <2>3, <2>4, <2>5
<1> QED BY <1>1, FlagInvariant, PTL

\* Polling alone never puts older flags in place of newer ones in Python and Go,
\* whatever the interval and the timeout; in Node only the answer to one of two
\* polls asked no more than a timeout apart does.
THEOREM PollsKeepOrder == FlagSpec => PollsInOrder
<1> DEFINE gap == IF cache'.asked > cache.asked THEN cache'.asked - cache.asked ELSE cache.asked - cache'.asked
<1>1. FlagInv /\ [FlagNext]_flagVars =>
        (cache'.version < cache.version =>
           \/ runtime = "browser" \/ cache.extra \/ cache'.extra
           \/ runtime = "node" /\ gap \in Interval .. Timeout)
  <2> SUFFICES ASSUME FlagInv, [FlagNext]_flagVars, cache'.version < cache.version,
                      runtime # "browser", ~ cache.extra, ~ cache'.extra
               PROVE  runtime = "node" /\ gap \in Interval .. Timeout
    OBVIOUS
  <2>1. cache' # cache
    BY DEF FlagInv, FlagType
  <2>2. PICK a \in asks : Replace(a)
    BY <2>1 DEF FlagNext, Poll, RefreshFlags, Visibility, FlagsChange, Tick, ServerAnswers, RefreshFails,
                KeptOnFailure, flagVars
  <2>3. a.seen > 0 /\ cache'.version = a.seen /\ cache'.extra = a.extra /\ cache'.asked = a.at
    BY <2>2 DEF Replace
  <2>4. a.seen \in Nat /\ cache.version \in Nat /\ {a.at, cache.at, cache.asked, clock, Interval, Timeout} \subseteq Nat
    BY FlagNumbers
  <2>5. ~ (a.seen >= cache.version) /\ cache.version > 0
    BY <2>3, <2>4
  <2>6. runtime = "node"
    <3>1. runtime \notin {"python", "go"}
      BY <2>3, <2>5 DEF FlagInv, OnePoll
    <3>2. runtime \in {"node", "browser", "python", "go"}
      BY DEF FlagInv, FlagType
    <3> QED BY <3>1, <3>2
  <2>7. Spaced(a.at, cache.asked)
    BY <2>3, <2>5, <2>6 DEF FlagInv, PollsSpaced
  <2>8. a.at <= cache.at /\ cache.at <= cache.asked + Timeout
    BY <2>3, <2>4, <2>5, <2>6 DEF FlagInv, Overlap
  <2>9. clock - a.at <= Timeout /\ cache.asked <= clock
    BY <2>4, <2>6 DEF FlagInv, FlagType, Young
  <2>10. gap \in Interval .. Timeout
    BY <2>3, <2>4, <2>7, <2>8, <2>9 DEF Spaced
  <2> QED BY <2>6, <2>10
<1> QED BY <1>1, FlagInvariant, PTL DEF FlagSpec, PollsInOrder

(***************************************************************************)
(* FlagCache: deciding a flag                                              *)
(***************************************************************************)

FlagOK(flag) ==
  /\ flag.variants \in Seq([key : STRING, weight : Nat])
  /\ \A i \in DOMAIN flag.rules : flag.rules[i].values \in Seq(STRING)

\* The runtimes print the attributes alike that a flag asks for.
PrintAlike(flag, ctx) ==
  \A i \in DOMAIN flag.rules : TextPython(ctx[flag.rules[i].attribute]) = Text(ctx[flag.rules[i].attribute])

\* Then they agree on its rules.
LEMMA RulesAgree ==
  ASSUME NEW flag, NEW ctx, FlagOK(flag), PrintAlike(flag, ctx)
  PROVE  /\ MatchesJs(flag, ctx) <=> MatchesPython(flag, ctx)
         /\ MatchesJs(flag, ctx) <=> MatchesGo(flag, ctx)
<1> DEFINE Js(rule, val) ==
             CASE rule.operator = "in"       -> Contains(rule.values, val)
               [] rule.operator = "not_in"   -> ~ Contains(rule.values, val)
               [] rule.operator = "contains" -> \E j \in DOMAIN rule.values : <<rule.values[j], val>> \in PartOf
               [] rule.operator = "equals"   -> rule.values # <<>> /\ rule.values[1] = val
               [] OTHER                      -> TRUE
           Python(rule, val) ==
             \/ rule.operator = "in" /\ val \notin ToSet(rule.values)
             \/ rule.operator = "not_in" /\ val \in ToSet(rule.values)
             \/ rule.operator = "contains" /\ ToSet(rule.values) \cap {v \in ToSet(rule.values) : <<v, val>> \in PartOf} = {}
             \/ rule.operator = "equals" /\ (rule.values = <<>> \/ Head(rule.values) # val)
           Go(rule, val) ==
             LET contains == \E j \in DOMAIN rule.values : rule.values[j] = val IN
             /\ rule.operator = "in" => contains
             /\ rule.operator = "not_in" => ~ contains
             /\ rule.operator = "contains" => \E v \in ToSet(rule.values) : <<v, val>> \in PartOf
             /\ rule.operator = "equals" => ~ (Len(rule.values) = 0 \/ rule.values[1] # val)
<1>1. ASSUME NEW rule, NEW val, rule.values \in Seq(STRING)
      PROVE  (Js(rule, val) <=> ~ Python(rule, val)) /\ (Js(rule, val) <=> Go(rule, val))
  <2> DEFINE s == rule.values
  <2>1. /\ DOMAIN s = 1 .. Len(s) /\ Len(s) \in Nat
        /\ s # <<>> <=> Len(s) # 0
        /\ s # <<>> => Head(s) = s[1]
    BY <1>1
  <2>2. /\ Contains(s, val) <=> val \in ToSet(s)
        /\ Contains(s, val) <=> \E j \in DOMAIN s : s[j] = val
    BY <2>1 DEF Contains, ToSet
  <2>3. (\E j \in DOMAIN s : <<s[j], val>> \in PartOf) <=> \E v \in ToSet(s) : <<v, val>> \in PartOf
    BY DEF ToSet
  <2> HIDE DEF s
  <2>4. CASE rule.operator = "in"
    BY <2>2, <2>4 DEF s
  <2>5. CASE rule.operator = "not_in"
    BY <2>2, <2>5 DEF s
  <2>6. CASE rule.operator = "contains"
    BY <2>3, <2>6 DEF s
  <2>7. CASE rule.operator = "equals"
    BY <2>1, <2>7 DEF s
  <2>8. CASE rule.operator \notin {"in", "not_in", "contains", "equals"}
    BY <2>8
  <2> QED BY <2>4, <2>5, <2>6, <2>7, <2>8
<1>2. MatchesJs(flag, ctx) <=> \A i \in DOMAIN flag.rules : Js(flag.rules[i], Text(ctx[flag.rules[i].attribute]))
  BY DEF MatchesJs
<1>3. MatchesPython(flag, ctx) <=> ~ \E i \in DOMAIN flag.rules : Python(flag.rules[i], TextPython(ctx[flag.rules[i].attribute]))
  BY DEF MatchesPython
<1>4. MatchesGo(flag, ctx) <=> \A i \in DOMAIN flag.rules : Go(flag.rules[i], Text(ctx[flag.rules[i].attribute]))
  BY DEF MatchesGo
<1> HIDE DEF Js, Python, Go
<1>5. \A i \in DOMAIN flag.rules : flag.rules[i].values \in Seq(STRING)
  BY DEF FlagOK
<1>6. \A i \in DOMAIN flag.rules : TextPython(ctx[flag.rules[i].attribute]) = Text(ctx[flag.rules[i].attribute])
  BY DEF PrintAlike
<1> QED BY <1>1, <1>2, <1>3, <1>4, <1>5, <1>6

\* They print a plain context alike, and take the same id of it.
LEMMA PlainAlike ==
  ASSUME NEW flag \in FlagDefs, NEW ctx \in FlagContexts, Plain(ctx)
  PROVE  PrintAlike(flag, ctx) /\ IdJs(ctx) = IdGo(ctx) /\ IdJs(ctx) = IdPython(ctx)
<1>1. \A a \in DOMAIN ctx : TextPython(ctx[a]) = Text(ctx[a])
  BY DEF Plain, TextPython, Text
<1>2. PrintAlike(flag, ctx)
  BY <1>1, DefConstants DEF PrintAlike
<1>3. /\ ctx.userId = Missing \/ Truthy(ctx.userId)
      /\ ctx.user_id = Missing /\ ctx.email.type \in {"missing", "string"}
      /\ {"userId", "user_id", "email"} \subseteq DOMAIN ctx
  BY DefConstants DEF Plain
<1>4. ctx.email = Missing \/ ctx.email.type = "string"
  <2>1. ctx.email \in Attributes
    BY <1>3, DefConstants
  <2> QED BY <1>3, <2>1 DEF Attributes
<1>5. ~ Truthy(Missing) /\ Text(Missing) = ""
  BY DEF Truthy, Missing, Text
<1>6. Truthy(ctx.userId) => Text(ctx.userId) # ""
  BY DEF Truthy, Text
<1>7. Truthy(ctx.email) <=> Text(ctx.email) # ""
  BY <1>4, <1>5 DEF Truthy, Text
<1>8. IdJs(ctx) = IdGo(ctx)
  BY <1>3, <1>5, <1>6 DEF IdJs, IdGo
<1>9. TextPython(ctx.userId) = Text(ctx.userId) /\ TextPython(ctx.email) = Text(ctx.email)
  BY <1>1, <1>3
<1>10. IdJs(ctx) = IdPython(ctx)
  BY <1>3, <1>5, <1>7, <1>9 DEF IdJs, IdPython
<1> QED BY <1>2, <1>8, <1>10

\* Cumulative weights exist, are numbers, and grow by a variant's weight.
LEMMA WeightsAdd ==
  ASSUME NEW flag, FlagOK(flag)
  PROVE  /\ Cumulative(flag)[0] = 0
         /\ \A i \in 1 .. Len(flag.variants) : Cumulative(flag)[i] = Cumulative(flag)[i - 1] + flag.variants[i].weight
         /\ \A i \in 0 .. Len(flag.variants) : Cumulative(flag)[i] \in Nat
<1> DEFINE n == Len(flag.variants)
           weight(i) == flag.variants[i].weight
           Adds(k, f) == f = [i \in 0 .. k |-> IF i = 0 THEN 0 ELSE f[i - 1] + weight(i)]
           total == Cumulative(flag)
<1>1. n \in Nat /\ \A i \in 1 .. n : weight(i) \in Nat
  <2> DEFINE R == [key : STRING, weight : Nat]
  <2>1. flag.variants \in Seq(R)
    BY DEF FlagOK
  <2> HIDE DEF R
  <2>2. n \in Nat /\ \A i \in 1 .. n : flag.variants[i] \in R
    BY <2>1
  <2> QED BY <2>2 DEF R
<1>2. total = CHOOSE f : Adds(n, f)
  BY DEF Cumulative
<1> HIDE DEF n, weight, total
<1>3. \E f : Adds(n, f)
  <2> DEFINE W == {k \in 0 .. n : ~ \E f : Adds(k, f)}
  <2>1. SUFFICES ASSUME W # {} PROVE FALSE
    <3>1. n \in 0 .. n
      BY <1>1
    <3> HIDE DEF Adds
    <3> QED BY <3>1
  <2>2. PICK x \in W : \A y \in W : x <= y
    <3>1. W \in SUBSET Nat
      BY <1>1
    <3> HIDE DEF W
    <3> QED BY <2>1, <3>1, LeastOf
  <2>3. x # 0
    <3> SUFFICES ASSUME x = 0 PROVE FALSE
      OBVIOUS
    <3> DEFINE f == [i \in 0 .. 0 |-> 0]
    <3>1. f = [i \in 0 .. x |-> IF i = 0 THEN 0 ELSE f[i - 1] + weight(i)]
      OBVIOUS
    <3>2. Adds(x, f)
      BY <3>1
    <3> QED BY <3>2
  <2>4. PICK f : Adds(x - 1, f)
    <3>1. x - 1 \in 0 .. n /\ ~ (x <= x - 1)
      BY <1>1, <2>3
    <3> QED BY <2>2, <3>1
  <2> DEFINE g == [i \in 0 .. x |-> IF i = x THEN f[x - 1] + weight(x) ELSE f[i]]
  <2>5. \A i \in 0 .. x : g[i] = IF i = 0 THEN 0 ELSE g[i - 1] + weight(i)
    <3> TAKE i \in 0 .. x
    <3>1. CASE i = x
      BY <1>1, <2>3, <3>1
    <3>2. CASE i # x
      <4>1. i \in 0 .. x - 1 /\ g[i] = f[i] /\ (i # 0 => i - 1 \in 0 .. x /\ i - 1 # x)
        BY <1>1, <3>2
      <4>2. f[i] = IF i = 0 THEN 0 ELSE f[i - 1] + weight(i)
        BY <2>4, <4>1
      <4> QED BY <4>1, <4>2
    <3> QED BY <3>1, <3>2
  <2>6. g = [i \in 0 .. x |-> g[i]]
    OBVIOUS
  <2> HIDE DEF g
  <2>7. g = [i \in 0 .. x |-> IF i = 0 THEN 0 ELSE g[i - 1] + weight(i)]
    BY <2>5, <2>6
  <2>8. Adds(x, g)
    BY <2>7
  <2> QED BY <2>8
<1>4. Adds(n, total)
  <2> HIDE DEF Adds
  <2> QED BY <1>2, <1>3
<1>5. \A i \in 0 .. n : total[i] = IF i = 0 THEN 0 ELSE total[i - 1] + weight(i)
  BY <1>4
<1>6. \A i \in 0 .. n : total[i] \in Nat
  <2> DEFINE W == {k \in 0 .. n : total[k] \notin Nat}
  <2>1. SUFFICES ASSUME W # {} PROVE FALSE
    BY <1>1
  <2>2. PICK x \in W : \A y \in W : x <= y
    <3>1. W \in SUBSET Nat
      BY <1>1
    <3> HIDE DEF W
    <3> QED BY <2>1, <3>1, LeastOf
  <2>3. x # 0
    BY <1>1, <1>5
  <2>4. x - 1 \in 0 .. n /\ ~ (x <= x - 1) /\ x \in 1 .. n
    BY <1>1, <2>3
  <2>5. total[x - 1] \in Nat
    BY <2>2, <2>4
  <2> QED BY <1>1, <1>5, <2>3, <2>4, <2>5
<1>7. total[0] = 0 /\ \A i \in 1 .. n : total[i] = total[i - 1] + weight(i)
  BY <1>1, <1>5
<1> QED BY <1>6, <1>7 DEF n, weight, total

\* The walk over the variants goes on with what the weights so far add up to.
LEMMA LoopSteps ==
  ASSUME NEW flag, FlagOK(flag), NEW bucket \in Nat, NEW i \in 1 .. Len(flag.variants), NEW b \in Nat
  PROVE  LET cumulative == b + flag.variants[i].weight IN
         Loop(flag, bucket)[i][b] =
           IF bucket < cumulative \/ i = Len(flag.variants) THEN flag.variants[i].key
           ELSE Loop(flag, bucket)[i + 1][cumulative]
<1> DEFINE n == Len(flag.variants)
           weight(j) == flag.variants[j].weight
           key(j) == flag.variants[j].key
           total == Cumulative(flag)
           Loops(f) == f = [j \in 1 .. n |-> [c \in Nat |->
                              IF bucket < c + weight(j) \/ j = n THEN key(j) ELSE f[j + 1][c + weight(j)]]]
           Hit(m, j, c) == m = n \/ bucket < c + (total[m] - total[j - 1])
           Firsts(j, c) == {m \in j .. n : Hit(m, j, c) /\ \A k \in j .. m - 1 : ~ Hit(k, j, c)}
           g == [j \in 1 .. n |-> [c \in Nat |-> key(CHOOSE m : m \in Firsts(j, c))]]
<1>1. /\ n \in Nat /\ \A j \in 1 .. n : total[j] = total[j - 1] + weight(j)
      /\ \A j \in 0 .. n : total[j] \in Nat
  <2>1. n \in Nat
    BY DEF FlagOK
  <2> QED BY <2>1, WeightsAdd
<1>2. \A j \in 1 .. n : weight(j) \in Nat
  <2> DEFINE R == [key : STRING, weight : Nat]
  <2>1. flag.variants \in Seq(R)
    BY DEF FlagOK
  <2> HIDE DEF R
  <2>2. \A j \in 1 .. n : flag.variants[j] \in R
    BY <2>1
  <2> QED BY <2>2 DEF R
<1>3. Loop(flag, bucket) = CHOOSE f : Loops(f)
  BY DEF Loop
<1> HIDE DEF n, weight, key, total
<1>4. ASSUME NEW j \in 1 .. n, NEW c \in Nat
      PROVE  g[j][c] = IF bucket < c + weight(j) \/ j = n THEN key(j) ELSE g[j + 1][c + weight(j)]
  <2>1. Hit(j, j, c) <=> bucket < c + weight(j) \/ j = n
    <3>1. total[j] - total[j - 1] = weight(j)
      <4>1. total[j] \in Nat /\ total[j - 1] \in Nat /\ total[j] = total[j - 1] + weight(j) /\ weight(j) \in Nat
        BY <1>1, <1>2
      <4> QED BY <4>1
    <3> QED BY <3>1
  <2>2. CASE Hit(j, j, c)
    <3>1. Firsts(j, c) = {j}
      <4>1. j \in Firsts(j, c)
        BY <1>1, <2>2
      <4>2. ASSUME NEW m \in Firsts(j, c) PROVE m = j
        <5>1. m \in j .. n /\ \A k \in j .. m - 1 : ~ Hit(k, j, c)
          OBVIOUS
        <5> HIDE DEF Hit
        <5> QED BY <1>1, <2>2, <5>1
      <4> HIDE DEF Firsts
      <4> QED BY <4>1, <4>2
    <3>2. (CHOOSE m : m \in Firsts(j, c)) = j
      <4> HIDE DEF Firsts
      <4> QED BY <3>1
    <3>3. g[j][c] = key(CHOOSE m : m \in Firsts(j, c))
      <4> HIDE DEF Firsts
      <4> QED OBVIOUS
    <3> HIDE DEF g, Firsts, Hit
    <3> QED BY <2>1, <2>2, <3>2, <3>3 DEF Hit
  <2>3. CASE ~ Hit(j, j, c)
    <3> DEFINE d == c + weight(j)
    <3>1. j + 1 \in 1 .. n /\ d \in Nat /\ j # n
      BY <1>1, <1>2, <2>3
    <3>2. \A m \in j + 1 .. n : Hit(m, j, c) <=> Hit(m, j + 1, d)
      <4> TAKE m \in j + 1 .. n
      <4>1. /\ total[m] \in Nat /\ total[j] \in Nat /\ total[j - 1] \in Nat
            /\ total[j] = total[j - 1] + weight(j) /\ (j + 1) - 1 = j /\ weight(j) \in Nat
        BY <1>1, <1>2
      <4>2. c + (total[m] - total[j - 1]) = d + (total[m] - total[j])
        BY <4>1
      <4> HIDE DEF d
      <4> QED BY <4>1, <4>2
    <3> HIDE DEF Hit, d
    <3>3. Firsts(j, c) = Firsts(j + 1, d)
      <4>1. ASSUME NEW m \in Firsts(j, c) PROVE m \in Firsts(j + 1, d)
        <5>1. m \in j .. n /\ Hit(m, j, c) /\ \A k \in j .. m - 1 : ~ Hit(k, j, c)
          OBVIOUS
        <5>2. m \in j + 1 .. n
          BY <1>1, <2>3, <5>1
        <5>3. \A k \in j + 1 .. m - 1 : ~ Hit(k, j + 1, d)
          BY <1>1, <3>2, <5>1
        <5> QED BY <3>2, <5>1, <5>2, <5>3
      <4>2. ASSUME NEW m \in Firsts(j + 1, d) PROVE m \in Firsts(j, c)
        <5>1. m \in j + 1 .. n /\ Hit(m, j + 1, d) /\ \A k \in j + 1 .. m - 1 : ~ Hit(k, j + 1, d)
          OBVIOUS
        <5>2. m \in j .. n
          BY <1>1, <5>1
        <5>3. \A k \in j .. m - 1 : ~ Hit(k, j, c)
          <6> TAKE k \in j .. m - 1
          <6>1. k = j \/ (k \in j + 1 .. m - 1 /\ k \in j + 1 .. n)
            BY <1>1, <5>1
          <6> QED BY <2>3, <3>2, <5>1, <6>1
        <5> QED BY <3>2, <5>1, <5>2, <5>3
      <4> HIDE DEF Firsts
      <4> QED BY <4>1, <4>2
    <3> HIDE DEF Firsts
    <3>4. g[j][c] = g[j + 1][d]
      BY <3>1, <3>3
    <3> HIDE DEF g
    <3> QED BY <2>1, <2>3, <3>4 DEF d
  <2> HIDE DEF g, Hit
  <2> QED BY <2>2, <2>3
<1>5. Loops(g)
  <2>1. g = [j \in 1 .. n |-> [c \in Nat |-> g[j][c]]]
    <3> HIDE DEF Firsts
    <3> QED OBVIOUS
  <2> HIDE DEF g
  <2>2. g = [j \in 1 .. n |-> [c \in Nat |->
               IF bucket < c + weight(j) \/ j = n THEN key(j) ELSE g[j + 1][c + weight(j)]]]
    BY <1>4, <2>1
  <2> QED BY <2>2
<1>6. Loops(Loop(flag, bucket))
  <2> HIDE DEF Loops, g
  <2> QED BY <1>3, <1>5
<1> HIDE DEF g
<1>7. Loop(flag, bucket)[i][b] = IF bucket < b + weight(i) \/ i = n THEN key(i) ELSE Loop(flag, bucket)[i + 1][b + weight(i)]
  <2>1. i \in 1 .. n
    BY DEF n
  <2> DEFINE f == Loop(flag, bucket)
  <2> HIDE DEF f
  <2>2. Loops(f)
    BY <1>6 DEF f
  <2>3. f[i] = [c \in Nat |-> IF bucket < c + weight(i) \/ i = n THEN key(i) ELSE f[i + 1][c + weight(i)]]
    BY <2>1, <2>2
  <2>4. f[i][b] = IF bucket < b + weight(i) \/ i = n THEN key(i) ELSE f[i + 1][b + weight(i)]
    BY <2>3
  <2> QED BY <2>4 DEF f
<1> QED BY <1>7 DEF n, weight, key

\* The loop finds the first variant whose cumulative weight exceeds the bucket, or
\* comes to the last one.
LEMMA LoopFinds ==
  ASSUME NEW flag, FlagOK(flag), NEW bucket \in Nat, flag.variants # <<>>
  PROVE  LET hit == {i \in DOMAIN flag.variants : bucket < Cumulative(flag)[i]} IN
         Loop(flag, bucket)[1][0] =
           IF hit = {} THEN flag.variants[Len(flag.variants)].key
           ELSE flag.variants[CHOOSE i \in hit : \A j \in hit : i <= j].key
<1> DEFINE n == Len(flag.variants)
           weight(j) == flag.variants[j].weight
           key(j) == flag.variants[j].key
           total == Cumulative(flag)
           loop == Loop(flag, bucket)
           hit == {i \in DOMAIN flag.variants : bucket < total[i]}
           stop == IF hit = {} THEN n ELSE CHOOSE i \in hit : \A j \in hit : i <= j
<1>1. /\ n \in Nat \ {0} /\ DOMAIN flag.variants = 1 .. n
      /\ total[0] = 0 /\ \A j \in 1 .. n : total[j] = total[j - 1] + weight(j)
      /\ \A j \in 0 .. n : total[j] \in Nat
  <2>1. n \in Nat \ {0} /\ DOMAIN flag.variants = 1 .. n
    BY DEF FlagOK
  <2> QED BY <2>1, WeightsAdd
<1>2. \A j \in 1 .. n, c \in Nat :
        loop[j][c] = IF bucket < c + weight(j) \/ j = n THEN key(j) ELSE loop[j + 1][c + weight(j)]
  BY LoopSteps
<1> HIDE DEF n, weight, key, total, loop
<1>3. hit = {j \in 1 .. n : bucket < total[j]}
  BY <1>1
<1>4. stop \in 1 .. n /\ (stop = n \/ bucket < total[stop]) /\ \A j \in 1 .. stop - 1 : ~ (bucket < total[j])
  <2>1. CASE hit = {}
    <3>1. stop = n /\ \A j \in 1 .. n : ~ (bucket < total[j])
      BY <1>3, <2>1
    <3> HIDE DEF stop
    <3> QED BY <1>1, <3>1
  <2>2. CASE hit # {}
    <3>1. \E i \in hit : \A j \in hit : i <= j
      <4>1. hit \in SUBSET Nat
        BY <1>1
      <4> HIDE DEF hit
      <4> QED BY <2>2, <4>1, LeastOf
    <3>2. stop \in hit /\ \A j \in hit : stop <= j
      <4> HIDE DEF hit
      <4> QED BY <2>2, <3>1
    <3> HIDE DEF stop
    <3>3. stop \in 1 .. n /\ bucket < total[stop]
      BY <1>3, <3>2
    <3>4. ASSUME NEW j \in 1 .. stop - 1 PROVE ~ (bucket < total[j])
      <4>1. j \in 1 .. n /\ ~ (stop <= j)
        BY <1>1, <3>3
      <4> QED BY <1>3, <3>2, <4>1
    <3> QED BY <3>3, <3>4
  <2> HIDE DEF stop, hit
  <2> QED BY <2>1, <2>2
<1> HIDE DEF hit
<1>5. \A i \in 1 .. stop : loop[1][0] = loop[i][total[i - 1]]
  <2> HIDE DEF stop
  <2> DEFINE W == {k \in 1 .. stop : loop[1][0] # loop[k][total[k - 1]]}
  <2>1. SUFFICES ASSUME W # {} PROVE FALSE
    OBVIOUS
  <2>2. PICK x \in W : \A y \in W : x <= y
    <3>1. W \in SUBSET Nat
      BY <1>4
    <3> HIDE DEF W
    <3> QED BY <2>1, <3>1, LeastOf
  <2>3. x # 1
    BY <1>1
  <2> DEFINE p == x - 1
  <2>4. p \in 1 .. stop /\ ~ (x <= p) /\ p \in 1 .. n /\ p # n /\ p \in 1 .. stop - 1 /\ p + 1 = x
    BY <1>1, <1>4, <2>3
  <2>5. loop[1][0] = loop[p][total[p - 1]]
    BY <2>2, <2>4
  <2>6. total[p] = total[p - 1] + weight(p) /\ total[p - 1] \in Nat /\ ~ (bucket < total[p])
    BY <1>1, <1>4, <2>4
  <2> HIDE DEF p
  <2>7. loop[p][total[p - 1]] = loop[p + 1][total[p]]
    BY <1>2, <2>4, <2>6
  <2> QED BY <2>4, <2>5, <2>7 DEF p
<1>6. loop[1][0] = key(stop)
  <2> HIDE DEF stop
  <2>1. loop[1][0] = loop[stop][total[stop - 1]]
    BY <1>4, <1>5
  <2>2. total[stop] = total[stop - 1] + weight(stop) /\ total[stop - 1] \in Nat
    BY <1>1, <1>4
  <2> QED BY <1>2, <1>4, <2>1, <2>2
<1> QED BY <1>6 DEF n, key, total, loop, hit

\* The three runtimes agree on whether a flag is on, and on its variant.
LEMMA VariantsAgree ==
  ASSUME NEW flag \in FlagDefs, NEW ctx \in FlagContexts, Plain(ctx)
  PROVE  Alike(flag, ctx)
<1>1. FlagOK(flag)
  BY DefConstants DEF FlagOK
<1>2. PrintAlike(flag, ctx) /\ IdJs(ctx) = IdPython(ctx) /\ IdJs(ctx) = IdGo(ctx)
  BY PlainAlike
<1>3. (EnabledJs(flag, ctx) <=> EnabledPython(flag, ctx)) /\ (EnabledJs(flag, ctx) <=> EnabledGo(flag, ctx))
  BY <1>1, <1>2, RulesAgree DEF EnabledJs, EnabledPython, EnabledGo
<1>4. EnabledJs(flag, ctx) = EnabledPython(flag, ctx) /\ EnabledJs(flag, ctx) = EnabledGo(flag, ctx)
  BY <1>3 DEF EnabledJs, EnabledPython, EnabledGo
<1> DEFINE id == IdJs(ctx)
           bucket == IF id = "" THEN 0 ELSE Bucket[id]
<1>5. bucket \in Nat
  <2>1. id \in {""} \cup DOMAIN Bucket
    BY DefConstants DEF IdJs
  <2> HIDE DEF id
  <2> QED BY <2>1, DefConstants
<1>6. EnabledJs(flag, ctx) => VariantJs(flag, ctx) = VariantFrom(flag, id)
  <2> SUFFICES ASSUME EnabledJs(flag, ctx) PROVE VariantJs(flag, ctx) = VariantFrom(flag, id)
    OBVIOUS
  <2>1. CASE flag.variants = <<>>
    BY <2>1 DEF VariantJs, VariantFrom
  <2>2. CASE flag.variants # <<>>
    <3> DEFINE hit == {i \in DOMAIN flag.variants : bucket < Cumulative(flag)[i]}
    <3>1. VariantFrom(flag, id) = Loop(flag, bucket)[1][0]
      BY <2>2 DEF VariantFrom
    <3>2. VariantJs(flag, ctx) = IF hit = {} THEN flag.variants[Len(flag.variants)].key
                                ELSE flag.variants[CHOOSE i \in hit : \A j \in hit : i <= j].key
      BY <2>2 DEF VariantJs, Share
    <3> HIDE DEF bucket
    <3>3. Loop(flag, bucket)[1][0] = IF hit = {} THEN flag.variants[Len(flag.variants)].key
                                    ELSE flag.variants[CHOOSE i \in hit : \A j \in hit : i <= j].key
      BY <1>1, <1>5, <2>2, LoopFinds
    <3> QED BY <3>1, <3>2, <3>3
  <2> QED BY <2>1, <2>2
<1>7. ~ EnabledJs(flag, ctx) => VariantJs(flag, ctx) = "control"
  BY DEF VariantJs
<1>8. VariantJs(flag, ctx) = VariantPython(flag, ctx)
  BY <1>2, <1>3, <1>6, <1>7 DEF VariantPython
<1>9. VariantJs(flag, ctx) = VariantGo(flag, ctx)
  BY <1>2, <1>3, <1>6, <1>7 DEF VariantGo
<1> QED BY <1>4, <1>8, <1>9 DEF Alike

\* Whatever its rules, weights and rollout, JavaScript, Python and Go decide a flag alike
\* and pick the same variant of it in a plain context, of strings and whole numbers
\* and no empty or zero id (core/src/flags.ts, python/watchup/flags.py, go/flags.go).
THEOREM DecisionsAgree == FlagSpec => []RuntimesAgree
<1> DEFINE TriedType == tried \in [flag : FlagDefs, ctx : FlagContexts]
<1>1. FlagInit => TriedType
  BY DEF FlagInit
<1>2. TriedType /\ [FlagNext]_flagVars => TriedType'
  BY DEF FlagNext, flagVars, Poll, RefreshFlags, Visibility, FlagsChange, Tick, ServerAnswers, Replace, RefreshFails, Ended
<1>3. TriedType => RuntimesAgree
  BY VariantsAgree DEF RuntimesAgree
<1> QED BY <1>1, <1>2, <1>3, PTL DEF FlagSpec

(***************************************************************************)
(* Setup                                                                   *)
(***************************************************************************)

\* A secret key is in no variable of a client, and Next's variables have each their own.
Belongs(v, k) == (v \in ClientVariables => k # "secret") /\ (v = "SERVER in .env.local" => k # "public")

\* The installers put no key where it does not belong.
LEMMA InstallersKeys ==
  \A f \in Frameworks : \A v \in DOMAIN Installers[f].keys : \A k \in Installers[f].keys[v] : Belongs(v, k)
<1> SUFFICES ASSUME NEW f \in Frameworks, NEW v \in DOMAIN Installers[f].keys, NEW k \in Installers[f].keys[v]
             PROVE  Belongs(v, k)
  OBVIOUS
<1>1. CASE f = "next"
  <2>1. Installers[f] = InstallNext
    BY <1>1 DEF Installers
  <2>2. Installers[f].keys = [w \in {"NEXT_PUBLIC", "SERVER in .env.local"} |->
                                IF w = "NEXT_PUBLIC" THEN Public ELSE Secret]
    <3>1. InstallNext.keys = [w \in {"NEXT_PUBLIC", "SERVER in .env.local"} |->
                                IF w = "NEXT_PUBLIC" THEN Public ELSE Secret]
      BY DEF InstallNext
    <3> QED BY <2>1, <3>1
  <2>3. /\ v \in {"NEXT_PUBLIC", "SERVER in .env.local"}
        /\ k = IF v = "NEXT_PUBLIC" THEN "public" ELSE "secret"
    BY <2>2 DEF Public, Secret
  <2> QED BY <2>3 DEF Belongs, ClientVariables
<1>2. CASE f \in {"react", "react-native"}
  <2>1. Installers[f] \in {InstallReact, InstallReactNative}
    BY <1>2 DEF Installers
  <2>2. v \in {"VITE", "EXPO_PUBLIC"} /\ k = "public"
    BY <2>1 DEF InstallReact, InstallReactNative, Public
  <2> QED BY <2>2 DEF Belongs, ClientVariables
<1>3. CASE f = "svelte"
  <2>1. Installers[f] = InstallSvelte
    BY <1>3 DEF Installers
  <2>2. Installers[f].keys = [w \in {"PUBLIC", "SERVER in .env"} |-> IF w = "PUBLIC" THEN Public ELSE Placeholder]
    <3>1. InstallSvelte.keys = [w \in {"PUBLIC", "SERVER in .env"} |-> IF w = "PUBLIC" THEN Public ELSE Placeholder]
      BY DEF InstallSvelte
    <3> QED BY <2>1, <3>1
  <2>3. v \in {"PUBLIC", "SERVER in .env"} /\ k = "public"
    BY <2>2 DEF Public, Placeholder
  <2> QED BY <2>3 DEF Belongs, ClientVariables
<1>4. CASE f \in {"node", "express"}
  <2>1. Installers[f] \in {InstallNode, InstallExpress}
    BY <1>4 DEF Installers
  <2>2. Installers[f].keys = [w \in {"SERVER in .env"} |-> Public \cup Secret]
    <3>1. InstallNode.keys = [w \in {"SERVER in .env"} |-> Public \cup Secret]
      BY DEF InstallNode
    <3>2. InstallExpress.keys = [w \in {"SERVER in .env"} |-> Public \cup Secret]
      BY DEF InstallExpress
    <3> QED BY <2>1, <3>1, <3>2
  <2>3. v = "SERVER in .env"
    BY <2>2
  <2> QED BY <2>3 DEF Belongs, ClientVariables
<1> QED BY <1>1, <1>2, <1>3, <1>4 DEF Frameworks

SetupInv ==
  /\ layout \in [shape : {"none", "usual", "odd"}, providers : {0, 1}]
  /\ DOMAIN env = Variables
  /\ \A v \in Variables : env[v] = <<>> \/ \E k : env[v] = <<k>> /\ Belongs(v, k)
  /\ outcome = "running" => "framework" \in DOMAIN cli /\ cli.framework \in Frameworks

\* Initially the invariant holds.
LEMMA SetupInvInit == SetupInit => SetupInv
<1> SUFFICES ASSUME SetupInit PROVE SetupInv
  OBVIOUS
<1>1. /\ layout \in [shape : {"none", "usual", "odd"}, providers : {0}]
      /\ env = [v \in Variables |-> <<>>] /\ outcome = "idle"
  BY DEF SetupInit
<1>2. layout \in [shape : {"none", "usual", "odd"}, providers : {0, 1}]
  BY <1>1
<1> QED BY <1>1, <1>2 DEF SetupInv

\* A run starts.
LEMMA StartStep ==
  ASSUME SetupInv, NEW named, NEW answer, NEW key, NEW install, NEW agreed, NEW unpublished,
         StartRun(named, answer, key, install, agreed, unpublished)
  PROVE  SetupInv'
<1> DEFINE f == Framework(named, answer)
<1>1. UNCHANGED <<layout, env>>
  BY DEF StartRun, projectVars
<1>2. \/ outcome' = "stopped"
      \/ f \in Frameworks /\ cli' = [framework |-> f, key |-> key, install |-> install, left |-> Installers[f].writes]
  BY DEF StartRun, Stops
<1> HIDE DEF f
<1>3. outcome' = "running" => "framework" \in DOMAIN cli' /\ cli'.framework \in Frameworks
  BY <1>2
<1> QED BY <1>1, <1>3 DEF SetupInv

\* A write leaves the run what it is.
LEMMA WrittenKeeps ==
  ASSUME SetupInv, outcome = "running", Written
  PROVE  "framework" \in DOMAIN cli' /\ cli'.framework \in Frameworks
<1>1. cli' = [cli EXCEPT !.left = Tail(@)] /\ "framework" \in DOMAIN cli /\ cli.framework \in Frameworks
  BY DEF Written, SetupInv
<1>2. DOMAIN cli' = DOMAIN cli /\ cli'.framework = cli.framework
  BY <1>1, "framework" # "left"
<1> QED BY <1>1, <1>2

\* The installer writes.
LEMMA WriteStep ==
  ASSUME SetupInv,
         (\E x \in ModuleFiles : WriteModule(x)) \/ (\E x \in HookFiles : WriteHooks(x)) \/ PatchLayout \/ AppendEnv
  PROVE  SetupInv'
<1>1. outcome = "running" /\ Written
  BY DEF WriteModule, WriteHooks, PatchLayout, AppendEnv, Writing
<1>2. "framework" \in DOMAIN cli' /\ cli'.framework \in Frameworks
  BY <1>1, WrittenKeeps
<1>3. CASE (\E x \in ModuleFiles : WriteModule(x)) \/ (\E x \in HookFiles : WriteHooks(x))
  <2>1. UNCHANGED <<layout, env>>
    BY <1>3 DEF WriteModule, WriteHooks
  <2> QED BY <1>2, <2>1 DEF SetupInv
<1>4. CASE PatchLayout
  <2>1. /\ layout' = IF layout.shape = "usual" /\ ~ (layout.providers > 0)
                     THEN [layout EXCEPT !.providers = @ + 1] ELSE layout
        /\ env' = env
    BY <1>4 DEF PatchLayout, HasProvider
  <2>2. layout' \in [shape : {"none", "usual", "odd"}, providers : {0, 1}]
    BY <2>1 DEF SetupInv
  <2> QED BY <1>2, <2>1, <2>2 DEF SetupInv
<1>5. CASE AppendEnv
  <2>1. /\ layout' = layout
        /\ env' = [v \in Variables |->
                     IF v \in DOMAIN Installers[cli.framework].keys /\ env[v] = <<>>
                     THEN <<Entry(cli.framework, cli.key, v)>> ELSE env[v]]
    BY <1>5 DEF AppendEnv
  <2>2. ASSUME NEW v \in Variables PROVE env'[v] = <<>> \/ \E k : env'[v] = <<k>> /\ Belongs(v, k)
    <3>1. CASE env'[v] = env[v]
      BY <3>1 DEF SetupInv
    <3>2. CASE v \in DOMAIN Installers[cli.framework].keys /\ env'[v] = <<Entry(cli.framework, cli.key, v)>>
      <4>1. Belongs(v, "placeholder")
        BY DEF Belongs
      <4>2. cli.key \in Installers[cli.framework].keys[v] => Belongs(v, cli.key)
        BY <1>1, <3>2, InstallersKeys DEF SetupInv
      <4>3. Belongs(v, Entry(cli.framework, cli.key, v))
        BY <4>1, <4>2 DEF Entry
      <4> QED BY <3>2, <4>3
    <3> QED BY <2>1, <3>1, <3>2
  <2> QED BY <1>2, <2>1, <2>2 DEF SetupInv
<1> QED BY <1>3, <1>4, <1>5

\* A run stops.
LEMMA DoneStep ==
  ASSUME SetupInv, Interrupted \/ (\E ok \in BOOLEAN : FinishRun(ok)) \/ UNCHANGED setupVars
  PROVE  SetupInv'
<1>1. UNCHANGED <<layout, env>> /\ (outcome' # "running" \/ UNCHANGED <<outcome, cli>>)
  BY DEF Interrupted, FinishRun, Stops, setupVars, projectVars, runVars
<1> QED BY <1>1 DEF SetupInv

\* The developer edits.
LEMMA EditStep ==
  ASSUME SetupInv,
         \/ \E x \in Files : \E content \in {"own"} \cup WrittenFor(x) : WritesFile(x, content)
         \/ \E shape \in {"usual", "odd"} : WritesLayout(shape)
         \/ WrapsLayout
         \/ \E v \in Variables : SetsVariable(v)
  PROVE  SetupInv'
<1>1. outcome' = "idle"
  BY DEF WritesFile, WritesLayout, WrapsLayout, SetsVariable, Edit
<1>2. CASE \E x \in Files : \E content \in {"own"} \cup WrittenFor(x) : WritesFile(x, content)
  BY <1>1, <1>2 DEF WritesFile, SetupInv
<1>3. CASE (\E shape \in {"usual", "odd"} : WritesLayout(shape)) \/ WrapsLayout
  <2>1. env' = env
    BY <1>3 DEF WritesLayout, WrapsLayout
  <2>2. layout' \in [shape : {"none", "usual", "odd"}, providers : {0, 1}]
    BY <1>3 DEF WritesLayout, WrapsLayout, SetupInv
  <2> QED BY <1>1, <2>1, <2>2 DEF SetupInv
<1>4. CASE \E v \in Variables : SetsVariable(v)
  <2>1. PICK v \in Variables : SetsVariable(v)
    BY <1>4
  <2>2. env' = [env EXCEPT ![v] = <<"own">>] /\ layout' = layout
    BY <2>1 DEF SetsVariable
  <2>3. Belongs(v, "own")
    BY DEF Belongs
  <2>4. DOMAIN env' = Variables /\ env'[v] = <<"own">> /\ \A w \in Variables : w # v => env'[w] = env[w]
    BY <2>2 DEF SetupInv
  <2>5. \A w \in Variables : env'[w] = <<>> \/ \E k : env'[w] = <<k>> /\ Belongs(w, k)
    BY <2>3, <2>4 DEF SetupInv
  <2> QED BY <1>1, <2>2, <2>4, <2>5 DEF SetupInv
<1> QED BY <1>2, <1>3, <1>4

\* Every step keeps it.
LEMMA SetupInvStep == SetupInv /\ [SetupNext]_setupVars => SetupInv'
<1> SUFFICES ASSUME SetupInv, [SetupNext]_setupVars PROVE SetupInv'
  OBVIOUS
<1>1. \/ \E named, answer \in Arguments, key \in Keys, install, agreed \in BOOLEAN, unpublished \in {{}, {"node"}} :
           StartRun(named, answer, key, install, agreed, unpublished)
      \/ (\E x \in ModuleFiles : WriteModule(x)) \/ (\E x \in HookFiles : WriteHooks(x)) \/ PatchLayout \/ AppendEnv
      \/ Interrupted \/ (\E ok \in BOOLEAN : FinishRun(ok)) \/ UNCHANGED setupVars
      \/ \E x \in Files : \E content \in {"own"} \cup WrittenFor(x) : WritesFile(x, content)
      \/ \E shape \in {"usual", "odd"} : WritesLayout(shape)
      \/ WrapsLayout
      \/ \E v \in Variables : SetsVariable(v)
  BY DEF SetupNext
<1> QED BY <1>1, StartStep, WriteStep, DoneStep, EditStep

\* However often create-watchup runs, fails and is interrupted, for whatever
\* frameworks, and whatever the developer does in between: one provider, one entry
\* of a variable, no secret key in a variable that is bundled into client code, and no
\* public key in the server's variable of .env.local (create-watchup/README.md:11, 24).
THEOREM SetsUpOnce == SetupSpec => []SetupOnce
<1>1. SetupInv => SetupOnce
  <2> SUFFICES ASSUME SetupInv PROVE SetupOnce
    OBVIOUS
  <2>1. layout.providers <= 1
    BY DEF SetupInv
  <2>2. ASSUME NEW v \in Variables
        PROVE  /\ Len(env[v]) <= 1
               /\ v \in ClientVariables => env[v] # <<"secret">>
               /\ v = "SERVER in .env.local" => env[v] # <<"public">>
    <3>1. CASE env[v] = <<>>
      <4>1. Len(<<>>) = 0 /\ <<>> # <<"secret">> /\ <<>> # <<"public">>
        OBVIOUS
      <4> QED BY <3>1, <4>1
    <3>2. CASE \E k : env[v] = <<k>> /\ Belongs(v, k)
      <4>1. PICK k : env[v] = <<k>> /\ Belongs(v, k)
        BY <3>2
      <4>2. Len(<<k>>) = 1 /\ (<<k>> = <<"secret">> => k = "secret") /\ (<<k>> = <<"public">> => k = "public")
        OBVIOUS
      <4>3. Len(env[v]) <= 1
        BY <4>1, <4>2
      <4>4. v \in ClientVariables => env[v] # <<"secret">>
        BY <4>1, <4>2 DEF Belongs
      <4>5. v = "SERVER in .env.local" => env[v] # <<"public">>
        BY <4>1, <4>2 DEF Belongs
      <4> QED BY <4>3, <4>4, <4>5
    <3> QED BY <3>1, <3>2 DEF SetupInv
  <2>3. ClientVariables \subseteq Variables /\ "SERVER in .env.local" \in Variables
    BY DEF Variables
  <2> QED BY <2>1, <2>2, <2>3 DEF SetupOnce
<1> QED BY <1>1, SetupInvInit, SetupInvStep, PTL DEF SetupSpec

(***************************************************************************)
(* A run that completes                                                    *)
(***************************************************************************)

\* What an installer writes.
WriteNames == Files \cup {"layout", "env"}

RunType ==
  [framework : Frameworks, key : Keys, install : BOOLEAN, left : Seq(WriteNames)]

\* A write of the run that is done has left what it is to leave.
Settled(x) ==
  IF x = "env" THEN \A v \in Installers[cli.framework].reads : env[v] # <<>> ELSE InPlace(x)

\* A file is the developer's or that of a framework which writes it; of a run that was
\* not stopped every write is still to come or done.
RunInv ==
  /\ DOMAIN files = Files
  /\ \A x \in Files : files[x] \in {"none", "own"} \cup WrittenFor(x)
  /\ outcome \in {"running", "complete"} =>
       /\ cli \in RunType
       /\ Range(cli.left) \subseteq Range(Installers[cli.framework].writes)
       /\ \A x \in Range(Installers[cli.framework].writes) : x \in Range(cli.left) \/ Settled(x)
       /\ NotesFor(cli.framework, cli.key) \subseteq notes
  /\ outcome = "complete" =>
       /\ cli.left = <<>>
       /\ cli.install => Installers[cli.framework].imports \subseteq packages

CompleteInv == SetupInv /\ RunInv

\* What the installers have in common.
LEMMA InstallersShape ==
  ASSUME NEW f \in Frameworks
  PROVE  /\ Installers[f].writes \in Seq(WriteNames)
         /\ Installers[f].reads \subseteq DOMAIN Installers[f].keys
         /\ Installers[f].reads \subseteq Variables
         /\ Installers[f].imports \subseteq Installers[f].packages
         /\ "env" \in Range(Installers[f].writes)
         /\ "instrumentation" \in Range(Installers[f].writes) => f = "next"
<1> DEFINE Shape(r) ==
      /\ r.writes \in Seq(WriteNames)
      /\ r.reads \subseteq DOMAIN r.keys /\ r.reads \subseteq Variables
      /\ r.imports \subseteq r.packages
      /\ "env" \in Range(r.writes)
<1>1. /\ Shape(InstallNext)
  BY DEF InstallNext, WriteNames, Files, ModuleFiles, HookFiles, Variables, ClientVariables, Range
<1>2. /\ Shape(InstallReact) /\ "instrumentation" \notin Range(InstallReact.writes)
  BY DEF InstallReact, WriteNames, Files, ModuleFiles, HookFiles, Variables, ClientVariables, Range
<1>3. /\ Shape(InstallReactNative) /\ "instrumentation" \notin Range(InstallReactNative.writes)
  BY DEF InstallReactNative, WriteNames, Files, ModuleFiles, HookFiles, Variables, ClientVariables, Range
<1>4. /\ Shape(InstallSvelte) /\ "instrumentation" \notin Range(InstallSvelte.writes)
  BY DEF InstallSvelte, WriteNames, Files, ModuleFiles, HookFiles, Variables, ClientVariables, Range
<1>5. /\ Shape(InstallNode) /\ "instrumentation" \notin Range(InstallNode.writes)
  BY DEF InstallNode, WriteNames, Files, ModuleFiles, HookFiles, Variables, ClientVariables, Range
<1>6. /\ Shape(InstallExpress) /\ "instrumentation" \notin Range(InstallExpress.writes)
  BY DEF InstallExpress, WriteNames, Files, ModuleFiles, HookFiles, Variables, ClientVariables, Range
<1> HIDE DEF Shape
<1>7. Shape(Installers[f]) /\ ("instrumentation" \in Range(Installers[f].writes) => f = "next")
  <2>1. CASE f = "next"
    BY <2>1, <1>1 DEF Installers
  <2>2. CASE f = "react"
    BY <2>2, <1>2 DEF Installers
  <2>3. CASE f = "react-native"
    BY <2>3, <1>3 DEF Installers
  <2>4. CASE f = "svelte"
    BY <2>4, <1>4 DEF Installers
  <2>5. CASE f = "node"
    BY <2>5, <1>5 DEF Installers
  <2>6. CASE f = "express"
    BY <2>6, <1>6 DEF Installers
  <2> QED BY <2>1, <2>2, <2>3, <2>4, <2>5, <2>6 DEF Frameworks
<1> QED BY <1>7 DEF Shape

\* What a sequence holds, its head and its tail hold.
LEMMA HeadAndTail ==
  ASSUME NEW S, NEW s \in Seq(S), s # <<>>
  PROVE  Tail(s) \in Seq(S) /\ Head(s) \in S /\ Range(s) = {Head(s)} \cup Range(Tail(s))
<1>1. /\ Len(s) \in Nat /\ Len(s) > 0 /\ DOMAIN s = 1 .. Len(s) /\ Head(s) = s[1] /\ Head(s) \in S
      /\ Tail(s) \in Seq(S) /\ Len(Tail(s)) = Len(s) - 1 /\ DOMAIN Tail(s) = 1 .. Len(Tail(s))
      /\ \A i \in 1 .. Len(Tail(s)) : Tail(s)[i] = s[i + 1]
  OBVIOUS
<1>2. ASSUME NEW i \in DOMAIN s PROVE s[i] \in {Head(s)} \cup Range(Tail(s))
  <2>1. CASE i = 1
    BY <2>1, <1>1
  <2>2. CASE i # 1
    <3>1. i - 1 \in DOMAIN Tail(s) /\ Tail(s)[i - 1] = s[i]
      BY <2>2, <1>1
    <3> QED BY <3>1 DEF Range
  <2> QED BY <2>1, <2>2
<1>3. ASSUME NEW i \in DOMAIN Tail(s) PROVE Tail(s)[i] \in Range(s)
  <2>1. i + 1 \in DOMAIN s /\ s[i + 1] = Tail(s)[i]
    BY <1>1
  <2> QED BY <2>1 DEF Range
<1>4. Head(s) \in Range(s)
  BY <1>1 DEF Range
<1> QED BY <1>1, <1>2, <1>3, <1>4 DEF Range

\* A write takes itself off what is left, and leaves the run what it is.
LEMMA WriteSettles ==
  ASSUME CompleteInv, NEW x, Writing(x), Written,
         DOMAIN files' = Files, \A y \in Files : files'[y] \in {"none", "own"} \cup WrittenFor(y),
         \A y \in WriteNames : Settled(y) => Settled(y)',
         Settled(x)', notes \subseteq notes'
  PROVE  RunInv'
<1>1. /\ outcome = "running" /\ outcome' = "running"
      /\ cli.left # <<>> /\ Head(cli.left) = x /\ cli' = [cli EXCEPT !.left = Tail(@)]
  BY DEF Writing, Written
<1>2. /\ cli \in RunType
      /\ Range(cli.left) \subseteq Range(Installers[cli.framework].writes)
      /\ \A y \in Range(Installers[cli.framework].writes) : y \in Range(cli.left) \/ Settled(y)
      /\ NotesFor(cli.framework, cli.key) \subseteq notes
  BY <1>1 DEF CompleteInv, RunInv
<1>3. cli.left \in Seq(WriteNames) /\ cli.framework \in Frameworks
  BY <1>2 DEF RunType
<1>4. /\ Tail(cli.left) \in Seq(WriteNames)
      /\ Range(cli.left) = {x} \cup Range(Tail(cli.left))
  BY <1>1, <1>3, HeadAndTail
<1>5. cli' \in RunType /\ cli'.left = Tail(cli.left) /\ cli'.framework = cli.framework
  BY <1>1, <1>2, <1>4 DEF RunType
<1>6. ASSUME NEW y \in Range(Installers[cli.framework].writes)
      PROVE  y \in Range(cli'.left) \/ Settled(y)'
  <2>1. y \in WriteNames
    <3>1. Installers[cli.framework].writes \in Seq(WriteNames)
      BY <1>3, InstallersShape
    <3>2. PICK i \in DOMAIN Installers[cli.framework].writes : y = Installers[cli.framework].writes[i]
      BY DEF Range
    <3> QED BY <3>1, <3>2
  <2>2. y \in Range(cli.left) \/ Settled(y)
    BY <1>2
  <2>3. CASE y = x
    BY <2>3
  <2>4. CASE y # x
    BY <2>1, <2>2, <2>4, <1>4, <1>5
  <2> QED BY <2>3, <2>4
<1>7. Range(cli'.left) \subseteq Range(Installers[cli'.framework].writes)
  BY <1>2, <1>4, <1>5
<1>8. \A y \in Files : (WrittenFor(y))' = WrittenFor(y)
  BY DEF WrittenFor
<1>9. outcome' # "complete"
  BY <1>1
<1>10. NotesFor(cli'.framework, cli'.key) \subseteq notes'
  <2>1. cli'.key = cli.key
    BY <1>1, <1>2 DEF RunType
  <2> QED BY <1>2, <1>5, <2>1
<1> QED BY <1>5, <1>6, <1>7, <1>8, <1>9, <1>10 DEF RunInv

\* What is settled stays so while files, entries and notes only come to be, and the
\* layout keeps its provider.
LEMMA SettledStays ==
  ASSUME NEW y, Settled(y), cli'.framework = cli.framework, notes \subseteq notes',
         \A z \in Files : files[z] # "none" => files'[z] = files[z],
         \A v \in Variables : env[v] # <<>> => env'[v] # <<>>,
         layout'.shape = layout.shape, layout.providers = 1 => layout'.providers = 1,
         y \in WriteNames, cli.framework \in Frameworks, "none" \notin Frameworks
  PROVE  Settled(y)'
<1>1. CASE y = "env"
  BY <1>1, InstallersShape DEF Settled
<1>2. ASSUME y # "env" PROVE InPlace(y)'
  <2>1. Told(y) => Told(y)'
    BY DEF Told
  <2>2. CASE y = "layout"
    BY <1>2, <2>1, <2>2 DEF Settled, InPlace
  <2>3. CASE y # "layout"
    <3>1. y \in Files
      BY <1>2, <2>3 DEF WriteNames
    <3> QED BY <1>2, <2>1, <2>3, <3>1 DEF Settled, InPlace
  <2> QED BY <2>2, <2>3
<1> QED BY <1>1, <1>2 DEF Settled

\* A write of the installer keeps the account of a run.
LEMMA WriteCompletes ==
  ASSUME CompleteInv,
         (\E x \in ModuleFiles : WriteModule(x)) \/ (\E x \in HookFiles : WriteHooks(x)) \/ PatchLayout \/ AppendEnv
  PROVE  RunInv'
<1>1. Written /\ outcome = "running"
  BY DEF WriteModule, WriteHooks, PatchLayout, AppendEnv, Writing
<1>2. /\ cli \in RunType /\ cli.framework \in Frameworks /\ cli.left \in Seq(WriteNames)
      /\ Range(cli.left) \subseteq Range(Installers[cli.framework].writes)
  BY <1>1 DEF CompleteInv, RunInv, RunType
<1>3. cli' = [cli EXCEPT !.left = Tail(@)] /\ cli'.framework = cli.framework
  BY <1>1, <1>2 DEF Written, RunType
<1>4. /\ DOMAIN files = Files /\ \A y \in Files : files[y] \in {"none", "own"} \cup WrittenFor(y)
      /\ layout \in [shape : {"none", "usual", "odd"}, providers : {0, 1}] /\ DOMAIN env = Variables
  BY DEF CompleteInv, RunInv, SetupInv
<1>5. "none" \notin Frameworks /\ "own" \notin Frameworks
  BY DEF Frameworks
\* The file x is written if it is missing.
<1>6. ASSUME NEW x \in Files, Writing(x), WriteIfMissing(x)
      PROVE  /\ DOMAIN files' = Files
             /\ \A y \in Files : files'[y] \in {"none", "own"} \cup WrittenFor(y)
             /\ \A y \in Files : files[y] # "none" => files'[y] = files[y]
             /\ files[x] = "none" => files'[x] = cli.framework
             /\ files'[x] # "none"
             /\ x \in Range(Installers[cli.framework].writes)
  <2>1. files' = [files EXCEPT ![x] = IF @ = "none" THEN cli.framework ELSE @]
    BY <1>6 DEF WriteIfMissing
  <2>2. x \in Range(Installers[cli.framework].writes)
    <3>1. cli.left # <<>> /\ Head(cli.left) = x
      BY <1>6 DEF Writing
    <3>2. Range(cli.left) = {x} \cup Range(Tail(cli.left))
      BY <1>2, <3>1, HeadAndTail
    <3> QED BY <1>2, <3>2
  <2>3. cli.framework \in WrittenFor(x)
    BY <1>2, <2>2 DEF WrittenFor, Range
  <2>4. files'[x] = IF files[x] = "none" THEN cli.framework ELSE files[x]
    BY <2>1, <1>4
  <2>5. \A y \in Files : y # x => files'[y] = files[y]
    BY <2>1, <1>4
  <2> QED BY <1>2, <1>4, <1>5, <2>1, <2>2, <2>3, <2>4, <2>5
<1>7. CASE \E x \in ModuleFiles : WriteModule(x)
  <2>1. PICK x \in ModuleFiles : WriteModule(x)
    BY <1>7
  <2>2. /\ Writing(x) /\ WriteIfMissing(x) /\ UNCHANGED <<layout, env>> /\ x \in Files
        /\ notes' = notes \cup
             (IF x = "WatchupInit" THEN {}
              ELSE IF files[x] = "none" THEN {<<"use", x>>} ELSE {<<"unchanged", x>>})
    BY <2>1 DEF WriteModule, Files
  <2>3. \A y \in WriteNames : Settled(y) => Settled(y)'
    BY <1>2, <1>3, <1>5, <1>6, <2>2, SettledStays
  <2>4. x # "env" /\ x # "layout"
    BY DEF ModuleFiles
  <2>5. files'[x] = cli'.framework \/ x = "WatchupInit" \/ Told(x)'
    <3>1. CASE files[x] = "none"
      BY <3>1, <1>3, <1>6, <2>2
    <3>2. CASE files[x] # "none" /\ x # "WatchupInit"
      BY <3>2, <2>2 DEF Told
    <3> QED BY <3>1, <3>2
  <2>6. files'[x] # "none"
    BY <1>6, <2>2
  <2>7. Settled(x)'
    BY <2>4, <2>5, <2>6 DEF Settled, InPlace
  <2> QED BY <1>1, <1>6, <2>2, <2>3, <2>7, WriteSettles
<1>8. CASE \E x \in HookFiles : WriteHooks(x)
  <2>1. PICK x \in HookFiles : WriteHooks(x)
    BY <1>8
  <2>2. /\ Writing(x) /\ WriteIfMissing(x) /\ UNCHANGED <<layout, env>> /\ x \in Files
        /\ notes' = notes \cup HookNote(x)
    BY <2>1 DEF WriteHooks, Files
  <2>3. \A y \in WriteNames : Settled(y) => Settled(y)'
    BY <1>2, <1>3, <1>5, <1>6, <2>2, SettledStays
  <2>4. x # "env" /\ x # "layout"
    BY DEF HookFiles
  <2>5. files'[x] = cli'.framework \/ Told(x)'
    <3>1. CASE files[x] = "none"
      BY <3>1, <1>3, <1>6, <2>2
    <3>2. CASE files[x] = "own" \/ (files[x] # "none" /\ x = "hooks")
      BY <3>2, <2>2 DEF Told, HookNote
    <3>3. CASE files[x] # "none" /\ files[x] # "own" /\ x = "instrumentation"
      <4>1. files[x] \in WrittenFor(x)
        BY <1>4, <2>2, <3>3
      <4>2. files[x] = "next"
        BY <4>1, <3>3, InstallersShape DEF WrittenFor, Range
      <4>3. cli.framework = "next"
        BY <1>2, <1>6, <2>2, <3>3, InstallersShape
      <4> QED BY <1>3, <1>6, <2>2, <3>3, <4>2, <4>3
    <3> QED BY <3>1, <3>2, <3>3 DEF HookFiles
  <2>6. files'[x] # "none"
    BY <1>6, <2>2
  <2>7. Settled(x)'
    BY <2>4, <2>5, <2>6 DEF Settled, InPlace
  <2> QED BY <1>1, <1>6, <2>2, <2>3, <2>7, WriteSettles
<1>9. CASE PatchLayout
  <2>1. /\ Writing("layout") /\ UNCHANGED <<files, env>>
        /\ layout' = IF layout.shape = "usual" /\ ~ (layout.providers > 0)
                     THEN [layout EXCEPT !.providers = @ + 1] ELSE layout
        /\ notes' = IF layout.shape = "none" THEN notes \cup {<<"add", "layout">>} ELSE notes
    BY <1>9 DEF PatchLayout, HasProvider
  <2>2. layout'.shape = layout.shape /\ (layout.providers = 1 => layout'.providers = 1)
    BY <1>4, <2>1
  <2>3. \A y \in WriteNames : Settled(y) => Settled(y)'
    BY <1>2, <1>3, <1>5, <2>1, <2>2, SettledStays
  <2>4. (layout'.shape = "usual" => layout'.providers = 1) /\ (layout'.shape = "none" => Told("layout")')
    <3>1. CASE layout.shape = "none"
      BY <3>1, <2>1 DEF Told
    <3>2. CASE layout.shape = "usual"
      BY <3>2, <1>4, <2>1
    <3>3. CASE layout.shape = "odd"
      BY <3>3, <2>2
    <3> QED BY <1>4, <3>1, <3>2, <3>3
  <2>5. Settled("layout")'
    BY <2>4 DEF Settled, InPlace
  <2> QED BY <1>1, <1>4, <2>1, <2>3, <2>5, WriteSettles
<1>10. CASE AppendEnv
  <2>1. /\ Writing("env") /\ UNCHANGED <<files, layout, notes>>
        /\ env' = [v \in Variables |->
                     IF v \in DOMAIN Installers[cli.framework].keys /\ env[v] = <<>>
                     THEN <<Entry(cli.framework, cli.key, v)>> ELSE env[v]]
    BY <1>10 DEF AppendEnv
  <2>2. \A k : <<k>> # <<>>
    OBVIOUS
  <2>3. \A v \in Variables : env[v] # <<>> => env'[v] # <<>>
    BY <2>1
  <2>4. \A v \in Variables : v \in DOMAIN Installers[cli.framework].keys => env'[v] # <<>>
    BY <2>1, <2>2
  <2>5. \A y \in WriteNames : Settled(y) => Settled(y)'
    BY <1>2, <1>3, <1>5, <2>1, <2>3, SettledStays
  <2>6. Settled("env")'
    BY <1>2, <1>3, <2>4, InstallersShape DEF Settled
  <2> QED BY <1>1, <1>4, <2>1, <2>5, <2>6, WriteSettles
<1> QED BY <1>7, <1>8, <1>9, <1>10

\* So does every other step.
LEMMA OtherCompletes ==
  ASSUME CompleteInv, [SetupNext]_setupVars,
         ~ ((\E x \in ModuleFiles : WriteModule(x)) \/ (\E x \in HookFiles : WriteHooks(x)) \/ PatchLayout \/ AppendEnv)
  PROVE  RunInv'
<1>0. /\ DOMAIN files = Files /\ \A x \in Files : files[x] \in {"none", "own"} \cup WrittenFor(x)
      /\ \A y \in Files : (WrittenFor(y))' = WrittenFor(y)
  BY DEF CompleteInv, RunInv, WrittenFor
<1>1. ASSUME NEW named \in Arguments, NEW answer \in Arguments, NEW key \in Keys, NEW install \in BOOLEAN,
             NEW agreed \in BOOLEAN, NEW unpublished \in {{}, {"node"}},
             StartRun(named, answer, key, install, agreed, unpublished)
      PROVE  RunInv'
  <2> DEFINE f == Framework(named, answer)
             r == [framework |-> f, key |-> key, install |-> install, left |-> Installers[f].writes]
  <2>1. files' = files
    BY <1>1 DEF StartRun, projectVars
  <2>2. \/ outcome' = "stopped"
        \/ outcome' = "running" /\ f \in Frameworks /\ cli' = r
    BY <1>1 DEF StartRun, Stops
  <2> HIDE DEF f
  <2>3. CASE outcome' = "stopped"
    BY <1>0, <2>1, <2>3 DEF RunInv
  <2>4. CASE outcome' = "running" /\ f \in Frameworks /\ cli' = r
    <3>1. Installers[f].writes \in Seq(WriteNames)
      BY <2>4, InstallersShape
    <3>2. cli' \in RunType /\ cli'.framework = f /\ cli'.key = key /\ cli'.left = Installers[f].writes
      BY <2>4, <3>1 DEF RunType
    <3>3. notes' = NotesFor(f, key)
      BY <1>1, <2>4 DEF StartRun, Stops, f
    <3> QED BY <1>0, <2>1, <2>4, <3>2, <3>3 DEF RunInv
  <2> QED BY <2>2, <2>3, <2>4
<1>2. CASE Interrupted
  <2>1. files' = files /\ outcome' = "stopped"
    BY <1>2 DEF Interrupted, Stops, projectVars
  <2> QED BY <1>0, <2>1 DEF RunInv
<1>3. ASSUME NEW ok \in BOOLEAN, FinishRun(ok)
      PROVE  RunInv'
  <2>1. outcome = "running" /\ cli.left = <<>> /\ UNCHANGED <<files, layout, env>>
    BY <1>3 DEF FinishRun
  <2>2. CASE ok
    <3>1. outcome' = "complete" /\ UNCHANGED <<cli, notes>>
      BY <1>3, <2>2 DEF FinishRun
    <3>2. cli \in RunType /\ cli.framework \in Frameworks
      BY <2>1 DEF CompleteInv, RunInv, RunType
    <3>3. cli.install => Installers[cli.framework].imports \subseteq packages'
      BY <1>3, <2>2, <3>2, InstallersShape DEF FinishRun, InstallPackages
    <3>4. \A x : Settled(x) => Settled(x)'
      BY <2>1, <3>1 DEF Settled, InPlace, Told
    <3> QED BY <1>0, <2>1, <3>1, <3>3, <3>4 DEF CompleteInv, RunInv
  <2>3. CASE ~ ok
    <3>1. outcome' = "stopped"
      BY <1>3, <2>3 DEF FinishRun, Stops
    <3> QED BY <1>0, <2>1, <3>1 DEF RunInv
  <2> QED BY <2>2, <2>3
<1>4. ASSUME NEW x \in Files, NEW content \in {"own"} \cup WrittenFor(x), WritesFile(x, content)
      PROVE  RunInv'
  <2>1. files' = [files EXCEPT ![x] = content] /\ outcome' = "idle"
    BY <1>4 DEF WritesFile, Edit
  <2> QED BY <1>0, <2>1 DEF RunInv
<1>5. CASE \/ \E shape \in {"usual", "odd"} : WritesLayout(shape)
           \/ WrapsLayout
           \/ \E v \in Variables : SetsVariable(v)
  <2>1. files' = files /\ outcome' = "idle"
    BY <1>5 DEF WritesLayout, WrapsLayout, SetsVariable, Edit
  <2> QED BY <1>0, <2>1 DEF RunInv
<1>6. CASE UNCHANGED setupVars
  BY <1>6 DEF CompleteInv, RunInv, Settled, InPlace, Told, WrittenFor, setupVars, projectVars, runVars
<1> QED BY <1>1, <1>2, <1>3, <1>4, <1>5, <1>6 DEF SetupNext

\* What Next's and SvelteKit's files read is named in the notes unless its key was given.
LEMMA ReadsNoted ==
  ASSUME NEW f \in {"next", "svelte"}, NEW v \in Installers[f].reads, NEW key \in Keys
  PROVE  <<"set", v>> \in NotesFor(f, key) \/ key \in Installers[f].keys[v]
<1>0. \A n : <<key, n>> \in Installers[f].notes => n \in NotesFor(f, key)
  BY DEF NotesFor
<1>1. CASE f = "next"
  <2>1. Installers[f] = InstallNext
    BY <1>1 DEF Installers, Frameworks
  <2>2. InstallNext.reads = {"NEXT_PUBLIC", "SERVER in .env.local"}
    BY DEF InstallNext
  <2>3. InstallNext.keys = [w \in {"NEXT_PUBLIC", "SERVER in .env.local"} |->
                              IF w = "NEXT_PUBLIC" THEN Public ELSE Secret]
    BY DEF InstallNext
  <2>4. InstallNext.notes = {<<k, <<"set", "SERVER in .env.local">>>> : k \in {"none", "public"}}
                            \cup {<<k, <<"set", "NEXT_PUBLIC">>>> : k \in {"none", "secret"}}
    BY DEF InstallNext
  <2>5. CASE v = "NEXT_PUBLIC"
    <3>1. CASE key = "public"
      BY <2>1, <2>3, <2>5, <3>1 DEF Public
    <3>2. CASE key \in {"none", "secret"}
      <4>1. <<key, <<"set", v>>>> \in InstallNext.notes
        BY <2>4, <2>5, <3>2
      <4> QED BY <1>0, <2>1, <4>1
    <3> QED BY <3>1, <3>2 DEF Keys
  <2>6. CASE v = "SERVER in .env.local"
    <3>1. CASE key = "secret"
      BY <2>1, <2>3, <2>6, <3>1 DEF Secret
    <3>2. CASE key \in {"none", "public"}
      <4>1. <<key, <<"set", v>>>> \in InstallNext.notes
        BY <2>4, <2>6, <3>2
      <4> QED BY <1>0, <2>1, <4>1
    <3> QED BY <3>1, <3>2 DEF Keys
  <2> QED BY <2>1, <2>2, <2>5, <2>6
<1>2. CASE f = "svelte"
  <2>1. Installers[f] = InstallSvelte
    BY <1>2 DEF Installers, Frameworks
  <2>2. InstallSvelte.reads = {"SERVER in .env"}
    BY DEF InstallSvelte
  <2>3. InstallSvelte.notes = Keys \X {<<"use", "provider">>, <<"set", "SERVER in .env">>}
    BY DEF InstallSvelte
  <2>4. <<key, <<"set", v>>>> \in InstallSvelte.notes
    BY <2>1, <2>2, <2>3
  <2> QED BY <1>0, <2>1, <2>4
<1> QED BY <1>1, <1>2

\* When create-watchup says that the setup is complete (create-watchup/src/index.js),
\* every file other than Next's component is there and made for the framework or named
\* in the notes, a layout of the usual shape has its provider and a missing one is
\* named, what the files read has an entry, noted in Next and SvelteKit if it is a
\* placeholder for a key that was not given, and what they import is installed,
\* however many runs came before and wherever they stopped.
THEOREM CompletesOrTells == SetupSpec => []SetupCompletes
<1>1. SetupInit => RunInv
  BY DEF SetupInit, RunInv
<1>2. CompleteInv /\ [SetupNext]_setupVars => CompleteInv'
  BY WriteCompletes, OtherCompletes, SetupInvStep DEF CompleteInv
<1>3. CompleteInv => SetupCompletes
  <2> SUFFICES ASSUME CompleteInv, outcome = "complete"
               PROVE  LET installer == Installers[cli.framework] IN
                      /\ \A i \in DOMAIN installer.writes : installer.writes[i] # "env" => InPlace(installer.writes[i])
                      /\ \A v \in installer.reads :
                           /\ env[v] # <<>>
                           /\ cli.framework \in {"next", "svelte"} /\ env[v] = <<"placeholder">> => Noted(v)
                      /\ cli.install => installer.imports \subseteq packages
    BY DEF SetupCompletes
  <2>1. Range(cli.left) = {}
    <3>1. cli.left = <<>>
      BY DEF CompleteInv, RunInv
    <3> QED BY <3>1 DEF Range
  <2>2. \A x \in Range(Installers[cli.framework].writes) : Settled(x)
    BY <2>1 DEF CompleteInv, RunInv
  <2>3. \A i \in DOMAIN Installers[cli.framework].writes : Installers[cli.framework].writes[i] \in Range(Installers[cli.framework].writes)
    BY DEF Range
  <2>4. cli.framework \in Frameworks /\ cli.key \in Keys
    BY DEF CompleteInv, RunInv, RunType
  <2>5. "env" \in Range(Installers[cli.framework].writes)
    BY <2>4, InstallersShape
  <2>6. ASSUME cli.framework \in {"next", "svelte"}, NEW v \in Installers[cli.framework].reads
        PROVE  Noted(v)
    <3>1. NotesFor(cli.framework, cli.key) \subseteq notes
      BY DEF CompleteInv, RunInv
    <3> QED BY <2>4, <2>6, <3>1, ReadsNoted DEF Noted
  <2> QED BY <2>2, <2>3, <2>5, <2>6 DEF CompleteInv, RunInv, Settled
<1> QED BY <1>1, <1>2, <1>3, SetupInvInit, PTL DEF SetupSpec, CompleteInv
(***************************************************************************)
(* AutoCapture: what a call runs through                                   *)
(***************************************************************************)

\* f[i] is what wrapper i runs through, when wrapper j calls inner[j].
Falls(n, inner, f) == f = [i \in 0 .. n |-> IF i = 0 THEN {} ELSE {i} \cup f[inner[i]]]

\* A wrapper calls one that is older, or the platform's own function.
Downward(n, inner) == n \in Nat /\ \A i \in 1 .. n : inner[i] \in 0 .. i - 1

\* What goes down from each number exists.
LEMMA FallsExist ==
  ASSUME NEW n, NEW inner, Downward(n, inner)
  PROVE  \E f : Falls(n, inner, f)
<1> DEFINE W == {k \in 0 .. n : ~ \E f : Falls(k, inner, f)}
<1>1. SUFFICES ASSUME W # {} PROVE FALSE
  BY DEF Downward
<1>2. PICK x \in W : \A y \in W : x <= y
  <2>1. W \in SUBSET Nat
    BY DEF Downward
  <2> HIDE DEF W
  <2> QED BY <1>1, <2>1, LeastOf
<1>3. x \in 0 .. n /\ n \in Nat /\ \A i \in 1 .. n : inner[i] \in 0 .. i - 1
  BY DEF Downward
<1>4. x # 0
  <2> SUFFICES ASSUME x = 0 PROVE FALSE
    OBVIOUS
  <2> DEFINE f == [i \in 0 .. 0 |-> {}]
  <2>1. Falls(x, inner, f)
    BY DEF Falls
  <2> QED BY <2>1
<1>5. PICK f : Falls(x - 1, inner, f)
  <2>1. x - 1 \in 0 .. n /\ ~ (x <= x - 1)
    BY <1>3, <1>4
  <2> QED BY <1>2, <2>1
<1> DEFINE g == [i \in 0 .. x |-> IF i = x THEN {x} \cup f[inner[x]] ELSE f[i]]
<1>6. Falls(x, inner, g)
  <2>1. \A i \in 0 .. x : g[i] = IF i = 0 THEN {} ELSE {i} \cup g[inner[i]]
    <3> TAKE i \in 0 .. x
    <3>1. CASE i = x
      <4>1. inner[i] \in 0 .. x - 1 /\ inner[i] # x /\ i # 0
        BY <1>3, <1>4, <3>1
      <4> QED BY <1>3, <3>1, <4>1
    <3>2. CASE i # x
      <4>1. i \in 0 .. x - 1 /\ g[i] = f[i]
        BY <1>3, <3>2
      <4>2. f[i] = IF i = 0 THEN {} ELSE {i} \cup f[inner[i]]
        <5> HIDE DEF g
        <5> QED BY <1>5, <4>1 DEF Falls
      <4>3. i # 0 => inner[i] \in 0 .. x /\ inner[i] # x
        BY <1>3, <3>2
      <4> QED BY <4>1, <4>2, <4>3
    <3> QED BY <3>1, <3>2
  <2>2. g = [i \in 0 .. x |-> g[i]]
    OBVIOUS
  <2> HIDE DEF g
  <2>3. g = [i \in 0 .. x |-> IF i = 0 THEN {} ELSE {i} \cup g[inner[i]]]
    BY <2>1, <2>2
  <2> QED BY <2>3 DEF Falls
<1> QED BY <1>6

\* A wrapper runs through itself and older ones.
LEMMA FallsBound ==
  ASSUME NEW n, NEW inner, NEW f, Downward(n, inner), Falls(n, inner, f)
  PROVE  \A i \in 0 .. n : f[i] \subseteq 1 .. i
<1> DEFINE W == {k \in 0 .. n : ~ (f[k] \subseteq 1 .. k)}
<1>1. SUFFICES ASSUME W # {} PROVE FALSE
  BY DEF Downward
<1>2. PICK x \in W : \A y \in W : x <= y
  <2>1. W \in SUBSET Nat
    BY DEF Downward
  <2> HIDE DEF W
  <2> QED BY <1>1, <2>1, LeastOf
<1>3. x \in 0 .. n /\ n \in Nat /\ (x # 0 => inner[x] \in 0 .. x - 1)
  BY DEF Downward
<1>4. f[x] = IF x = 0 THEN {} ELSE {x} \cup f[inner[x]]
  BY <1>3 DEF Falls
<1>5. CASE x = 0
  BY <1>2, <1>4, <1>5
<1>6. CASE x # 0
  <2>1. inner[x] \in 0 .. n /\ ~ (x <= inner[x])
    BY <1>3, <1>6
  <2>2. f[inner[x]] \subseteq 1 .. inner[x]
    BY <1>2, <2>1
  <2>3. {x} \cup f[inner[x]] \subseteq 1 .. x
    BY <1>3, <1>6, <2>1, <2>2
  <2> QED BY <1>2, <1>4, <1>6, <2>3
<1> QED BY <1>5, <1>6

\* Newer wrappers change nothing of what the older ones run through.
LEMMA FallsAgree ==
  ASSUME NEW n, NEW inner, NEW f, Downward(n, inner), Falls(n, inner, f),
         NEW m, NEW outer, NEW g, Downward(m, outer), Falls(m, outer, g),
         n <= m, \A i \in 1 .. n : outer[i] = inner[i]
  PROVE  \A i \in 0 .. n : g[i] = f[i]
<1> DEFINE W == {k \in 0 .. n : g[k] # f[k]}
<1>1. SUFFICES ASSUME W # {} PROVE FALSE
  BY DEF Downward
<1>2. PICK x \in W : \A y \in W : x <= y
  <2>1. W \in SUBSET Nat
    BY DEF Downward
  <2> HIDE DEF W
  <2> QED BY <1>1, <2>1, LeastOf
<1>3. x \in 0 .. n /\ x \in 0 .. m /\ n \in Nat /\ m \in Nat /\ (x # 0 => inner[x] \in 0 .. x - 1 /\ outer[x] = inner[x])
  BY DEF Downward
<1>4. /\ f[x] = IF x = 0 THEN {} ELSE {x} \cup f[inner[x]]
      /\ g[x] = IF x = 0 THEN {} ELSE {x} \cup g[outer[x]]
  BY <1>3 DEF Falls
<1>5. CASE x = 0
  BY <1>2, <1>4, <1>5
<1>6. CASE x # 0
  <2>1. inner[x] \in 0 .. n /\ ~ (x <= inner[x])
    BY <1>3, <1>6
  <2>2. g[inner[x]] = f[inner[x]]
    BY <1>2, <2>1
  <2> QED BY <1>2, <1>3, <1>4, <1>6, <2>2
<1> QED BY <1>5, <1>6

Inner(w) == [i \in DOMAIN w |-> w[i].inner]

WrapsOver(w) ==
  /\ w \in Seq([slot : SlotNames, by : Clients \cup {Other, Page}, inner : Nat])
  /\ \A i \in DOMAIN w : w[i].inner < i

\* What a chain of wrappers runs through is such a function.
LEMMA WrapsFall ==
  ASSUME NEW w, WrapsOver(w)
  PROVE  LET f == CHOOSE f : f = [i \in 0 .. Len(w) |-> IF i = 0 THEN {} ELSE {i} \cup f[w[i].inner]] IN
         Downward(Len(w), Inner(w)) /\ Falls(Len(w), Inner(w), f)
<1> DEFINE F(f) == [i \in 0 .. Len(w) |-> IF i = 0 THEN {} ELSE {i} \cup f[w[i].inner]]
           b == CHOOSE f : f = F(f)
<1>1. Len(w) \in Nat /\ \A i \in 1 .. Len(w) : i \in DOMAIN w /\ w[i].inner \in 0 .. i - 1
  <2>1. Len(w) \in Nat /\ DOMAIN w = 1 .. Len(w)
    BY DEF WrapsOver
  <2>2. \A i \in DOMAIN w : w[i] \in [slot : SlotNames, by : Clients \cup {Other, Page}, inner : Nat]
    <3> DEFINE R == [slot : SlotNames, by : Clients \cup {Other, Page}, inner : Nat]
    <3>1. w \in Seq(R)
      BY DEF WrapsOver
    <3> HIDE DEF R
    <3>2. \A i \in 1 .. Len(w) : w[i] \in R
      BY <3>1
    <3> QED BY <2>1, <3>2 DEF R
  <2>3. \A i \in DOMAIN w : w[i].inner \in Nat /\ w[i].inner < i
    BY <2>2 DEF WrapsOver
  <2> QED BY <2>1, <2>3
<1>2. Downward(Len(w), Inner(w))
  BY <1>1 DEF Downward, Inner
<1>3. \A f : Falls(Len(w), Inner(w), f) <=> f = F(f)
  <2> TAKE f
  <2>1. \A i \in 0 .. Len(w) : (IF i = 0 THEN {} ELSE {i} \cup f[Inner(w)[i]])
                              = (IF i = 0 THEN {} ELSE {i} \cup f[w[i].inner])
    <3> TAKE i \in 0 .. Len(w)
    <3>1. i # 0 => i \in DOMAIN w /\ Inner(w)[i] = w[i].inner
      BY <1>1 DEF Inner
    <3> QED BY <3>1
  <2> QED BY <2>1 DEF Falls
<1>4. \E f : f = F(f)
  <2>1. \E f : Falls(Len(w), Inner(w), f)
    BY <1>2, FallsExist
  <2> QED BY <1>3, <2>1
<1>5. b = F(b)
  <2> HIDE DEF F
  <2> QED BY <1>4
<1>6. Falls(Len(w), Inner(w), b)
  <2> HIDE DEF b, F
  <2> QED BY <1>3, <1>5
<1> QED BY <1>2, <1>6

(***************************************************************************)
(* AutoCapture: wrapping and unwrapping                                    *)
(***************************************************************************)

ChainType == WrapsOver(wraps) /\ top \in [SlotNames -> 0 .. Len(wraps)]

\* What is below a wrapper is older than it.
LEMMA BelowFacts ==
  ASSUME ChainType
  PROVE  /\ Downward(Len(wraps), Inner(wraps)) /\ Falls(Len(wraps), Inner(wraps), Below)
         /\ \A i \in 0 .. Len(wraps) : Below[i] \subseteq 1 .. i
         /\ \A i \in 0 .. Len(wraps) : Below[i] = IF i = 0 THEN {} ELSE {i} \cup Below[wraps[i].inner]
<1>1. Downward(Len(wraps), Inner(wraps)) /\ Falls(Len(wraps), Inner(wraps), Below)
  BY WrapsFall DEF ChainType, Below
<1>2. \A i \in 0 .. Len(wraps) : Below[i] \subseteq 1 .. i
  BY <1>1, FallsBound
<1>3. \A i \in 0 .. Len(wraps) : Below[i] = IF i = 0 THEN {} ELSE {i} \cup Below[wraps[i].inner]
  <2> TAKE i \in 0 .. Len(wraps)
  <2>1. Below[i] = IF i = 0 THEN {} ELSE {i} \cup Below[Inner(wraps)[i]]
    BY <1>1 DEF Falls
  <2>2. i # 0 => i \in DOMAIN wraps
    BY DEF ChainType, WrapsOver
  <2> QED BY <2>1, <2>2 DEF Inner
<1> QED BY <1>1, <1>2, <1>3

\* When wrappers are added, the older ones run through what they did.
LEMMA BelowGrows ==
  ASSUME ChainType, WrapsOver(wraps'), Len(wraps) <= Len(wraps'),
         \A i \in DOMAIN wraps : wraps'[i] = wraps[i]
  PROVE  /\ \A i \in 0 .. Len(wraps) : Below'[i] = Below[i]
         /\ \A i \in 1 .. Len(wraps') : Below'[i] = {i} \cup Below'[wraps'[i].inner]
<1>1. Downward(Len(wraps'), Inner(wraps')) /\ Falls(Len(wraps'), Inner(wraps'), Below')
  BY WrapsFall DEF Below
<1>2. DOMAIN wraps = 1 .. Len(wraps) /\ DOMAIN wraps' = 1 .. Len(wraps') /\ Len(wraps) \in Nat /\ Len(wraps') \in Nat
  BY DEF ChainType, WrapsOver
<1>3. \A i \in 1 .. Len(wraps) : Inner(wraps')[i] = Inner(wraps)[i]
  BY <1>2 DEF Inner
<1>4. \A i \in 0 .. Len(wraps) : Below'[i] = Below[i]
  BY <1>1, <1>3, BelowFacts, FallsAgree
<1>5. \A i \in 1 .. Len(wraps') : Below'[i] = {i} \cup Below'[wraps'[i].inner]
  <2> TAKE i \in 1 .. Len(wraps')
  <2>1. Below'[i] = {i} \cup Below'[Inner(wraps')[i]]
    BY <1>1, <1>2 DEF Falls
  <2> QED BY <1>2, <2>1 DEF Inner
<1> QED BY <1>4, <1>5

\* Lengths add up.
LEMMA Joined ==
  ASSUME NEW S, NEW a \in Seq(S), NEW b \in Seq(S)
  PROVE  Len(a \o b) = Len(a) + Len(b)
OBVIOUS

\* A new wrapper is run through first, and only where it was put.
LEMMA WrapFacts ==
  ASSUME ChainType, NEW slots \in Seq(SlotNames), NEW by \in Seq(Clients \cup {Other, Page}),
         Len(by) = Len(slots), \A i, j \in DOMAIN slots : slots[i] = slots[j] => i = j,
         Wrap(slots, by)
  PROVE  /\ ChainType' /\ left' = left
         /\ \A j \in DOMAIN slots : Chain(slots[j])' = {Len(wraps) + j} \cup Chain(slots[j])
         /\ \A s \in SlotNames : (\A j \in DOMAIN slots : slots[j] # s) => Chain(s)' = Chain(s)
         /\ \A s, b : Of(s, b)' = Of(s, b) \cup {Len(wraps) + j : j \in {k \in DOMAIN slots : slots[k] = s /\ by[k] = b}}
<1> DEFINE n == Len(wraps)
           W == [slot : SlotNames, by : Clients \cup {Other, Page}, inner : Nat]
           new == [i \in DOMAIN slots |-> [slot |-> slots[i], by |-> by[i], inner |-> top[slots[i]]]]
<1>1. /\ wraps \in Seq(W) /\ n \in Nat /\ DOMAIN wraps = 1 .. n
      /\ \A i \in DOMAIN wraps : wraps[i].inner < i
      /\ top \in [SlotNames -> 0 .. n]
  BY DEF ChainType, WrapsOver
<1>2. /\ Len(slots) \in Nat /\ DOMAIN slots = 1 .. Len(slots)
      /\ \A i \in DOMAIN slots : slots[i] \in SlotNames /\ by[i] \in Clients \cup {Other, Page} /\ top[slots[i]] \in 0 .. n
  BY <1>1
<1>3. new \in Seq(W) /\ Len(new) = Len(slots)
  BY <1>1, <1>2
<1>4. wraps' = wraps \o new /\ left' = left
  BY DEF Wrap
<1>5. /\ Len(wraps') = n + Len(slots) /\ DOMAIN wraps' = 1 .. n + Len(slots) /\ wraps' \in Seq(W)
      /\ \A i \in 1 .. n : wraps'[i] = wraps[i]
      /\ \A j \in DOMAIN slots : wraps'[n + j] = [slot |-> slots[j], by |-> by[j], inner |-> top[slots[j]]]
  <2>1. \A j \in DOMAIN slots : new[j] = [slot |-> slots[j], by |-> by[j], inner |-> top[slots[j]]]
    OBVIOUS
  <2> HIDE DEF W, new
  <2>2. wraps' \in Seq(W) /\ Len(wraps') = n + Len(slots)
    <3>1. wraps \in Seq(W) /\ new \in Seq(W) /\ Len(new) = Len(slots) /\ wraps' = wraps \o new
      BY <1>1, <1>3, <1>4
    <3>2. wraps' \in Seq(W)
      BY <3>1
    <3>3. Len(wraps \o new) = Len(wraps) + Len(new)
      BY <3>1, Joined
    <3>4. Len(wraps') = Len(wraps \o new)
      BY <3>1
    <3> QED BY <3>1, <3>2, <3>3, <3>4
  <2>3. DOMAIN wraps' = 1 .. n + Len(slots)
    BY <2>2
  <2>4. \A i \in 1 .. n : wraps'[i] = wraps[i]
    BY <1>1, <1>3, <1>4
  <2>5. \A j \in 1 .. Len(slots) : wraps'[n + j] = new[j]
    BY <1>1, <1>2, <1>3, <1>4
  <2> QED BY <1>2, <2>1, <2>2, <2>3, <2>4, <2>5
<1> HIDE DEF W, new
<1>6. \A i \in DOMAIN wraps' : i \in 1 .. n \/ \E j \in DOMAIN slots : i = n + j
  <2> TAKE i \in DOMAIN wraps'
  <2>1. CASE i > n
    <3>1. i - n \in DOMAIN slots /\ i = n + (i - n)
      BY <1>1, <1>2, <1>5, <2>1
    <3> QED BY <3>1
  <2> QED BY <1>1, <1>5, <2>1
<1>7. WrapsOver(wraps')
  <2>1. \A i \in DOMAIN wraps' : wraps'[i].inner < i
    <3> TAKE i \in DOMAIN wraps'
    <3>1. CASE i \in 1 .. n
      BY <1>1, <1>5, <3>1
    <3>2. ASSUME NEW j \in DOMAIN slots, i = n + j PROVE wraps'[i].inner < i
      <4>1. top[slots[j]] \in 0 .. n /\ j >= 1 /\ j \in Int
        BY <1>2
      <4>2. wraps'[n + j] = [slot |-> slots[j], by |-> by[j], inner |-> top[slots[j]]]
        BY <1>5
      <4>3. wraps'[i].inner = top[slots[j]]
        BY <3>2, <4>2
      <4> QED BY <1>1, <3>2, <4>1, <4>3
    <3> QED BY <1>6, <3>1, <3>2
  <2> QED BY <1>5, <2>1 DEF WrapsOver, W
<1>8. \A j \in DOMAIN slots : top'[slots[j]] = n + j
  <2> TAKE j \in DOMAIN slots
  <2>1. Contains(slots, slots[j])
    BY <1>2 DEF Contains
  <2>2. (CHOOSE i \in DOMAIN slots : slots[i] = slots[j]) = j
    OBVIOUS
  <2>3. slots[j] \in DOMAIN top
    BY <1>1, <1>2
  <2> QED BY <2>1, <2>2, <2>3 DEF Wrap
<1>9. \A s \in SlotNames : (\A j \in DOMAIN slots : slots[j] # s) => top'[s] = top[s]
  BY <1>1, <1>2 DEF Wrap, Contains
<1>10. top' \in [SlotNames -> 0 .. Len(wraps')]
  <2>1. DOMAIN top' = SlotNames /\ top' = [s \in SlotNames |-> top'[s]]
    BY <1>1 DEF Wrap
  <2>2. \A s \in SlotNames : top'[s] \in 0 .. Len(wraps')
    <3> TAKE s \in SlotNames
    <3>1. ASSUME NEW j \in DOMAIN slots, slots[j] = s PROVE top'[s] \in 0 .. Len(wraps')
      BY <1>1, <1>2, <1>5, <1>8, <3>1
    <3>2. CASE \A j \in DOMAIN slots : slots[j] # s
      BY <1>1, <1>2, <1>5, <1>9, <3>2
    <3> QED BY <3>1, <3>2
  <2> QED BY <2>1, <2>2
<1>11. ChainType'
  BY <1>7, <1>10 DEF ChainType
<1>12. /\ \A i \in 0 .. n : Below'[i] = Below[i]
       /\ \A i \in 1 .. Len(wraps') : Below'[i] = {i} \cup Below'[wraps'[i].inner]
  BY <1>1, <1>2, <1>5, <1>7, BelowGrows
<1>13. \A j \in DOMAIN slots : Chain(slots[j])' = {n + j} \cup Chain(slots[j])
  <2> TAKE j \in DOMAIN slots
  <2>0. wraps'[n + j] = [slot |-> slots[j], by |-> by[j], inner |-> top[slots[j]]]
    BY <1>5
  <2>1. n + j \in 1 .. Len(wraps') /\ top'[slots[j]] = n + j /\ wraps'[n + j].inner = top[slots[j]]
    BY <1>1, <1>2, <1>5, <1>8, <2>0
  <2>2. Below'[n + j] = {n + j} \cup Below[top[slots[j]]]
    BY <1>2, <1>12, <2>1
  <2> QED BY <2>1, <2>2 DEF Chain
<1>14. \A s \in SlotNames : (\A j \in DOMAIN slots : slots[j] # s) => Chain(s)' = Chain(s)
  BY <1>1, <1>9, <1>12 DEF Chain
<1>15. \A s, b : Of(s, b)' = Of(s, b) \cup {n + j : j \in {k \in DOMAIN slots : slots[k] = s /\ by[k] = b}}
  <2> TAKE s, b
  <2>1. \A i \in 1 .. n : i \in Of(s, b)' <=> i \in Of(s, b)
    BY <1>1, <1>2, <1>5 DEF Of
  <2>2. \A j \in DOMAIN slots : n + j \in Of(s, b)' <=> slots[j] = s /\ by[j] = b
    <3> TAKE j \in DOMAIN slots
    <3>1. wraps'[n + j] = [slot |-> slots[j], by |-> by[j], inner |-> top[slots[j]]]
      BY <1>5
    <3>2. n + j \in DOMAIN wraps'
      BY <1>1, <1>2, <1>5
    <3> QED BY <3>1, <3>2 DEF Of
  <2>3. \A j \in DOMAIN slots : ~ (n + j \in 1 .. n)
    BY <1>1, <1>2
  <2>4. Of(s, b) \subseteq 1 .. n /\ Of(s, b)' \subseteq DOMAIN wraps'
    BY <1>1 DEF Of
  <2> HIDE DEF n
  <2> QED BY <1>6, <2>1, <2>2, <2>3, <2>4
<1> QED BY <1>4, <1>11, <1>13, <1>14, <1>15

\* A wrapper that is taken off is run through no longer, and those below it are.
LEMMA UnwrapFacts ==
  ASSUME ChainType, NEW set \in SUBSET DOMAIN wraps,
         \A i, j \in set : wraps[i].slot = wraps[j].slot => i = j, Unwrap(set)
  PROVE  /\ ChainType'
         /\ \A s \in SlotNames : Chain(s)' = IF top[s] \in set /\ wraps[top[s]].slot = s THEN Chain(s) \ {top[s]} ELSE Chain(s)
         /\ \A s, b : Of(s, b)' = Of(s, b)
         /\ left' = left \cup {wraps[i].slot : i \in {j \in set : top[wraps[j].slot] # j}}
<1>1. /\ wraps' = wraps /\ Len(wraps) \in Nat /\ DOMAIN wraps = 1 .. Len(wraps)
      /\ top \in [SlotNames -> 0 .. Len(wraps)]
      /\ left' = left \cup {wraps[i].slot : i \in {j \in set : top[wraps[j].slot] # j}}
  BY DEF ChainType, WrapsOver, Unwrap
<1>2. \A i \in DOMAIN wraps : wraps[i].inner \in 0 .. i - 1
  BY <1>1, BelowFacts DEF Downward, Inner
<1>3. \A s \in SlotNames : top'[s] = IF top[s] \in set /\ wraps[top[s]].slot = s THEN wraps[top[s]].inner ELSE top[s]
  <2> TAKE s \in SlotNames
  <2>1. ASSUME NEW i \in set, wraps[i].slot = s PROVE top'[s] = IF top[s] = i THEN wraps[i].inner ELSE top[s]
    <3>1. (CHOOSE k \in set : wraps[k].slot = s) = i
      BY <2>1
    <3>2. top'[s] = Removed(s, i)
      BY <1>1, <2>1, <3>1 DEF Unwrap
    <3> QED BY <3>2 DEF Removed
  <2>2. CASE ~ \E i \in set : wraps[i].slot = s
    BY <1>1, <2>2 DEF Unwrap
  <2> QED BY <2>1, <2>2
<1>4. ChainType'
  <2>1. DOMAIN top' = SlotNames /\ top' = [s \in SlotNames |-> top'[s]]
    BY <1>1 DEF Unwrap
  <2>2. \A s \in SlotNames : top'[s] \in 0 .. Len(wraps)
    BY <1>1, <1>2, <1>3
  <2> QED BY <1>1, <2>1, <2>2 DEF ChainType
<1>5. \A i \in 0 .. Len(wraps) : Below'[i] = Below[i]
  BY <1>1, BelowGrows DEF ChainType
<1>6. \A s \in SlotNames : Chain(s)' = IF top[s] \in set /\ wraps[top[s]].slot = s THEN Chain(s) \ {top[s]} ELSE Chain(s)
  <2> TAKE s \in SlotNames
  <2>1. Chain(s)' = Below[top'[s]]
    <3>1. top'[s] \in 0 .. Len(wraps)
      BY <1>1, <1>4 DEF ChainType
    <3> QED BY <1>5, <3>1 DEF Chain
  <2>2. CASE top[s] \in set /\ wraps[top[s]].slot = s
    <3> DEFINE i == top[s]
    <3>1. i \in DOMAIN wraps /\ i \in 0 .. Len(wraps) /\ i # 0 /\ wraps[i].inner \in 0 .. i - 1 /\ wraps[i].inner \in 0 .. Len(wraps)
      BY <1>1, <1>2, <2>2
    <3>2. Below[i] = {i} \cup Below[wraps[i].inner] /\ Below[wraps[i].inner] \subseteq 1 .. wraps[i].inner
      BY <3>1, BelowFacts
    <3>3. ~ (i \in 1 .. wraps[i].inner)
      BY <3>1
    <3>4. Below[wraps[i].inner] = Below[i] \ {i}
      BY <3>2, <3>3
    <3> QED BY <1>3, <2>1, <2>2, <3>4 DEF Chain
  <2>3. CASE ~ (top[s] \in set /\ wraps[top[s]].slot = s)
    BY <1>3, <2>1, <2>3 DEF Chain
  <2> QED BY <2>2, <2>3
<1>7. \A s, b : Of(s, b)' = Of(s, b)
  BY <1>1 DEF Of
<1> QED BY <1>1, <1>4, <1>6, <1>7
(***************************************************************************)
(* AutoCapture: what reaches the clients                                   *)
(***************************************************************************)

CaptureType ==
  /\ ChainType
  /\ platform \in {"browser", "native", "node"}
  /\ status \in [Clients -> {"new", "open", "closed"}]
  /\ {listeners, hearers} \subseteq SUBSET Clients

\* A client that was opened has one wrapper in each slot, which stays in the chain
\* for as long as it is open.
Wrapped ==
  \A c \in Clients :
    /\ status[c] = "new" => \A s \in SlotNames : Of(s, c) = {}
    /\ status[c] # "new" => \A s \in Slots \ {"history"} : \E i \in DOMAIN wraps : Of(s, c) = {i}
    /\ status[c] = "open" => \A s \in Slots \ {"history"} : Of(s, c) \subseteq Chain(s)

\* The patch in use is in the chain, and alone there until one was left behind.
Patched ==
  LET patches == Chain("history") \cap Of("history", Page) IN
  /\ listeners # {} => patch \in patches
  /\ "history" \in left \/ patches \subseteq (IF listeners = {} THEN {} ELSE {patch})

Heard ==
  /\ platform = "browser" => listeners = Opened /\ hearers = Opened
  /\ platform # "browser" => listeners = {}
  /\ platform = "native" => IF \A c \in Clients : status[c] = "new" THEN hearers = {} ELSE \E c \in Clients : hearers = {c}

CaptureInv == CaptureType /\ Wrapped /\ Patched /\ Heard

\* What the client's own slots are.
LEMMA OwnSlots ==
  platform \in {"browser", "native", "node"} =>
  /\ \A s \in Slots : s \in SlotNames
  /\ platform = "browser" => Slots \ {"history"} = {"console"}
  /\ platform = "native" => Slots \ {"history"} = {"console", "errors"}
  /\ platform = "node" => Slots \ {"history"} = {"console"}
BY DEF Slots, SlotNames

\* Initially the invariant holds.
LEMMA CaptureInvInit == CaptureInit => CaptureInv
<1> SUFFICES ASSUME CaptureInit PROVE CaptureInv
  OBVIOUS
<1>1. WrapsOver(wraps)
  BY DEF CaptureInit, WrapsOver
<1>2. ChainType
  <2>1. Len(wraps) = 0
    BY DEF CaptureInit
  <2>2. top \in [SlotNames -> 0 .. 0]
    BY DEF CaptureInit
  <2> QED BY <1>1, <2>1, <2>2 DEF ChainType
<1>3. CaptureType
  BY <1>2 DEF CaptureInit, CaptureType
<1>4. \A s, b : Of(s, b) = {}
  BY DEF Of, CaptureInit
<1>5. Wrapped
  BY <1>4 DEF Wrapped, CaptureInit
<1>6. Patched
  BY <1>4 DEF Patched, CaptureInit
<1>7. Heard
  BY DEF Heard, Opened, CaptureInit
<1> QED BY <1>3, <1>5, <1>6, <1>7 DEF CaptureInv

\* A client is opened that puts its wrapper into each of its slots.
LEMMA OpenWraps ==
  ASSUME CaptureInv, NEW c \in Clients, Opening(c),
         NEW slots \in Seq(SlotNames), NEW by \in Seq(Clients \cup {Other, Page}),
         Len(by) = Len(slots), \A i, j \in DOMAIN slots : slots[i] = slots[j] => i = j,
         \A j \in DOMAIN slots : by[j] \in Clients => by[j] = c,
         \A s \in Slots \ {"history"} : \E j \in DOMAIN slots : slots[j] = s /\ by[j] = c,
         Wrap(slots, by)
  PROVE  Wrapped'
<1>1. ChainType /\ platform' = platform /\ status[c] = "new" /\ status' = [status EXCEPT ![c] = "open"]
  BY DEF CaptureInv, CaptureType, Opening
<1>2. /\ ChainType'
      /\ \A j \in DOMAIN slots : Chain(slots[j])' = {Len(wraps) + j} \cup Chain(slots[j])
      /\ \A s \in SlotNames : (\A j \in DOMAIN slots : slots[j] # s) => Chain(s)' = Chain(s)
      /\ \A s, b : Of(s, b)' = Of(s, b) \cup {Len(wraps) + j : j \in {k \in DOMAIN slots : slots[k] = s /\ by[k] = b}}
  <2>1. /\ ChainType /\ slots \in Seq(SlotNames) /\ by \in Seq(Clients \cup {Other, Page})
        /\ Len(by) = Len(slots) /\ \A i, j \in DOMAIN slots : slots[i] = slots[j] => i = j
        /\ Wrap(slots, by)
    BY <1>1
  <2> QED BY ONLY <2>1, WrapFacts
<1>3. \A s \in SlotNames : Chain(s) \subseteq Chain(s)'
  <2> TAKE s \in SlotNames
  <2>1. CASE \E j \in DOMAIN slots : slots[j] = s
    <3>1. PICK j \in DOMAIN slots : slots[j] = s
      BY <2>1
    <3>2. Chain(slots[j])' = {Len(wraps) + j} \cup Chain(slots[j])
      BY <1>2
    <3> QED BY <3>1, <3>2
  <2>2. CASE \A j \in DOMAIN slots : slots[j] # s
    <3>1. Chain(s)' = Chain(s)
      BY <1>2, <2>2
    <3> QED BY <3>1
  <2> QED BY <2>1, <2>2
<1>4. \A s : \A d \in Clients \ {c} : Of(s, d)' = Of(s, d)
  <2> TAKE s
  <2> TAKE d \in Clients \ {c}
  <2>1. {k \in DOMAIN slots : slots[k] = s /\ by[k] = d} = {}
    OBVIOUS
  <2>2. Of(s, d)' = Of(s, d) \cup {Len(wraps) + j : j \in {k \in DOMAIN slots : slots[k] = s /\ by[k] = d}}
    BY ONLY <1>2
  <2> QED BY ONLY <2>1, <2>2
<1>5. \A s \in Slots \ {"history"} : \E i : Of(s, c)' = {i} /\ i \in Chain(s)' /\ i \in DOMAIN wraps'
  <2> TAKE s \in Slots \ {"history"}
  <2>1. PICK j \in DOMAIN slots : slots[j] = s /\ by[j] = c
    OBVIOUS
  <2>2. {k \in DOMAIN slots : slots[k] = s /\ by[k] = c} = {j}
    BY <2>1
  <2>3. s \in SlotNames
    BY OwnSlots DEF CaptureInv, CaptureType
  <2>4. Of(s, c) = {}
    BY <1>1, <2>3 DEF CaptureInv, Wrapped
  <2>5. Of(s, c)' = {Len(wraps) + j}
    BY <1>2, <2>2, <2>4
  <2>6. Len(wraps) + j \in Chain(s)'
    BY <1>2, <2>1
  <2>7. Len(wraps) + j \in DOMAIN wraps'
    BY <2>5 DEF Of
  <2> QED BY <2>5, <2>6, <2>7
<1>6. DOMAIN wraps \subseteq DOMAIN wraps'
  <2>1. wraps \in Seq([slot : SlotNames, by : Clients \cup {Other, Page}, inner : Nat])
    BY <1>1 DEF ChainType, WrapsOver
  <2>2. wraps' \in Seq([slot : SlotNames, by : Clients \cup {Other, Page}, inner : Nat])
    BY <1>2 DEF ChainType, WrapsOver
  <2>3. Len(wraps) <= Len(wraps')
    <3> DEFINE W == [slot : SlotNames, by : Clients \cup {Other, Page}, inner : Nat]
               new == [i \in DOMAIN slots |-> [slot |-> slots[i], by |-> by[i], inner |-> top[slots[i]]]]
    <3>1. new \in Seq(W) /\ Len(new) \in Nat
      BY <1>1 DEF ChainType, WrapsOver
    <3>2. wraps' = wraps \o new
      BY DEF Wrap
    <3> HIDE DEF W, new
    <3>3. Len(wraps') = Len(wraps) + Len(new)
      BY <2>1, <3>1, <3>2, Joined DEF W
    <3> QED BY <2>1, <3>1, <3>3
  <2> QED BY <2>1, <2>2, <2>3
<1>7. Slots' = Slots
  BY <1>1 DEF Slots
<1> SUFFICES ASSUME NEW d \in Clients
             PROVE  /\ status'[d] = "new" => \A s \in SlotNames : Of(s, d)' = {}
                    /\ status'[d] # "new" => \A s \in Slots \ {"history"} : \E i \in DOMAIN wraps' : Of(s, d)' = {i}
                    /\ status'[d] = "open" => \A s \in Slots \ {"history"} : Of(s, d)' \subseteq Chain(s)'
  BY <1>7 DEF Wrapped
<1>8. CASE d = c
  <2>1. status'[d] = "open"
    BY <1>1, <1>8 DEF CaptureInv, CaptureType
  <2> QED BY <1>5, <1>8, <2>1
<1>9. CASE d # c
  <2>1. status'[d] = status[d]
    BY <1>1, <1>9 DEF CaptureInv, CaptureType
  <2>2. \A s : Of(s, d)' = Of(s, d)
    BY <1>4, <1>9
  <2>3. \A s \in Slots : s \in SlotNames
    BY OwnSlots DEF CaptureInv, CaptureType
  <2>4. /\ status[d] = "new" => \A s \in SlotNames : Of(s, d) = {}
        /\ status[d] # "new" => \A s \in Slots \ {"history"} : \E i \in DOMAIN wraps : Of(s, d) = {i}
        /\ status[d] = "open" => \A s \in Slots \ {"history"} : Of(s, d) \subseteq Chain(s)
    BY DEF CaptureInv, Wrapped
  <2> QED BY <1>3, <1>6, <2>1, <2>2, <2>3, <2>4
<1> QED BY <1>8, <1>9

\* Another library wraps a slot.
LEMMA OtherWrapsKeeps ==
  ASSUME CaptureInv, NEW slot \in SlotNames, OtherWraps(slot)
  PROVE  CaptureInv'
<1>1. /\ ChainType /\ slot \in Slots /\ Wrap(<<slot>>, <<Other>>)
      /\ UNCHANGED <<platform, status, listeners, patch, hearers>>
  BY DEF CaptureInv, CaptureType, OtherWraps, patchVars
<1>2. /\ ChainType' /\ left' = left
      /\ \A j \in DOMAIN <<slot>> : Chain(<<slot>>[j])' = {Len(wraps) + j} \cup Chain(<<slot>>[j])
      /\ \A s \in SlotNames : (\A j \in DOMAIN <<slot>> : <<slot>>[j] # s) => Chain(s)' = Chain(s)
      /\ \A s, b : Of(s, b)' = Of(s, b) \cup {Len(wraps) + j : j \in {k \in DOMAIN <<slot>> : <<slot>>[k] = s /\ <<Other>>[k] = b}}
  <2>1. /\ <<slot>> \in Seq(SlotNames) /\ <<Other>> \in Seq(Clients \cup {Other, Page})
        /\ Len(<<Other>>) = Len(<<slot>>) /\ \A i, j \in DOMAIN <<slot>> : i = j
    OBVIOUS
  <2> DEFINE slots == <<slot>>
             by == <<Other>>
  <2>2. /\ ChainType /\ slots \in Seq(SlotNames) /\ by \in Seq(Clients \cup {Other, Page})
        /\ Len(by) = Len(slots) /\ (\A i, j \in DOMAIN slots : slots[i] = slots[j] => i = j)
        /\ Wrap(slots, by)
    BY <1>1, <2>1
  <2> HIDE DEF slots, by
  <2>3. /\ ChainType' /\ left' = left
        /\ \A j \in DOMAIN slots : Chain(slots[j])' = {Len(wraps) + j} \cup Chain(slots[j])
        /\ \A s \in SlotNames : (\A j \in DOMAIN slots : slots[j] # s) => Chain(s)' = Chain(s)
        /\ \A s, b : Of(s, b)' = Of(s, b) \cup {Len(wraps) + j : j \in {k \in DOMAIN slots : slots[k] = s /\ by[k] = b}}
    BY ONLY <2>2, WrapFacts
  <2> QED BY ONLY <2>3 DEF slots, by
<1>3. Chain(slot)' = {Len(wraps) + 1} \cup Chain(slot) /\ \A s \in SlotNames : s # slot => Chain(s)' = Chain(s)
  BY <1>2
<1>4. \A s, b : b # Other => Of(s, b)' = Of(s, b)
  <2> TAKE s, b
  <2>1. b # Other => {k \in DOMAIN <<slot>> : <<slot>>[k] = s /\ <<Other>>[k] = b} = {}
    OBVIOUS
  <2> QED BY <1>2, <2>1
<1>5. Len(wraps) + 1 \in Of(slot, Other)'
  BY <1>2
<1>6. \A b : b # Other => ~ (Len(wraps) + 1 \in Of(slot, b)')
  BY <1>5 DEF Of
<1>7. Other \notin Clients /\ Page # Other
  BY CaptureConstants
<1>8. CaptureType'
  BY <1>1, <1>2 DEF CaptureInv, CaptureType
<1>9. Wrapped'
  <2>1. Slots' = Slots /\ \A s \in Slots : s \in SlotNames
    BY <1>1, OwnSlots DEF Slots, CaptureInv, CaptureType
  <2>2. \A s : \A c \in Clients : Of(s, c)' = Of(s, c)
    BY <1>4, <1>7
  <2>3. \A s \in SlotNames : Chain(s) \subseteq Chain(s)'
    BY <1>3
  <2>4. \A s, c, i : Of(s, c)' = {i} => i \in DOMAIN wraps'
    BY DEF Of
  <2>5. status' = status
    BY <1>1
  <2>6. Wrapped
    BY DEF CaptureInv
  <2> SUFFICES ASSUME NEW c \in Clients
               PROVE  /\ status[c] = "new" => \A s \in SlotNames : Of(s, c)' = {}
                      /\ status[c] # "new" => \A s \in Slots \ {"history"} : \E i \in DOMAIN wraps' : Of(s, c)' = {i}
                      /\ status[c] = "open" => \A s \in Slots \ {"history"} : Of(s, c)' \subseteq Chain(s)'
    BY <2>1, <2>5 DEF Wrapped
  <2>7. /\ status[c] = "new" => \A s \in SlotNames : Of(s, c) = {}
        /\ status[c] # "new" => \A s \in Slots \ {"history"} : \E i \in DOMAIN wraps : Of(s, c) = {i}
        /\ status[c] = "open" => \A s \in Slots \ {"history"} : Of(s, c) \subseteq Chain(s)
    BY <2>6 DEF Wrapped
  <2> QED BY <2>1, <2>2, <2>3, <2>4, <2>7
<1>10. Patched'
  <2>1. Of("history", Page)' = Of("history", Page)
    BY <1>4, <1>7
  <2>2. (Chain("history") \cap Of("history", Page))' = Chain("history") \cap Of("history", Page)
    BY <1>3, <1>6, <1>7, <2>1 DEF SlotNames
  <2> QED BY <1>1, <1>2, <2>2 DEF CaptureInv, Patched
<1>11. Heard'
  BY <1>1 DEF CaptureInv, Heard, Opened
<1> QED BY <1>8, <1>9, <1>10, <1>11 DEF CaptureInv

\* Wrappers are taken off that are of no client that stays open.
LEMMA UnwrapKeeps ==
  ASSUME CaptureInv, NEW set \in SUBSET DOMAIN wraps,
         \A i, j \in set : wraps[i].slot = wraps[j].slot => i = j, Unwrap(set),
         platform' = platform,
         \A c \in Clients : status'[c] = status[c] \/ (status[c] = "open" /\ status'[c] = "closed"),
         \A i \in set, c \in Clients : wraps[i].by = c => status'[c] # "open"
  PROVE  ChainType' /\ Wrapped'
<1>1. ChainType
  BY DEF CaptureInv, CaptureType
<1>2. /\ ChainType'
      /\ \A s \in SlotNames : Chain(s)' = IF top[s] \in set /\ wraps[top[s]].slot = s THEN Chain(s) \ {top[s]} ELSE Chain(s)
      /\ \A s, b : Of(s, b)' = Of(s, b)
  BY <1>1, UnwrapFacts
<1>3. wraps' = wraps /\ Slots' = Slots /\ \A s \in Slots : s \in SlotNames
  BY OwnSlots DEF Slots, CaptureInv, CaptureType, Unwrap
<1> SUFFICES ASSUME NEW c \in Clients
             PROVE  /\ status'[c] = "new" => \A s \in SlotNames : Of(s, c) = {}
                    /\ status'[c] # "new" => \A s \in Slots \ {"history"} : \E i \in DOMAIN wraps : Of(s, c) = {i}
                    /\ status'[c] = "open" => \A s \in Slots \ {"history"} : Of(s, c) \subseteq Chain(s)'
  BY <1>2, <1>3 DEF Wrapped
<1>4. /\ status[c] = "new" => \A s \in SlotNames : Of(s, c) = {}
      /\ status[c] # "new" => \A s \in Slots \ {"history"} : \E i \in DOMAIN wraps : Of(s, c) = {i}
      /\ status[c] = "open" => \A s \in Slots \ {"history"} : Of(s, c) \subseteq Chain(s)
  BY DEF CaptureInv, Wrapped
<1>5. status'[c] = "open" => status[c] = "open" /\ \A s : Of(s, c) \cap set = {}
  BY DEF Of
<1>6. status'[c] = "new" <=> status[c] = "new"
  OBVIOUS
<1> QED BY <1>2, <1>3, <1>4, <1>5, <1>6

\* Wrappers are taken off that are not patches.
LEMMA UnwrapPatches ==
  ASSUME CaptureInv, NEW set \in SUBSET DOMAIN wraps,
         \A i, j \in set : wraps[i].slot = wraps[j].slot => i = j, Unwrap(set),
         set \cap Of("history", Page) = {}
  PROVE  /\ (Chain("history") \cap Of("history", Page))' = Chain("history") \cap Of("history", Page)
         /\ left \subseteq left'
<1>1. ChainType /\ "history" \in SlotNames
  BY DEF CaptureInv, CaptureType, SlotNames
<1>2. /\ \A s \in SlotNames : Chain(s)' = IF top[s] \in set /\ wraps[top[s]].slot = s THEN Chain(s) \ {top[s]} ELSE Chain(s)
      /\ \A s, b : Of(s, b)' = Of(s, b)
      /\ left \subseteq left'
  BY <1>1, UnwrapFacts
<1> QED BY <1>1, <1>2

\* Another library takes its wrapper away.
LEMMA OtherUnwrapsKeeps ==
  ASSUME CaptureInv, NEW slot \in SlotNames, OtherUnwraps(slot)
  PROVE  CaptureInv'
<1>1. /\ top[slot] \in Of(slot, Other) /\ Unwrap({top[slot]})
      /\ UNCHANGED <<platform, status, listeners, patch, hearers>>
  BY DEF OtherUnwraps, patchVars
<1>2. {top[slot]} \in SUBSET DOMAIN wraps /\ wraps[top[slot]].by = Other
  BY <1>1 DEF Of
<1>3. Other \notin Clients /\ Page # Other
  BY CaptureConstants
<1>4. ChainType' /\ Wrapped'
  BY <1>1, <1>2, <1>3, UnwrapKeeps
<1>5. {top[slot]} \cap Of("history", Page) = {}
  BY <1>2, <1>3 DEF Of
<1>6. /\ (Chain("history") \cap Of("history", Page))' = Chain("history") \cap Of("history", Page)
      /\ left \subseteq left'
  BY <1>1, <1>2, <1>5, UnwrapPatches
<1>7. Patched'
  BY <1>1, <1>6 DEF CaptureInv, Patched
<1>8. Heard'
  BY <1>1 DEF CaptureInv, Heard, Opened
<1> QED BY <1>1, <1>4, <1>7, <1>8 DEF CaptureInv, CaptureType

\* A client's wrappers are one per slot.
LEMMA OwnWraps ==
  ASSUME CaptureInv, NEW c \in Clients, status[c] # "new", NEW S \in SUBSET (Slots \ {"history"})
  PROVE  LET own == UNION {Of(s, c) : s \in S} IN
         /\ own \in SUBSET DOMAIN wraps
         /\ \A i, j \in own : wraps[i].slot = wraps[j].slot => i = j
         /\ \A i \in own : wraps[i].by = c /\ wraps[i].slot \in S
<1> DEFINE own == UNION {Of(s, c) : s \in S}
<1>1. \A i \in own : i \in DOMAIN wraps /\ wraps[i].by = c /\ wraps[i].slot \in S /\ i \in Of(wraps[i].slot, c)
  BY DEF Of
<1>2. \A s \in S : \E i \in DOMAIN wraps : Of(s, c) = {i}
  BY DEF CaptureInv, Wrapped
<1>3. \A i, j \in own : wraps[i].slot = wraps[j].slot => i = j
  <2> HIDE DEF own
  <2> TAKE i, j \in own
  <2> HAVE wraps[i].slot = wraps[j].slot
  <2>1. i \in Of(wraps[i].slot, c) /\ j \in Of(wraps[i].slot, c) /\ wraps[i].slot \in S
    BY <1>1
  <2> QED BY <1>2, <2>1
<1> HIDE DEF own
<1>4. own \in SUBSET DOMAIN wraps /\ \A i \in own : wraps[i].by = c /\ wraps[i].slot \in S
  BY <1>1
<1> QED BY <1>3, <1>4 DEF own

\* A client closes that is not in a browser.
LEMMA CloseOthers ==
  ASSUME CaptureInv, NEW c \in Clients, CloseClient(c), platform # "browser",
         NEW S \in SUBSET (Slots \ {"history"}), Unwrap(UNION {Of(s, c) : s \in S}),
         UNCHANGED <<listeners, patch, hearers>>
  PROVE  CaptureInv'
<1> DEFINE own == UNION {Of(s, c) : s \in S}
<1>1. /\ status[c] = "open" /\ status' = [status EXCEPT ![c] = "closed"] /\ platform' = platform
      /\ status \in [Clients -> {"new", "open", "closed"}]
  BY DEF CloseClient, CaptureInv, CaptureType
<1>2. /\ own \in SUBSET DOMAIN wraps
      /\ \A i, j \in own : wraps[i].slot = wraps[j].slot => i = j
      /\ \A i \in own : wraps[i].by = c
  BY <1>1, OwnWraps
<1>3. c # Page
  BY CaptureConstants
<1> HIDE DEF own
<1>4. Unwrap(own)
  BY DEF own
<1>5. \A d \in Clients : status'[d] = status[d] \/ (status[d] = "open" /\ status'[d] = "closed")
  BY <1>1
<1>6. \A i \in own, d \in Clients : wraps[i].by = d => status'[d] # "open"
  BY <1>1, <1>2
<1>7. ChainType' /\ Wrapped'
  BY <1>1, <1>2, <1>4, <1>5, <1>6, UnwrapKeeps
<1>8. own \cap Of("history", Page) = {}
  BY <1>2, <1>3 DEF Of
<1>9. /\ (Chain("history") \cap Of("history", Page))' = Chain("history") \cap Of("history", Page)
      /\ left \subseteq left'
  BY <1>2, <1>4, <1>8, UnwrapPatches
<1>10. Patched'
  BY <1>9 DEF CaptureInv, Patched
<1>11. Heard'
  <2>1. status'[c] # "new" /\ status[c] # "new"
    BY <1>1
  <2>2. platform = "native" => \E d \in Clients : hearers = {d}
    BY <2>1 DEF CaptureInv, Heard
  <2> QED BY <1>1, <2>1, <2>2 DEF CaptureInv, Heard
<1>12. CaptureType'
  BY <1>1, <1>7 DEF CaptureInv, CaptureType
<1> QED BY <1>7, <1>10, <1>11, <1>12 DEF CaptureInv

\* A client in a browser is shut down.
LEMMA CloseBrowserKeeps ==
  ASSUME CaptureInv, NEW c \in Clients, CloseBrowser(c)
  PROVE  CaptureInv'
<1> DEFINE last == listeners = {c}
           set == Of("console", c) \cup (IF last THEN {patch} ELSE {})
<1>1. /\ platform = "browser" /\ platform' = platform
      /\ status[c] = "open" /\ status' = [status EXCEPT ![c] = "closed"]
      /\ status \in [Clients -> {"new", "open", "closed"}]
      /\ hearers' = hearers \ {c} /\ listeners' = listeners \ {c}
      /\ Unwrap(set) /\ patch' = IF last THEN 0 ELSE patch
      /\ listeners = Opened /\ hearers = Opened
  BY DEF CloseBrowser, CloseClient, DeafToErrors, CaptureInv, CaptureType, Heard
<1>2. PICK i \in DOMAIN wraps : Of("console", c) = {i}
  BY <1>1, OwnSlots DEF CaptureInv, CaptureType, Wrapped
<1>3. wraps[i].by = c /\ wraps[i].slot = "console"
  BY <1>2 DEF Of
<1>4. c # Page /\ Page \notin Clients
  BY CaptureConstants
<1>5. c \in listeners
  BY <1>1 DEF Opened
<1>6. patch \in Chain("history") \cap Of("history", Page)
  BY <1>5 DEF CaptureInv, Patched
<1>7. patch \in DOMAIN wraps /\ wraps[patch].slot = "history" /\ wraps[patch].by = Page
  BY <1>6 DEF Of
<1>8. /\ set \in SUBSET DOMAIN wraps /\ \A k, j \in set : wraps[k].slot = wraps[j].slot => k = j
      /\ \A k \in set, d \in Clients : wraps[k].by = d => d = c
  BY <1>2, <1>3, <1>4, <1>7
<1>9. ~ last => set \cap Of("history", Page) = {}
  BY <1>2, <1>3, <1>4 DEF Of
<1>10. last => patch \in set
  OBVIOUS
<1> HIDE DEF set
<1>11. \A d \in Clients : status'[d] = status[d] \/ (status[d] = "open" /\ status'[d] = "closed")
  BY <1>1
<1>12. \A k \in set, d \in Clients : wraps[k].by = d => status'[d] # "open"
  BY <1>1, <1>8
<1>13. ChainType' /\ Wrapped'
  BY <1>1, <1>8, <1>11, <1>12, UnwrapKeeps
<1>14. Patched'
  <2>1. CASE ~ last
    <3>1. /\ (Chain("history") \cap Of("history", Page))' = Chain("history") \cap Of("history", Page)
          /\ left \subseteq left'
      BY <1>1, <1>8, <1>9, <2>1, UnwrapPatches
    <3>2. listeners' # {} /\ listeners # {} /\ patch' = patch
      BY <1>1, <1>5, <2>1
    <3>3. /\ patch \in Chain("history") \cap Of("history", Page)
          /\ "history" \in left \/ Chain("history") \cap Of("history", Page) \subseteq {patch}
      BY <3>2 DEF CaptureInv, Patched
    <3> QED BY <3>1, <3>2, <3>3 DEF Patched
  <2>2. CASE last
    <3>1. listeners' = {}
      BY <1>1, <2>2
    <3>2. "history" \in left \/ Chain("history") \cap Of("history", Page) \subseteq {patch}
      BY <2>2 DEF CaptureInv, Patched
    <3>3. /\ Chain("history")' = IF top["history"] \in set /\ wraps[top["history"]].slot = "history" THEN Chain("history") \ {top["history"]} ELSE Chain("history")
          /\ Of("history", Page)' = Of("history", Page)
          /\ left' = left \cup {wraps[k].slot : k \in {j \in set : top[wraps[j].slot] # j}}
      <4>1. ChainType /\ "history" \in SlotNames
        BY DEF CaptureInv, CaptureType, SlotNames
      <4> QED BY <1>1, <1>8, <4>1, UnwrapFacts
    <3>4. CASE top["history"] = patch
      BY <1>7, <1>10, <2>2, <3>1, <3>2, <3>3, <3>4 DEF Patched
    <3>5. CASE top["history"] # patch
      <4>1. "history" \in left'
        BY <1>7, <1>10, <2>2, <3>3, <3>5
      <4> QED BY <3>1, <4>1 DEF Patched
    <3> QED BY <3>4, <3>5
  <2> QED BY <2>1, <2>2
<1>15. Heard'
  <2>1. Opened' = Opened \ {c}
    BY <1>1 DEF Opened
  <2> QED BY <1>1, <2>1 DEF Heard
<1>16. CaptureType'
  BY <1>1, <1>13 DEF CaptureInv, CaptureType
<1> QED BY <1>13, <1>14, <1>15, <1>16 DEF CaptureInv

\* Wrappers are put on that are not patches.
LEMMA WrapPatches ==
  ASSUME CaptureInv, NEW slots \in Seq(SlotNames), NEW by \in Seq(Clients \cup {Other, Page}),
         Len(by) = Len(slots), \A i, j \in DOMAIN slots : slots[i] = slots[j] => i = j,
         Wrap(slots, by), \A j \in DOMAIN slots : by[j] # Page
  PROVE  (Chain("history") \cap Of("history", Page))' = Chain("history") \cap Of("history", Page)
<1>1. ChainType /\ "history" \in SlotNames
  BY DEF CaptureInv, CaptureType, SlotNames
<1>2. /\ \A j \in DOMAIN slots : Chain(slots[j])' = {Len(wraps) + j} \cup Chain(slots[j])
      /\ \A s \in SlotNames : (\A j \in DOMAIN slots : slots[j] # s) => Chain(s)' = Chain(s)
      /\ \A s, b : Of(s, b)' = Of(s, b) \cup {Len(wraps) + j : j \in {k \in DOMAIN slots : slots[k] = s /\ by[k] = b}}
  BY <1>1, WrapFacts
<1>3. Of("history", Page)' = Of("history", Page)
  <2>1. {k \in DOMAIN slots : slots[k] = "history" /\ by[k] = Page} = {}
    OBVIOUS
  <2> QED BY <1>2, <2>1
<1>4. \A j \in DOMAIN slots : Len(wraps) + j \notin Of("history", Page)
  <2> TAKE j \in DOMAIN slots
  <2>1. Of("history", Page) \subseteq 1 .. Len(wraps) /\ Len(wraps) \in Nat
    BY <1>1 DEF Of, ChainType, WrapsOver
  <2>2. j >= 1 /\ j \in Nat
    OBVIOUS
  <2> QED BY <2>1, <2>2
<1>5. CASE \A j \in DOMAIN slots : slots[j] # "history"
  BY <1>1, <1>2, <1>3, <1>5
<1>6. ASSUME NEW j \in DOMAIN slots, slots[j] = "history"
      PROVE  Chain("history")' \cap Of("history", Page)' = Chain("history") \cap Of("history", Page)
  BY <1>2, <1>3, <1>4, <1>6
<1> QED BY <1>5, <1>6

\* A client is made in React Native or Node.
LEMMA OpenOthers ==
  ASSUME CaptureInv, NEW c \in Clients, OpenNative(c) \/ OpenNode(c)
  PROVE  CaptureInv'
<1>0. c # Page /\ c # Other
  BY CaptureConstants
<1>1. /\ Opening(c) /\ platform' = platform /\ platform # "browser"
      /\ status[c] = "new" /\ status' = [status EXCEPT ![c] = "open"]
      /\ status \in [Clients -> {"new", "open", "closed"}]
      /\ UNCHANGED <<listeners, patch>>
  BY DEF OpenNative, OpenNode, Opening, patchVars, CaptureInv, CaptureType
<1>2. PICK slots \in Seq(SlotNames), by \in Seq(Clients \cup {Other, Page}) :
        /\ Len(by) = Len(slots) /\ \A i, j \in DOMAIN slots : slots[i] = slots[j] => i = j
        /\ \A j \in DOMAIN slots : by[j] = c
        /\ \A s \in Slots \ {"history"} : \E j \in DOMAIN slots : slots[j] = s /\ by[j] = c
        /\ Wrap(slots, by)
  <2>1. CASE OpenNative(c)
    <3> DEFINE slots == <<"errors", "console">>
               by == <<c, c>>
    <3>1. platform = "native" /\ Wrap(slots, by)
      BY <2>1 DEF OpenNative
    <3>2. Slots \ {"history"} = {"console", "errors"}
      BY <3>1, OwnSlots
    <3>3. slots \in Seq(SlotNames) /\ by \in Seq(Clients \cup {Other, Page}) /\ Len(by) = Len(slots)
      BY DEF SlotNames
    <3>4. DOMAIN slots = {1, 2} /\ slots[1] = "errors" /\ slots[2] = "console" /\ by[1] = c /\ by[2] = c
      OBVIOUS
    <3> HIDE DEF slots, by
    <3> QED BY <3>1, <3>2, <3>3, <3>4
  <2>2. CASE OpenNode(c)
    <3> DEFINE slots == <<"console">>
               by == <<c>>
    <3>1. platform = "node" /\ Wrap(slots, by)
      BY <2>2 DEF OpenNode
    <3>2. Slots \ {"history"} = {"console"}
      BY <3>1, OwnSlots
    <3>3. slots \in Seq(SlotNames) /\ by \in Seq(Clients \cup {Other, Page}) /\ Len(by) = Len(slots)
      BY DEF SlotNames
    <3>4. DOMAIN slots = {1} /\ slots[1] = "console" /\ by[1] = c
      OBVIOUS
    <3> HIDE DEF slots, by
    <3> QED BY <3>1, <3>2, <3>3, <3>4
  <2> QED BY <2>1, <2>2
<1>3. Wrapped'
  BY <1>1, <1>2, OpenWraps
<1>4. (Chain("history") \cap Of("history", Page))' = Chain("history") \cap Of("history", Page)
  BY <1>0, <1>2, WrapPatches
<1>5. ChainType' /\ left' = left
  BY <1>2, WrapFacts DEF CaptureInv, CaptureType
<1>6. Patched'
  BY <1>1, <1>4, <1>5 DEF CaptureInv, Patched
<1>7. Heard' /\ hearers' \subseteq Clients
  <2>1. status'[c] # "new"
    BY <1>1
  <2>2. CASE OpenNative(c)
    BY <1>1, <2>1, <2>2 DEF OpenNative, TracksRejections, CaptureInv, Heard
  <2>3. CASE OpenNode(c)
    BY <1>1, <2>1, <2>3 DEF OpenNode, CaptureInv, CaptureType, Heard
  <2> QED BY <2>2, <2>3
<1>8. CaptureType'
  BY <1>1, <1>5, <1>7 DEF CaptureInv, CaptureType
<1> QED BY <1>3, <1>6, <1>7, <1>8 DEF CaptureInv

\* A client is made in a browser.
LEMMA OpenBrowserKeeps ==
  ASSUME CaptureInv, NEW c \in Clients, OpenBrowser(c)
  PROVE  CaptureInv'
<1>0. c # Page /\ c # Other /\ Page \notin Clients
  BY CaptureConstants
<1>1. /\ Opening(c) /\ platform' = platform /\ platform = "browser"
      /\ status[c] = "new" /\ status' = [status EXCEPT ![c] = "open"]
      /\ status \in [Clients -> {"new", "open", "closed"}]
      /\ hearers' = hearers \cup {c} /\ listeners' = listeners \cup {c}
  BY DEF OpenBrowser, ListensForErrors, Opening, CaptureInv, CaptureType
<1>2. Slots \ {"history"} = {"console"}
  BY <1>1, OwnSlots
<1>3. ChainType
  BY DEF CaptureInv, CaptureType
<1>4. ChainType' /\ Wrapped' /\ Patched'
  <2>1. CASE listeners # {}
    <3> DEFINE slots == <<"console">>
               by == <<c>>
    <3>1. Wrap(slots, by) /\ patch' = patch
      BY <2>1 DEF OpenBrowser, Installs
    <3>2. slots \in Seq(SlotNames) /\ by \in Seq(Clients \cup {Other, Page}) /\ Len(by) = Len(slots)
      BY DEF SlotNames
    <3>3. DOMAIN slots = {1} /\ slots[1] = "console" /\ by[1] = c
      OBVIOUS
    <3> HIDE DEF slots, by
    <3>4. Wrapped'
      BY <1>1, <1>2, <3>1, <3>2, <3>3, OpenWraps
    <3>5. (Chain("history") \cap Of("history", Page))' = Chain("history") \cap Of("history", Page)
      BY <1>0, <3>1, <3>2, <3>3, WrapPatches
    <3>6. ChainType' /\ left' = left
      BY <1>3, <3>1, <3>2, <3>3, WrapFacts
    <3> QED BY <1>1, <2>1, <3>1, <3>4, <3>5, <3>6 DEF CaptureInv, Patched
  <2>2. CASE listeners = {}
    <3> DEFINE slots == <<"history", "console">>
               by == <<Page, c>>
    <3>1. Wrap(slots, by) /\ patch' = Len(wraps) + 1
      BY <2>2 DEF OpenBrowser, Installs
    <3>2. slots \in Seq(SlotNames) /\ by \in Seq(Clients \cup {Other, Page}) /\ Len(by) = Len(slots)
      BY DEF SlotNames
    <3>3. DOMAIN slots = {1, 2} /\ slots[1] = "history" /\ slots[2] = "console" /\ by[1] = Page /\ by[2] = c
      OBVIOUS
    <3> HIDE DEF slots, by
    <3>4. Wrapped'
      <4>1. /\ \A i, j \in DOMAIN slots : slots[i] = slots[j] => i = j
            /\ \A j \in DOMAIN slots : by[j] \in Clients => by[j] = c
            /\ \A s \in Slots \ {"history"} : \E j \in DOMAIN slots : slots[j] = s /\ by[j] = c
        BY <1>0, <1>2, <3>3
      <4>2. CaptureInv /\ Opening(c)
        BY <1>1
      <4> QED BY ONLY <3>1, <3>2, <4>1, <4>2, OpenWraps
    <3>5. /\ ChainType' /\ left' = left
          /\ \A j \in DOMAIN slots : Chain(slots[j])' = {Len(wraps) + j} \cup Chain(slots[j])
          /\ \A s, b : Of(s, b)' = Of(s, b) \cup {Len(wraps) + j : j \in {k \in DOMAIN slots : slots[k] = s /\ by[k] = b}}
      BY <1>3, <3>1, <3>2, <3>3, WrapFacts
    <3>6. Chain("history")' = {Len(wraps) + 1} \cup Chain("history")
      BY <3>3, <3>5
    <3>7. Of("history", Page)' = Of("history", Page) \cup {Len(wraps) + 1}
      <4>1. {k \in DOMAIN slots : slots[k] = "history" /\ by[k] = Page} = {1}
        BY <3>3
      <4> QED BY <3>5, <4>1
    <3>8. "history" \in left \/ Chain("history") \cap Of("history", Page) = {}
      BY <2>2 DEF CaptureInv, Patched
    <3>9. Chain("history") \subseteq 1 .. Len(wraps) /\ Of("history", Page) \subseteq 1 .. Len(wraps) /\ Len(wraps) \in Nat
      <4>1. top["history"] \in 0 .. Len(wraps) /\ Len(wraps) \in Nat /\ DOMAIN wraps = 1 .. Len(wraps)
        BY <1>3 DEF ChainType, WrapsOver, SlotNames
      <4>2. Below[top["history"]] \subseteq 1 .. top["history"]
        BY <1>3, <4>1, BelowFacts
      <4> QED BY <4>1, <4>2 DEF Chain, Of
    <3>10. ~ (Len(wraps) + 1 \in 1 .. Len(wraps))
      BY <3>9
    <3> QED BY <1>1, <3>1, <3>4, <3>5, <3>6, <3>7, <3>8, <3>9, <3>10 DEF Patched
  <2> QED BY <2>1, <2>2
<1>5. Heard'
  <2>1. Opened' = Opened \cup {c}
    BY <1>1 DEF Opened
  <2> QED BY <1>1, <2>1 DEF CaptureInv, Heard
<1>6. CaptureType'
  BY <1>1, <1>4 DEF CaptureInv, CaptureType
<1> QED BY <1>4, <1>5, <1>6 DEF CaptureInv

\* Every step keeps it.
LEMMA CaptureInvStep == CaptureInv /\ [CaptureNext]_captureVars => CaptureInv'
<1> SUFFICES ASSUME CaptureInv, [CaptureNext]_captureVars PROVE CaptureInv'
  OBVIOUS
<1>1. ASSUME NEW c \in Clients, OpenBrowser(c) \/ OpenNative(c) \/ OpenNode(c) PROVE CaptureInv'
  BY <1>1, OpenBrowserKeeps, OpenOthers
<1>2. ASSUME NEW c \in Clients, CloseBrowser(c) PROVE CaptureInv'
  BY <1>2, CloseBrowserKeeps
<1>3. ASSUME NEW c \in Clients, CloseNative(c) PROVE CaptureInv'
  <2>1. platform = "native" /\ CloseClient(c) /\ UNCHANGED <<listeners, patch, hearers>>
    BY <1>3 DEF CloseNative, patchVars
  <2>2. {"errors", "console"} \in SUBSET (Slots \ {"history"})
    BY <2>1, OwnSlots
  <2>3. Of("errors", c) \cup Of("console", c) = UNION {Of(s, c) : s \in {"errors", "console"}}
    OBVIOUS
  <2>4. Unwrap(UNION {Of(s, c) : s \in {"errors", "console"}})
    BY <1>3, <2>3 DEF CloseNative
  <2> QED BY <2>1, <2>2, <2>4, CloseOthers
<1>4. ASSUME NEW c \in Clients, CloseNode(c) PROVE CaptureInv'
  <2>1. platform = "node" /\ CloseClient(c) /\ UNCHANGED <<listeners, patch, hearers>>
    BY <1>4 DEF CloseNode, patchVars
  <2>2. {"console"} \in SUBSET (Slots \ {"history"})
    BY <2>1, OwnSlots
  <2>3. Of("console", c) = UNION {Of(s, c) : s \in {"console"}}
    OBVIOUS
  <2>4. Unwrap(UNION {Of(s, c) : s \in {"console"}})
    BY <1>4, <2>3 DEF CloseNode
  <2> QED BY <2>1, <2>2, <2>4, CloseOthers
<1>5. ASSUME UNCHANGED <<platform, status, chainVars, patchVars, hearers>> PROVE CaptureInv'
  <2>1. UNCHANGED <<platform, status, wraps, top, left, listeners, patch, hearers>>
    BY <1>5 DEF chainVars, patchVars
  <2>2. CaptureType'
    BY <2>1 DEF CaptureInv, CaptureType, ChainType
  <2>3. Below' = Below
    BY <2>1 DEF Below
  <2>4. \A s, b : Chain(s)' = Chain(s) /\ Of(s, b)' = Of(s, b)
    BY <2>1, <2>3 DEF Chain, Of
  <2>5. Slots' = Slots /\ Opened' = Opened
    BY <2>1 DEF Slots, Opened
  <2>6. Wrapped' /\ Patched' /\ Heard'
    BY <2>1, <2>4, <2>5 DEF CaptureInv, Wrapped, Patched, Heard
  <2> QED BY <2>2, <2>6 DEF CaptureInv
<1>6. ASSUME NEW c \in Clients, ViewTimerFires(c) \/ SendViews(c) \/ \E taken \in SUBSET (1 .. MaxBatch) : HidePage(c, taken)
      PROVE  CaptureInv'
  BY <1>5, <1>6 DEF ViewTimerFires, SendViews, HidePage
<1>7. ASSUME NEW s \in SlotNames, OtherWraps(s) \/ OtherUnwraps(s) PROVE CaptureInv'
  BY <1>7, OtherWrapsKeeps, OtherUnwrapsKeeps
<1>8. CASE PushState \/ PopState
  BY <1>5, <1>8 DEF PushState, PopState, Navigate
<1>9. CASE \E f \in flushes, ok \in BOOLEAN : BatchAnswered(f, ok)
  BY <1>5, <1>9 DEF BatchAnswered
<1>10. CASE UNCHANGED captureVars
  BY <1>5, <1>10 DEF captureVars
<1> QED BY <1>1, <1>2, <1>3, <1>4, <1>6, <1>7, <1>8, <1>9, <1>10 DEF CaptureNext

\* Whoever wraps and unwraps the console, pushState or the error handler in whatever
\* order, a console call and an error of React Native run once through the wrapper of
\* each open client, a navigation is told to the listeners, once as long as no client
\* that was the last one has left its patch below another library's wrapper, and an
\* error is heard by whom it should be (history.ts: install; watchup.ts:
\* setupConsoleCapture; error-capture.ts).
THEOREM CapturesOnce == CaptureSpec => []CapturedOnce
<1>1. CaptureInv => CapturedOnce
  <2> SUFFICES ASSUME CaptureInv PROVE CapturedOnce
    OBVIOUS
  <2>1. CallsOnce
    <3> SUFFICES ASSUME NEW c \in Opened, NEW s \in Slots \ {"history"} PROVE Cardinality(Chain(s) \cap Of(s, c)) = 1
      BY DEF CallsOnce
    <3>1. c \in Clients /\ status[c] = "open"
      BY DEF Opened
    <3>2. PICK i : Of(s, c) = {i}
      BY <3>1 DEF CaptureInv, Wrapped
    <3>3. Chain(s) \cap Of(s, c) = {i}
      BY <3>1, <3>2 DEF CaptureInv, Wrapped
    <3> QED BY <3>3, FS_Singleton
  <2>2. NavigationsOnce
    <3> SUFFICES ASSUME listeners # {} PROVE Emits >= 1 /\ (Emits = 1 \/ "history" \in left)
      BY DEF NavigationsOnce
    <3> DEFINE patches == Chain("history") \cap Of("history", Page)
    <3>1. patch \in patches /\ ("history" \in left \/ patches \subseteq {patch})
      BY DEF CaptureInv, Patched
    <3>2. IsFiniteSet(patches)
      <4>1. Len(wraps) \in Nat /\ patches \subseteq 1 .. Len(wraps)
        BY DEF CaptureInv, CaptureType, ChainType, WrapsOver, Of
      <4>2. IsFiniteSet(1 .. Len(wraps))
        BY <4>1, FS_Interval
      <4> QED BY <4>1, <4>2, FS_Subset
    <3>3. Emits = Cardinality(patches)
      BY DEF Emits
    <3> HIDE DEF patches
    <3>4. Cardinality(patches) \in Nat /\ Cardinality(patches) # 0
      BY <3>1, <3>2, FS_CardinalityType, FS_EmptySet
    <3>5. CASE patches \subseteq {patch}
      <4>1. patches = {patch}
        BY <3>1, <3>5
      <4>2. Cardinality(patches) = 1
        BY <4>1, FS_Singleton
      <4> QED BY <3>3, <4>2
    <3> QED BY <3>1, <3>3, <3>4, <3>5
  <2>3. ErrorsHeard
    <3>1. Cardinality({}) = 0 /\ \A c : Cardinality({c}) = 1
      BY FS_EmptySet, FS_Singleton
    <3> QED BY <3>1 DEF CaptureInv, Heard, ErrorsHeard
  <2> QED BY <2>1, <2>2, <2>3 DEF CapturedOnce
<1> QED BY <1>1, CaptureInvInit, CaptureInvStep, PTL DEF CaptureSpec

(***************************************************************************)
(* AutoCapture: page views                                                 *)
(***************************************************************************)

Distinct(s) == \A i, j \in DOMAIN s : s[i] = s[j] => i = j

\* The lesser of two numbers.
LEMMA MinOfTwo ==
  ASSUME NEW a \in Nat, NEW b \in Nat
  PROVE  Min({a, b}) = IF a <= b THEN a ELSE b
<1> DEFINE m == IF a <= b THEN a ELSE b
<1>1. m \in {a, b} /\ \A y \in {a, b} : m <= y
  OBVIOUS
<1>2. \A x \in {a, b} : (\A y \in {a, b} : x <= y) => x = m
  OBVIOUS
<1> HIDE DEF m
<1>3. (CHOOSE x \in {a, b} : \A y \in {a, b} : x <= y) = m
  BY <1>1, <1>2
<1> QED BY <1>3 DEF Min, m

\* The batches cut a sequence of different views into parts.
LEMMA BatchesCut ==
  ASSUME NEW views \in Seq(Nat), Distinct(views), views # <<>>, NEW size \in Nat \ {0}
  PROVE  LET bs == Batches(views, size) IN
         /\ bs \in Seq(Seq(Nat)) /\ bs # <<>>
         /\ UNION {ToSet(bs[b]) : b \in DOMAIN bs} = ToSet(views)
         /\ \A b, c \in DOMAIN bs : b # c => ToSet(bs[b]) \cap ToSet(bs[c]) = {}
<1> DEFINE n == Len(views)
           last == (n + size - 1) \div size
           at == [b \in Nat |-> b * size]
           end == [b \in Nat |-> Min({at[b], n})]
           bs == Batches(views, size)
<1>1. n \in Nat \ {0} /\ DOMAIN views = 1 .. n
  OBVIOUS
<1>2. last \in Nat /\ n <= at[last]
  <2>1. last \in Nat /\ n <= last * size
    BY <1>1
  <2> HIDE DEF last
  <2> QED BY <2>1
<1>3. last # 0
  BY <1>1, <1>2
<1> HIDE DEF last
<1>4. at[0] = 0 /\ \A b \in Nat : at[b] \in Nat /\ b <= at[b]
  OBVIOUS
<1>5a. \A b, c \in Nat : b < c => c - 1 \in Nat /\ at[b] <= at[c - 1]
  <2> TAKE b, c \in Nat
  <2> HAVE b < c
  <2>1. c - 1 \in Nat /\ b * size <= (c - 1) * size
    OBVIOUS
  <2> QED BY <2>1
<1> HIDE DEF at
<1>5. \A b \in Nat : end[b] \in Nat /\ end[b] <= n /\ end[b] <= at[b] /\ (end[b] = n \/ end[b] = at[b])
  <2> TAKE b \in Nat
  <2>1. at[b] \in Nat
    BY <1>4
  <2> QED BY <1>1, <2>1 DEF Min
<1> HIDE DEF n, end
<1>6. bs = [b \in 1 .. last |-> SubSeq(views, at[b - 1] + 1, end[b])]
  <2>1. \A b \in 1 .. last : b \in Nat /\ b - 1 \in Nat /\ at[b - 1] = (b - 1) * size /\ end[b] = Min({b * size, n})
    BY <1>2 DEF at, end
  <2>2. bs = [b \in 1 .. last |-> SubSeq(views, (b - 1) * size + 1, Min({b * size, n}))]
    BY DEF bs, Batches, last, n
  <2> QED BY <2>1, <2>2
<1> HIDE DEF bs
<1>7. DOMAIN bs = 1 .. last /\ Len(bs) = last /\ bs # <<>>
  <2>1. DOMAIN bs = 1 .. last /\ last \in Nat \ {0}
    BY <1>2, <1>3, <1>6
  <2>2. Len(bs) = last
    BY <1>6, <2>1
  <2> QED BY <2>1, <2>2
<1>8. ASSUME NEW b \in 1 .. last
      PROVE  /\ bs[b] \in Seq(Nat)
             /\ ToSet(bs[b]) = {views[p] : p \in at[b - 1] + 1 .. end[b]}
             /\ at[b - 1] + 1 \in Nat \ {0} /\ end[b] \in Nat /\ end[b] <= n
  <2> DEFINE from == at[b - 1] + 1
  <2>1. from \in Nat \ {0} /\ end[b] \in Nat /\ end[b] <= n
    <3>1. b \in Nat \ {0} /\ b - 1 \in Nat
      BY <1>2
    <3>2. at[b - 1] \in Nat
      BY <1>4, <3>1
    <3> QED BY <1>5, <3>1, <3>2
  <2>2. bs[b] = SubSeq(views, from, end[b])
    BY <1>6
  <2> HIDE DEF from
  <2>3. bs[b] \in Seq(Nat)
    <3>1. \A p \in from .. end[b] : p \in 1 .. n /\ views[p] \in Nat
      BY <1>1, <2>1
    <3> QED BY <1>1, <2>1, <2>2, <3>1
  <2>4. ToSet(bs[b]) = {views[p] : p \in from .. end[b]}
    <3>1. CASE from > end[b]
      <4>1. bs[b] = <<>>
        BY <2>1, <2>2, <3>1
      <4> QED BY <2>1, <3>1, <4>1 DEF ToSet
    <3>2. CASE from <= end[b]
      <4>1. /\ DOMAIN bs[b] = 1 .. end[b] - from + 1
            /\ \A i \in 1 .. end[b] - from + 1 : bs[b][i] = views[from + i - 1]
        <5>1. SubSeq(views, from, end[b]) = [i \in 1 .. end[b] - from + 1 |-> views[from + i - 1]]
          BY ONLY <1>1, <2>1, <3>2
        <5> QED BY ONLY <2>2, <5>1
      <4>2. \A i \in 1 .. end[b] - from + 1 : from + i - 1 \in from .. end[b]
        BY <2>1
      <4>3. \A p \in from .. end[b] : p - from + 1 \in 1 .. end[b] - from + 1 /\ from + (p - from + 1) - 1 = p
        BY <2>1
      <4>4. ToSet(bs[b]) = {bs[b][i] : i \in 1 .. end[b] - from + 1}
        BY <4>1 DEF ToSet
      <4>5. \A p \in from .. end[b] : views[p] = bs[b][p - from + 1]
        BY <4>1, <4>3
      <4>6. \A i \in 1 .. end[b] - from + 1 : bs[b][i] \in {views[p] : p \in from .. end[b]}
        BY <4>1, <4>2
      <4>7. \A p \in from .. end[b] : views[p] \in ToSet(bs[b])
        BY <4>3, <4>4, <4>5
      <4> QED BY <4>4, <4>6, <4>7
    <3> QED BY <2>1, <3>1, <3>2
  <2> QED BY <2>1, <2>3, <2>4 DEF from
<1>9. bs \in Seq(Seq(Nat))
  BY <1>2, <1>6, <1>7, <1>8
<1>10. ToSet(views) = {views[p] : p \in 1 .. n}
  BY <1>1 DEF ToSet
<1>11. \A p \in 1 .. n : \E b \in 1 .. last : p \in at[b - 1] + 1 .. end[b]
  <2> TAKE p \in 1 .. n
  <2> DEFINE W == {b \in Nat : p <= at[b]}
  <2>1. last \in W
    <3>1. at[last] \in Nat
      BY <1>2, <1>4
    <3> QED BY <1>1, <1>2, <3>1
  <2>2. PICK b \in W : \A c \in W : b <= c
    <3>1. W \in SUBSET Nat
      OBVIOUS
    <3> HIDE DEF W
    <3> QED BY <2>1, <3>1, LeastOf
  <2>3. b \in Nat /\ p <= at[b] /\ b <= last /\ at[b] \in Nat
    BY <1>4, <2>1, <2>2
  <2>4. b # 0
    BY <1>4, <2>3
  <2>5. b - 1 \in Nat /\ ~ (b <= b - 1)
    BY <2>3, <2>4
  <2>6. at[b - 1] \in Nat /\ ~ (p <= at[b - 1])
    BY <1>4, <2>2, <2>5
  <2>7. p <= end[b] /\ end[b] \in Nat
    BY <1>1, <1>5, <2>3
  <2> QED BY <1>2, <2>3, <2>4, <2>6, <2>7
<1>12. UNION {ToSet(bs[b]) : b \in DOMAIN bs} = ToSet(views)
  <2>1. ASSUME NEW b \in 1 .. last PROVE ToSet(bs[b]) \subseteq ToSet(views)
    <3>1. \A p \in at[b - 1] + 1 .. end[b] : p \in 1 .. n
      BY <1>1, <1>8
    <3>2. ToSet(bs[b]) = {views[p] : p \in at[b - 1] + 1 .. end[b]}
      BY <1>8
    <3> QED BY <1>10, <3>1, <3>2
  <2>2. ASSUME NEW p \in 1 .. n PROVE \E b \in 1 .. last : views[p] \in ToSet(bs[b])
    <3>1. PICK b \in 1 .. last : p \in at[b - 1] + 1 .. end[b]
      BY <1>11
    <3> QED BY <1>8, <3>1
  <2> QED BY <1>7, <1>10, <2>1, <2>2
<1>13. ASSUME NEW b \in 1 .. last, NEW c \in 1 .. last, b < c PROVE ToSet(bs[b]) \cap ToSet(bs[c]) = {}
  <2>1. b \in Nat /\ c \in Nat /\ end[b] <= at[b] /\ at[b] \in Nat
    BY <1>2, <1>4, <1>5
  <2>2. at[b] <= at[c - 1] /\ at[c - 1] \in Nat
    BY <1>4, <1>5a, <1>13, <2>1
  <2> DEFINE lo == at[b - 1] + 1
             hi == end[b]
             from == at[c - 1] + 1
             to == end[c]
  <2>3. /\ lo \in Nat \ {0} /\ hi \in Nat /\ hi <= n
        /\ from \in Nat \ {0} /\ to \in Nat /\ to <= n /\ n \in Nat
    BY <1>1, <1>8
  <2>4. hi < from
    BY ONLY <2>1, <2>2, <2>3
  <2>5. ToSet(bs[b]) = {views[p] : p \in lo .. hi} /\ ToSet(bs[c]) = {views[p] : p \in from .. to}
    BY <1>8
  <2> HIDE DEF lo, hi, from, to
  <2>6. \A p \in lo .. hi, q \in from .. to : p \in 1 .. n /\ q \in 1 .. n /\ p # q
    BY ONLY <2>3, <2>4
  <2> QED BY <1>1, <2>5, <2>6 DEF Distinct
<1>14. \A b, c \in 1 .. last : b # c => ToSet(bs[b]) \cap ToSet(bs[c]) = {}
  <2> TAKE b, c \in 1 .. last
  <2>1. b < c \/ c < b \/ b = c
    BY <1>2
  <2> QED BY <1>13, <2>1
<1> QED BY <1>7, <1>9, <1>12, <1>14 DEF bs

ViewsOf(f) == UNION {ToSet(f.batches[b]) : b \in DOMAIN f.batches}

ViewType ==
  /\ timers \in [Clients -> Nat] /\ seen \in 0 .. MaxViews
  /\ buffer \in [Clients -> Seq(Nat)]
  /\ \A f \in flushes : f \in [by : Clients, batches : Seq(Seq(Nat))] /\ f.batches # <<>>
  /\ arrived \in [1 .. MaxViews -> Nat]

\* A client that waits to send views, or to count one, is a browser's; views wait with
\* an open one.
Viewers ==
  \A c \in Clients :
    /\ timers[c] > 0 => platform = "browser" /\ status[c] # "new"
    /\ buffer[c] # <<>> => platform = "browser" /\ status[c] = "open"

\* No view is twice in a buffer or in a flush.
Apart ==
  /\ \A c \in Clients : Distinct(buffer[c])
  /\ \A f \in flushes : \A b, d \in DOMAIN f.batches : b # d => ToSet(f.batches[b]) \cap ToSet(f.batches[d]) = {}

\* What is somewhere was seen, and what was seen is in one place.
In(v, c)  == v \in ToSet(buffer[c])
Out(v, f) == v \in ViewsOf(f)
Seen ==
  /\ \A c \in Clients : ToSet(buffer[c]) \subseteq 1 .. seen
  /\ \A f \in flushes : ViewsOf(f) \subseteq 1 .. seen
  /\ dropped \subseteq 1 .. seen
  /\ \A v \in 1 .. MaxViews : v > seen => arrived[v] = 0
Placed ==
  \A v \in 1 .. seen :
    /\ \A c, d \in Clients : In(v, c) /\ In(v, d) => c = d
    /\ \A f, g \in flushes : Out(v, f) /\ Out(v, g) => f = g
    /\ \A c \in Clients, f \in flushes : ~ (In(v, c) /\ Out(v, f))
    /\ arrived[v] \in {0, 1}
    /\ arrived[v] = 1 \/ v \in dropped => (\A c \in Clients : ~ In(v, c)) /\ \A f \in flushes : ~ Out(v, f)
    /\ ~ (arrived[v] = 1 /\ v \in dropped)
    /\ arrived[v] = 1 \/ v \in dropped \/ (\E c \in Clients : In(v, c)) \/ \E f \in flushes : Out(v, f)

ViewInv == ViewType /\ Viewers /\ Apart /\ Seen /\ Placed

\* The views of a buffer that gets one more.
LEMMA ViewSets ==
  ASSUME NEW s \in Seq(Nat), NEW x \in Nat
  PROVE  /\ ToSet(<<>>) = {} /\ Distinct(<<>>)
         /\ Append(s, x) \in Seq(Nat) /\ Append(s, x) # <<>>
         /\ ToSet(Append(s, x)) = ToSet(s) \cup {x}
         /\ Distinct(s) /\ x \notin ToSet(s) => Distinct(Append(s, x))
         /\ \A v : Contains(s, v) <=> v \in ToSet(s)
<1>1. ToSet(<<>>) = {} /\ Distinct(<<>>)
  BY DEF ToSet, Distinct
<1>2. /\ Append(s, x) \in Seq(Nat) /\ Len(s) \in Nat /\ DOMAIN s = 1 .. Len(s)
      /\ DOMAIN Append(s, x) = 1 .. Len(s) + 1
      /\ \A i \in 1 .. Len(s) : Append(s, x)[i] = s[i]
      /\ Append(s, x)[Len(s) + 1] = x
  OBVIOUS
<1>3. \A i \in 1 .. Len(s) + 1 : i \in 1 .. Len(s) \/ i = Len(s) + 1
  BY <1>2
<1>4. \A i \in 1 .. Len(s) : i \in 1 .. Len(s) + 1
  BY <1>2
<1>5. Len(s) + 1 \in 1 .. Len(s) + 1
  BY <1>2
<1>6. ToSet(Append(s, x)) = ToSet(s) \cup {x}
  BY <1>2, <1>3, <1>4, <1>5 DEF ToSet
<1>7. Distinct(s) /\ x \notin ToSet(s) => Distinct(Append(s, x))
  BY <1>2, <1>3 DEF Distinct, ToSet
<1>8. Append(s, x) # <<>>
  OBVIOUS
<1>9. \A v : Contains(s, v) <=> v \in ToSet(s)
  BY <1>2 DEF Contains, ToSet
<1> QED BY <1>1, <1>2, <1>6, <1>7, <1>8, <1>9

\* A flush takes the views of a buffer along, each in one of its batches.
LEMMA FlushMakes ==
  ASSUME ViewType, NEW c \in Clients, NEW views \in Seq(Nat), Distinct(views), FlushWeb(c, views)
  PROVE  /\ buffer' = [buffer EXCEPT ![c] = <<>>]
         /\ \E new : /\ flushes' = flushes \cup new
                     /\ views = <<>> => new = {}
                     /\ views # <<>> => \E f \in [by : Clients, batches : Seq(Seq(Nat))] :
                          /\ new = {f} /\ f.batches # <<>> /\ ViewsOf(f) = ToSet(views)
                          /\ \A b, d \in DOMAIN f.batches : b # d => ToSet(f.batches[b]) \cap ToSet(f.batches[d]) = {}
<1>1. buffer' = [buffer EXCEPT ![c] = <<>>]
  BY DEF FlushWeb, Rest
<1>2. PICK size \in 1 .. MaxBatch : flushes' = flushes \cup (IF views = <<>> THEN {} ELSE {[by |-> c, batches |-> Batches(views, size)]})
  BY DEF FlushWeb
<1>3. CASE views = <<>>
  BY <1>1, <1>2, <1>3
<1>4. CASE views # <<>>
  <2> DEFINE bs == Batches(views, size)
             f == [by |-> c, batches |-> bs]
  <2>1. size \in Nat \ {0}
    BY CaptureConstants
  <2>2. /\ bs \in Seq(Seq(Nat)) /\ bs # <<>>
        /\ UNION {ToSet(bs[b]) : b \in DOMAIN bs} = ToSet(views)
        /\ \A b, d \in DOMAIN bs : b # d => ToSet(bs[b]) \cap ToSet(bs[d]) = {}
    BY <1>4, <2>1, BatchesCut
  <2>3. flushes' = flushes \cup {f}
    BY <1>2, <1>4
  <2> HIDE DEF bs
  <2>4. f \in [by : Clients, batches : Seq(Seq(Nat))] /\ f.batches = bs
    BY <2>2
  <2>5. ViewsOf(f) = ToSet(views)
    BY <2>2, <2>4 DEF ViewsOf
  <2> QED BY <1>1, <1>4, <2>2, <2>3, <2>4, <2>5
<1> QED BY <1>3, <1>4

\* All that waits with a client, and perhaps a new view, goes out.
LEMMA FlushPlaces ==
  ASSUME ViewInv, NEW c \in Clients, NEW views, FlushWeb(c, views),
         \/ views = buffer[c] /\ seen' = seen
         \/ views = Append(buffer[c], seen + 1) /\ seen < MaxViews /\ seen' = seen + 1,
         UNCHANGED <<arrived, dropped>>
  PROVE  /\ buffer' = [buffer EXCEPT ![c] = <<>>]
         /\ timers' \in [Clients -> Nat] => ViewType'
         /\ Apart' /\ Seen' /\ Placed'
<1>1. /\ buffer[c] \in Seq(Nat) /\ seen \in Nat /\ MaxViews \in Nat /\ seen <= MaxViews
      /\ buffer \in [Clients -> Seq(Nat)] /\ arrived \in [1 .. MaxViews -> Nat]
      /\ Distinct(buffer[c]) /\ ToSet(buffer[c]) \subseteq 1 .. seen
  BY CaptureConstants DEF ViewInv, ViewType, Apart, Seen
<1>2. seen + 1 \notin ToSet(buffer[c]) /\ seen + 1 \in Nat
  BY <1>1
<1>3. /\ views \in Seq(Nat) /\ Distinct(views) /\ seen' \in 0 .. MaxViews /\ seen <= seen'
      /\ ToSet(views) = ToSet(buffer[c]) \cup {v \in 1 .. MaxViews : seen < v /\ v <= seen'}
  <2>1. CASE views = buffer[c] /\ seen' = seen
    <3>1. {v \in 1 .. MaxViews : seen < v /\ v <= seen'} = {}
      BY <1>1, <2>1
    <3> QED BY <1>1, <2>1, <3>1
  <2>2. CASE views = Append(buffer[c], seen + 1) /\ seen < MaxViews /\ seen' = seen + 1
    <3>1. {v \in 1 .. MaxViews : seen < v /\ v <= seen'} = {seen + 1}
      BY <1>1, <2>2
    <3>2. views \in Seq(Nat) /\ Distinct(views) /\ ToSet(views) = ToSet(buffer[c]) \cup {seen + 1}
      BY <1>1, <1>2, <2>2, ViewSets
    <3>3. seen' \in 0 .. MaxViews /\ seen <= seen'
      BY <1>1, <2>2
    <3> QED BY <3>1, <3>2, <3>3
  <2> QED BY <2>1, <2>2
<1>4. PICK new : /\ flushes' = flushes \cup new
                 /\ views = <<>> => new = {}
                 /\ views # <<>> => \E f \in [by : Clients, batches : Seq(Seq(Nat))] :
                      /\ new = {f} /\ f.batches # <<>> /\ ViewsOf(f) = ToSet(views)
                      /\ \A b, d \in DOMAIN f.batches : b # d => ToSet(f.batches[b]) \cap ToSet(f.batches[d]) = {}
  BY <1>3, FlushMakes DEF ViewInv
<1>5. buffer' = [buffer EXCEPT ![c] = <<>>]
  BY <1>3, FlushMakes DEF ViewInv
<1>6. ToSet(<<>>) = {} /\ Distinct(<<>>)
  BY <1>1, ViewSets
<1>7. timers' \in [Clients -> Nat] => ViewType'
  <2>1. buffer' \in [Clients -> Seq(Nat)]
    BY <1>1, <1>5
  <2>2. \A f \in flushes' : f \in [by : Clients, batches : Seq(Seq(Nat))] /\ f.batches # <<>>
    BY <1>4 DEF ViewInv, ViewType
  <2> QED BY <1>1, <1>3, <2>1, <2>2 DEF ViewType
<1>8. Apart'
  BY <1>1, <1>4, <1>5, <1>6 DEF ViewInv, Apart
<1>9. /\ \A v, d : d \in Clients => (In(v, d)' <=> In(v, d) /\ d # c)
      /\ \A f \in new : ViewsOf(f) = ToSet(views)
      /\ \A f, g \in new : f = g
      /\ \A v \in ToSet(views) : \E f \in new : v \in ViewsOf(f)
  <2>1. \A v, d : d \in Clients => (In(v, d)' <=> In(v, d) /\ d # c)
    BY <1>1, <1>5, <1>6 DEF In
  <2>2. views = <<>> => ToSet(views) = {}
    BY <1>6
  <2> QED BY <1>4, <2>1, <2>2
<1>10. Seen'
  <2>1. \A d \in Clients : ToSet(buffer[d])' \subseteq ToSet(buffer[d])
    BY <1>1, <1>5, <1>6
  <2>2. 1 .. seen \subseteq 1 .. seen'
    BY <1>1, <1>3
  <2>3. ToSet(views) \subseteq 1 .. seen'
    BY <1>1, <1>3, <2>2
  <2>4. \A f \in flushes' : ViewsOf(f) \subseteq 1 .. seen'
    BY <1>4, <1>9, <2>2, <2>3 DEF ViewInv, Seen
  <2>5. \A v \in 1 .. MaxViews : v > seen' => v > seen
    BY <1>1, <1>3
  <2> QED BY <2>1, <2>2, <2>4, <2>5 DEF ViewInv, Seen
<1>11. Placed'
  <2> SUFFICES ASSUME NEW v \in 1 .. seen'
               PROVE  /\ \A d, e \in Clients : In(v, d)' /\ In(v, e)' => d = e
                      /\ \A f, g \in flushes' : Out(v, f) /\ Out(v, g) => f = g
                      /\ \A d \in Clients, f \in flushes' : ~ (In(v, d)' /\ Out(v, f))
                      /\ arrived[v] \in {0, 1}
                      /\ arrived[v] = 1 \/ v \in dropped => (\A d \in Clients : ~ In(v, d)') /\ \A f \in flushes' : ~ Out(v, f)
                      /\ ~ (arrived[v] = 1 /\ v \in dropped)
                      /\ arrived[v] = 1 \/ v \in dropped \/ (\E d \in Clients : In(v, d)') \/ \E f \in flushes' : Out(v, f)
    BY DEF Placed, Out, ViewsOf
  <2>0. \A f \in new : Out(v, f) <=> v \in ToSet(views)
    BY <1>9 DEF Out
  <2>1. CASE v \in 1 .. seen
    <3>1. v \in ToSet(views) <=> In(v, c)
      BY <1>1, <1>3, <2>1 DEF In
    <3>2. /\ \A d, e \in Clients : In(v, d) /\ In(v, e) => d = e
          /\ \A f, g \in flushes : Out(v, f) /\ Out(v, g) => f = g
          /\ \A d \in Clients, f \in flushes : ~ (In(v, d) /\ Out(v, f))
          /\ arrived[v] \in {0, 1}
          /\ arrived[v] = 1 \/ v \in dropped => (\A d \in Clients : ~ In(v, d)) /\ \A f \in flushes : ~ Out(v, f)
          /\ ~ (arrived[v] = 1 /\ v \in dropped)
          /\ arrived[v] = 1 \/ v \in dropped \/ (\E d \in Clients : In(v, d)) \/ \E f \in flushes : Out(v, f)
      BY <2>1 DEF ViewInv, Placed
    <3>3. In(v, c) => \E f \in new : Out(v, f)
      BY <1>9, <3>1 DEF Out
    <3> QED BY <1>4, <1>9, <2>0, <3>1, <3>2, <3>3
  <2>2. CASE v \notin 1 .. seen
    <3>1. v \in 1 .. MaxViews /\ seen < v /\ v <= seen'
      BY <1>1, <1>3, <2>2
    <3>2. v \in ToSet(views)
      BY <1>3, <3>1
    <3>3. arrived[v] = 0 /\ v \notin dropped /\ (\A d \in Clients : ~ In(v, d)) /\ \A f \in flushes : ~ Out(v, f)
      BY <2>2, <3>1 DEF ViewInv, Seen, In, Out
    <3>4. \E f \in new : Out(v, f)
      BY <1>9, <3>2 DEF Out
    <3> QED BY <1>4, <1>9, <3>3, <3>4
  <2> QED BY <2>1, <2>2
<1> QED BY <1>5, <1>7, <1>8, <1>10, <1>11

\* The shape of a sequence's tail.
LEMMA HeadTail ==
  ASSUME NEW T, NEW s \in Seq(T), s # <<>>
  PROVE  /\ Len(s) \in Nat \ {0} /\ DOMAIN s = 1 .. Len(s) /\ Head(s) = s[1] /\ 1 \in 1 .. Len(s)
         /\ Tail(s) \in Seq(T) /\ Len(Tail(s)) = Len(s) - 1 /\ DOMAIN Tail(s) = 1 .. Len(s) - 1
         /\ Len(s) # 1 => Tail(s) # <<>>
         /\ \A b \in 1 .. Len(s) - 1 : Tail(s)[b] = s[b + 1]
<1>1. /\ Len(s) \in Nat \ {0} /\ DOMAIN s = 1 .. Len(s) /\ Head(s) = s[1]
      /\ Tail(s) \in Seq(T) /\ Len(Tail(s)) = Len(s) - 1
      /\ \A b \in 1 .. Len(s) - 1 : Tail(s)[b] = s[b + 1]
  OBVIOUS
<1>2. DOMAIN Tail(s) = 1 .. Len(s) - 1
  BY <1>1
<1>3. Len(s) # 1 => Len(Tail(s)) # 0
  BY <1>1
<1>4. Len(<<>>) = 0
  OBVIOUS
<1>5. 1 \in 1 .. Len(s)
  BY <1>1
<1> QED BY <1>1, <1>2, <1>3, <1>4, <1>5

\* A flush whose first batch was answered has the views of the others.
LEMMA FlushViews ==
  ASSUME NEW f \in [by : Clients, batches : Seq(Seq(Nat))], f.batches # <<>>,
         \A b, d \in DOMAIN f.batches : b # d => ToSet(f.batches[b]) \cap ToSet(f.batches[d]) = {}
  PROVE  /\ Len(f.batches) = 1 => ViewsOf(f) = ToSet(Head(f.batches))
         /\ LET g == [f EXCEPT !.batches = Tail(@)] IN
            Len(f.batches) # 1 =>
              /\ g \in [by : Clients, batches : Seq(Seq(Nat))] /\ g.batches # <<>>
              /\ \A b, d \in DOMAIN g.batches : b # d => ToSet(g.batches[b]) \cap ToSet(g.batches[d]) = {}
              /\ ViewsOf(g) = ViewsOf(f) \ ToSet(Head(f.batches))
         /\ ToSet(Head(f.batches)) \subseteq ViewsOf(f)
<1> DEFINE s == f.batches
           n == Len(s)
<1>1. s \in Seq(Seq(Nat)) /\ n \in Nat \ {0} /\ DOMAIN s = 1 .. n /\ Head(s) = s[1] /\ 1 \in 1 .. n
  BY HeadTail
<1>2. ViewsOf(f) = UNION {ToSet(s[b]) : b \in 1 .. n}
  BY <1>1 DEF ViewsOf
<1>3. \A b, d \in 1 .. n : b # d => ToSet(s[b]) \cap ToSet(s[d]) = {}
  BY <1>1
<1>4. ToSet(Head(s)) \subseteq ViewsOf(f) /\ (n = 1 => ViewsOf(f) = ToSet(Head(s)))
  <2>1. ASSUME n = 1 PROVE ViewsOf(f) = ToSet(s[1])
    <3>1. \A b : b \in 1 .. n <=> b = 1
      BY <2>1
    <3> HIDE DEF s, n
    <3> QED BY <1>2, <3>1
  <2>2. ToSet(s[1]) \subseteq ViewsOf(f)
    <3> HIDE DEF s, n
    <3> QED BY <1>1, <1>2
  <2> QED BY <1>1, <2>1, <2>2
<1>5. ASSUME n # 1
      PROVE  LET g == [f EXCEPT !.batches = Tail(@)] IN
             /\ g \in [by : Clients, batches : Seq(Seq(Nat))] /\ g.batches # <<>>
             /\ \A b, d \in DOMAIN g.batches : b # d => ToSet(g.batches[b]) \cap ToSet(g.batches[d]) = {}
             /\ ViewsOf(g) = ViewsOf(f) \ ToSet(Head(s))
  <2> DEFINE g == [f EXCEPT !.batches = Tail(@)]
             t == Tail(s)
  <2>1. /\ t \in Seq(Seq(Nat)) /\ Len(t) = n - 1 /\ DOMAIN t = 1 .. n - 1
        /\ \A b \in 1 .. n - 1 : t[b] = s[b + 1]
    BY HeadTail
  <2>2. t # <<>>
    BY <1>5, HeadTail
  <2>3. g \in [by : Clients, batches : Seq(Seq(Nat))] /\ g.batches = t
    BY <2>1
  <2> HIDE DEF g, t, s, n
  <2>4. \A b \in 1 .. n - 1 : b + 1 \in 1 .. n /\ b + 1 # 1
    BY <1>1
  <2>5. \A b, d \in DOMAIN t : b # d => ToSet(t[b]) \cap ToSet(t[d]) = {}
    <3> TAKE b, d \in DOMAIN t
    <3> HAVE b # d
    <3>1. b \in 1 .. n - 1 /\ d \in 1 .. n - 1
      BY <2>1
    <3>2. b + 1 \in 1 .. n /\ d + 1 \in 1 .. n /\ t[b] = s[b + 1] /\ t[d] = s[d + 1]
      BY <2>1, <2>4, <3>1
    <3>3. b + 1 # d + 1
      BY <1>1, <3>1
    <3> QED BY <1>3, <3>2, <3>3
  <2>6. ViewsOf(g) = UNION {ToSet(t[b]) : b \in 1 .. n - 1}
    BY <2>1, <2>3 DEF ViewsOf
  <2>7. \A b \in 1 .. n : b = 1 \/ (b - 1 \in 1 .. n - 1 /\ t[b - 1] = s[b])
    <3> TAKE b \in 1 .. n
    <3>1. b # 1 => b - 1 \in 1 .. n - 1 /\ (b - 1) + 1 = b
      BY <1>1
    <3> QED BY <2>1, <3>1
  <2>8. \A b \in 1 .. n - 1 : ToSet(t[b]) \subseteq ViewsOf(f) \ ToSet(s[1])
    <3> TAKE b \in 1 .. n - 1
    <3>1. b + 1 \in 1 .. n /\ 1 \in 1 .. n /\ b + 1 # 1 /\ t[b] = s[b + 1]
      BY <1>1, <2>1, <2>4
    <3> QED BY <1>2, <1>3, <3>1
  <2>9. \A b \in 1 .. n : ToSet(s[b]) \subseteq ToSet(s[1]) \cup ViewsOf(g)
    <3> TAKE b \in 1 .. n
    <3>1. CASE b = 1
      BY <3>1
    <3>2. CASE b - 1 \in 1 .. n - 1 /\ t[b - 1] = s[b]
      BY <2>6, <3>2
    <3> QED BY <2>7, <3>1, <3>2
  <2>10. ViewsOf(g) = ViewsOf(f) \ ToSet(s[1])
    BY <1>2, <2>6, <2>8, <2>9
  <2> QED BY <1>1, <2>2, <2>3, <2>5, <2>10 DEF g
<1> QED BY <1>4, <1>5

\* The first batch of a flush is answered.
LEMMA AnswerPlaces ==
  ASSUME ViewInv, NEW f \in flushes, NEW ok \in BOOLEAN, BatchAnswered(f, ok)
  PROVE  ViewInv'
<1> DEFINE gone == ToSet(Head(f.batches))
           g == [f EXCEPT !.batches = Tail(@)]
           new == IF Len(f.batches) = 1 THEN {} ELSE {g}
<1>1. /\ flushes' = (flushes \ {f}) \cup new
      /\ UNCHANGED <<platform, status, timers, buffer, seen>>
      /\ arrived' = [v \in DOMAIN arrived |-> IF ok /\ v \in gone THEN arrived[v] + 1 ELSE arrived[v]]
      /\ dropped' = IF ok THEN dropped ELSE dropped \cup gone
  <2>1. arrived \in [1 .. MaxViews -> Nat]
    BY DEF ViewInv, ViewType
  <2>2. ~ ok => arrived' = [v \in DOMAIN arrived |-> IF ok /\ v \in gone THEN arrived[v] + 1 ELSE arrived[v]]
    BY <2>1 DEF BatchAnswered
  <2> QED BY <2>2 DEF BatchAnswered, Received
<1>2. /\ f \in [by : Clients, batches : Seq(Seq(Nat))] /\ f.batches # <<>>
      /\ \A b, d \in DOMAIN f.batches : b # d => ToSet(f.batches[b]) \cap ToSet(f.batches[d]) = {}
  BY DEF ViewInv, ViewType, Apart
<1>3. /\ gone \subseteq ViewsOf(f) /\ (new = {} => ViewsOf(f) = gone)
      /\ \A h \in new : h = g /\ g \in [by : Clients, batches : Seq(Seq(Nat))] /\ g.batches # <<>>
      /\ \A h \in new : \A b, d \in DOMAIN h.batches : b # d => ToSet(h.batches[b]) \cap ToSet(h.batches[d]) = {}
      /\ \A h \in new : ViewsOf(h) = ViewsOf(f) \ gone
      /\ new # {} => g \in new
  BY <1>2, FlushViews
<1> HIDE DEF gone, g, new
<1>4. /\ MaxViews \in Nat /\ seen \in Nat /\ seen <= MaxViews /\ arrived \in [1 .. MaxViews -> Nat]
      /\ ViewsOf(f) \subseteq 1 .. seen
  BY CaptureConstants DEF ViewInv, ViewType, Seen
<1>5. ViewType'
  <2>1. arrived' \in [1 .. MaxViews -> Nat]
    BY <1>1, <1>4
  <2>2. \A h \in flushes' : h \in [by : Clients, batches : Seq(Seq(Nat))] /\ h.batches # <<>>
    BY <1>1, <1>3 DEF ViewInv, ViewType
  <2> QED BY <1>1, <2>1, <2>2 DEF ViewInv, ViewType
<1>6. Viewers'
  BY <1>1 DEF ViewInv, Viewers
<1>7. Apart'
  BY <1>1, <1>3 DEF ViewInv, Apart
<1>8. Seen'
  <2>1. \A h \in flushes' : ViewsOf(h) \subseteq 1 .. seen
    BY <1>1, <1>3, <1>4 DEF ViewInv, Seen
  <2>2. dropped' \subseteq 1 .. seen
    BY <1>1, <1>3, <1>4 DEF ViewInv, Seen
  <2>3. \A v \in 1 .. MaxViews : v > seen => arrived'[v] = 0
    <3> TAKE v \in 1 .. MaxViews
    <3> HAVE v > seen
    <3>1. v \notin gone /\ arrived[v] = 0
      BY <1>3, <1>4 DEF ViewInv, Seen
    <3> QED BY <1>1, <1>4, <3>1
  <2> QED BY <1>1, <2>1, <2>2, <2>3 DEF ViewInv, Seen, ViewsOf
<1>9. Placed'
  <2> SUFFICES ASSUME NEW v \in 1 .. seen
               PROVE  /\ \A d, e \in Clients : In(v, d) /\ In(v, e) => d = e
                      /\ \A h, k \in flushes' : Out(v, h) /\ Out(v, k) => h = k
                      /\ \A d \in Clients, h \in flushes' : ~ (In(v, d) /\ Out(v, h))
                      /\ arrived'[v] \in {0, 1}
                      /\ arrived'[v] = 1 \/ v \in dropped' => (\A d \in Clients : ~ In(v, d)) /\ \A h \in flushes' : ~ Out(v, h)
                      /\ ~ (arrived'[v] = 1 /\ v \in dropped')
                      /\ arrived'[v] = 1 \/ v \in dropped' \/ (\E d \in Clients : In(v, d)) \/ \E h \in flushes' : Out(v, h)
    BY <1>1 DEF Placed, In, Out, ViewsOf
  <2>1. /\ \A d, e \in Clients : In(v, d) /\ In(v, e) => d = e
        /\ \A h, k \in flushes : Out(v, h) /\ Out(v, k) => h = k
        /\ \A d \in Clients, h \in flushes : ~ (In(v, d) /\ Out(v, h))
        /\ arrived[v] \in {0, 1}
        /\ arrived[v] = 1 \/ v \in dropped => (\A d \in Clients : ~ In(v, d)) /\ \A h \in flushes : ~ Out(v, h)
        /\ ~ (arrived[v] = 1 /\ v \in dropped)
        /\ arrived[v] = 1 \/ v \in dropped \/ (\E d \in Clients : In(v, d)) \/ \E h \in flushes : Out(v, h)
    BY DEF ViewInv, Placed
  <2>2. /\ v \in gone => Out(v, f)
        /\ \A h \in new : Out(v, h) <=> Out(v, f) /\ v \notin gone
        /\ Out(v, f) /\ v \notin gone => \E h \in new : Out(v, h)
    BY <1>3 DEF Out
  <2>3. arrived'[v] = IF ok /\ v \in gone THEN arrived[v] + 1 ELSE arrived[v]
    BY <1>1, <1>4
  <2>4. CASE v \in gone
    <3>1. Out(v, f) /\ arrived[v] = 0 /\ v \notin dropped
      BY <2>1, <2>2, <2>4
    <3>2. \A h \in flushes' : ~ Out(v, h)
      BY <1>1, <2>1, <2>2, <2>4, <3>1
    <3>3. IF ok THEN arrived'[v] = 1 /\ v \notin dropped' ELSE arrived'[v] = 0 /\ v \in dropped'
      BY <1>1, <2>3, <2>4, <3>1
    <3> QED BY <2>1, <3>1, <3>2, <3>3
  <2>5. CASE v \notin gone
    <3>1. arrived'[v] = arrived[v] /\ (v \in dropped' <=> v \in dropped)
      BY <1>1, <2>3, <2>5
    <3>2. \A h \in flushes' : Out(v, h) => (h \in flushes /\ h # f) \/ (h \in new /\ Out(v, f))
      BY <1>1, <2>2, <2>5
    <3>3. \A h, k \in flushes' : Out(v, h) /\ Out(v, k) => h = k
      <4> TAKE h, k \in flushes'
      <4> HAVE Out(v, h) /\ Out(v, k)
      <4> QED BY <1>3, <2>1, <3>2
    <3>4. (\E h \in flushes : Out(v, h)) => \E h \in flushes' : Out(v, h)
      BY <1>1, <2>2, <2>5
    <3> QED BY <2>1, <3>1, <3>2, <3>3, <3>4
  <2> QED BY <2>4, <2>5
<1> QED BY <1>5, <1>6, <1>7, <1>8, <1>9 DEF ViewInv

\* Without a view that moves, nothing is told apart differently.
LEMMA ViewsStay ==
  ASSUME ViewInv, UNCHANGED <<buffer, flushes, seen, arrived, dropped>>, timers' \in [Clients -> Nat]
  PROVE  ViewType' /\ Apart' /\ Seen' /\ Placed'
<1>1. ViewType'
  BY DEF ViewInv, ViewType
<1>2. Apart'
  BY DEF ViewInv, Apart
<1>3. Seen'
  BY DEF ViewInv, Seen, ViewsOf
<1>4. Placed'
  BY DEF ViewInv, Placed, In, Out, ViewsOf
<1> QED BY <1>1, <1>2, <1>3, <1>4

\* A view is put into a buffer.
LEMMA ViewWaits ==
  ASSUME ViewInv, NEW c \in Clients, seen < MaxViews, seen' = seen + 1,
         buffer' = [buffer EXCEPT ![c] = Append(buffer[c], seen + 1)],
         UNCHANGED <<flushes, arrived, dropped>>, timers' \in [Clients -> Nat]
  PROVE  ViewType' /\ Apart' /\ Seen' /\ Placed'
<1>1. /\ buffer[c] \in Seq(Nat) /\ seen \in Nat /\ MaxViews \in Nat /\ seen <= MaxViews
      /\ buffer \in [Clients -> Seq(Nat)] /\ arrived \in [1 .. MaxViews -> Nat]
      /\ Distinct(buffer[c]) /\ ToSet(buffer[c]) \subseteq 1 .. seen
  BY CaptureConstants DEF ViewInv, ViewType, Apart, Seen
<1>2. seen + 1 \notin ToSet(buffer[c]) /\ seen + 1 \in Nat /\ seen + 1 \in 1 .. MaxViews
  BY <1>1
<1>3. /\ Append(buffer[c], seen + 1) \in Seq(Nat) /\ Distinct(Append(buffer[c], seen + 1))
      /\ ToSet(Append(buffer[c], seen + 1)) = ToSet(buffer[c]) \cup {seen + 1}
  BY <1>1, <1>2, ViewSets
<1>4. /\ buffer'[c] = Append(buffer[c], seen + 1)
      /\ \A d \in Clients : d # c => buffer'[d] = buffer[d]
      /\ buffer' \in [Clients -> Seq(Nat)]
  BY <1>1, <1>3
<1>5. ViewType'
  BY <1>1, <1>2, <1>4 DEF ViewInv, ViewType
<1>6. Apart'
  BY <1>3, <1>4 DEF ViewInv, Apart
<1>7. 1 .. seen \subseteq 1 .. seen + 1 /\ seen + 1 \in 1 .. seen + 1
      /\ \A v \in 1 .. seen + 1 : v \in 1 .. seen \/ v = seen + 1
  BY <1>1
<1>8. Seen'
  <2>1. \A d \in Clients : ToSet(buffer'[d]) \subseteq 1 .. seen'
    BY <1>3, <1>4, <1>7 DEF ViewInv, Seen
  <2>2. (\A f \in flushes : ViewsOf(f) \subseteq 1 .. seen') /\ dropped \subseteq 1 .. seen'
    BY <1>7 DEF ViewInv, Seen
  <2>3. \A v \in 1 .. MaxViews : v > seen' => v > seen
    BY <1>1
  <2> QED BY <2>1, <2>2, <2>3 DEF ViewInv, Seen, ViewsOf
<1>9. \A v, d : d \in Clients => (In(v, d)' <=> In(v, d) \/ (d = c /\ v = seen + 1))
  BY <1>3, <1>4 DEF In
<1>10. Placed'
  <2> SUFFICES ASSUME NEW v \in 1 .. seen + 1
               PROVE  /\ \A d, e \in Clients : In(v, d)' /\ In(v, e)' => d = e
                      /\ \A f, g \in flushes : Out(v, f) /\ Out(v, g) => f = g
                      /\ \A d \in Clients, f \in flushes : ~ (In(v, d)' /\ Out(v, f))
                      /\ arrived[v] \in {0, 1}
                      /\ arrived[v] = 1 \/ v \in dropped => (\A d \in Clients : ~ In(v, d)') /\ \A f \in flushes : ~ Out(v, f)
                      /\ ~ (arrived[v] = 1 /\ v \in dropped)
                      /\ arrived[v] = 1 \/ v \in dropped \/ (\E d \in Clients : In(v, d)') \/ \E f \in flushes : Out(v, f)
    BY DEF Placed, Out, ViewsOf
  <2>1. CASE v \in 1 .. seen
    <3>1. /\ \A d, e \in Clients : In(v, d) /\ In(v, e) => d = e
          /\ \A f, g \in flushes : Out(v, f) /\ Out(v, g) => f = g
          /\ \A d \in Clients, f \in flushes : ~ (In(v, d) /\ Out(v, f))
          /\ arrived[v] \in {0, 1}
          /\ arrived[v] = 1 \/ v \in dropped => (\A d \in Clients : ~ In(v, d)) /\ \A f \in flushes : ~ Out(v, f)
          /\ ~ (arrived[v] = 1 /\ v \in dropped)
          /\ arrived[v] = 1 \/ v \in dropped \/ (\E d \in Clients : In(v, d)) \/ \E f \in flushes : Out(v, f)
      BY <2>1 DEF ViewInv, Placed
    <3>2. v # seen + 1
      BY <1>1, <2>1
    <3>3. \A d \in Clients : In(v, d)' <=> In(v, d)
      BY <1>9, <3>2
    <3> QED BY <3>1, <3>3
  <2>2. CASE v = seen + 1
    <3>1. v \in 1 .. MaxViews /\ v > seen /\ v \notin 1 .. seen
      BY <1>1, <1>2, <2>2
    <3>2. arrived[v] = 0 /\ v \notin dropped /\ (\A d \in Clients : ~ In(v, d)) /\ \A f \in flushes : ~ Out(v, f)
      BY <3>1 DEF ViewInv, Seen, In, Out
    <3>3. \A d \in Clients : In(v, d)' <=> d = c
      BY <1>9, <2>2, <3>2
    <3> QED BY <3>2, <3>3
  <2> QED BY <1>7, <2>1, <2>2
<1> QED BY <1>5, <1>6, <1>8, <1>10

\* A flush of one batch has the views of that.
LEMMA OneBatch ==
  ASSUME NEW c \in Clients, NEW s \in Seq(Nat)
  PROVE  LET f == [by |-> c, batches |-> <<s>>] IN
         /\ f \in [by : Clients, batches : Seq(Seq(Nat))] /\ f.batches # <<>> /\ ViewsOf(f) = ToSet(s)
         /\ \A b, d \in DOMAIN f.batches : b # d => ToSet(f.batches[b]) \cap ToSet(f.batches[d]) = {}
<1> DEFINE f == [by |-> c, batches |-> <<s>>]
<1>1. f.batches = <<s>> /\ <<s>> \in Seq(Seq(Nat)) /\ <<s>> # <<>> /\ <<s>>[1] = s
  OBVIOUS
<1>2. \A b : b \in DOMAIN <<s>> <=> b = 1
  OBVIOUS
<1>3. f \in [by : Clients, batches : Seq(Seq(Nat))]
  BY <1>1
<1> HIDE DEF f
<1>4. ViewsOf(f) = ToSet(s)
  BY <1>1, <1>2 DEF ViewsOf
<1> QED BY <1>1, <1>2, <1>3, <1>4 DEF f

\* The views of a page that is hidden go out, batch by batch, in a beacon or a request.
LEMMA HidePlaces ==
  ASSUME ViewInv, NEW c \in Clients, NEW taken, HidePage(c, taken)
  PROVE  ViewInv'
<1>1. /\ buffer[c] \in Seq(Nat) /\ buffer[c] # <<>> /\ seen \in Nat /\ MaxViews \in Nat /\ seen <= MaxViews
      /\ buffer \in [Clients -> Seq(Nat)] /\ arrived \in [1 .. MaxViews -> Nat]
      /\ Distinct(buffer[c]) /\ ToSet(buffer[c]) \subseteq 1 .. seen
  BY CaptureConstants DEF ViewInv, ViewType, Apart, Seen, HidePage
<1>2. PICK size \in 1 .. MaxBatch :
        /\ arrived' = Received(UNION {ToSet(Batches(buffer[c], size)[b]) : b \in DOMAIN Batches(buffer[c], size) \cap taken})
        /\ flushes' = flushes \cup {[by |-> c, batches |-> <<Batches(buffer[c], size)[b]>>] : b \in DOMAIN Batches(buffer[c], size) \ taken}
  BY DEF HidePage
<1> DEFINE bs == Batches(buffer[c], size)
           B == DOMAIN bs
           came == UNION {ToSet(bs[b]) : b \in B \cap taken}
           one == [b \in B |-> [by |-> c, batches |-> <<bs[b]>>]]
           new == {one[b] : b \in B \ taken}
<1>3. /\ bs \in Seq(Seq(Nat))
      /\ UNION {ToSet(bs[b]) : b \in B} = ToSet(buffer[c])
      /\ \A b, d \in B : b # d => ToSet(bs[b]) \cap ToSet(bs[d]) = {}
  <2>1. size \in Nat \ {0}
    BY CaptureConstants
  <2> QED BY <1>1, <2>1, BatchesCut
<1>4. /\ arrived' = [v \in DOMAIN arrived |-> IF v \in came THEN arrived[v] + 1 ELSE arrived[v]]
      /\ flushes' = flushes \cup new
      /\ buffer' = [buffer EXCEPT ![c] = <<>>]
      /\ UNCHANGED <<platform, status, timers, seen, dropped>>
  BY <1>2 DEF Received, HidePage, Rest
<1> HIDE DEF bs
<1>5. \A b \in B : bs[b] \in Seq(Nat)
  BY <1>3
<1>6. \A b \in B : /\ one[b] \in [by : Clients, batches : Seq(Seq(Nat))] /\ one[b].batches # <<>>
                   /\ ViewsOf(one[b]) = ToSet(bs[b])
                   /\ \A i, j \in DOMAIN one[b].batches : i # j => ToSet(one[b].batches[i]) \cap ToSet(one[b].batches[j]) = {}
  <2> TAKE b \in B
  <2>1. bs[b] \in Seq(Nat) /\ one[b] = [by |-> c, batches |-> <<bs[b]>>]
    BY <1>5
  <2>2. LET f == [by |-> c, batches |-> <<bs[b]>>] IN
        /\ f \in [by : Clients, batches : Seq(Seq(Nat))] /\ f.batches # <<>> /\ ViewsOf(f) = ToSet(bs[b])
        /\ \A i, j \in DOMAIN f.batches : i # j => ToSet(f.batches[i]) \cap ToSet(f.batches[j]) = {}
    BY <2>1, OneBatch
  <2> HIDE DEF one
  <2> QED BY <2>1, <2>2
<1>7. new = {one[b] : b \in B \ taken} /\ came = UNION {ToSet(bs[b]) : b \in B \cap taken}
  OBVIOUS
<1> HIDE DEF B, one, new, came
<1>8. \A f \in new : /\ f \in [by : Clients, batches : Seq(Seq(Nat))] /\ f.batches # <<>>
                     /\ ViewsOf(f) \subseteq ToSet(buffer[c])
                     /\ \A i, j \in DOMAIN f.batches : i # j => ToSet(f.batches[i]) \cap ToSet(f.batches[j]) = {}
  <2> TAKE f \in new
  <2>1. PICK b \in B \ taken : f = one[b]
    BY <1>7
  <2>2. ToSet(bs[b]) \subseteq ToSet(buffer[c])
    BY <1>3
  <2> QED BY <1>6, <2>1, <2>2
<1>9. came \subseteq ToSet(buffer[c])
  BY <1>3, <1>7
<1>10. /\ \A f, g \in new : \A v : v \in ViewsOf(f) /\ v \in ViewsOf(g) => f = g
       /\ \A v \in came : \A f \in new : v \notin ViewsOf(f)
       /\ \A v \in ToSet(buffer[c]) : v \in came \/ \E f \in new : v \in ViewsOf(f)
  <2>1. \A b, d \in B : \A v : v \in ToSet(bs[b]) /\ v \in ToSet(bs[d]) => b = d
    BY <1>3
  <2>2. \A f, g \in new : \A v : v \in ViewsOf(f) /\ v \in ViewsOf(g) => f = g
    <3> TAKE f, g \in new
    <3> TAKE v
    <3>1. PICK b \in B \ taken : f = one[b]
      BY <1>7
    <3>2. PICK d \in B \ taken : g = one[d]
      BY <1>7
    <3>3. ViewsOf(f) = ToSet(bs[b]) /\ ViewsOf(g) = ToSet(bs[d])
      BY <1>6, <3>1, <3>2
    <3> QED BY <2>1, <3>1, <3>2, <3>3
  <2>3. \A v \in came : \A f \in new : v \notin ViewsOf(f)
    <3> TAKE v \in came
    <3> TAKE f \in new
    <3>1. PICK b \in B \cap taken : v \in ToSet(bs[b])
      BY <1>7
    <3>2. PICK d \in B \ taken : f = one[d]
      BY <1>7
    <3>3. ViewsOf(f) = ToSet(bs[d]) /\ b # d
      BY <1>6, <3>2
    <3> QED BY <2>1, <3>1, <3>3
  <2>4. \A v \in ToSet(buffer[c]) : v \in came \/ \E f \in new : v \in ViewsOf(f)
    <3> TAKE v \in ToSet(buffer[c])
    <3>1. PICK b \in B : v \in ToSet(bs[b])
      BY <1>3
    <3> QED BY <1>6, <1>7, <3>1
  <2> QED BY <2>2, <2>3, <2>4
<1>11. ToSet(<<>>) = {} /\ Distinct(<<>>)
  BY <1>1, ViewSets
<1>12. /\ buffer'[c] = <<>> /\ buffer' \in [Clients -> Seq(Nat)]
       /\ \A d \in Clients : d # c => buffer'[d] = buffer[d]
  BY <1>1, <1>4
<1>13. ViewType'
  <2>1. arrived' \in [1 .. MaxViews -> Nat]
    BY <1>1, <1>4
  <2>2. \A f \in flushes' : f \in [by : Clients, batches : Seq(Seq(Nat))] /\ f.batches # <<>>
    BY <1>4, <1>8 DEF ViewInv, ViewType
  <2> QED BY <1>4, <1>12, <2>1, <2>2 DEF ViewInv, ViewType
<1>14. Viewers'
  BY <1>4, <1>12 DEF ViewInv, Viewers
<1>15. Apart'
  BY <1>4, <1>8, <1>11, <1>12 DEF ViewInv, Apart
<1>16. Seen'
  <2>1. \A d \in Clients : ToSet(buffer'[d]) \subseteq 1 .. seen
    BY <1>11, <1>12 DEF ViewInv, Seen
  <2>2. \A f \in flushes' : ViewsOf(f) \subseteq 1 .. seen
    BY <1>1, <1>4, <1>8 DEF ViewInv, Seen
  <2>3. \A v \in 1 .. MaxViews : v > seen => arrived'[v] = 0
    <3> TAKE v \in 1 .. MaxViews
    <3> HAVE v > seen
    <3>1. v \notin came /\ arrived[v] = 0
      BY <1>1, <1>9 DEF ViewInv, Seen
    <3> QED BY <1>1, <1>4, <3>1
  <2> QED BY <1>4, <2>1, <2>2, <2>3 DEF ViewInv, Seen, ViewsOf
<1>17. Placed'
  <2> SUFFICES ASSUME NEW v \in 1 .. seen
               PROVE  /\ \A d, e \in Clients : In(v, d)' /\ In(v, e)' => d = e
                      /\ \A h, k \in flushes' : Out(v, h) /\ Out(v, k) => h = k
                      /\ \A d \in Clients, h \in flushes' : ~ (In(v, d)' /\ Out(v, h))
                      /\ arrived'[v] \in {0, 1}
                      /\ arrived'[v] = 1 \/ v \in dropped => (\A d \in Clients : ~ In(v, d)') /\ \A h \in flushes' : ~ Out(v, h)
                      /\ ~ (arrived'[v] = 1 /\ v \in dropped)
                      /\ arrived'[v] = 1 \/ v \in dropped \/ (\E d \in Clients : In(v, d)') \/ \E h \in flushes' : Out(v, h)
    BY <1>4 DEF Placed, Out, ViewsOf
  <2>1. /\ \A d, e \in Clients : In(v, d) /\ In(v, e) => d = e
        /\ \A h, k \in flushes : Out(v, h) /\ Out(v, k) => h = k
        /\ \A d \in Clients, h \in flushes : ~ (In(v, d) /\ Out(v, h))
        /\ arrived[v] \in {0, 1}
        /\ arrived[v] = 1 \/ v \in dropped => (\A d \in Clients : ~ In(v, d)) /\ \A h \in flushes : ~ Out(v, h)
        /\ ~ (arrived[v] = 1 /\ v \in dropped)
        /\ arrived[v] = 1 \/ v \in dropped \/ (\E d \in Clients : In(v, d)) \/ \E h \in flushes : Out(v, h)
    BY DEF ViewInv, Placed
  <2>2. arrived'[v] = IF v \in came THEN arrived[v] + 1 ELSE arrived[v]
    BY <1>1, <1>4
  <2>3. \A d \in Clients : In(v, d)' <=> In(v, d) /\ d # c
    BY <1>11, <1>12 DEF In
  <2>4. In(v, c) <=> v \in ToSet(buffer[c])
    BY DEF In
  <2>5. CASE ~ In(v, c)
    <3>1. v \notin came /\ \A h \in new : ~ Out(v, h)
      BY <1>8, <1>9, <2>4, <2>5 DEF Out
    <3> QED BY <1>4, <2>1, <2>2, <2>3, <2>5, <3>1
  <2>6. CASE In(v, c)
    <3>1. arrived[v] = 0 /\ v \notin dropped /\ (\A h \in flushes : ~ Out(v, h)) /\ \A d \in Clients : ~ In(v, d)'
      BY <2>1, <2>3, <2>6
    <3>2. /\ \A h, k \in new : Out(v, h) /\ Out(v, k) => h = k
          /\ v \in came => \A h \in new : ~ Out(v, h)
          /\ v \in came \/ \E h \in new : Out(v, h)
      BY <1>10, <2>4, <2>6 DEF Out
    <3> QED BY <1>4, <2>2, <3>1, <3>2
  <2> QED BY <2>5, <2>6
<1> QED BY <1>13, <1>14, <1>15, <1>16, <1>17 DEF ViewInv

\* Initially the invariant holds.
LEMMA ViewInvInit == CaptureInit => ViewInv
<1> SUFFICES ASSUME CaptureInit PROVE ViewInv
  OBVIOUS
<1>1. /\ timers = [c \in Clients |-> 0] /\ buffer = [c \in Clients |-> <<>>] /\ flushes = {}
      /\ seen = 0 /\ arrived = [v \in 1 .. MaxViews |-> 0] /\ dropped = {} /\ MaxViews \in Nat
  BY CaptureConstants DEF CaptureInit
<1>2. ToSet(<<>>) = {} /\ Distinct(<<>>)
  BY DEF ToSet, Distinct
<1>3. ViewType
  BY <1>1 DEF ViewType
<1>4. Viewers
  BY <1>1 DEF Viewers
<1>5. Apart
  BY <1>1, <1>2 DEF Apart
<1>6. Seen
  BY <1>1, <1>2 DEF Seen
<1>7. Placed
  <2>1. \A v : v \notin 1 .. seen
    BY <1>1
  <2> QED BY <2>1 DEF Placed
<1> QED BY <1>3, <1>4, <1>5, <1>6, <1>7 DEF ViewInv

\* A timer of trackWebView fires.
LEMMA TimerPlaces ==
  ASSUME ViewInv, CaptureType, NEW c \in Clients, ViewTimerFires(c)
  PROVE  ViewInv'
<1>1. /\ timers \in [Clients -> Nat] /\ timers[c] > 0 /\ timers' = [timers EXCEPT ![c] = @ - 1]
      /\ UNCHANGED <<platform, status, arrived, dropped>>
      /\ platform = "browser" /\ status[c] \in {"open", "closed"} /\ buffer \in [Clients -> Seq(Nat)]
  BY DEF ViewTimerFires, ViewInv, ViewType, Viewers, CaptureType
<1>2. timers' \in [Clients -> Nat] /\ \A d \in Clients : timers'[d] > 0 => timers[d] > 0
  BY <1>1
<1>3. CASE status[c] = "closed"
  <2>1. UNCHANGED <<buffer, flushes, seen>>
    BY <1>3 DEF ViewTimerFires
  <2>2. ViewType' /\ Apart' /\ Seen' /\ Placed'
    BY <1>1, <1>2, <2>1, ViewsStay
  <2>3. Viewers'
    BY <1>1, <1>2, <2>1 DEF ViewInv, Viewers
  <2> QED BY <2>2, <2>3 DEF ViewInv
<1>4. CASE status[c] = "open"
  <2> DEFINE views == Append(buffer[c], seen + 1)
  <2>1. seen < MaxViews /\ seen' = seen + 1
    BY <1>4 DEF ViewTimerFires
  <2>2. CASE FlushWeb(c, views)
    <3>1. buffer' = [buffer EXCEPT ![c] = <<>>] /\ ViewType' /\ Apart' /\ Seen' /\ Placed'
      BY <1>1, <1>2, <2>1, <2>2, FlushPlaces
    <3>2. Viewers'
      BY <1>1, <1>2, <3>1 DEF ViewInv, Viewers
    <3> QED BY <3>1, <3>2 DEF ViewInv
  <2>3. CASE buffer' = [buffer EXCEPT ![c] = views] /\ UNCHANGED flushes
    <3>1. ViewType' /\ Apart' /\ Seen' /\ Placed'
      BY <1>1, <1>2, <2>1, <2>3, ViewWaits
    <3>2. Viewers'
      BY <1>1, <1>2, <1>4, <2>3 DEF ViewInv, Viewers
    <3> QED BY <3>1, <3>2 DEF ViewInv
  <2> QED BY <1>4, <2>2, <2>3 DEF ViewTimerFires
<1> QED BY <1>1, <1>3, <1>4

\* Steps that leave the views where they are.
LEMMA OtherPlaces ==
  ASSUME ViewInv, CaptureInv,
         \/ \E c \in Clients : OpenBrowser(c) \/ OpenNative(c) \/ OpenNode(c)
         \/ \E c \in Clients : CloseNative(c) \/ CloseNode(c)
         \/ \E s \in SlotNames : OtherWraps(s) \/ OtherUnwraps(s)
         \/ PushState \/ PopState
         \/ UNCHANGED captureVars
  PROVE  ViewInv'
<1>1. /\ timers \in [Clients -> Nat] /\ buffer \in [Clients -> Seq(Nat)]
      /\ status \in [Clients -> {"new", "open", "closed"}]
      /\ platform = "browser" => listeners = {c \in Clients : status[c] = "open"}
  BY DEF ViewInv, ViewType, CaptureInv, CaptureType, Heard, Opened
<1>2. UNCHANGED <<platform, buffer, flushes, seen, arrived, dropped>>
  BY DEF OpenBrowser, OpenNative, OpenNode, CloseNative, CloseNode, OtherWraps, OtherUnwraps,
         PushState, PopState, Navigate, Opening, CloseClient, viewVars, captureVars
<1>3. timers' \in [Clients -> Nat] /\ Viewers'
  <2>1. ASSUME NEW c \in Clients, OpenBrowser(c) PROVE timers' \in [Clients -> Nat] /\ Viewers'
    <3>1. /\ platform = "browser" /\ status' = [status EXCEPT ![c] = "open"]
          /\ timers' = [timers EXCEPT ![c] = 1]
      BY <2>1 DEF OpenBrowser, Opening
    <3> QED BY <1>1, <1>2, <3>1 DEF ViewInv, Viewers
  <2>2. ASSUME NEW c \in Clients, OpenNative(c) \/ OpenNode(c) PROVE timers' \in [Clients -> Nat] /\ Viewers'
    <3>1. platform # "browser" /\ timers' = timers
      BY <2>2 DEF OpenNative, OpenNode, viewVars
    <3> QED BY <1>1, <1>2, <3>1 DEF ViewInv, Viewers
  <2>3. ASSUME NEW c \in Clients, CloseNative(c) \/ CloseNode(c) PROVE timers' \in [Clients -> Nat] /\ Viewers'
    <3>1. platform # "browser" /\ timers' = timers
      BY <2>3 DEF CloseNative, CloseNode, viewVars
    <3> QED BY <1>1, <1>2, <3>1 DEF ViewInv, Viewers
  <2>4. ASSUME PushState \/ PopState PROVE timers' \in [Clients -> Nat] /\ Viewers'
    <3>1. PICK n \in {Emits, 1} : Navigate(n)
      BY <2>4 DEF PushState, PopState
    <3>2. /\ platform = "browser" /\ status' = status
          /\ timers' = [c \in Clients |-> IF c \in listeners THEN timers[c] + n ELSE timers[c]]
      BY <3>1 DEF Navigate
    <3>3. n \in Nat
      <4>1. Len(wraps) \in Nat /\ Chain("history") \cap Of("history", Page) \subseteq 1 .. Len(wraps)
        BY DEF CaptureInv, CaptureType, ChainType, WrapsOver, Of
      <4>2. Emits \in Nat
        <5> DEFINE patches == Chain("history") \cap Of("history", Page)
        <5>1. IsFiniteSet(1 .. Len(wraps))
          BY <4>1, FS_Interval
        <5>2. IsFiniteSet(patches)
          BY <4>1, <5>1, FS_Subset
        <5> HIDE DEF patches
        <5>3. Cardinality(patches) \in Nat
          BY <5>2, FS_CardinalityType
        <5> QED BY <5>3 DEF Emits, patches
      <4> QED BY <3>1, <4>2
    <3> QED BY <1>1, <1>2, <3>2, <3>3 DEF ViewInv, Viewers
  <2>5. ASSUME UNCHANGED <<status, timers>> PROVE timers' \in [Clients -> Nat] /\ Viewers'
    BY <1>1, <1>2, <2>5 DEF ViewInv, Viewers
  <2>6. ASSUME NEW s \in SlotNames, OtherWraps(s) \/ OtherUnwraps(s) PROVE UNCHANGED <<status, timers>>
    BY <2>6 DEF OtherWraps, OtherUnwraps, viewVars
  <2>7. UNCHANGED captureVars => UNCHANGED <<status, timers>>
    BY DEF captureVars, viewVars
  <2> QED BY <2>1, <2>2, <2>3, <2>4, <2>5, <2>6, <2>7
<1> QED BY <1>2, <1>3, ViewsStay DEF ViewInv

\* Every step keeps it.
LEMMA ViewInvStep == ViewInv /\ CaptureInv /\ [CaptureNext]_captureVars => ViewInv'
<1> SUFFICES ASSUME ViewInv, CaptureInv, [CaptureNext]_captureVars PROVE ViewInv'
  OBVIOUS
<1>1. CaptureType
  BY DEF CaptureInv
<1>2. ASSUME NEW c \in Clients, CloseBrowser(c) \/ SendViews(c) PROVE ViewInv'
  <2>1. /\ FlushWeb(c, buffer[c]) /\ UNCHANGED <<platform, timers, seen, arrived, dropped>>
        /\ status' = status \/ status' = [status EXCEPT ![c] = "closed"]
        /\ status[c] = "open"
    BY <1>2 DEF CloseBrowser, SendViews, CloseClient, AtShutdown
  <2>2. /\ timers' \in [Clients -> Nat] /\ buffer \in [Clients -> Seq(Nat)]
        /\ status \in [Clients -> {"new", "open", "closed"}]
    BY <1>1, <2>1 DEF ViewInv, ViewType, CaptureType
  <2>3. buffer' = [buffer EXCEPT ![c] = <<>>] /\ ViewType' /\ Apart' /\ Seen' /\ Placed'
    BY <2>1, <2>2, FlushPlaces
  <2>4. Viewers'
    BY <2>1, <2>2, <2>3 DEF ViewInv, Viewers
  <2> QED BY <2>3, <2>4 DEF ViewInv
<1>3. ASSUME NEW c \in Clients, ViewTimerFires(c) PROVE ViewInv'
  BY <1>1, <1>3, TimerPlaces
<1>4. ASSUME NEW f \in flushes, NEW ok \in BOOLEAN, BatchAnswered(f, ok) PROVE ViewInv'
  BY <1>4, AnswerPlaces
<1>5. ASSUME NEW c \in Clients, NEW taken, HidePage(c, taken) PROVE ViewInv'
  BY <1>5, HidePlaces
<1> QED BY <1>2, <1>3, <1>4, <1>5, OtherPlaces DEF CaptureNext

\* ViewsOnce (web-queue.ts): whatever the order of navigations, flushes, lost requests,
\* hidden pages and shutdowns, a page view is in exactly one place, and reaches the
\* server at most once.
THEOREM ViewsKept == CaptureSpec => []ViewsOnce
<1>1. CaptureInv /\ ViewInv => ViewsOnce
  <2> SUFFICES ASSUME CaptureInv, ViewInv PROVE ViewsOnce
    OBVIOUS
  <2>1. ASSUME NEW v \in 1 .. seen
        PROVE  Cardinality(Waiting(v)) + Cardinality(Sending(v)) + arrived[v] + (IF v \in dropped THEN 1 ELSE 0) = 1
    <3>1. Waiting(v) = {c \in Clients : In(v, c)}
      <4>1. \A c \in Clients : buffer[c] \in Seq(Nat)
        BY DEF ViewInv, ViewType
      <4> QED BY <4>1, ViewSets DEF Waiting, In
    <3>2. Sending(v) = {f \in flushes : Out(v, f)}
      <4>1. \A f \in flushes : \A b \in DOMAIN f.batches : f.batches[b] \in Seq(Nat)
        BY DEF ViewInv, ViewType
      <4>2. \A f \in flushes : \A b \in DOMAIN f.batches : Contains(f.batches[b], v) <=> v \in ToSet(f.batches[b])
        BY <4>1, ViewSets
      <4> QED BY <4>2 DEF Sending, Out, ViewsOf
    <3>3. /\ \A c, d \in Clients : In(v, c) /\ In(v, d) => c = d
          /\ \A f, g \in flushes : Out(v, f) /\ Out(v, g) => f = g
          /\ \A c \in Clients, f \in flushes : ~ (In(v, c) /\ Out(v, f))
          /\ arrived[v] \in {0, 1}
          /\ arrived[v] = 1 \/ v \in dropped => (\A c \in Clients : ~ In(v, c)) /\ \A f \in flushes : ~ Out(v, f)
          /\ ~ (arrived[v] = 1 /\ v \in dropped)
          /\ arrived[v] = 1 \/ v \in dropped \/ (\E c \in Clients : In(v, c)) \/ \E f \in flushes : Out(v, f)
      BY DEF ViewInv, Placed
    <3>4. Cardinality({}) = 0 /\ \A x : Cardinality({x}) = 1
      BY FS_EmptySet, FS_Singleton
    <3>5. /\ Waiting(v) = {} \/ \E c \in Clients : Waiting(v) = {c} /\ In(v, c)
          /\ Sending(v) = {} \/ \E f \in flushes : Sending(v) = {f} /\ Out(v, f)
      BY <3>1, <3>2, <3>3
    <3>6. CASE arrived[v] = 1 \/ v \in dropped
      <4>1. Waiting(v) = {} /\ Sending(v) = {}
        BY <3>1, <3>2, <3>3, <3>6
      <4>2. Cardinality(Waiting(v)) = 0 /\ Cardinality(Sending(v)) = 0
        BY <3>4, <4>1
      <4> QED BY <3>3, <3>6, <4>2
    <3>7. CASE arrived[v] = 0 /\ v \notin dropped
      <4>1. \/ Waiting(v) = {} /\ \E f : Sending(v) = {f}
            \/ Sending(v) = {} /\ \E c : Waiting(v) = {c}
        BY <3>1, <3>2, <3>3, <3>5, <3>7
      <4>2. \/ Cardinality(Waiting(v)) = 0 /\ Cardinality(Sending(v)) = 1
            \/ Cardinality(Waiting(v)) = 1 /\ Cardinality(Sending(v)) = 0
        BY <3>4, <4>1
      <4> QED BY <3>7, <4>2
    <3> QED BY <3>3, <3>6, <3>7
  <2>2. \A c \in Clients : status[c] = "closed" => buffer[c] = <<>>
    BY DEF ViewInv, Viewers
  <2> QED BY <2>1, <2>2 DEF ViewsOnce
<1> QED BY <1>1, CaptureInvInit, CaptureInvStep, ViewInvInit, ViewInvStep, PTL DEF CaptureSpec

(***************************************************************************)
(* WebVitals                                                               *)
(***************************************************************************)

Shifts == Seq(Nat \X Nat)

\* The values of the shifts add up.
LEMMA SumsAdd ==
  ASSUME NEW list \in Shifts
  PROVE  /\ Sums(list)[0] = 0
         /\ \A i \in 1 .. Len(list) : Sums(list)[i] = Sums(list)[i - 1] + list[i][2]
         /\ \A i \in 0 .. Len(list) : Sums(list)[i] \in Nat
<1> DEFINE n == Len(list)
           value(i) == list[i][2]
           Adds(k, f) == f = [i \in 0 .. k |-> IF i = 0 THEN 0 ELSE f[i - 1] + value(i)]
           total == Sums(list)
<1>1. n \in Nat /\ \A i \in 1 .. n : value(i) \in Nat
  <2>1. n \in Nat /\ \A i \in 1 .. n : list[i] \in Nat \X Nat
    BY DEF Shifts
  <2> QED BY <2>1
<1>2. total = CHOOSE f : Adds(n, f)
  BY DEF Sums
<1> HIDE DEF n, value, total
<1>3. \E f : Adds(n, f)
  <2> DEFINE W == {k \in 0 .. n : ~ \E f : Adds(k, f)}
  <2>1. SUFFICES ASSUME W # {} PROVE FALSE
    <3>1. n \in 0 .. n
      BY <1>1
    <3> HIDE DEF Adds
    <3> QED BY <3>1
  <2>2. PICK x \in W : \A y \in W : x <= y
    <3>1. W \in SUBSET Nat
      BY <1>1
    <3> HIDE DEF W
    <3> QED BY <2>1, <3>1, LeastOf
  <2>3. x # 0
    <3> SUFFICES ASSUME x = 0 PROVE FALSE
      OBVIOUS
    <3> DEFINE f == [i \in 0 .. 0 |-> 0]
    <3>1. f = [i \in 0 .. x |-> IF i = 0 THEN 0 ELSE f[i - 1] + value(i)]
      OBVIOUS
    <3>2. Adds(x, f)
      BY <3>1
    <3> QED BY <3>2
  <2>4. PICK f : Adds(x - 1, f)
    <3>1. x - 1 \in 0 .. n /\ ~ (x <= x - 1)
      BY <1>1, <2>3
    <3> QED BY <2>2, <3>1
  <2> DEFINE g == [i \in 0 .. x |-> IF i = x THEN f[x - 1] + value(x) ELSE f[i]]
  <2>5. \A i \in 0 .. x : g[i] = IF i = 0 THEN 0 ELSE g[i - 1] + value(i)
    <3> TAKE i \in 0 .. x
    <3>1. CASE i = x
      BY <1>1, <2>3, <3>1
    <3>2. CASE i # x
      <4>1. i \in 0 .. x - 1 /\ g[i] = f[i] /\ (i # 0 => i - 1 \in 0 .. x /\ i - 1 # x)
        BY <1>1, <3>2
      <4>2. f[i] = IF i = 0 THEN 0 ELSE f[i - 1] + value(i)
        BY <2>4, <4>1
      <4> QED BY <4>1, <4>2
    <3> QED BY <3>1, <3>2
  <2>6. g = [i \in 0 .. x |-> g[i]]
    OBVIOUS
  <2> HIDE DEF g
  <2>7. g = [i \in 0 .. x |-> IF i = 0 THEN 0 ELSE g[i - 1] + value(i)]
    BY <2>5, <2>6
  <2>8. Adds(x, g)
    BY <2>7
  <2> QED BY <2>8
<1>4. Adds(n, total)
  <2> HIDE DEF Adds
  <2> QED BY <1>2, <1>3
<1>5. \A i \in 0 .. n : total[i] = IF i = 0 THEN 0 ELSE total[i - 1] + value(i)
  BY <1>4
<1>6. \A i \in 0 .. n : total[i] \in Nat
  <2> DEFINE W == {k \in 0 .. n : total[k] \notin Nat}
  <2>1. SUFFICES ASSUME W # {} PROVE FALSE
    BY <1>1
  <2>2. PICK x \in W : \A y \in W : x <= y
    <3>1. W \in SUBSET Nat
      BY <1>1
    <3> HIDE DEF W
    <3> QED BY <2>1, <3>1, LeastOf
  <2>3. x # 0
    BY <1>1, <1>5
  <2>4. x - 1 \in 0 .. n /\ ~ (x <= x - 1) /\ x \in 1 .. n
    BY <1>1, <2>3
  <2>5. total[x - 1] \in Nat
    BY <2>2, <2>4
  <2> QED BY <1>1, <1>5, <2>3, <2>4, <2>5
<1>7. total[0] = 0 /\ \A i \in 1 .. n : total[i] = total[i - 1] + value(i)
  BY <1>1, <1>5
<1> QED BY <1>6, <1>7 DEF n, value, total

\* A shift more changes no sum of those before it.
LEMMA SumsStay ==
  ASSUME NEW list \in Shifts, NEW x \in Nat \X Nat
  PROVE  LET more == Append(list, x)
             n    == Len(list) IN
         /\ more \in Shifts /\ Len(more) = n + 1 /\ more[n + 1] = x
         /\ \A i \in 1 .. n : more[i] = list[i]
         /\ \A i \in 0 .. n : Sums(more)[i] = Sums(list)[i]
         /\ Sums(more)[n + 1] = Sums(list)[n] + x[2]
<1> DEFINE more == Append(list, x)
           n == Len(list)
           old == Sums(list)
           new == Sums(more)
<1>1. /\ more \in Shifts /\ n \in Nat /\ Len(more) = n + 1 /\ more[n + 1] = x
      /\ \A i \in 1 .. n : more[i] = list[i]
  BY DEF Shifts
<1>2. /\ old[0] = 0 /\ \A i \in 1 .. n : old[i] = old[i - 1] + list[i][2]
  BY SumsAdd
<1>3. /\ new[0] = 0 /\ \A i \in 1 .. n + 1 : new[i] = new[i - 1] + more[i][2]
  BY <1>1, SumsAdd
<1> HIDE DEF more, n, old, new
<1>4. \A i \in 0 .. n : new[i] = old[i]
  <2> DEFINE W == {k \in 0 .. n : new[k] # old[k]}
  <2>1. SUFFICES ASSUME W # {} PROVE FALSE
    OBVIOUS
  <2>2. PICK k \in W : \A y \in W : k <= y
    <3>1. W \in SUBSET Nat
      BY <1>1
    <3> HIDE DEF W
    <3> QED BY <2>1, <3>1, LeastOf
  <2>3. k # 0
    BY <1>2, <1>3
  <2>4. k - 1 \in 0 .. n /\ ~ (k <= k - 1) /\ k \in 1 .. n /\ k \in 1 .. n + 1
    BY <1>1, <2>3
  <2>5. new[k - 1] = old[k - 1]
    BY <2>2, <2>4
  <2> QED BY <1>1, <1>2, <1>3, <2>4, <2>5
<1>5. new[n + 1] = old[n] + x[2]
  <2>1. n + 1 \in 1 .. n + 1 /\ (n + 1) - 1 = n /\ n \in 0 .. n
    BY <1>1
  <2> QED BY <1>1, <1>3, <1>4, <2>1
<1> QED BY <1>1, <1>4, <1>5 DEF more, n, old, new

\* The larger of two numbers.
LEMMA LargerOf ==
  ASSUME NEW a \in Nat, NEW b \in Nat
  PROVE  Max({a, b}) = IF a >= b THEN a ELSE b
<1> DEFINE m == IF a >= b THEN a ELSE b
<1>1. m \in {a, b} /\ \A y \in {a, b} : m >= y
  OBVIOUS
<1>2. \A x \in {a, b} : (\A y \in {a, b} : x >= y) => x = m
  OBVIOUS
<1> HIDE DEF m
<1>3. (CHOOSE x \in {a, b} : \A y \in {a, b} : x >= y) = m
  BY <1>1, <1>2
<1> QED BY <1>3 DEF Max, m

VitalsType ==
  /\ lcp \in Nat /\ inp \in Nat /\ clsMax \in Nat /\ score \in Nat
  /\ session \in [sum : Nat, start : Nat, last : Nat] /\ shifts \in Shifts
  /\ done \subseteq Spans

\* A vital counts once, when its flag is set, and it is queued, in a drain or sent
\* then.
CountedOnce ==
  /\ times = [s \in Spans |-> IF s \in done THEN 1 ELSE 0]
  /\ done \subseteq sent \cup queued \cup draining
  /\ known \subseteq sent
  /\ loading => done \cap {"ttfb", "pageload"} = {}

\* The session window is the sum of the last shifts, which belong together.
SessionOpen ==
  LET n == Len(shifts) IN
  /\ n > 0 => session.last = shifts[n][1]
  /\ session.sum > 0 =>
       \E k \in 1 .. n : Sum(k, n) = session.sum /\ Together(k, n) /\ session.start = shifts[k][1]

VitalsInv == VitalsType /\ CountedOnce /\ SessionOpen /\ ScoreIsWindow

\* Initially the invariant holds.
LEMMA VitalsInvInit == VitalsInit => VitalsInv
<1> SUFFICES ASSUME VitalsInit PROVE VitalsInv
  OBVIOUS
<1>1. shifts \in Shifts /\ Len(shifts) = 0
  BY DEF VitalsInit, Shifts
<1>2. VitalsType
  BY <1>1 DEF VitalsInit, VitalsType
<1>3. CountedOnce
  BY DEF VitalsInit, CountedOnce
<1>4. SessionOpen
  BY <1>1 DEF VitalsInit, SessionOpen
<1>5. ScoreIsWindow
  BY <1>1 DEF VitalsInit, ScoreIsWindow
<1> QED BY <1>2, <1>3, <1>4, <1>5 DEF VitalsInv

\* Spans that were not reported are.
LEMMA ReportCounts ==
  ASSUME VitalsInv, NEW ready \in SUBSET Spans, NEW flushed \in BOOLEAN, ReportAnd(ready, flushed),
         ready \cap done = {}, UNCHANGED entryVars,
         (known' = known \/ (flushed /\ known' = Valued \ draining /\ ready = Fresh(Valued))),
         (loading' = loading /\ ready \cap {"ttfb", "pageload"} = {}) \/ loading' = FALSE
  PROVE  VitalsInv'
<1>1. /\ done' = done \cup ready
      /\ times' = [s \in Spans |-> times[s] + (IF s \in ready THEN 1 ELSE 0)]
      /\ score' = IF "cls" \in ready THEN clsMax ELSE score
      /\ queued' = IF flushed THEN {} ELSE queued \cup ready
      /\ sent' = IF flushed THEN sent \cup queued \cup ready ELSE sent
      /\ UNCHANGED <<lcp, session, clsMax, shifts, inp, draining>>
  BY DEF ReportAnd, entryVars
<1>2. VitalsType'
  BY <1>1 DEF VitalsInv, VitalsType
<1>3. CountedOnce'
  <2>1. times' = [s \in Spans |-> IF s \in done' THEN 1 ELSE 0]
    <3>1. \A s \in Spans : times[s] + (IF s \in ready THEN 1 ELSE 0) = IF s \in done' THEN 1 ELSE 0
      BY <1>1 DEF VitalsInv, CountedOnce
    <3> QED BY <1>1, <3>1
  <2>2. done' \subseteq sent' \cup queued' \cup draining'
    BY <1>1 DEF VitalsInv, CountedOnce
  <2>3. known' \subseteq sent'
    BY <1>1 DEF VitalsInv, CountedOnce, Fresh
  <2>4. loading' => done' \cap {"ttfb", "pageload"} = {}
    BY <1>1 DEF VitalsInv, CountedOnce
  <2> QED BY <2>1, <2>2, <2>3, <2>4 DEF CountedOnce
<1>4. SessionOpen'
  BY <1>1 DEF VitalsInv, SessionOpen, Sum, Together
<1>5. ScoreIsWindow'
  <2>1. score' <= clsMax'
    BY <1>1 DEF VitalsInv, VitalsType, ScoreIsWindow
  <2> QED BY <1>1, <2>1 DEF VitalsInv, ScoreIsWindow, Sum, Together
<1> QED BY <1>2, <1>3, <1>4, <1>5 DEF VitalsInv

\* A shift joins the session window, or starts a new one.
LEMMA ShiftAdds ==
  ASSUME VitalsInv, NEW dt \in Nat, NEW value \in Nat, LayoutShift(dt, value)
  PROVE  VitalsInv'
<1>0. PICK n \in Nat : n = Len(shifts)
  BY DEF VitalsInv, VitalsType, Shifts
<1> DEFINE t == session.last + dt
           sum == IF session.sum > 0 /\ WindowOver(t) THEN 0 ELSE session.sum
           before == Sums(shifts)
           after == Sums(shifts')
<1>1. /\ session' = [sum |-> sum + value, start |-> IF sum = 0 THEN t ELSE session.start, last |-> t]
      /\ clsMax' = Max({clsMax, sum + value})
      /\ shifts' = Append(shifts, <<t, value>>)
      /\ UNCHANGED <<loading, known, lcp, inp, done, queued, draining, sent, times, score>>
  BY DEF LayoutShift, reportVars
<1>2. /\ session \in [sum : Nat, start : Nat, last : Nat] /\ clsMax \in Nat /\ score \in Nat
      /\ shifts \in Shifts /\ n \in Nat /\ t \in Nat /\ sum \in Nat /\ sum + value \in Nat
      /\ Gap \in Nat /\ Window \in Nat
  BY VitalsConstants DEF VitalsInv, VitalsType
<1>3. /\ shifts' \in Shifts /\ Len(shifts') = n + 1 /\ shifts'[n + 1] = <<t, value>>
      /\ \A i \in 1 .. n : shifts'[i] = shifts[i]
      /\ \A i \in 0 .. n : after[i] = before[i]
      /\ after[n + 1] = before[n] + value
  <2>1. <<t, value>> \in Nat \X Nat /\ <<t, value>>[2] = value
    BY <1>2
  <2>2. shifts \in Shifts /\ shifts' = Append(shifts, <<t, value>>) /\ n = Len(shifts)
    BY <1>0, <1>1, <1>2
  <2> DEFINE x == <<t, value>>
  <2> HIDE DEF t, x
  <2>3. x \in Nat \X Nat /\ x[2] = value
    BY <2>1 DEF x
  <2>4. /\ Append(shifts, x) \in Shifts /\ Len(Append(shifts, x)) = n + 1 /\ Append(shifts, x)[n + 1] = x
        /\ \A i \in 1 .. n : Append(shifts, x)[i] = shifts[i]
        /\ \A i \in 0 .. n : Sums(Append(shifts, x))[i] = Sums(shifts)[i]
        /\ Sums(Append(shifts, x))[n + 1] = Sums(shifts)[n] + x[2]
    BY ONLY <2>2, <2>3, SumsStay
  <2> QED BY <2>2, <2>3, <2>4 DEF x
<1>4. \A i \in 0 .. n : before[i] \in Nat
  BY <1>0, <1>2, SumsAdd
<1>5. clsMax' = IF clsMax >= sum + value THEN clsMax ELSE sum + value
  <2>1. Max({clsMax, sum + value}) = IF clsMax >= sum + value THEN clsMax ELSE sum + value
    BY ONLY <1>2, LargerOf
  <2> QED BY <1>1, <2>1
<1>6. VitalsType'
  BY <1>1, <1>2, <1>3, <1>5 DEF VitalsInv, VitalsType
<1>7. CountedOnce'
  BY <1>1 DEF VitalsInv, CountedOnce
<1>8. (n > 0 => session.last = shifts[n][1]) /\ (session.sum > 0 =>
        \E k \in 1 .. n : Sum(k, n) = session.sum /\ Together(k, n) /\ session.start = shifts[k][1])
  BY <1>0 DEF VitalsInv, SessionOpen
<1> HIDE DEF t, sum, before, after
<1>9. ASSUME sum + value > 0
      PROVE  \E k \in 1 .. n + 1 : Sum(k, n + 1)' = sum + value /\ Together(k, n + 1)' /\ session'.start = shifts'[k][1]
  <2>1. CASE sum = 0
    <3>1. n + 1 \in 1 .. n + 1 /\ (n + 1) - 1 = n /\ n \in 0 .. n
      BY <1>2
    <3>2. Sum(n + 1, n + 1)' = value
      <4>1. before[n] \in Nat
        BY <1>4, <3>1
      <4> QED BY <1>3, <3>1, <4>1 DEF Sum, after
    <3>3. Together(n + 1, n + 1)'
      <4>1. \A k : k \notin (n + 1) + 1 .. n + 1
        BY <1>2
      <4>2. shifts'[n + 1][1] - shifts'[n + 1][1] <= Window
        BY <1>2, <1>3
      <4> QED BY <4>1, <4>2 DEF Together
    <3>4. session'.start = shifts'[n + 1][1]
      BY <1>1, <1>3, <2>1
    <3> QED BY <1>2, <2>1, <3>1, <3>2, <3>3, <3>4
  <2>2. CASE sum # 0
    <3>1. sum = session.sum /\ session.sum > 0 /\ ~ WindowOver(t)
      BY <1>2, <2>2 DEF sum
    <3>2. PICK k \in 1 .. n : Sum(k, n) = session.sum /\ Together(k, n) /\ session.start = shifts[k][1]
      BY <1>8, <3>1
    <3>3. k \in 1 .. n + 1 /\ k - 1 \in 0 .. n /\ n \in 0 .. n /\ n > 0 /\ n \in 1 .. n
      BY <1>2
    <3>4. Sum(k, n + 1)' = sum + value
      <4>1. before[n] - before[k - 1] = sum
        BY <3>1, <3>2 DEF Sum, before
      <4>2. before[n] \in Nat /\ before[k - 1] \in Nat /\ after[n + 1] = before[n] + value /\ after[k - 1] = before[k - 1]
        BY <1>3, <1>4, <3>3
      <4>3. after[n + 1] - after[k - 1] = sum + value
        <5>1. \A x, y, a, b \in Nat : x - y = sum /\ a = x + value /\ b = y => a - b = sum + value
          BY <1>2
        <5>2. after[n + 1] \in Nat /\ after[k - 1] \in Nat
          BY <4>2
        <5> QED BY <4>1, <4>2, <5>1, <5>2
      <4> QED BY <4>3 DEF Sum, after
    <3>5. t - session.last <= Gap /\ t - session.start <= Window
      BY <1>2, <3>1 DEF WindowOver
    <3>6. Together(k, n + 1)'
      <4>1. ASSUME NEW i \in k + 1 .. n + 1 PROVE shifts'[i][1] - shifts'[i - 1][1] <= Gap
        <5>1. CASE i = n + 1
          <6>1. i - 1 = n /\ n \in 1 .. n
            BY <1>2, <3>3, <5>1
          <6>2. shifts'[n] = shifts[n] /\ shifts'[n + 1][1] = t
            BY <1>3, <3>3, <6>1
          <6> QED BY <1>8, <3>3, <3>5, <5>1, <6>1, <6>2
        <5>2. CASE i # n + 1
          <6>1. i \in k + 1 .. n /\ i \in 1 .. n /\ i - 1 \in 1 .. n
            BY <1>2, <3>3, <5>2
          <6>2. shifts[i][1] - shifts[i - 1][1] <= Gap
            BY <3>2, <6>1 DEF Together
          <6> QED BY <1>3, <6>1, <6>2
        <5> QED BY <5>1, <5>2
      <4>2. shifts'[n + 1][1] - shifts'[k][1] <= Window
        <5>1. shifts'[k] = shifts[k] /\ shifts'[n + 1][1] = t
          BY <1>3, <3>3
        <5> QED BY <3>2, <3>5, <5>1
      <4> QED BY <4>1, <4>2 DEF Together
    <3>7. session'.start = shifts'[k][1]
      BY <1>1, <1>3, <2>2, <3>2
    <3> QED BY <3>3, <3>4, <3>6, <3>7
  <2> QED BY <2>1, <2>2
<1>10. SessionOpen'
  <2>1. session'.sum = sum + value /\ session'.last = shifts'[n + 1][1]
    BY <1>1, <1>3
  <2> QED BY <1>3, <1>9, <2>1 DEF SessionOpen
<1>11. ScoreIsWindow'
  <2>1. ASSUME clsMax' > 0
        PROVE  \E i \in 1 .. n + 1 : \E j \in i .. n + 1 : Sum(i, j)' = clsMax' /\ Together(i, j)'
    <3>1. CASE clsMax' = sum + value
      <4>1. PICK k \in 1 .. n + 1 : Sum(k, n + 1)' = sum + value /\ Together(k, n + 1)'
        BY <1>9, <2>1, <3>1
      <4>2. n + 1 \in k .. n + 1
        BY <1>2
      <4> QED BY <3>1, <4>1, <4>2
    <3>2. CASE clsMax' = clsMax
      <4>1. PICK i \in 1 .. n : \E j \in i .. n : Sum(i, j) = clsMax /\ Together(i, j)
        BY <1>0, <2>1, <3>2 DEF VitalsInv, ScoreIsWindow
      <4>2. PICK j \in i .. n : Sum(i, j) = clsMax /\ Together(i, j)
        BY <4>1
      <4>3. i \in 1 .. n + 1 /\ j \in i .. n + 1 /\ i - 1 \in 0 .. n /\ j \in 0 .. n /\ j \in 1 .. n
        BY <1>2
      <4>4. Sum(i, j)' = Sum(i, j)
        BY <1>3, <4>3 DEF Sum, before, after
      <4>5. Together(i, j)'
        <5>1. \A k \in i + 1 .. j : k \in 1 .. n /\ k - 1 \in 1 .. n
          BY <1>2, <4>3
        <5> QED BY <1>3, <4>2, <4>3, <5>1 DEF Together
      <4> QED BY <3>2, <4>2, <4>3, <4>4, <4>5
    <3> QED BY <1>5, <3>1, <3>2
  <2>2. ASSUME NEW i \in 1 .. n + 1 PROVE clsMax' >= shifts'[i][2]
    <3>1. CASE i = n + 1
      <4>1. shifts'[i][2] = value
        BY <1>3, <3>1
      <4> QED BY <1>2, <1>5, <4>1
    <3>2. CASE i # n + 1
      <4>1. i \in 1 .. n /\ shifts'[i] = shifts[i]
        BY <1>2, <1>3, <3>2
      <4>2. shifts[i] \in Nat \X Nat /\ clsMax >= shifts[i][2]
        BY <1>0, <1>2, <4>1 DEF VitalsInv, ScoreIsWindow, Shifts
      <4>3. shifts[i][2] \in Nat
        BY <4>2
      <4> QED BY <1>2, <1>5, <4>1, <4>2, <4>3
    <3> QED BY <3>1, <3>2
  <2>3. score' <= clsMax'
    BY <1>1, <1>2, <1>5 DEF VitalsInv, ScoreIsWindow
  <2> QED BY <1>3, <2>1, <2>2, <2>3 DEF ScoreIsWindow
<1> QED BY <1>6, <1>7, <1>10, <1>11 DEF VitalsInv

\* Every step keeps it.
LEMMA VitalsInvStep == VitalsInv /\ [VitalsNext]_vitalVars => VitalsInv'
<1> SUFFICES ASSUME VitalsInv, [VitalsNext]_vitalVars PROVE VitalsInv'
  OBVIOUS
<1>1. Valued \subseteq Finals /\ Fresh(Valued) \cap done = {} /\ Finals \cap {"ttfb", "pageload"} = {} /\ Finals \subseteq Spans
  BY DEF Valued, Finals, Fresh, Spans
<1>2. CASE FirstPaint
  <2>1. ReportAnd({"fcp"}, FALSE) /\ {"fcp"} \cap done = {} /\ UNCHANGED <<entryVars, known, loading>>
    BY <1>2 DEF FirstPaint, Report
  <2>2. {"fcp"} \in SUBSET Spans /\ {"fcp"} \cap {"ttfb", "pageload"} = {}
    BY DEF Spans
  <2> QED BY <2>1, <2>2, ReportCounts
<1>3. CASE Interact
  <2> DEFINE ready == Fresh({"lcp"} \cap Valued)
  <2>1. ReportAnd(ready, FALSE) /\ UNCHANGED <<entryVars, known, loading>>
    BY <1>3 DEF Interact, Report
  <2>2. ready \in SUBSET Spans /\ ready \cap done = {} /\ ready \cap {"ttfb", "pageload"} = {}
    BY <1>1 DEF Fresh
  <2> HIDE DEF ready
  <2> QED BY <2>1, <2>2, ReportCounts
<1>4. CASE Hide
  <2>1. ReportAnd(Fresh(Valued), TRUE) /\ known' = Valued \ draining /\ UNCHANGED <<entryVars, loading>>
    BY <1>4 DEF Hide, Hides
  <2>2. Fresh(Valued) \in SUBSET Spans /\ Fresh(Valued) \cap {"ttfb", "pageload"} = {}
    BY <1>1 DEF Fresh
  <2> QED BY <1>1, <2>1, <2>2, ReportCounts
<1>5. CASE EndWatching
  <2>1. ReportAnd({}, TRUE) /\ UNCHANGED <<entryVars, known, loading>>
    BY <1>5 DEF EndWatching
  <2> QED BY <2>1, ReportCounts
<1>6. ASSUME NEW over \in BOOLEAN, ReportLoad(over) PROVE VitalsInv'
  <2> DEFINE ready == IF watching /\ over THEN {"ttfb", "pageload"} ELSE {}
  <2>1. ReportAnd(ready, FALSE) /\ loading /\ loading' = FALSE /\ UNCHANGED <<entryVars, known>>
    BY <1>6 DEF ReportLoad, Report
  <2>2. ready \in SUBSET Spans /\ ready \cap done = {}
    BY <2>1 DEF Spans, VitalsInv, CountedOnce
  <2> HIDE DEF ready
  <2> QED BY <2>1, <2>2, ReportCounts
<1>7. ASSUME NEW v \in Values, LargestPaint(v) \/ SlowEvent(v) PROVE VitalsInv'
  <2>1. v \in Nat
    BY VitalsConstants
  <2>2. /\ lcp' \in Nat /\ inp' \in Nat
        /\ UNCHANGED <<loading, known, session, clsMax, shifts, done, queued, draining, sent, times, score>>
    BY <1>7, <2>1 DEF LargestPaint, SlowEvent, reportVars, VitalsInv, VitalsType
  <2>3. VitalsType' /\ CountedOnce'
    BY <2>2 DEF VitalsInv, VitalsType, CountedOnce
  <2>4. SessionOpen' /\ ScoreIsWindow'
    BY <2>2 DEF VitalsInv, SessionOpen, ScoreIsWindow, Sum, Together
  <2> QED BY <2>3, <2>4 DEF VitalsInv
<1>8. ASSUME NEW dt \in Steps, NEW v \in Values, LayoutShift(dt, v) PROVE VitalsInv'
  <2>1. dt \in Nat /\ v \in Nat
    BY VitalsConstants
  <2> QED BY <1>8, <2>1, ShiftAdds
<1>9. CASE Show \/ UNCHANGED vitalVars
  <2>1. UNCHANGED <<loading, known, lcp, session, clsMax, shifts, inp, done, queued, draining, sent, times, score>>
    BY <1>9 DEF Show, vitalVars, entryVars, reportVars
  <2>2. VitalsType' /\ CountedOnce'
    BY <2>1 DEF VitalsInv, VitalsType, CountedOnce
  <2>3. SessionOpen' /\ ScoreIsWindow'
    BY <2>1 DEF VitalsInv, SessionOpen, ScoreIsWindow, Sum, Together
  <2> QED BY <2>2, <2>3 DEF VitalsInv
<1>10. CASE StartDrain \/ \E again \in BOOLEAN : EndDrain(again)
  <2>1. /\ UNCHANGED <<loading, known, lcp, session, clsMax, shifts, inp, done, times, score>>
        /\ sent \subseteq sent' /\ sent \cup queued \cup draining \subseteq sent' \cup queued' \cup draining'
    BY <1>10 DEF StartDrain, EndDrain, entryVars
  <2>2. VitalsType' /\ CountedOnce'
    BY <2>1 DEF VitalsInv, VitalsType, CountedOnce
  <2>3. SessionOpen' /\ ScoreIsWindow'
    BY <2>1 DEF VitalsInv, SessionOpen, ScoreIsWindow, Sum, Together
  <2> QED BY <2>2, <2>3 DEF VitalsInv
<1> QED BY <1>2, <1>3, <1>4, <1>5, <1>6, <1>7, <1>8, <1>9, <1>10 DEF VitalsNext

\* VitalsReported (browser/src/perf.ts): in any order of entries, interactions, hiding,
\* load, drains and shutdown a vital is reported once, a hidden page has sent the finals
\* that have a value and are not in a drain under way, and the layout shift score is the sum of a session window.
THEOREM VitalsAlways == VitalsSpec => []VitalsReported
<1>1. VitalsInv => VitalsReported
  <2>1. VitalsInv => \A s \in Spans : times[s] <= 1
    BY DEF VitalsInv, CountedOnce
  <2> QED BY <2>1 DEF VitalsInv, CountedOnce, VitalsReported
<1> QED BY <1>1, VitalsInvInit, VitalsInvStep, PTL DEF VitalsSpec

(***************************************************************************)
(* SvelteHandle: what a buffer is replayed to                              *)
(***************************************************************************)

Persons      == People \cup {Nobody}
HandleCalls  == [what : {"capture"}, id : Nat] \cup [what : {"user"}, user : Persons]
CaptureLists == Seq([id : Nat, user : Persons])
ClientStates == [user : Persons, items : CaptureLists]

\* A client that is called stays one, with the new user or the new capture.
LEMMA MadeFacts ==
  ASSUME NEW s \in ClientStates, NEW call \in HandleCalls
  PROVE  /\ Made(s.user, s.items, call) \in ClientStates
         /\ call.what \in {"capture", "user"}
         /\ call.what = "user" => call.user \in Persons /\ Made(s.user, s.items, call) = [user |-> call.user, items |-> s.items]
         /\ call.what = "capture" =>
              /\ call.id \in Nat /\ call = CaptureCall(call.id)
              /\ Made(s.user, s.items, call) = [user |-> s.user, items |-> Append(s.items, [id |-> call.id, user |-> s.user])]
<1>1. s.user \in Persons /\ s.items \in CaptureLists
  BY DEF ClientStates
<1>2. CASE call \in [what : {"capture"}, id : Nat]
  <2>1. call.what = "capture" /\ call.id \in Nat /\ call = [what |-> "capture", id |-> call.id]
    BY <1>2
  <2>2. Append(s.items, [id |-> call.id, user |-> s.user]) \in CaptureLists
    BY <1>1, <2>1 DEF CaptureLists
  <2>3. Made(s.user, s.items, call) = [user |-> s.user, items |-> Append(s.items, [id |-> call.id, user |-> s.user])]
    BY <2>1 DEF Made
  <2> QED BY <1>1, <2>1, <2>2, <2>3 DEF ClientStates, CaptureCall
<1>3. CASE call \in [what : {"user"}, user : Persons]
  <2>1. call.what = "user" /\ call.user \in Persons
    BY <1>3
  <2>2. Made(s.user, s.items, call) = [user |-> call.user, items |-> s.items]
    BY <2>1 DEF Made
  <2> QED BY <1>1, <2>1, <2>2 DEF ClientStates
<1> QED BY <1>2, <1>3 DEF HandleCalls

\* Replaying goes call by call.
LEMMA ReplaySteps ==
  ASSUME NEW list \in Seq(HandleCalls)
  PROVE  LET r == Replay(list) IN
         /\ r[0] = [user |-> Nobody, items |-> <<>>]
         /\ \A k \in 1 .. Len(list) : r[k] = Made(r[k - 1].user, r[k - 1].items, list[k])
         /\ \A k \in 0 .. Len(list) : r[k] \in ClientStates
<1> DEFINE n == Len(list)
           base == [user |-> Nobody, items |-> <<>>]
           step == [k \in 1 .. n |-> [s \in ClientStates |-> Made(s.user, s.items, list[k])]]
           Makes(f) == f = [k \in 0 .. n |-> IF k = 0 THEN base ELSE Made(f[k - 1].user, f[k - 1].items, list[k])]
           r == Replay(list)
<1>1. n \in Nat /\ \A k \in 1 .. n : list[k] \in HandleCalls
  OBVIOUS
<1>2. base \in ClientStates
  BY DEF ClientStates, Persons, CaptureLists
<1>3. step \in [1 .. n -> [ClientStates -> ClientStates]]
  BY <1>1, MadeFacts
<1>4. r = CHOOSE f : Makes(f)
  BY DEF Replay
<1> HIDE DEF n, r
<1>5. \A k \in 1 .. n : \A s \in ClientStates : step[k][s] = Made(s.user, s.items, list[k])
  OBVIOUS
<1> HIDE DEF base, step
<1>6. PICK g : StepsFrom(base, n, step, g)
  BY <1>1, <1>2, <1>3, StepsExist
<1>7. g[0] = base /\ (\A k \in 1 .. n : g[k] = step[k][g[k - 1]]) /\ \A k \in 0 .. n : g[k] \in ClientStates
  BY <1>1, <1>2, <1>3, <1>6, StepsExist
<1>8. Makes(g)
  <2>1. \A k \in 0 .. n : g[k] = IF k = 0 THEN base ELSE Made(g[k - 1].user, g[k - 1].items, list[k])
    <3> TAKE k \in 0 .. n
    <3>1. k # 0 => k \in 1 .. n /\ k - 1 \in 0 .. n
      BY <1>1
    <3> QED BY <1>5, <1>7, <3>1
  <2>2. g = [k \in 0 .. n |-> g[k]]
    BY <1>6 DEF StepsFrom
  <2> QED BY <2>1, <2>2
<1>9. Makes(r)
  <2> HIDE DEF Makes
  <2> QED BY <1>4, <1>8
<1>10. r[0] = base /\ \A k \in 1 .. n : r[k] = Made(r[k - 1].user, r[k - 1].items, list[k])
  BY <1>1, <1>9
<1>11. \A k \in 0 .. n : r[k] \in ClientStates
  <2> DEFINE W == {k \in 0 .. n : r[k] \notin ClientStates}
  <2>1. SUFFICES ASSUME W # {} PROVE FALSE
    OBVIOUS
  <2>2. PICK x \in W : \A y \in W : x <= y
    <3>1. W \in SUBSET Nat
      BY <1>1
    <3> HIDE DEF W
    <3> QED BY <2>1, <3>1, LeastOf
  <2>3. x # 0
    BY <1>2, <1>10
  <2>4. x - 1 \in 0 .. n /\ ~ (x <= x - 1) /\ x \in 1 .. n
    BY <1>1, <2>3
  <2>5. r[x - 1] \in ClientStates
    BY <2>2, <2>4
  <2>6. r[x] = Made(r[x - 1].user, r[x - 1].items, list[x]) /\ list[x] \in HandleCalls
    BY <1>1, <1>10, <2>4
  <2>7. Made(r[x - 1].user, r[x - 1].items, list[x]) \in ClientStates
    BY ONLY <2>5, <2>6, MadeFacts
  <2>8. x \in W
    BY <2>2
  <2> QED BY ONLY <2>6, <2>7, <2>8
<1> QED BY <1>10, <1>11 DEF n, base, r

\* A further call changes nothing of what was replayed before it.
LEMMA ReplayMore ==
  ASSUME NEW list \in Seq(HandleCalls), NEW call \in HandleCalls
  PROVE  LET more == Append(list, call)
             n    == Len(list) IN
         /\ more \in Seq(HandleCalls) /\ n \in Nat /\ Len(more) = n + 1 /\ more[n + 1] = call
         /\ \A k \in 1 .. n : more[k] = list[k]
         /\ \A k \in 0 .. n : Replay(more)[k] = Replay(list)[k]
         /\ Replay(more)[n + 1] = Made(Replay(list)[n].user, Replay(list)[n].items, call)
<1> DEFINE more == Append(list, call)
           n == Len(list)
           old == Replay(list)
           new == Replay(more)
<1>1. /\ more \in Seq(HandleCalls) /\ n \in Nat /\ Len(more) = n + 1 /\ more[n + 1] = call
      /\ \A k \in 1 .. n : more[k] = list[k]
  OBVIOUS
<1>2. old[0] = [user |-> Nobody, items |-> <<>>] /\ \A k \in 1 .. n : old[k] = Made(old[k - 1].user, old[k - 1].items, list[k])
  BY ReplaySteps
<1>3. new[0] = [user |-> Nobody, items |-> <<>>] /\ \A k \in 1 .. n + 1 : new[k] = Made(new[k - 1].user, new[k - 1].items, more[k])
  BY <1>1, ReplaySteps
<1> HIDE DEF more, n, old, new
<1>4. \A k \in 0 .. n : new[k] = old[k]
  <2> DEFINE W == {k \in 0 .. n : new[k] # old[k]}
  <2>1. SUFFICES ASSUME W # {} PROVE FALSE
    OBVIOUS
  <2>2. PICK k \in W : \A y \in W : k <= y
    <3>1. W \in SUBSET Nat
      BY <1>1
    <3> HIDE DEF W
    <3> QED BY <2>1, <3>1, LeastOf
  <2>3. k # 0
    BY <1>2, <1>3
  <2>4. k - 1 \in 0 .. n /\ ~ (k <= k - 1) /\ k \in 1 .. n /\ k \in 1 .. n + 1
    BY <1>1, <2>3
  <2>5. new[k - 1] = old[k - 1]
    BY <2>2, <2>4
  <2> QED BY <1>1, <1>2, <1>3, <2>4, <2>5
<1>5. new[n + 1] = Made(old[n].user, old[n].items, call)
  <2>1. n + 1 \in 1 .. n + 1 /\ (n + 1) - 1 = n /\ n \in 0 .. n
    BY <1>1
  <2> QED BY <1>1, <1>3, <1>4, <2>1
<1> QED BY <1>1, <1>4, <1>5 DEF more, n, old, new

\* The captures of a list of calls come one after the other.
Rising(list) ==
  \A i, j \in DOMAIN list : list[i].what = "capture" /\ list[j].what = "capture" /\ i < j => list[i].id < list[j].id

\* What is captured when the first k calls are replayed is what they ask for, in order.
Replays(list, k) ==
  LET items == Replay(list)[k].items IN
  /\ \A i \in DOMAIN items : \E p \in 1 .. k :
       list[p].what = "capture" /\ list[p].id = items[i].id /\ items[i].user = Replay(list)[p - 1].user
  /\ \A p \in 1 .. k : list[p].what = "capture" => \E i \in DOMAIN items : items[i].id = list[p].id
  /\ Rising(list) => \A i, j \in DOMAIN items : i < j => items[i].id < items[j].id

\* What the replay of a buffer captures: its captures, each for the user before it, in order.
LEMMA ReplayGives ==
  ASSUME NEW list \in Seq(HandleCalls), NEW n \in 0 .. Len(list)
  PROVE  Replays(list, n)
<1> DEFINE r == Replay(list)
<1>1. /\ r[0] = [user |-> Nobody, items |-> <<>>]
      /\ \A k \in 1 .. Len(list) : r[k] = Made(r[k - 1].user, r[k - 1].items, list[k])
      /\ \A k \in 0 .. Len(list) : r[k] \in ClientStates
      /\ Len(list) \in Nat /\ DOMAIN list = 1 .. Len(list) /\ \A k \in 1 .. Len(list) : list[k] \in HandleCalls
  BY ReplaySteps
<1> DEFINE W == {k \in 0 .. Len(list) : ~ Replays(list, k)}
<1>2. SUFFICES ASSUME W # {} PROVE FALSE
  OBVIOUS
<1>3. PICK x \in W : \A y \in W : x <= y
  <2>1. W \in SUBSET Nat
    BY <1>1
  <2> HIDE DEF W
  <2> QED BY <1>2, <2>1, LeastOf
<1>4. x # 0
  <2>1. ASSUME x = 0 PROVE Replays(list, 0)
    <3>1. r[0].items = <<>>
      BY <1>1
    <3>2. (\A i : i \notin DOMAIN r[0].items) /\ \A p : p \notin 1 .. 0
      BY <3>1
    <3> QED BY <3>2 DEF Replays
  <2> QED BY <2>1
<1> DEFINE y == x - 1
           s == r[y].items
           t == r[x].items
<1>5. y \in 0 .. Len(list) /\ ~ (x <= y) /\ x \in 1 .. Len(list) /\ x \in Nat /\ y \in Nat /\ y + 1 = x
  BY <1>1, <1>4
<1>6. Replays(list, y)
  BY <1>3, <1>5
<1>7. /\ r[x] = Made(r[y].user, r[y].items, list[x]) /\ r[y] \in ClientStates /\ r[x] \in ClientStates /\ list[x] \in HandleCalls
  BY <1>1, <1>5
<1>8. s \in CaptureLists /\ Len(s) \in Nat /\ DOMAIN s = 1 .. Len(s)
  BY <1>7 DEF ClientStates, CaptureLists
<1> HIDE DEF r, W
<1>9. /\ \A i \in DOMAIN s : \E p \in 1 .. y : list[p].what = "capture" /\ list[p].id = s[i].id /\ s[i].user = r[p - 1].user
      /\ \A p \in 1 .. y : list[p].what = "capture" => \E i \in DOMAIN s : s[i].id = list[p].id
      /\ Rising(list) => \A i, j \in DOMAIN s : i < j => s[i].id < s[j].id
  BY <1>6 DEF Replays, r
<1>10. \A p \in 1 .. x : p \in 1 .. y \/ p = x
  BY <1>5
<1>11. \A p \in 1 .. y : p \in 1 .. x /\ p < x /\ p \in 1 .. Len(list)
  BY <1>5
<1>12. x \in 1 .. x /\ x - 1 = y
  BY <1>5
<1> HIDE DEF y, s, t
<1>13. CASE list[x].what = "user"
  <2>1. t = s
    <3>1. r[x] = [user |-> list[x].user, items |-> r[y].items]
      BY <1>7, <1>13, MadeFacts
    <3> QED BY <3>1 DEF s, t
  <2>2. \A p \in 1 .. x : list[p].what = "capture" => p \in 1 .. y
    BY <1>10, <1>13
  <2>3. Replays(list, x)
    BY <1>9, <1>11, <2>1, <2>2 DEF Replays, r, t
  <2> QED BY <2>3, <1>3 DEF W
<1>14. CASE list[x].what = "capture"
  <2> DEFINE new == [id |-> list[x].id, user |-> r[y].user]
  <2>1. t = Append(s, new) /\ list[x].id \in Nat /\ new \in [id : Nat, user : Persons]
    <3>1. /\ list[x].id \in Nat
          /\ r[x] = [user |-> r[y].user, items |-> Append(r[y].items, new)]
      BY <1>7, <1>14, MadeFacts
    <3>2. r[y].user \in Persons
      BY <1>7 DEF ClientStates
    <3> QED BY <3>1, <3>2 DEF s, t
  <2>2. /\ DOMAIN t = 1 .. Len(s) + 1 /\ t[Len(s) + 1] = new
        /\ \A i \in 1 .. Len(s) : t[i] = s[i]
    BY <1>8, <2>1 DEF CaptureLists
  <2>3. /\ \A i \in DOMAIN t : i \in DOMAIN s \/ i = Len(s) + 1
        /\ \A i \in DOMAIN s : i \in DOMAIN t /\ t[i] = s[i]
        /\ Len(s) + 1 \in DOMAIN t
        /\ \A i, j \in DOMAIN t : i < j => i \in DOMAIN s
    BY <1>8, <2>2
  <2>4. new.id = list[x].id /\ new.user = r[y].user
    OBVIOUS
  <2> HIDE DEF new
  <2>5. \A i \in DOMAIN t : \E p \in 1 .. x : list[p].what = "capture" /\ list[p].id = t[i].id /\ t[i].user = r[p - 1].user
    <3> TAKE i \in DOMAIN t
    <3>1. CASE i \in DOMAIN s
      BY <1>9, <1>11, <2>3, <3>1
    <3>2. CASE i = Len(s) + 1
      BY <1>12, <1>14, <2>2, <2>4, <3>2
    <3> QED BY <2>3, <3>1, <3>2
  <2>6. \A p \in 1 .. x : list[p].what = "capture" => \E i \in DOMAIN t : t[i].id = list[p].id
    <3> TAKE p \in 1 .. x
    <3> HAVE list[p].what = "capture"
    <3>1. CASE p \in 1 .. y
      <4>1. PICK i \in DOMAIN s : s[i].id = list[p].id
        BY <1>9, <3>1
      <4> QED BY <2>3, <4>1
    <3>2. CASE p = x
      BY <2>2, <2>3, <2>4, <3>2
    <3> QED BY <1>10, <3>1, <3>2
  <2>7. ASSUME Rising(list), NEW i \in DOMAIN t, NEW j \in DOMAIN t, i < j PROVE t[i].id < t[j].id
    <3>1. i \in DOMAIN s
      BY <2>3, <2>7
    <3>2. CASE j \in DOMAIN s
      BY <1>9, <2>3, <2>7, <3>1, <3>2
    <3>3. CASE j = Len(s) + 1
      <4>1. PICK p \in 1 .. y : list[p].what = "capture" /\ list[p].id = s[i].id
        BY <1>9, <3>1
      <4>2. p \in DOMAIN list /\ x \in DOMAIN list /\ p < x
        BY <1>1, <1>5, <1>11
      <4>3. list[p].id < list[x].id
        BY <1>14, <2>7, <4>1, <4>2 DEF Rising
      <4> QED BY <2>2, <2>3, <2>4, <3>1, <3>3, <4>1, <4>3
    <3> QED BY <2>3, <3>2, <3>3
  <2>8. Replays(list, x)
    BY <2>5, <2>6, <2>7 DEF Replays, r, t
  <2> QED BY <2>8, <1>3 DEF W
<1> QED BY <1>7, <1>13, <1>14, MadeFacts

(***************************************************************************)
(* SvelteHandle: what handles keep                                         *)
(***************************************************************************)

Traces == [handle : Providers, lazy : BOOLEAN, user : Persons, ended : BOOLEAN]

HandleType ==
  /\ component \in [Providers -> {"new", "created", "mounted", "keyless", "destroyed"}] /\ active \in Providers \cup {Nobody}
  /\ client \in [Providers -> {"none", "open", "closed"}]
  /\ buffered \in [Providers -> Seq(HandleCalls)]
  /\ person \in [Providers -> Persons] /\ recorded \in [Providers -> CaptureLists]
  /\ spans \in Seq(Traces)
  /\ meant \in Seq([by : Providers, user : Persons, due : BOOLEAN])
  /\ current \in [Providers -> Persons]
  /\ calls \in Nat /\ Len(meant) = calls

\* There is a client from mounting to destruction; it has what was buffered.
HandleLives(h) ==
  /\ component[h] \in {"new", "created", "keyless"} => client[h] = "none"
  /\ component[h] = "mounted" => client[h] = "open"
  /\ component[h] = "destroyed" => client[h] # "open"
  /\ h \in tells <=> client[h] = "open"
  /\ client[h] = "open" => buffered[h] = <<>>
  /\ client[h] = "none" => recorded[h] = <<>>

CallsOrdered(h) ==
  /\ \A i \in DOMAIN recorded[h] : recorded[h][i].id \in 1 .. calls
  /\ \A i, j \in DOMAIN recorded[h] : i < j => recorded[h][i].id < recorded[h][j].id
  /\ client[h] = "none" =>
       /\ \A i \in DOMAIN buffered[h] : buffered[h][i].what = "capture" => buffered[h][i].id \in 1 .. calls
       /\ Rising(buffered[h])

\* What is captured has the user that was set, and so will what is buffered.
UsersKept(h) ==
  /\ client[h] = "none" =>
       /\ Replayed(h).user = current[h]
       /\ \A i \in DOMAIN buffered[h] : buffered[h][i].what = "capture" =>
            meant[buffered[h][i].id].user = Replay(buffered[h])[i - 1].user
  /\ client[h] = "open" => person[h] = current[h]
  /\ \A i \in DOMAIN recorded[h] : recorded[h][i].user = meant[recorded[h][i].id].user

\* What is due is captured or buffered.
NoneMissing(h) ==
  \A n \in 1 .. calls : meant[n].by = h /\ meant[n].due =>
    \/ \E i \in DOMAIN recorded[h] : recorded[h][i].id = n
    \/ \E i \in DOMAIN buffered[h] : buffered[h][i] = CaptureCall(n)

CallsKept(h) == CallsOrdered(h) /\ (h \notin overflown => UsersKept(h) /\ NoneMissing(h))

HandleInv == HandleType /\ ActiveIsAlive /\ \A h \in Providers : HandleLives(h) /\ CallsKept(h)

\* Initially it holds.
LEMMA HandleInvInit == SvelteInit => HandleInv
<1> SUFFICES ASSUME SvelteInit PROVE HandleInv
  OBVIOUS
<1>1. Len(meant) = 0 /\ DOMAIN <<>> = {} /\ \A n : n \notin 1 .. 0
  BY DEF SvelteInit
<1>2. HandleType
  BY <1>1 DEF SvelteInit, HandleType, Persons, CaptureLists
<1>3. ActiveIsAlive
  BY DEF SvelteInit, ActiveIsAlive
<1>4. ASSUME NEW h \in Providers PROVE HandleLives(h) /\ CallsKept(h)
  <2>1. /\ component[h] = "new" /\ client[h] = "none" /\ buffered[h] = <<>> /\ recorded[h] = <<>>
        /\ current[h] = Nobody /\ tells = {} /\ calls = 0
    BY DEF SvelteInit
  <2>2. Replayed(h).user = Nobody
    <3>1. <<>> \in Seq(HandleCalls) /\ Len(<<>>) = 0
      OBVIOUS
    <3>2. Replay(<<>>)[0] = [user |-> Nobody, items |-> <<>>]
      BY <3>1, ReplaySteps
    <3> QED BY <2>1, <3>1, <3>2 DEF Replayed
  <2>3. HandleLives(h)
    BY <2>1 DEF HandleLives
  <2>4. CallsOrdered(h)
    BY <1>1, <2>1 DEF CallsOrdered, Rising
  <2>5. UsersKept(h)
    BY <1>1, <2>1, <2>2 DEF UsersKept
  <2>6. NoneMissing(h)
    BY <1>1, <2>1 DEF NoneMissing
  <2> QED BY <2>3, <2>4, <2>5, <2>6 DEF CallsKept
<1> QED BY <1>2, <1>3, <1>4 DEF HandleInv

\* What was meant stays, and a call more may be meant.
MeansMore == meant' = meant \/ \E m \in [by : Providers, user : Persons, due : BOOLEAN] : meant' = Append(meant, m)

\* Calls are numbered on, and what was meant stays.
LEMMA MeantStays ==
  ASSUME HandleType, HandleType', MeansMore
  PROVE  /\ calls \in Nat /\ calls' \in Nat /\ calls <= calls'
         /\ \A n \in 1 .. calls : n \in 1 .. calls' /\ meant'[n] = meant[n]
         /\ meant' = meant => calls' = calls
         /\ \A m : meant' = Append(meant, m) => calls' = calls + 1 /\ meant'[calls + 1] = m
<1>1. calls \in Nat /\ Len(meant) = calls /\ calls' = Len(meant') /\ meant \in Seq([by : Providers, user : Persons, due : BOOLEAN])
  BY DEF HandleType
<1>2. \A m \in [by : Providers, user : Persons, due : BOOLEAN] :
        meant' = Append(meant, m) =>
          calls' = calls + 1 /\ meant'[calls + 1] = m /\ \A n \in 1 .. calls : meant'[n] = meant[n]
  BY <1>1
<1>3. CASE meant' = meant
  <2>1. calls' = calls
    BY <1>1, <1>3
  <2>2. \A m : meant' = Append(meant, m) => FALSE
    <3>1. \A m : Len(Append(meant, m)) = Len(meant) + 1
      BY <1>1
    <3> QED BY <1>1, <1>3, <3>1
  <2> QED BY <1>1, <1>3, <2>1, <2>2
<1>4. ASSUME NEW m \in [by : Providers, user : Persons, due : BOOLEAN], meant' = Append(meant, m)
      PROVE  /\ calls' = calls + 1 /\ meant'[calls + 1] = m /\ \A n \in 1 .. calls : n \in 1 .. calls' /\ meant'[n] = meant[n]
             /\ \A k : meant' = Append(meant, k) => k = m
             /\ meant' # meant
  <2>1. calls' = calls + 1 /\ meant'[calls + 1] = m /\ \A n \in 1 .. calls : n \in 1 .. calls' /\ meant'[n] = meant[n]
    BY <1>1, <1>2, <1>4
  <2>2. \A k : Append(meant, k)[Len(meant) + 1] = k
    BY <1>1
  <2> QED BY <1>1, <1>4, <2>1, <2>2
<1> QED BY <1>1, <1>3, <1>4 DEF MeansMore

\* Nothing is done to a handle, but that its client may be closed, and that calls are
\* meant for others.
LEMMA HandleRests ==
  ASSUME HandleType, HandleType', MeansMore, NEW g \in Providers, CallsKept(g),
         client'[g] = client[g] \/ client'[g] = "closed",
         buffered'[g] = buffered[g], recorded'[g] = recorded[g], person'[g] = person[g], current'[g] = current[g],
         g \in overflown => g \in overflown',
         \A m : meant' = Append(meant, m) => ~ (m.by = g /\ m.due)
  PROVE  CallsKept(g)'
<1>1. /\ calls \in Nat /\ calls' \in Nat /\ calls <= calls'
      /\ \A n \in 1 .. calls : n \in 1 .. calls' /\ meant'[n] = meant[n]
  BY MeantStays
<1>2. client'[g] = "none" => client[g] = "none"
  OBVIOUS
<1>3. client'[g] = "open" => client[g] = "open"
  OBVIOUS
<1>4. CallsOrdered(g)'
  BY <1>1, <1>2 DEF CallsKept, CallsOrdered
<1>5. ASSUME g \notin overflown' PROVE UsersKept(g)'
  <2>1. UsersKept(g) /\ CallsOrdered(g)
    BY <1>5 DEF CallsKept
  <2>2. Replayed(g)' = Replayed(g)
    BY DEF Replayed
  <2> QED BY <1>1, <1>2, <1>3, <2>1, <2>2 DEF UsersKept, CallsOrdered
<1>6. ASSUME g \notin overflown' PROVE NoneMissing(g)'
  <2>1. NoneMissing(g)
    BY <1>6 DEF CallsKept
  <2>2. ASSUME NEW n \in 1 .. calls', meant'[n].by = g, meant'[n].due PROVE n \in 1 .. calls
    <3>1. CASE meant' = meant
      BY <3>1, MeantStays
    <3>2. ASSUME NEW m \in [by : Providers, user : Persons, due : BOOLEAN], meant' = Append(meant, m) PROVE n \in 1 .. calls
      <4>1. calls' = calls + 1 /\ meant'[calls + 1] = m
        BY <3>2, MeantStays
      <4>2. n # calls + 1
        BY <2>2, <3>2, <4>1
      <4> QED BY <1>1, <4>1, <4>2
    <3> QED BY <3>1, <3>2 DEF MeansMore
  <2> QED BY <1>1, <2>1, <2>2 DEF NoneMissing
<1> QED BY <1>4, <1>5, <1>6 DEF CallsKept

\* A client is made of what was buffered.
LEMMA MountKeeps ==
  ASSUME HandleType, HandleType', NEW h \in Providers, HandleLives(h), CallsKept(h), client[h] = "none", client'[h] = "open",
         person'[h] = Replayed(h).user, recorded'[h] = Replayed(h).items, buffered'[h] = <<>>, UNCHANGED callVars
  PROVE  CallsKept(h)'
<1> DEFINE list == buffered[h]
           n == Len(list)
           items == Replay(list)[n].items
<1>1. list \in Seq(HandleCalls) /\ n \in Nat /\ n \in 0 .. n /\ DOMAIN list = 1 .. n
  BY DEF HandleType
<1>2. /\ \A i \in DOMAIN items : \E p \in 1 .. n :
           list[p].what = "capture" /\ list[p].id = items[i].id /\ items[i].user = Replay(list)[p - 1].user
      /\ \A p \in 1 .. n : list[p].what = "capture" => \E i \in DOMAIN items : items[i].id = list[p].id
      /\ Rising(list) => \A i, j \in DOMAIN items : i < j => items[i].id < items[j].id
  <2>1. Replays(list, n)
    BY <1>1, ReplayGives
  <2> HIDE DEF list, n
  <2> QED BY <2>1 DEF Replays
<1>3. recorded'[h] = items /\ recorded[h] = <<>> /\ UNCHANGED <<meant, current, overflown, calls>>
  BY DEF Replayed, HandleLives, callVars
<1> HIDE DEF n, items
<1>4. CallsOrdered(h)'
  BY <1>1, <1>2, <1>3 DEF CallsKept, CallsOrdered
<1>5. ASSUME h \notin overflown' PROVE UsersKept(h)'
  <2>1. UsersKept(h)
    BY <1>3, <1>5 DEF CallsKept
  <2>2. \A i \in DOMAIN items : items[i].user = meant[items[i].id].user
    <3> TAKE i \in DOMAIN items
    <3>1. PICK p \in 1 .. n : list[p].what = "capture" /\ list[p].id = items[i].id /\ items[i].user = Replay(list)[p - 1].user
      BY <1>2
    <3>2. meant[list[p].id].user = Replay(list)[p - 1].user
      BY <1>1, <2>1, <3>1 DEF UsersKept
    <3> QED BY <3>1, <3>2
  <2>3. person'[h] = current'[h]
    BY <1>3, <2>1 DEF UsersKept
  <2> QED BY <1>3, <2>2, <2>3 DEF UsersKept
<1>6. ASSUME h \notin overflown' PROVE NoneMissing(h)'
  <2>1. NoneMissing(h)
    BY <1>3, <1>6 DEF CallsKept
  <2>2. \A k \in 1 .. calls : (\E i \in DOMAIN list : list[i] = CaptureCall(k)) => \E i \in DOMAIN items : items[i].id = k
    <3> TAKE k \in 1 .. calls
    <3> HAVE \E i \in DOMAIN list : list[i] = CaptureCall(k)
    <3>1. PICK p \in 1 .. n : list[p] = CaptureCall(k)
      BY <1>1
    <3>2. list[p].what = "capture" /\ list[p].id = k
      BY <3>1 DEF CaptureCall
    <3> QED BY <1>2, <3>2
  <2> QED BY <1>3, <2>1, <2>2 DEF NoneMissing
<1> QED BY <1>4, <1>5, <1>6 DEF CallsKept

\* An open client captures a call.
LEMMA CaptureKeeps ==
  ASSUME HandleType, HandleType', NEW h \in Providers, CallsKept(h), NEW m \in [by : Providers, user : Persons, due : BOOLEAN],
         NEW u \in Persons, h \notin overflown => u = m.user,
         client[h] = "open", client'[h] = "open", meant' = Append(meant, m),
         recorded'[h] = Append(recorded[h], [id |-> calls + 1, user |-> u]),
         buffered'[h] = buffered[h], person'[h] = person[h], current'[h] = current[h], overflown' = overflown
  PROVE  CallsKept(h)'
<1> DEFINE s == recorded[h]
           t == recorded'[h]
           new == [id |-> calls + 1, user |-> u]
<1>1. /\ calls \in Nat /\ calls' = calls + 1 /\ meant'[calls + 1] = m
      /\ \A n \in 1 .. calls : n \in 1 .. calls' /\ meant'[n] = meant[n]
  BY MeantStays DEF MeansMore
<1>2. s \in Seq([id : Nat, user : Persons])
  BY DEF HandleType, CaptureLists
<1>3. /\ \A i \in DOMAIN t : (i \in DOMAIN s /\ t[i] = s[i]) \/ (i = Len(s) + 1 /\ t[i] = new)
      /\ \A i \in DOMAIN s : i \in DOMAIN t /\ t[i] = s[i]
      /\ Len(s) + 1 \in DOMAIN t /\ t[Len(s) + 1] = new
      /\ \A i, j \in DOMAIN t : i < j => i \in DOMAIN s
  <2>1. new \in [id : Nat, user : Persons]
    BY <1>1
  <2>2. t = Append(s, new)
    OBVIOUS
  <2> HIDE DEF s, t, new
  <2>3. /\ DOMAIN s = 1 .. Len(s) /\ Len(s) \in Nat /\ DOMAIN t = 1 .. Len(s) + 1 /\ t[Len(s) + 1] = new
        /\ \A i \in 1 .. Len(s) : t[i] = s[i]
    BY <1>2, <2>1, <2>2
  <2> QED BY <2>3
<1>4. new.id = calls + 1 /\ new.user = u
  OBVIOUS
<1>5. /\ \A i \in DOMAIN s : s[i].id \in 1 .. calls
      /\ \A i, j \in DOMAIN s : i < j => s[i].id < s[j].id
  BY DEF CallsKept, CallsOrdered
<1> HIDE DEF s, t, new
<1>6. CallsOrdered(h)'
  <2>1. \A i \in DOMAIN t : t[i].id \in 1 .. calls'
    BY <1>1, <1>3, <1>4, <1>5
  <2>2. ASSUME NEW i \in DOMAIN t, NEW j \in DOMAIN t, i < j PROVE t[i].id < t[j].id
    <3>1. i \in DOMAIN s /\ t[i] = s[i] /\ s[i].id \in 1 .. calls
      BY <1>3, <1>5, <2>2
    <3>2. CASE j \in DOMAIN s /\ t[j] = s[j]
      BY <1>5, <2>2, <3>1, <3>2
    <3>3. CASE t[j] = new
      BY <1>1, <1>4, <3>1, <3>3
    <3> QED BY <1>3, <3>2, <3>3
  <2> QED BY <2>1, <2>2 DEF CallsOrdered, t
<1>7. ASSUME h \notin overflown' PROVE UsersKept(h)'
  <2>1. UsersKept(h) /\ u = m.user
    BY <1>7 DEF CallsKept
  <2>2. \A i \in DOMAIN t : t[i].user = meant'[t[i].id].user
    <3> TAKE i \in DOMAIN t
    <3>1. CASE i \in DOMAIN s /\ t[i] = s[i]
      <4>1. s[i].user = meant[s[i].id].user
        BY <2>1, <3>1 DEF UsersKept, s
      <4> QED BY <1>1, <1>5, <3>1, <4>1
    <3>2. CASE t[i] = new
      BY <1>1, <1>4, <2>1, <3>2
    <3> QED BY <1>3, <3>1, <3>2
  <2> QED BY <2>1, <2>2 DEF UsersKept, t
<1>8. ASSUME h \notin overflown' PROVE NoneMissing(h)'
  <2>1. NoneMissing(h)
    BY <1>8 DEF CallsKept
  <2>2. ASSUME NEW n \in 1 .. calls', n \notin 1 .. calls PROVE \E i \in DOMAIN t : t[i].id = n
    <3>1. n = calls + 1
      BY <1>1, <2>2
    <3> QED BY <1>3, <1>4, <3>1
  <2>3. \A n : (\E i \in DOMAIN s : s[i].id = n) => \E i \in DOMAIN t : t[i].id = n
    BY <1>3
  <2>4. \A n \in 1 .. calls : n \in 1 .. calls' /\ meant'[n] = meant[n]
    BY <1>1
  <2>5. ASSUME NEW n \in 1 .. calls', meant'[n].by = h, meant'[n].due
        PROVE  (\E i \in DOMAIN t : t[i].id = n) \/ \E i \in DOMAIN buffered[h] : buffered[h][i] = CaptureCall(n)
    BY <2>1, <2>2, <2>3, <2>4, <2>5 DEF NoneMissing, s
  <2> QED BY <2>5 DEF NoneMissing, t
<1> QED BY <1>6, <1>7, <1>8 DEF CallsKept

\* The user of an open client is set.
LEMMA UserKeeps ==
  ASSUME HandleType, HandleType', NEW h \in Providers, CallsKept(h), NEW m \in [by : Providers, user : Persons, due : BOOLEAN],
         NEW u \in Persons, ~ m.due, client[h] = "open", client'[h] = "open", meant' = Append(meant, m),
         recorded'[h] = recorded[h], buffered'[h] = buffered[h], person'[h] = u, current'[h] = u, overflown' = overflown
  PROVE  CallsKept(h)'
<1>1. /\ calls \in Nat /\ calls' = calls + 1 /\ meant'[calls + 1] = m
      /\ \A n \in 1 .. calls : n \in 1 .. calls' /\ meant'[n] = meant[n]
  BY MeantStays DEF MeansMore
<1>2. ASSUME NEW n \in 1 .. calls', meant'[n].due PROVE n \in 1 .. calls
  <2>1. n # calls + 1
    BY <1>1, <1>2
  <2> QED BY <1>1, <2>1
<1>3. CallsOrdered(h)'
  BY <1>1 DEF CallsKept, CallsOrdered
<1>4. ASSUME h \notin overflown' PROVE UsersKept(h)'
  <2>1. UsersKept(h) /\ CallsOrdered(h)
    BY <1>4 DEF CallsKept
  <2>2. \A i \in DOMAIN recorded[h] : recorded[h][i].user = meant'[recorded[h][i].id].user
    BY <1>1, <2>1 DEF UsersKept, CallsOrdered
  <2>3. person'[h] = current'[h] /\ client'[h] # "none"
    OBVIOUS
  <2> QED BY <2>2, <2>3 DEF UsersKept
<1>5. ASSUME h \notin overflown' PROVE NoneMissing(h)'
  <2>1. NoneMissing(h)
    BY <1>5 DEF CallsKept
  <2>2. ASSUME NEW n \in 1 .. calls', meant'[n].by = h, meant'[n].due
        PROVE  (\E i \in DOMAIN recorded[h] : recorded[h][i].id = n) \/ \E i \in DOMAIN buffered[h] : buffered[h][i] = CaptureCall(n)
    <3>1. n \in 1 .. calls /\ meant[n] = meant'[n]
      BY <1>1, <1>2, <2>2
    <3> QED BY <2>1, <2>2, <3>1 DEF NoneMissing
  <2>3. (\A n \in 1 .. calls : meant[n].by = h /\ meant[n].due =>
            \/ \E i \in DOMAIN recorded[h] : recorded[h][i].id = n
            \/ \E i \in DOMAIN buffered[h] : buffered[h][i] = CaptureCall(n))'
    <3>1. recorded'[h] = recorded[h] /\ buffered'[h] = buffered[h]
      OBVIOUS
    <3>2. \A n : CaptureCall(n)' = CaptureCall(n)
      BY DEF CaptureCall
    <3> QED BY ONLY <2>2, <3>1, <3>2
  <2> QED BY ONLY <2>3 DEF NoneMissing
<1> QED BY <1>3, <1>4, <1>5 DEF CallsKept

\* A call is buffered.
LEMMA BufferKeeps ==
  ASSUME HandleType, HandleType', NEW h \in Providers, CallsKept(h), NEW m \in [by : Providers, user : Persons, due : BOOLEAN],
         NEW call \in HandleCalls,
         \/ call.what = "user" /\ current'[h] = call.user /\ ~ m.due
         \/ call = CaptureCall(calls + 1) /\ current'[h] = current[h] /\ m.user = current[h],
         client[h] # "open", client'[h] = client[h], meant' = Append(meant, m),
         buffered'[h] = Append(buffered[h], call),
         recorded'[h] = recorded[h], person'[h] = person[h], overflown' = overflown
  PROVE  CallsKept(h)'
<1> DEFINE s == buffered[h]
           t == buffered'[h]
           n == Len(s)
<1>1. /\ calls \in Nat /\ calls' = calls + 1 /\ meant'[calls + 1] = m
      /\ \A k \in 1 .. calls : k \in 1 .. calls' /\ meant'[k] = meant[k]
  BY MeantStays DEF MeansMore
<1>2. s \in Seq(HandleCalls) /\ t \in Seq(HandleCalls) /\ t = Append(s, call)
  BY DEF HandleType
<1>3. /\ n \in Nat /\ Len(t) = n + 1 /\ t[n + 1] = call
      /\ \A k \in 1 .. n : t[k] = s[k]
      /\ \A k \in 0 .. n : Replay(t)[k] = Replay(s)[k]
      /\ Replay(t)[n + 1] = Made(Replay(s)[n].user, Replay(s)[n].items, call)
      /\ Replay(s)[n] \in ClientStates
  BY <1>2, ReplayMore, ReplaySteps
<1>4. DOMAIN s = 1 .. n /\ DOMAIN t = 1 .. n + 1
  BY <1>2, <1>3
<1> HIDE DEF s, t, n
<1>5. /\ \A i \in DOMAIN t : i \in DOMAIN s \/ i = n + 1
      /\ \A i \in DOMAIN s : i \in DOMAIN t /\ i - 1 \in 0 .. n
      /\ n + 1 \in DOMAIN t /\ (n + 1) - 1 = n /\ n \in 0 .. n
      /\ \A i, j \in DOMAIN t : i < j => i \in DOMAIN s
  BY <1>3, <1>4
<1>6. /\ call.what = "capture" => call = CaptureCall(calls + 1) /\ call.id = calls + 1 /\ current'[h] = current[h] /\ m.user = current[h]
      /\ call.what = "user" => current'[h] = call.user /\ ~ m.due
      /\ call.what \in {"capture", "user"}
  BY <1>1 DEF CaptureCall
<1>7. CallsOrdered(h)'
  <2>1. ASSUME client[h] = "none"
        PROVE  /\ \A i \in DOMAIN t : t[i].what = "capture" => t[i].id \in 1 .. calls'
               /\ Rising(t)
    <3>1. /\ \A i \in DOMAIN s : s[i].what = "capture" => s[i].id \in 1 .. calls
          /\ Rising(s)
      BY <2>1 DEF CallsKept, CallsOrdered, s
    <3>2. \A i \in DOMAIN t : t[i].what = "capture" => t[i].id \in 1 .. calls'
      BY <1>1, <1>3, <1>4, <1>5, <1>6, <3>1
    <3>3. ASSUME NEW i \in DOMAIN t, NEW j \in DOMAIN t, t[i].what = "capture", t[j].what = "capture", i < j
          PROVE  t[i].id < t[j].id
      <4>1. i \in DOMAIN s /\ t[i] = s[i] /\ s[i].id \in 1 .. calls
        BY <1>3, <1>4, <1>5, <3>1, <3>3
      <4>2. CASE j \in DOMAIN s
        BY <1>3, <1>4, <3>1, <3>3, <4>1, <4>2 DEF Rising
      <4>3. CASE j = n + 1
        BY <1>1, <1>3, <1>6, <3>3, <4>1, <4>3
      <4> QED BY <1>5, <4>2, <4>3
    <3> QED BY <3>2, <3>3 DEF Rising
  <2>2. /\ \A i \in DOMAIN recorded[h] : recorded[h][i].id \in 1 .. calls'
        /\ \A i, j \in DOMAIN recorded[h] : i < j => recorded[h][i].id < recorded[h][j].id
    BY <1>1 DEF CallsKept, CallsOrdered
  <2> QED BY <2>1, <2>2 DEF CallsOrdered, t
<1>8. ASSUME h \notin overflown' PROVE UsersKept(h)'
  <2>1. UsersKept(h) /\ CallsOrdered(h)
    BY <1>8 DEF CallsKept
  <2>2. ASSUME client[h] = "none"
        PROVE  /\ Replay(t)[n + 1].user = current'[h]
               /\ \A i \in DOMAIN t : t[i].what = "capture" => meant'[t[i].id].user = Replay(t)[i - 1].user
    <3>1. /\ Replay(s)[n].user = current[h]
          /\ \A i \in DOMAIN s : s[i].what = "capture" => meant[s[i].id].user = Replay(s)[i - 1].user
          /\ \A i \in DOMAIN s : s[i].what = "capture" => s[i].id \in 1 .. calls
      BY <2>1, <2>2 DEF UsersKept, CallsOrdered, Replayed, s, n
    <3>2. Replay(t)[n + 1].user = current'[h]
      <4>1. CASE call.what = "user"
        <5>1. Replay(t)[n + 1] = [user |-> call.user, items |-> Replay(s)[n].items]
          BY <1>3, <4>1, MadeFacts
        <5> QED BY <1>6, <4>1, <5>1
      <4>2. CASE call.what = "capture"
        <5>1. Replay(t)[n + 1] = [user |-> Replay(s)[n].user, items |-> Append(Replay(s)[n].items, [id |-> call.id, user |-> Replay(s)[n].user])]
          BY <1>3, <4>2, MadeFacts
        <5> QED BY <1>6, <3>1, <4>2, <5>1
      <4> QED BY <1>6, <4>1, <4>2
    <3>3. ASSUME NEW i \in DOMAIN t, t[i].what = "capture" PROVE meant'[t[i].id].user = Replay(t)[i - 1].user
      <4>1. CASE i \in DOMAIN s
        <5>1. t[i] = s[i] /\ i - 1 \in 0 .. n
          BY <1>3, <1>4, <1>5, <4>1
        <5>2. meant[s[i].id].user = Replay(s)[i - 1].user /\ s[i].id \in 1 .. calls
          BY <3>1, <3>3, <4>1, <5>1
        <5>3. meant'[s[i].id] = meant[s[i].id]
          BY <1>1, <5>2
        <5>4. Replay(t)[i - 1] = Replay(s)[i - 1]
          BY <1>3, <5>1
        <5> QED BY <5>1, <5>2, <5>3, <5>4
      <4>2. CASE i = n + 1
        <5>1. t[i] = call /\ i - 1 = n /\ call.id = calls + 1 /\ m.user = current[h]
          BY <1>3, <1>5, <1>6, <3>3, <4>2
        <5>2. Replay(t)[n] = Replay(s)[n]
          BY <1>3, <1>5
        <5> QED BY <1>1, <3>1, <5>1, <5>2
      <4> QED BY <1>5, <4>1, <4>2
    <3> QED BY <3>2, <3>3
  <2>3. \A i \in DOMAIN recorded[h] : recorded[h][i].user = meant'[recorded[h][i].id].user
    BY <1>1, <2>1 DEF UsersKept, CallsOrdered
  <2>4. Replayed(h)' = Replay(t)[n + 1]
    BY <1>3 DEF Replayed, t
  <2> QED BY <2>2, <2>3, <2>4 DEF UsersKept, t
<1>9. ASSUME h \notin overflown' PROVE NoneMissing(h)'
  <2>1. NoneMissing(h)
    BY <1>9 DEF CallsKept
  <2>2. \A k \in 1 .. calls' : k \in 1 .. calls \/ k = calls + 1
    BY <1>1
  <2>3. ASSUME NEW k \in 1 .. calls', meant'[k].by = h, meant'[k].due
        PROVE  (\E i \in DOMAIN recorded[h] : recorded[h][i].id = k) \/ \E i \in DOMAIN t : t[i] = CaptureCall(k)
    <3>1. CASE k \in 1 .. calls
      <4>1. meant[k].by = h /\ meant[k].due
        BY <1>1, <2>3, <3>1
      <4>2. \/ \E i \in DOMAIN recorded[h] : recorded[h][i].id = k
            \/ \E i \in DOMAIN s : s[i] = CaptureCall(k)
        BY <2>1, <3>1, <4>1 DEF NoneMissing, s
      <4> QED BY <1>3, <1>4, <1>5, <4>2
    <3>2. CASE k = calls + 1
      <4>1. call.what = "capture"
        BY <1>1, <1>6, <2>3, <3>2
      <4> QED BY <1>3, <1>5, <1>6, <3>2, <4>1
    <3> QED BY <2>2, <3>1, <3>2
  <2> QED BY <2>3 DEF NoneMissing, t
<1> QED BY <1>7, <1>8, <1>9 DEF CallsKept

\* A call for which the buffer has no room.
LEMMA OverflowKeeps ==
  ASSUME HandleType, HandleType', MeansMore, NEW h \in Providers, CallsKept(h), h \in overflown',
         client'[h] = client[h], buffered'[h] = buffered[h], recorded'[h] = recorded[h]
  PROVE  CallsKept(h)'
<1>1. calls \in Nat /\ calls' \in Nat /\ calls <= calls'
  BY MeantStays
<1> QED BY <1>1 DEF CallsKept, CallsOrdered

\* A call goes to the client, to the buffer, or nowhere when that is full.
LEMMA RunKeeps ==
  ASSUME HandleInv, NEW h \in Providers, NEW call \in HandleCalls, NEW u \in Persons, NEW due \in BOOLEAN,
         Run(h, call), Called, Meant(h, u, due), UNCHANGED <<component, client, tells, active>>,
         spans' \in Seq(Traces),
         \/ call = UserCall(u) /\ ~ due /\ current' = [current EXCEPT ![h] = u]
         \/ call = CaptureCall(calls + 1) /\ u = current[h] /\ UNCHANGED current
  PROVE  HandleInv'
<1> DEFINE m == [by |-> h, user |-> u, due |-> due]
           after == Made(person[h], recorded[h], call)
<1>1. /\ HandleType /\ \A g \in Providers : HandleLives(g) /\ CallsKept(g)
      /\ person[h] \in Persons /\ recorded[h] \in CaptureLists /\ buffered[h] \in Seq(HandleCalls)
      /\ calls \in Nat /\ calls' = calls + 1 /\ Len(meant) = calls
  BY DEF HandleInv, HandleType, Called
<1>2. m \in [by : Providers, user : Persons, due : BOOLEAN] /\ meant' = Append(meant, m) /\ m.by = h /\ m.user = u /\ m.due = due
  BY DEF Meant
<1>3. MeansMore
  BY <1>2 DEF MeansMore
<1>4. after \in ClientStates /\ Append(buffered[h], call) \in Seq(HandleCalls)
  <2> DEFINE st == [user |-> person[h], items |-> recorded[h]]
  <2>1. st \in ClientStates /\ st.user = person[h] /\ st.items = recorded[h]
    BY <1>1 DEF ClientStates
  <2> HIDE DEF st
  <2>2. Made(st.user, st.items, call) \in ClientStates
    BY <2>1, MadeFacts
  <2>3. Append(buffered[h], call) \in Seq(HandleCalls)
    BY <1>1
  <2> QED BY <2>1, <2>2, <2>3
<1>5. /\ call = UserCall(u) => after = [user |-> u, items |-> recorded[h]] /\ call.what = "user" /\ call.user = u
      /\ call = CaptureCall(calls + 1) =>
           after = [user |-> person[h], items |-> Append(recorded[h], [id |-> calls + 1, user |-> person[h]])]
  <2>1. ASSUME call = UserCall(u)
        PROVE  after = [user |-> u, items |-> recorded[h]] /\ call.what = "user" /\ call.user = u
    <3>1. call.what = "user" /\ call.user = u
      BY <2>1 DEF UserCall
    <3> QED BY <3>1 DEF Made
  <2>2. ASSUME call = CaptureCall(calls + 1)
        PROVE  after = [user |-> person[h], items |-> Append(recorded[h], [id |-> calls + 1, user |-> person[h]])]
    <3>1. call.what = "capture" /\ call.id = calls + 1
      BY <2>2 DEF CaptureCall
    <3> QED BY <3>1 DEF Made
  <2> QED BY <2>1, <2>2
<1> HIDE DEF m, after
<1>6. /\ client[h] = "open" => /\ person' = [person EXCEPT ![h] = after.user] /\ recorded' = [recorded EXCEPT ![h] = after.items]
                               /\ buffered' = buffered /\ overflown' = overflown
      /\ client[h] # "open" => /\ person' = person /\ recorded' = recorded
                               /\ \/ buffered' = [buffered EXCEPT ![h] = Append(buffered[h], call)] /\ overflown' = overflown
                                  \/ buffered' = buffered /\ overflown' = overflown \cup {h}
  BY DEF Run, after, Buffers
<1>7. HandleType'
  <2>1. person' \in [Providers -> Persons] /\ recorded' \in [Providers -> CaptureLists]
    BY <1>1, <1>4, <1>6 DEF HandleType, ClientStates
  <2>2. buffered' \in [Providers -> Seq(HandleCalls)]
    BY <1>1, <1>4, <1>6 DEF HandleType
  <2>3. current' \in [Providers -> Persons]
    BY <1>1 DEF HandleType
  <2>4. meant' \in Seq([by : Providers, user : Persons, due : BOOLEAN]) /\ calls' \in Nat /\ Len(meant') = calls'
    <3>1. meant \in Seq([by : Providers, user : Persons, due : BOOLEAN])
      BY <1>1 DEF HandleType
    <3> QED BY <1>1, <1>2, <3>1
  <2> QED BY <1>1, <2>1, <2>2, <2>3, <2>4 DEF HandleType
<1>8. ActiveIsAlive'
  BY DEF HandleInv, ActiveIsAlive
<1>9. ASSUME NEW g \in Providers PROVE HandleLives(g)'
  <2>1. client[g] = "open" => buffered'[g] = buffered[g]
    BY <1>1, <1>6 DEF HandleType
  <2>2. client[g] # "open" => recorded'[g] = recorded[g]
    BY <1>1, <1>6 DEF HandleType
  <2> QED BY <1>1, <2>1, <2>2 DEF HandleLives
<1>10. ASSUME NEW g \in Providers, g # h PROVE CallsKept(g)'
  <2>1. /\ buffered'[g] = buffered[g] /\ recorded'[g] = recorded[g] /\ person'[g] = person[g] /\ current'[g] = current[g]
        /\ g \in overflown => g \in overflown'
    BY <1>1, <1>6, <1>10 DEF HandleType
  <2>2. \A k : meant' = Append(meant, k) => k = m
    <3>1. meant'[calls + 1] = m
      BY <1>1, <1>2, <1>3, <1>7, MeantStays
    <3> QED BY <1>1, <1>3, <1>7, <3>1, MeantStays
  <2> QED BY <1>1, <1>2, <1>3, <1>7, <1>10, <2>1, <2>2, HandleRests
<1>11. CallsKept(h)'
  <2>1. CASE client[h] = "open" /\ call = UserCall(u) /\ ~ due /\ current' = [current EXCEPT ![h] = u]
    <3>1. recorded'[h] = recorded[h] /\ person'[h] = u /\ current'[h] = u
      BY <1>1, <1>5, <1>6, <2>1 DEF HandleType
    <3> QED BY <1>1, <1>2, <1>6, <1>7, <2>1, <3>1, UserKeeps
  <2>2. CASE client[h] = "open" /\ call = CaptureCall(calls + 1) /\ u = current[h] /\ UNCHANGED current
    <3>1. recorded'[h] = Append(recorded[h], [id |-> calls + 1, user |-> person[h]]) /\ person'[h] = person[h]
      BY <1>1, <1>5, <1>6, <2>2 DEF HandleType
    <3>2. h \notin overflown => person[h] = m.user
      BY <1>1, <1>2, <2>2 DEF CallsKept, UsersKept
    <3> QED BY <1>1, <1>2, <1>6, <1>7, <2>2, <3>1, <3>2, CaptureKeeps
  <2>3. CASE client[h] # "open" /\ buffered' = [buffered EXCEPT ![h] = Append(buffered[h], call)] /\ overflown' = overflown
    <3>1. /\ buffered'[h] = Append(buffered[h], call) /\ recorded'[h] = recorded[h] /\ person'[h] = person[h]
      BY <1>1, <1>6, <2>3 DEF HandleType
    <3>2. \/ call.what = "user" /\ current'[h] = call.user /\ ~ m.due
          \/ call = CaptureCall(calls + 1) /\ current'[h] = current[h] /\ m.user = current[h]
      BY <1>1, <1>2, <1>5 DEF HandleType
    <3> QED BY <1>1, <1>2, <1>7, <2>3, <3>1, <3>2, BufferKeeps
  <2>4. CASE client[h] # "open" /\ buffered' = buffered /\ overflown' = overflown \cup {h}
    BY <1>1, <1>3, <1>6, <1>7, <2>4, OverflowKeeps
  <2> QED BY <1>6, <2>1, <2>2, <2>3, <2>4
<1> QED BY <1>7, <1>8, <1>9, <1>10, <1>11 DEF HandleInv

\* The handles' parts of an invariant, when no call is made.
LEMMA QuietKeeps ==
  ASSUME HandleInv, HandleType', NEW g \in Providers,
         client'[g] = client[g] \/ client'[g] = "closed",
         buffered'[g] = buffered[g], recorded'[g] = recorded[g], UNCHANGED <<person, meant, current, overflown>>
  PROVE  CallsKept(g)'
<1>1. HandleType /\ CallsKept(g) /\ MeansMore
  BY DEF HandleInv, MeansMore
<1>2. \A m : meant' = Append(meant, m) => ~ (m.by = g /\ m.due)
  <2>1. \A m : meant' # Append(meant, m)
    <3>1. \A m : Len(Append(meant, m)) = Len(meant) + 1 /\ Len(meant) \in Nat
      BY <1>1 DEF HandleType
    <3> QED BY <3>1
  <2> QED BY <2>1
<1> QED BY <1>1, <1>2, HandleRests

\* Every step keeps the invariant.
LEMMA HandleInvStep == HandleInv /\ [SvelteNext]_svelteVars => HandleInv'
<1> SUFFICES ASSUME HandleInv, [SvelteNext]_svelteVars PROVE HandleInv'
  OBVIOUS
<1>1. HandleType /\ ActiveIsAlive /\ \A h \in Providers : HandleLives(h) /\ CallsKept(h)
  BY DEF HandleInv
<1>2. CASE UNCHANGED svelteVars
  <2>1. HandleType' /\ ActiveIsAlive'
    BY <1>1, <1>2 DEF HandleType, ActiveIsAlive, svelteVars, handleVars, callVars
  <2>2. ASSUME NEW g \in Providers PROVE HandleLives(g)' /\ CallsKept(g)'
    <3>1. HandleLives(g)'
      BY <1>1, <1>2 DEF HandleLives, svelteVars, handleVars
    <3> QED BY <1>2, <2>1, <3>1, QuietKeeps DEF svelteVars, handleVars, callVars
  <2> QED BY <2>1, <2>2 DEF HandleInv
<1>3. ASSUME NEW p \in Providers, Create(p) PROVE HandleInv'
  <2>1. HandleType'
    BY <1>1, <1>3 DEF HandleType, Create, handleVars, callVars
  <2>2. ActiveIsAlive'
    BY <1>1, <1>3 DEF HandleType, ActiveIsAlive, Create
  <2>3. ASSUME NEW g \in Providers PROVE HandleLives(g)' /\ CallsKept(g)'
    <3>1. HandleLives(g)'
      BY <1>1, <1>3 DEF HandleType, HandleLives, Create, handleVars
    <3> QED BY <1>3, <2>1, <3>1, QuietKeeps DEF Create, handleVars, callVars
  <2> QED BY <2>1, <2>2, <2>3 DEF HandleInv
<1>4. ASSUME NEW p \in Providers, MountKeyless(p) PROVE HandleInv'
  <2>1. HandleType'
    BY <1>1, <1>4 DEF HandleType, MountKeyless, handleVars, callVars
  <2>2. ActiveIsAlive'
    BY <1>1, <1>4 DEF HandleType, ActiveIsAlive, MountKeyless
  <2>3. ASSUME NEW g \in Providers PROVE HandleLives(g)' /\ CallsKept(g)'
    <3>1. HandleLives(g)'
      BY <1>1, <1>4 DEF HandleType, HandleLives, MountKeyless, handleVars
    <3> QED BY <1>4, <2>1, <3>1, QuietKeeps DEF MountKeyless, handleVars, callVars
  <2> QED BY <2>1, <2>2, <2>3 DEF HandleInv
<1>5. ASSUME NEW p \in Providers, Destroy(p) PROVE HandleInv'
  <2>1. HandleType'
    BY <1>1, <1>5 DEF HandleType, Destroy, Deactivated, callVars
  <2>2. ActiveIsAlive'
    BY <1>1, <1>5 DEF HandleType, ActiveIsAlive, Destroy, Deactivated
  <2>3. ASSUME NEW g \in Providers PROVE HandleLives(g)' /\ CallsKept(g)'
    <3>1. HandleLives(g)'
      BY <1>1, <1>5 DEF HandleType, HandleLives, Destroy
    <3>2. client'[g] = client[g] \/ client'[g] = "closed"
      BY <1>1, <1>5 DEF HandleType, Destroy
    <3> QED BY <1>5, <2>1, <3>1, <3>2, QuietKeeps DEF Destroy, callVars
  <2> QED BY <2>1, <2>2, <2>3 DEF HandleInv
<1>6. ASSUME NEW p \in Providers, Mount(p) PROVE HandleInv'
  <2>1. Replayed(p).user \in Persons /\ Replayed(p).items \in CaptureLists
    <3>1. buffered[p] \in Seq(HandleCalls) /\ Len(buffered[p]) \in 0 .. Len(buffered[p])
      BY <1>1 DEF HandleType
    <3> QED BY <3>1, ReplaySteps DEF Replayed, ClientStates
  <2>2. HandleType'
    BY <1>1, <1>6, <2>1 DEF HandleType, Mount, callVars
  <2>3. ActiveIsAlive'
    BY <1>1, <1>6 DEF HandleType, ActiveIsAlive, Mount
  <2>4. ASSUME NEW g \in Providers PROVE HandleLives(g)' /\ CallsKept(g)'
    <3>1. HandleLives(g)'
      BY <1>1, <1>6 DEF HandleType, HandleLives, Mount
    <3>2. CASE g = p
      BY <1>1, <1>6, <2>2, <3>1, <3>2, MountKeeps DEF HandleType, HandleLives, Mount
    <3>3. CASE g # p
      <4>1. MeansMore /\ UNCHANGED <<meant, current, overflown>>
        BY <1>6 DEF MeansMore, Mount, callVars
      <4>2. \A m : meant' # Append(meant, m)
        <5>1. \A m : Len(Append(meant, m)) = Len(meant) + 1 /\ Len(meant) \in Nat
          BY <1>1 DEF HandleType
        <5> QED BY <4>1, <5>1
      <4>3. client'[g] = client[g] /\ buffered'[g] = buffered[g] /\ recorded'[g] = recorded[g] /\ person'[g] = person[g]
        BY <1>1, <1>6, <3>3 DEF HandleType, Mount
      <4> QED BY <1>1, <2>2, <3>1, <4>1, <4>2, <4>3, HandleRests
    <3> QED BY <3>2, <3>3
  <2> QED BY <2>2, <2>3, <2>4 DEF HandleInv
<1>7. ASSUME NEW h \in Providers, NEW u \in Persons, Identify(h, u) PROVE HandleInv'
  <2>1. UserCall(u) \in HandleCalls
    BY DEF UserCall, HandleCalls
  <2>2. spans' \in Seq(Traces)
    BY <1>1, <1>7 DEF HandleType, Identify
  <2> QED BY <1>7, <2>1, <2>2, RunKeeps DEF Identify
<1>8. ASSUME NEW h \in Providers, CaptureBy(h) PROVE HandleInv'
  <2>1. CaptureCall(calls + 1) \in HandleCalls /\ current[h] \in Persons
    BY <1>1 DEF CaptureCall, HandleCalls, HandleType
  <2>2. spans' \in Seq(Traces)
    BY <1>1, <1>8 DEF HandleType, CaptureBy
  <2>3. (client[h] # "closed") \in BOOLEAN
    OBVIOUS
  <2> QED BY <1>8, <2>1, <2>2, <2>3, RunKeeps DEF CaptureBy
<1>9. ASSUME NEW h \in Providers, StartTrace(h) PROVE HandleInv'
  <2> DEFINE new == [handle |-> h, lazy |-> client[h] # "open", user |-> person[h], ended |-> FALSE]
  <2>1. new \in Traces
    BY <1>1 DEF HandleType, Traces
  <2>2. spans' = Append(spans, new)
    BY <1>9 DEF StartTrace
  <2> HIDE DEF new
  <2>3. spans' \in Seq(Traces)
    BY <1>1, <2>1, <2>2 DEF HandleType
  <2>4. HandleType' /\ ActiveIsAlive'
    BY <1>1, <1>9, <2>3 DEF HandleType, ActiveIsAlive, StartTrace, handleVars
  <2>5. ASSUME NEW g \in Providers PROVE HandleLives(g)' /\ CallsKept(g)'
    <3>1. HandleLives(g)'
      BY <1>1, <1>9 DEF HandleLives, StartTrace, handleVars
    <3> QED BY <1>9, <2>4, <3>1, QuietKeeps DEF StartTrace, handleVars
  <2> QED BY <2>4, <2>5 DEF HandleInv
<1>10. ASSUME NEW i \in 1 .. MaxTraces, EndTrace(i) PROVE HandleInv'
  <2> DEFINE h == spans[i].handle
             takes == ~ spans[i].ended /\ client[h] = "open"
  <2>1. i \in DOMAIN spans /\ h \in Providers /\ spans[i].user \in Persons
    <3>1. i \in DOMAIN spans /\ spans \in Seq(Traces)
      BY <1>1, <1>10 DEF HandleType, EndTrace
    <3>2. spans[i] \in Traces
      BY <3>1
    <3> QED BY <3>1, <3>2 DEF Traces
  <2>2. spans' \in Seq(Traces)
    <3>1. spans \in Seq(Traces)
      BY <1>1 DEF HandleType
    <3>2. PICK new : new = [spans[i] EXCEPT !.ended = TRUE]
      OBVIOUS
    <3>3. spans[i] \in Traces
      BY <2>1, <3>1
    <3>4. new \in Traces
      BY <3>2, <3>3 DEF Traces
    <3>5. [spans EXCEPT ![i] = new] \in Seq(Traces)
      BY <2>1, <3>1, <3>4
    <3>6. spans' = [spans EXCEPT ![i] = new]
      BY <1>10, <3>2 DEF EndTrace
    <3> QED BY <3>5, <3>6
  <2>3. UNCHANGED <<component, client, tells, active, current>>
    BY <1>10 DEF EndTrace
  <2>4. CASE spans[i].lazy
    <3>1. Called /\ Run(h, CaptureCall(calls + 1)) /\ Meant(h, current[h], client[h] # "closed")
      BY <1>10, <2>4 DEF EndTrace
    <3>2. CaptureCall(calls + 1) \in HandleCalls /\ current[h] \in Persons /\ (client[h] # "closed") \in BOOLEAN
      BY <1>1, <2>1 DEF CaptureCall, HandleCalls, HandleType
    <3> HIDE DEF h
    <3> QED BY <2>1, <2>2, <2>3, <3>1, <3>2, RunKeeps
  <2>5. CASE ~ spans[i].lazy
    <3> DEFINE m == [by |-> h, user |-> spans[i].user, due |-> takes]
    <3>1. EndOwn(i)
      BY <1>10, <2>5 DEF EndTrace
    <3>2. /\ calls' = calls + 1 /\ meant' = Append(meant, m) /\ UNCHANGED <<buffered, person, overflown>>
          /\ takes => recorded' = [recorded EXCEPT ![h] = Append(recorded[h], [id |-> calls + 1, user |-> spans[i].user])]
          /\ ~ takes => recorded' = recorded
      BY <3>1 DEF EndOwn, Called, Meant
    <3>3. m \in [by : Providers, user : Persons, due : BOOLEAN] /\ m.by = h /\ m.user = spans[i].user /\ m.due = takes
      BY <2>1
    <3>4. takes => client[h] = "open"
      OBVIOUS
    <3> HIDE DEF h, m, takes
    <3>5. Append(recorded[h], [id |-> calls + 1, user |-> spans[i].user]) \in CaptureLists
      <4>1. [id |-> calls + 1, user |-> spans[i].user] \in [id : Nat, user : Persons]
        BY <1>1, <2>1 DEF HandleType
      <4>2. recorded[h] \in Seq([id : Nat, user : Persons])
        BY <1>1, <2>1 DEF HandleType, CaptureLists
      <4> QED BY <4>1, <4>2 DEF CaptureLists
    <3>6. meant' \in Seq([by : Providers, user : Persons, due : BOOLEAN]) /\ calls' \in Nat /\ Len(meant') = calls'
      <4>1. meant \in Seq([by : Providers, user : Persons, due : BOOLEAN]) /\ calls \in Nat /\ Len(meant) = calls
        BY <1>1 DEF HandleType
      <4> QED BY <3>2, <3>3, <4>1
    <3>7. recorded' \in [Providers -> CaptureLists]
      BY <1>1, <2>1, <3>2, <3>5 DEF HandleType
    <3>8. HandleType' /\ ActiveIsAlive' /\ MeansMore
      BY <1>1, <2>2, <2>3, <3>2, <3>3, <3>6, <3>7 DEF HandleType, ActiveIsAlive, MeansMore
    <3>9. \A k : meant' = Append(meant, k) => k = m
      <4>1. meant'[calls + 1] = m
        BY <1>1, <3>2, <3>8, MeantStays
      <4> QED BY <1>1, <3>8, <4>1, MeantStays
    <3>10. ASSUME NEW g \in Providers PROVE HandleLives(g)' /\ CallsKept(g)'
      <4>1. client[g] # "open" \/ g # h => recorded'[g] = recorded[g]
        BY <1>1, <2>1, <3>2, <3>4 DEF HandleType
      <4>2. HandleLives(g)'
        BY <1>1, <2>3, <3>2, <4>1 DEF HandleLives
      <4>3. CASE g = h /\ takes
        <5>1. recorded'[g] = Append(recorded[g], [id |-> calls + 1, user |-> spans[i].user])
          BY <1>1, <2>1, <3>2, <4>3 DEF HandleType
        <5>2. client[g] = "open" /\ client'[g] = "open" /\ buffered'[g] = buffered[g] /\ person'[g] = person[g]
              /\ current'[g] = current[g] /\ overflown' = overflown
          BY <2>3, <3>2, <3>4, <4>3
        <5>3. CallsKept(g)'
          BY <1>1, <2>1, <3>2, <3>3, <3>8, <5>1, <5>2, CaptureKeeps
        <5> QED BY <4>2, <5>3
      <4>4. CASE ~ (g = h /\ takes)
        <5>1. recorded'[g] = recorded[g]
          BY <3>2, <4>1, <4>4
        <5>2. \A k : meant' = Append(meant, k) => ~ (k.by = g /\ k.due)
          BY <3>3, <3>9, <4>4
        <5> QED BY <1>1, <2>3, <3>2, <3>8, <4>2, <5>1, <5>2, HandleRests
      <4> QED BY <4>3, <4>4
    <3> QED BY <3>8, <3>10 DEF HandleInv
  <2> QED BY <2>4, <2>5
<1>11. CASE SvelteNext
  <2>1. ASSUME NEW h \in Reachable,
               CaptureBy(h) \/ StartTrace(h) \/ \E u \in People \cup {Nobody} : Identify(h, u)
        PROVE  HandleInv'
    BY <1>7, <1>8, <1>9, <2>1 DEF Reachable, Persons
  <2>2. CaptureActive => active \in Providers
    BY <1>1 DEF CaptureActive, HandleType
  <2>3. CASE CaptureActive
    BY <1>8, <2>2, <2>3 DEF CaptureActive
  <2> QED BY <1>3, <1>4, <1>5, <1>6, <1>10, <1>11, <2>1, <2>3 DEF SvelteNext
<1> QED BY <1>2, <1>11

\* The numbers of what a client captured.
LEMMA IdsOf ==
  ASSUME HandleType, NEW h \in Providers
  PROVE  /\ DOMAIN Ids(h) = DOMAIN recorded[h]
         /\ \A i \in DOMAIN recorded[h] : Ids(h)[i] = recorded[h][i].id
         /\ \A n : Contains(Ids(h), n) <=> \E i \in DOMAIN recorded[h] : recorded[h][i].id = n
<1>1. recorded[h] \in Seq([id : Nat, user : Persons])
  BY DEF HandleType, CaptureLists
<1>2. Len(Ids(h)) = Len(recorded[h]) /\ DOMAIN recorded[h] = 1 .. Len(recorded[h])
  BY <1>1 DEF Ids
<1>3. \A i \in DOMAIN recorded[h] : Ids(h)[i] = recorded[h][i].id
  BY DEF Ids
<1>4. DOMAIN Ids(h) = DOMAIN recorded[h]
  BY DEF Ids
<1> QED BY <1>2, <1>3, <1>4 DEF Contains

\* What a handle is asked before there is a client is captured by its client in the
\* order of the calls, each once, for the user that was set, unless the buffer was
\* full; actions reach no handle whose provider is gone.
THEOREM HandlesAlwaysKeep == SvelteSpec => []HandlesKeep
<1>1. HandleInv => HandlesKeep
  <2> SUFFICES ASSUME HandleInv PROVE HandlesKeep
    OBVIOUS
  <2>1. HandleType /\ ActiveIsAlive /\ \A h \in Providers : HandleLives(h) /\ CallsKept(h)
    BY DEF HandleInv
  <2>2. ASSUME NEW h \in Providers PROVE InOrder(h) /\ Buffered(h)
    <3>1. InOrder(h)
      BY <2>1, IdsOf DEF CallsKept, CallsOrdered, InOrder
    <3>2. Buffered(h)
      BY <2>1 DEF HandleLives, Buffered
    <3> QED BY <3>1, <3>2
  <2>3. ASSUME NEW h \in Providers, h \notin overflown PROVE Faithful(h) /\ Complete(h)
    <3>1. UsersKept(h) /\ NoneMissing(h) /\ DOMAIN meant = 1 .. calls
      BY <2>1, <2>3 DEF CallsKept, HandleType
    <3>2. Faithful(h)
      BY <2>1, <3>1, IdsOf DEF UsersKept, Faithful
    <3>3. Complete(h)
      BY <2>1, <3>1, IdsOf DEF NoneMissing, Complete
    <3> QED BY <3>2, <3>3
  <2>4. ListenersLive
    BY <2>1 DEF HandleLives, ListenersLive
  <2> QED BY <2>1, <2>2, <2>3, <2>4 DEF HandlesKeep
<1> QED BY <1>1, HandleInvInit, HandleInvStep, PTL DEF SvelteSpec

=============================================================================
