-------------------------- MODULE MCDeliveryQueue --------------------------
(***************************************************************************)
(* Small instances of DeliveryQueue: the values of its constants, and the  *)
(* parts of Next each kind of client uses.                                 *)
(***************************************************************************)
EXTENDS DeliveryQueue

\* A snapshot with one pending item and one chunk that was sent once.
MCStored ==
  [pending |-> {[id |-> 0, kind |-> "events"]},
   retry   |-> {[items |-> {[id |-> -1, kind |-> "errors"]},
                 attempts |-> 1, wait |-> 0, stamp |-> 1]}]

\* A client that goes offline and restores what it stored (React Native).
OfflineNext == Deliver \/ FlushCalls \/ Offline \/ Restore
OfflineSpec == Init /\ [][OfflineNext]_vars

\* Every send is answered (the transports time out), time passes, timers
\* fire, the event loop runs what is ready, and the network comes back, for
\* long enough that the periodic flush sometimes finds it.
Progress ==
  /\ WF_vars(SendAccepted \/ SendRejected \/ SendFailed)
  /\ WF_vars(DrainContinues)
  /\ WF_vars(Tick)
  /\ WF_vars(RetryTimerFires)
  /\ WF_vars(Start /\ ~ stopped)
  /\ SF_vars(IntervalFires /\ ~ paused)
  /\ WF_vars(Resume /\ paused)
  /\ WF_vars(ShutdownChecks)
  /\ WF_vars(ShutdownWakes)

\* A client that ends, in the end.
EndSpec == EndSafely /\ Progress

=============================================================================
