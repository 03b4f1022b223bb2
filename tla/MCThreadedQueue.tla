-------------------------- MODULE MCThreadedQueue --------------------------
(***************************************************************************)
(* Small instances of ThreadedQueue.                                       *)
(***************************************************************************)
EXTENDS ThreadedQueue

CONSTANT a

=============================================================================
