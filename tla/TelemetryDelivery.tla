------------------------- MODULE TelemetryDelivery -------------------------
(***************************************************************************)
(* What an SDK promises for every item the application captures, whatever  *)
(* the queue does in between (spec/README.md, sections 4, 7 and 8): the    *)
(* item waits until it settles, and it settles once, in one of three ways. *)
(* The server accepts the request it is in, or it is given up and counted, *)
(* or the caller takes it over during a page unload.                       *)
(***************************************************************************)
CONSTANT Item

VARIABLES captured, waiting, accepted, lost, handed

vars == <<captured, waiting, accepted, lost, handed>>

Init ==
  /\ captured \subseteq Item
  /\ waiting = captured
  /\ accepted = {} /\ lost = {} /\ handed = {}

\* A new item arrives; a full queue gives up some of what it holds, which may
\* be the new item itself.
Capture ==
  \E item \in Item \ captured : \E shed \in SUBSET (waiting \cup {item}) :
    /\ captured' = captured \cup {item}
    /\ waiting' = (waiting \cup {item}) \ shed
    /\ lost' = lost \cup shed
    /\ UNCHANGED <<accepted, handed>>

\* A batch settles.
Accept ==
  \E batch \in SUBSET waiting :
    /\ waiting' = waiting \ batch
    /\ accepted' = accepted \cup batch
    /\ UNCHANGED <<captured, lost, handed>>

GiveUp ==
  \E batch \in SUBSET waiting :
    /\ waiting' = waiting \ batch
    /\ lost' = lost \cup batch
    /\ UNCHANGED <<captured, accepted, handed>>

HandOver ==
  \E batch \in SUBSET waiting :
    /\ waiting' = waiting \ batch
    /\ handed' = handed \cup batch
    /\ UNCHANGED <<captured, accepted, lost>>

Next == Capture \/ Accept \/ GiveUp \/ HandOver

Spec == Init /\ [][Next]_vars

\* Nothing is forgotten and nothing settles twice.
SettlesOnce ==
  /\ captured = waiting \cup accepted \cup lost \cup handed
  /\ waiting \cap (accepted \cup lost \cup handed) = {}
  /\ accepted \cap (lost \cup handed) = {}
  /\ lost \cap handed = {}

=============================================================================
