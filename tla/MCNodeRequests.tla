--------------------------- MODULE MCNodeRequests ---------------------------
(* NodeRequests for TLC: a request that comes through Express, and one that *)
(* comes through anything else; both may throw the shared error, the other  *)
(* also what is no object.                                                  *)
EXTENDS NodeRequests

CONSTANTS first, second

TwoRequests == {first, second}
AnyThrough  == [r \in TwoRequests |-> IF r = first THEN {"express"} ELSE Kinds \ {"express"}]
AnyThrown   == [r \in TwoRequests |-> IF r = first THEN {Shared} ELSE {Shared, Text(r)}]
=============================================================================
