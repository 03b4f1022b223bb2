--------------------------- MODULE MCNodeProcess ----------------------------
(***************************************************************************)
(* Small instances of NodeProcess: no other listener for a signal, one, or *)
(* two.                                                                    *)
(***************************************************************************)
EXTENDS NodeProcess

ZeroOrTwo == {0, 2}
One       == {1}

=============================================================================
