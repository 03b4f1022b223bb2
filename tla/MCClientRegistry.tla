-------------------------- MODULE MCClientRegistry --------------------------
(***************************************************************************)
(* ClientRegistry with three providers, two of which share a key.          *)
(***************************************************************************)
EXTENDS ClientRegistry

MCKeyOf == [p \in Providers |-> IF p = "footer" THEN "k2" ELSE "k1"]

=============================================================================
