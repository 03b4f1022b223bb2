-------------------------- MODULE MCBrowserClient ---------------------------
(***************************************************************************)
(* Small instances of BrowserClient.                                       *)
(***************************************************************************)
EXTENDS BrowserClient, TLC

\* Tabs differ only by name.
Symmetry == Permutations(Tab)

=============================================================================
