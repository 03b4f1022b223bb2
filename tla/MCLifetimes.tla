---------------------------- MODULE MCLifetimes -----------------------------
(***************************************************************************)
(* Two small parts that share no state and decide how long clients live: a *)
(* Node process with its client (NodeProcess), and the clients that React  *)
(* providers share (ClientRegistry).  A behaviour is one of them.          *)
(***************************************************************************)
EXTENDS MCNodeProcess, MCClientRegistry

VARIABLE part

Process  == part = "process"
Registry == part = "registry"

LifetimesInit ==
  /\ part \in {"process", "registry"}
  /\ Init /\ (Registry => others = 0 /\ ~ handles /\ hooks = {})
  /\ RegistryInit

LifetimesNext ==
  /\ UNCHANGED part
  /\ \/ Process /\ Next /\ UNCHANGED reactVars
     \/ Registry /\ SharedNext /\ UNCHANGED vars

lifetimeVars == <<part, vars, reactVars>>

LifetimesSpec ==
  /\ LifetimesInit /\ [][LifetimesNext]_lifetimeVars
  /\ Process => LoopRuns
  /\ Registry => TimersFire

=============================================================================
