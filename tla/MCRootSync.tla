----------------------------- MODULE MCRootSync -----------------------------
(* Two lanes: a is set up twice, from nothing or over what a killed setup    *)
(* has left, and b once, from the branch the remote already has.  Two merges *)
(* let the remote move between the fetches of two setups, and main go back.  *)
(* An agent works in a.                                                     *)
EXTENDS RootSync, TLC

CONSTANTS a, b

MCMaxRuns == a :> 2 @@ b :> 1
=============================================================================
