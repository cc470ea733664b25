------------------------- MODULE MCListenPortLock -------------------------
(* The run checks a liveness property: the workers are not symmetric.      *)
EXTENDS ListenPortLock
=============================================================================
