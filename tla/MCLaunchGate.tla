---------------------------- MODULE MCLaunchGate ----------------------------
EXTENDS LaunchGate, TLC

CONSTANTS t1, t2, t3, p1, p2

\* Two tasks share p1; p2 runs one.
Procs == (t1 :> p1) @@ (t2 :> p1) @@ (t3 :> p2)
=============================================================================
