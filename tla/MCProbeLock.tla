---------------------------- MODULE MCProbeLock ----------------------------
EXTENDS ProbeLock, TLC

CONSTANTS t1, t2, t3, t4, p1, p2, p3

\* Two tasks share p1; p2 and p3 run one each.
Procs == (t1 :> p1) @@ (t2 :> p1) @@ (t3 :> p2) @@ (t4 :> p3)
=============================================================================
