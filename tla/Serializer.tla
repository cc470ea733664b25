---------------------------- MODULE Serializer ----------------------------
(***************************************************************************)
(* What a cross-process lock file without an owner can promise: a worker   *)
(* that asks to run an operation waits, runs it while no other worker runs *)
(* one, and leaves.  The promise lapses when a worker dies inside or stays *)
(* there so long that it can only be presumed dead.                        *)
(***************************************************************************)
CONSTANT Worker

VARIABLES
  phase,    \* phase[w]: what worker w is doing
  lapsed    \* the promise no longer holds

vars == <<phase, lapsed>>

Phase == {"out", "waiting", "in"}

TypeOK == phase \in [Worker -> Phase] /\ lapsed \in BOOLEAN

Init ==
  /\ phase = [w \in Worker |-> "out"]
  /\ lapsed = FALSE

Become(w, p) == phase' = [phase EXCEPT ![w] = p]

Ask(w) ==
  /\ phase[w] = "out"
  /\ Become(w, "waiting")
  /\ UNCHANGED lapsed

Enter(w) ==
  /\ phase[w] = "waiting"
  /\ lapsed \/ \A v \in Worker : phase[v] # "in"
  /\ Become(w, "in")
  /\ UNCHANGED lapsed

Leave(w) ==
  /\ phase[w] = "in"
  /\ Become(w, "out")
  /\ UNCHANGED lapsed

\* A death outside is harmless, a death inside is not.
Die(w) ==
  /\ phase[w] # "out"
  /\ Become(w, "out")
  /\ lapsed' = (lapsed \/ phase[w] = "in")

\* Workers that live in one process die together.
Perish(W) ==
  /\ \A w \in W : phase[w] # "out"
  /\ phase' = [w \in Worker |-> IF w \in W THEN "out" ELSE phase[w]]
  /\ lapsed' = (lapsed \/ \E w \in W : phase[w] = "in")

Outstay ==
  /\ \E w \in Worker : phase[w] = "in"
  /\ lapsed' = TRUE
  /\ UNCHANGED phase

Next ==
  \/ Outstay
  \/ \E W \in SUBSET Worker : Perish(W)
  \/ \E w \in Worker : Ask(w) \/ Enter(w) \/ Leave(w) \/ Die(w)

Spec == Init /\ [][Next]_vars

-----------------------------------------------------------------------------

\* As long as the promise holds, one worker at a time is inside.
Exclusive ==
  ~lapsed => \A v, w \in Worker : phase[v] = "in" /\ phase[w] = "in" => v = w
=============================================================================
