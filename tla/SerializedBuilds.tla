-------------------------- MODULE SerializedBuilds --------------------------
(***************************************************************************)
(* What the two build locks promise: each serializes the builds of its      *)
(* kind, as the abstract lock of Serializer does.  The file and the builds   *)
(* do not remember when the promise lapsed, so a history variable does; it   *)
(* takes no part in what the builders do.                                  *)
(***************************************************************************)
EXTENDS BuildArtifacts

VARIABLE lapsed   \* history: lapsed[k]: the promise for kind k no longer holds

historyVars == <<allVars, lapsed>>

OfKind(k) == {b \in Builder : KindOf[b] = k}

\* This step kills a process in a build of kind k; a build of kind k has
\* outlasted the stale age.
KilledInside(k) ==
  \E b \in Building : KindOf[b] = k /\ pc'[b] # "building" /\ crashes' # crashes

Overdue(k) == \E b \in Building : KindOf[b] = k /\ held'[b] > StaleAge

HistoryInit == Init /\ lapsed = [k \in Kind |-> FALSE]

HistoryNext ==
  /\ Next
  /\ lapsed' = [k \in Kind |-> lapsed[k] \/ KilledInside(k) \/ Overdue(k)]

HistorySpec == HistoryInit /\ [][HistoryNext]_historyVars

PhaseOf(b) ==
  IF pc[b] = "building" THEN "in" ELSE IF b \in Waiting THEN "waiting" ELSE "out"

\* The lock of kind k; a builder that timed out is outside again.
Serial(k) == INSTANCE Serializer
  WITH Worker <- OfKind(k), phase <- [b \in OfKind(k) |-> PhaseOf(b)],
       lapsed <- lapsed[k]
=============================================================================
