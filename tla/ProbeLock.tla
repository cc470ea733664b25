----------------------------- MODULE ProbeLock -----------------------------
(***************************************************************************)
(* src/lib/verify/export-integration-probe-lock.ts: the lock under which    *)
(* export probes run.  Several tasks of one worker process may ask for it:  *)
(* the open, stat and unlink of an attempt run without yielding, so tasks   *)
(* of the same process never interleave inside an attempt, tasks of other   *)
(* processes do.                                                            *)
(*                                                                         *)
(* Every PollThreshold-th poll of a waiter also reclaims with a much        *)
(* shorter age than the regular one.  A counter per process tells the      *)
(* browser launcher that some task of the process is inside a probe.       *)
(***************************************************************************)
EXTENDS Integers, FiniteSets

CONSTANTS
  Task,           \* asynchronous tasks
  ProcOf,         \* ProcOf[t]: the worker process task t runs in
  Probes,         \* tasks that call withExportIntegrationProbeLock
  Unserialized,   \* processes with VERIFY_COVERAGE_SUBPROCESS=1
  Killable,       \* processes the test runner may kill
  NoFile,
  StaleAge,       \* STALE_PROBE_LOCK_MAX_AGE_MS, in ticks
  AggressiveAge,  \* AGGRESSIVE_STALE_PROBE_LOCK_MAX_AGE_MS, in ticks
  PollThreshold   \* AGGRESSIVE_STALE_PROBE_LOCK_POLL_THRESHOLD

Proc == {ProcOf[t] : t \in Task}

ASSUME ProbeAssumption ==
  /\ IsFiniteSet(Task)
  /\ Probes \subseteq Task
  /\ Unserialized \subseteq Proc
  /\ Killable \subseteq Proc
  /\ NoFile \notin Task
  /\ StaleAge \in Nat /\ AggressiveAge \in Nat
  /\ AggressiveAge <= StaleAge
  /\ PollThreshold \in Nat \ {0}

VARIABLES
  at,      \* at[t]: where task t is in withExportIntegrationProbeLock
  file,    \* creator of the lock file, or NoFile
  age,     \* time since its mtime, saturating past StaleAge
  polls,   \* polls[t]: failed attempts, modulo PollThreshold
  depth,   \* depth[p]: exportIntegrationProbeLockDepth of process p
  lapsed   \* history: some holder was killed or outlasted AggressiveAge

probeVars == <<at, file, age, polls, depth, lapsed>>

Place == {"out", "poll", "stat", "unlink", "agedStat", "agedUnlink",
          "locked", "unlocked", "over", "dead"}

ProbeTypeOK ==
  /\ at \in [Task -> Place]
  /\ file \in Task \cup {NoFile}
  /\ age \in 0..StaleAge + 1
  /\ polls \in [Task -> 0..PollThreshold - 1]
  /\ depth \in [Proc -> Int]
  /\ lapsed \in BOOLEAN

ProbeInit ==
  /\ at = [t \in Task |-> "out"]
  /\ file = NoFile
  /\ age = 0
  /\ polls = [t \in Task |-> 0]
  /\ depth = [p \in Proc |-> 0]
  /\ lapsed = FALSE

MidAttempt == {"stat", "unlink", "agedStat", "agedUnlink"}

\* The event loop of t's process is free to run t.
Runs(t) ==
  \A u \in Task \ {t} : ProcOf[u] = ProcOf[t] => at[u] \notin MidAttempt

Enter(t, place) == at' = [at EXCEPT ![t] = place]

AddDepth(t, n) == depth' = [depth EXCEPT ![ProcOf[t]] = @ + n]

\* Under the coverage rerun the probe runs at once, only counted.
AskProbe(t) ==
  /\ t \in Probes
  /\ at[t] = "out"
  /\ Runs(t)
  /\ IF ProcOf[t] \in Unserialized
     THEN Enter(t, "unlocked") /\ AddDepth(t, 1)
     ELSE Enter(t, "poll") /\ UNCHANGED depth
  /\ UNCHANGED <<file, age, polls, lapsed>>

\* Mutant: an open without O_EXCL.
OpenSucceedsShared(t) ==
  /\ at[t] = "poll"
  /\ Runs(t)
  /\ file' = t
  /\ age' = 0
  /\ polls' = [polls EXCEPT ![t] = 0]
  /\ Enter(t, "locked")
  /\ AddDepth(t, 1)
  /\ UNCHANGED lapsed

OpenSucceeds(t) ==
  /\ at[t] = "poll"
  /\ Runs(t)
  /\ file = NoFile
  /\ file' = t
  /\ age' = 0
  /\ polls' = [polls EXCEPT ![t] = 0]
  /\ Enter(t, "locked")
  /\ AddDepth(t, 1)
  /\ UNCHANGED lapsed

OpenFails(t) ==
  /\ at[t] = "poll"
  /\ Runs(t)
  /\ file # NoFile
  /\ Enter(t, "stat")
  /\ UNCHANGED <<file, age, polls, depth, lapsed>>

\* Mutant: a reclaim one tick early.
OlderThanEarly(limit) == file # NoFile /\ age >= limit

\* Mutant: no file is ever old enough.
OlderThanNever(limit) == file # NoFile /\ age > limit /\ age > StaleAge + 1

OlderThan(limit) == file # NoFile /\ age > limit

\* The attempt ends: sleep, or reclaim aggressively first.
CountPoll(t) ==
  /\ polls' = [polls EXCEPT ![t] = (@ + 1) % PollThreshold]
  /\ Enter(t, IF polls[t] + 1 = PollThreshold THEN "agedStat" ELSE "poll")

StatStale(t) ==
  /\ at[t] = "stat"
  /\ IF OlderThan(StaleAge)
     THEN Enter(t, "unlink") /\ UNCHANGED polls
     ELSE CountPoll(t)
  /\ UNCHANGED <<file, age, depth, lapsed>>

UnlinkStale(t) ==
  /\ at[t] = "unlink"
  /\ file' = NoFile
  /\ CountPoll(t)
  /\ UNCHANGED <<age, depth, lapsed>>

StatAged(t) ==
  /\ at[t] = "agedStat"
  /\ Enter(t, IF OlderThan(AggressiveAge) THEN "agedUnlink" ELSE "poll")
  /\ UNCHANGED <<file, age, polls, depth, lapsed>>

UnlinkAged(t) ==
  /\ at[t] = "agedUnlink"
  /\ file' = NoFile
  /\ Enter(t, "poll")
  /\ UNCHANGED <<age, polls, depth, lapsed>>

\* Mutant: the count is left only by probes that took the lock.
EndProbeLeaky(t) ==
  /\ at[t] \in {"locked", "unlocked"}
  /\ Runs(t)
  /\ IF at[t] = "locked" THEN AddDepth(t, -1) ELSE UNCHANGED depth
  /\ file' = IF at[t] = "locked" THEN NoFile ELSE file
  /\ Enter(t, "over")
  /\ UNCHANGED <<age, polls, lapsed>>

\* The finally blocks: leave the count, then unlink the path if it was taken.
EndProbe(t) ==
  /\ at[t] \in {"locked", "unlocked"}
  /\ Runs(t)
  /\ AddDepth(t, -1)
  /\ file' = IF at[t] = "locked" THEN NoFile ELSE file
  /\ Enter(t, "over")
  /\ UNCHANGED <<age, polls, lapsed>>

\* All tasks of the process stop where they are; the file stays.
KillProbes(p) ==
  /\ p \in Killable
  /\ \E t \in Task : ProcOf[t] = p /\ at[t] # "dead"
  /\ at' = [t \in Task |-> IF ProcOf[t] = p THEN "dead" ELSE at[t]]
  /\ lapsed' = (lapsed \/ \E t \in Task : ProcOf[t] = p /\ at[t] = "locked")
  /\ depth' = [depth EXCEPT ![p] = 0]
  /\ UNCHANGED <<file, age, polls>>

Inside == {t \in Task : at[t] \in {"locked", "unlocked"}}

ProbeTick ==
  /\ age' = IF age > StaleAge THEN age ELSE age + 1
  /\ lapsed' = (lapsed \/ \E t \in Inside : file = t /\ age >= AggressiveAge)
  /\ UNCHANGED <<at, file, polls, depth>>

ProbeAttempt(t) ==
  \/ OpenSucceeds(t) \/ OpenFails(t)
  \/ StatStale(t) \/ UnlinkStale(t) \/ StatAged(t) \/ UnlinkAged(t)

ProbeNext ==
  \/ ProbeTick
  \/ \E t \in Task : AskProbe(t) \/ ProbeAttempt(t) \/ EndProbe(t)
  \/ \E p \in Proc : KillProbes(p)

ProbeSpec == ProbeInit /\ [][ProbeNext]_probeVars

(***************************************************************************)
(* An event loop runs every callback that is ready, a timer that fired or   *)
(* a probe that settled, even if other tasks of the process run first:      *)
(* hence strong fairness, over attempts that may fail as well as succeed.   *)
(***************************************************************************)
ProbeFairness ==
  /\ WF_probeVars(ProbeTick)
  /\ \A t \in Task :
       /\ SF_probeVars(ProbeAttempt(t))
       /\ SF_probeVars(EndProbe(t))

ProbeFairSpec == ProbeSpec /\ ProbeFairness

-----------------------------------------------------------------------------

\* Locked probes exclude each other, until a holder is killed or keeps the lock
\* longer than the aggressive stale age: the lock "serializes export Playwright
\* integration probes".
ProbesExclusive ==
  ~lapsed =>
    \A t, u \in Task : at[t] = "locked" /\ at[u] = "locked" => t = u

\* The depth of a process counts its tasks that are inside a probe, so the
\* launcher never takes a finished probe for a running one.
DepthCounts ==
  \A p \in Proc :
    (depth[p] > 0) <=> (\E t \in Inside : ProcOf[t] = p)

\* Every task that asks gets its probe done, unless its process is killed: a
\* lock "left behind by crashed workers" does not stall the queue.
ProbesEnd == \A t \in Probes : at[t] = "poll" ~> at[t] \in {"over", "dead"}

\* What the abstract lock sees of a task; a probe that runs at once takes no part.
PhaseOf(t) ==
  IF at[t] = "locked" THEN "in"
  ELSE IF at[t] \in {"poll"} \cup MidAttempt THEN "waiting" ELSE "out"

Abstract == INSTANCE Serializer
  WITH Worker <- Task, phase <- [t \in Task |-> PhaseOf(t)]

\* The probe lock serializes the tasks that do not bypass it, as the abstract lock
\* does: it "serializes export Playwright integration probes".
Serializes == Abstract!Spec
=============================================================================
