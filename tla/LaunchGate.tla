----------------------------- MODULE LaunchGate -----------------------------
(***************************************************************************)
(* src/lib/verify/launch-playwright-browser.ts under CI.  A launch queues   *)
(* on the gate of its process (a chain of promises: each launch waits for   *)
(* the one queued before it), then takes a launch slot, a lock file shared  *)
(* by all processes, unless some task of the process is inside a probe.    *)
(* A failed launch is retried a bounded number of times.                   *)
(*                                                                         *)
(* The slot is taken before the try block whose finally opens the gate for *)
(* the next launch, so an error while taking it leaves the gate shut.      *)
(***************************************************************************)
EXTENDS ProbeLock, Sequences

CONSTANTS
  MaxAttempts,    \* CI_PLAYWRIGHT_LAUNCH_ATTEMPTS
  NoSlot,         \* the slot path does not exist
  SlotStaleAge,   \* STALE_LAUNCH_SLOT_MAX_AGE_MS, in ticks
  LaunchBound,    \* CI_PLAYWRIGHT_LAUNCH_TIMEOUT_MS, in ticks
  SlotErrors      \* the slot's open may fail otherwise than with EEXIST

ASSUME LaunchAssumption ==
  /\ MaxAttempts \in Nat \ {0}
  /\ NoSlot \notin Task
  /\ SlotStaleAge \in Nat /\ LaunchBound \in Nat
  /\ LaunchBound <= SlotStaleAge       \* two minutes and five
  /\ SlotErrors \in BOOLEAN

VARIABLES
  on,        \* on[t]: where task t is in launchPlaywrightBrowser
  attempt,   \* attempt[t]: launches t has tried
  gate,      \* gate[p]: links of inProcessLaunchGate to settle, oldest first
  slot,      \* creator of the slot file, or NoSlot
  slotAge,   \* time since its mtime, saturating past SlotStaleAge
  slotted,   \* tasks that hold a release function for the slot
  ran,       \* ran[t]: how long t's launch has been running
  shut       \* history: processes in which taking a slot threw

launchVars == <<on, attempt, gate, slot, slotAge, slotted, ran, shut>>
allVars == <<probeVars, launchVars>>

Stage == {"idle", "ask", "queued", "slotStat", "slotUnlink", "slotOpen",
          "sleep", "launching", "up", "failed", "dead"}

\* The link of the attempt that t is at: each is a promise of its own.
Link(t) == <<t, attempt[t]>>

LaunchTypeOK ==
  /\ on \in [Task -> Stage]
  /\ attempt \in [Task -> 0..MaxAttempts]
  /\ gate \in [Proc -> Seq(Task \X (1..MaxAttempts))]
  /\ \A p \in Proc : \A i \in 1..Len(gate[p]) : ProcOf[gate[p][i][1]] = p
  /\ slot \in Task \cup {NoSlot}
  /\ slotAge \in 0..SlotStaleAge + 1
  /\ slotted \subseteq Task
  /\ ran \in [Task -> 0..LaunchBound]
  /\ shut \subseteq Proc

TypeOK == ProbeTypeOK /\ LaunchTypeOK

Init ==
  /\ ProbeInit
  /\ on = [t \in Task |-> "idle"]
  /\ attempt = [t \in Task |-> 0]
  /\ gate = [p \in Proc |-> <<>>]
  /\ slot = NoSlot
  /\ slotAge = 0
  /\ slotted = {}
  /\ ran = [t \in Task |-> 0]
  /\ shut = {}

Reach(t, stage) == on' = [on EXCEPT ![t] = stage]

\* The slot's stat, unlink and open run without yielding as well.
LoopFree(t) ==
  /\ Runs(t)
  /\ \A u \in Task \ {t} :
       ProcOf[u] = ProcOf[t] => on[u] \notin {"slotUnlink", "slotOpen"}

\* A probe task launches inside its probe, another task whenever it likes.
Begin(t) ==
  /\ on[t] = "idle"
  /\ LoopFree(t)
  /\ IF t \in Probes THEN t \in Inside ELSE at[t] = "out"
  /\ Reach(t, "ask")
  /\ UNCHANGED <<probeVars, attempt, gate, slot, slotAge, slotted, ran, shut>>

\* Mutant: the attempt is queued on every gate.
QueueUncounted(t) ==
  /\ on[t] = "ask"
  /\ LoopFree(t)
  /\ attempt' = [attempt EXCEPT ![t] = @ + 1]
  /\ gate' = [p \in Proc |-> Append(gate[p], Link(t)')]
  /\ Reach(t, "queued")
  /\ UNCHANGED <<probeVars, slot, slotAge, slotted, ran, shut>>

\* One more attempt: it becomes the gate the next launch will wait for.
Queue(t) ==
  /\ on[t] = "ask"
  /\ LoopFree(t)
  /\ attempt' = [attempt EXCEPT ![t] = @ + 1]
  /\ gate' = [gate EXCEPT ![ProcOf[t]] = Append(@, Link(t)')]
  /\ Reach(t, "queued")
  /\ UNCHANGED <<probeVars, slot, slotAge, slotted, ran, shut>>

\* Mutant: the link awaited is not the previous one but none at all.
PassGateUnordered(t) ==
  /\ on[t] = "queued"
  /\ LoopFree(t)
  /\ Reach(t, IF depth[ProcOf[t]] = 0 THEN "slotStat" ELSE "launching")
  /\ UNCHANGED <<probeVars, attempt, gate, slot, slotAge, slotted, ran, shut>>

\* The previous attempt has settled its link; whether a slot is needed is decided
\* from the probes the process is running now.
PassGate(t) ==
  /\ on[t] = "queued"
  /\ LoopFree(t)
  /\ Head(gate[ProcOf[t]]) = Link(t)
  /\ Reach(t, IF depth[ProcOf[t]] = 0 THEN "slotStat" ELSE "launching")
  /\ UNCHANGED <<probeVars, attempt, gate, slot, slotAge, slotted, ran, shut>>

\* Mutant: slots are never stale.
SlotStaleNever == slot # NoSlot /\ slotAge > SlotStaleAge + 1

SlotStale == slot # NoSlot /\ slotAge > SlotStaleAge

StatSlot(t) ==
  /\ on[t] = "slotStat"
  /\ LoopFree(t)
  /\ Reach(t, IF SlotStale THEN "slotUnlink" ELSE "slotOpen")
  /\ UNCHANGED <<probeVars, attempt, gate, slot, slotAge, slotted, ran, shut>>

UnlinkSlot(t) ==
  /\ on[t] = "slotUnlink"
  /\ slot' = NoSlot
  /\ Reach(t, "slotOpen")
  /\ UNCHANGED <<probeVars, attempt, gate, slotAge, slotted, ran, shut>>

\* Mutant: the slot is taken without O_EXCL.
OpenSlotShared(t) ==
  /\ on[t] = "slotOpen"
  /\ slot' = t /\ slotAge' = 0
  /\ slotted' = slotted \cup {t}
  /\ Reach(t, "launching")
  /\ UNCHANGED <<probeVars, attempt, gate, ran, shut>>

OpenSlot(t) ==
  /\ on[t] = "slotOpen"
  /\ IF slot = NoSlot
     THEN /\ slot' = t /\ slotAge' = 0
          /\ slotted' = slotted \cup {t}
          /\ Reach(t, "launching")
     ELSE /\ Reach(t, "sleep")
          /\ UNCHANGED <<slot, slotAge, slotted>>
  /\ UNCHANGED <<probeVars, attempt, gate, ran, shut>>

Wake(t) ==
  /\ on[t] = "sleep"
  /\ LoopFree(t)
  /\ Reach(t, "slotStat")
  /\ UNCHANGED <<probeVars, attempt, gate, slot, slotAge, slotted, ran, shut>>

\* launchChromiumWithCiRetries after a failed attempt.
RetryOrFail(t, retryable) ==
  Reach(t, IF retryable /\ attempt[t] < MaxAttempts THEN "ask" ELSE "failed")

\* mkdir, stat, unlink or open throws before the try block: the gate stays
\* shut.  ENOENT is one of the retryable codes, other codes are not.
SlotThrows(t) ==
  /\ SlotErrors
  /\ on[t] = "slotOpen"
  /\ \E retryable \in BOOLEAN : RetryOrFail(t, retryable)
  /\ shut' = shut \cup {ProcOf[t]}
  /\ UNCHANGED <<probeVars, attempt, gate, slot, slotAge, slotted, ran>>

\* The finally block: unlink the slot path if a slot was taken, settle the link,
\* the first of the gate.
Finally(t) ==
  /\ slot' = IF t \in slotted THEN NoSlot ELSE slot
  /\ slotted' = slotted \ {t}
  /\ gate' = [gate EXCEPT ![ProcOf[t]] = Tail(@)]
  /\ ran' = [ran EXCEPT ![t] = 0]

LaunchSucceeds(t) ==
  /\ on[t] = "launching"
  /\ LoopFree(t)
  /\ Finally(t)
  /\ Reach(t, "up")
  /\ UNCHANGED <<probeVars, attempt, slotAge, shut>>

LaunchFails(t) ==
  /\ on[t] = "launching"
  /\ LoopFree(t)
  /\ Finally(t)
  /\ \E retryable \in BOOLEAN : RetryOrFail(t, retryable)
  /\ UNCHANGED <<probeVars, attempt, slotAge, shut>>

-----------------------------------------------------------------------------

\* A probe that launches ends only after its launch has settled.
Probe(t) ==
  /\ \/ AskProbe(t) \/ ProbeAttempt(t)
     \/ EndProbe(t) /\ on[t] \in {"up", "failed"}
  /\ UNCHANGED launchVars

Launching == {t \in Task : on[t] = "launching"}

\* Launches are bounded by their timeout; probes are not bounded here, since
\* one of them may wait for a launch of its process that waits for a slot.
Tick ==
  /\ ProbeTick
  /\ \A t \in Launching : ran[t] < LaunchBound
  /\ slotAge' = IF slotAge > SlotStaleAge THEN slotAge ELSE slotAge + 1
  /\ ran' = [t \in Task |-> IF t \in Launching THEN ran[t] + 1 ELSE ran[t]]
  /\ UNCHANGED <<on, attempt, gate, slot, slotted, shut>>

Kill(p) ==
  /\ KillProbes(p)
  /\ on' = [t \in Task |-> IF ProcOf[t] = p THEN "dead" ELSE on[t]]
  /\ gate' = [gate EXCEPT ![p] = <<>>]
  /\ slotted' = {t \in slotted : ProcOf[t] # p}
  /\ ran' = [t \in Task |-> IF ProcOf[t] = p THEN 0 ELSE ran[t]]
  /\ UNCHANGED <<attempt, slot, slotAge, shut>>

SlotAttempt(t) ==
  \/ PassGate(t) \/ StatSlot(t) \/ UnlinkSlot(t)
  \/ OpenSlot(t) \/ SlotThrows(t) \/ Wake(t)

Launch(t) ==
  Begin(t) \/ Queue(t) \/ SlotAttempt(t) \/ LaunchSucceeds(t) \/ LaunchFails(t)

Next ==
  \/ Tick
  \/ \E t \in Task : Probe(t) \/ Launch(t)
  \/ \E p \in Proc : Kill(p)

Spec == Init /\ [][Next]_allVars

\* Timers fire and event loops are fair: the next step of a task, one sequence
\* of probe and launch steps, is not passed over for ever.
Fairness ==
  /\ WF_allVars(Tick)
  /\ \A t \in Task : SF_allVars(Probe(t) \/ Launch(t))

FairSpec == Spec /\ Fairness

-----------------------------------------------------------------------------

\* "Under CI, launches are serialized within a worker."
OnePerProcess ==
  \A t, u \in Launching : ProcOf[t] = ProcOf[u] => t = u

\* A slot file on disk belongs to the launch that will remove it, as long as no
\* process was killed: slotted launches never overlap, none is robbed.
SlotHeld ==
  (\A t \in Task : on[t] # "dead") => \A t \in slotted : slot = t

Settled(t) == on[t] \in {"up", "failed", "dead"}

\* A launch that is asked for comes up, fails or dies with its process, unless
\* taking a slot threw in its process: it never waits for ever on the gate or
\* for a slot.
LaunchSettles ==
  \A t \in Task : on[t] = "ask" ~> Settled(t) \/ ProcOf[t] \in shut

\* The same without the exception: launches are bounded "so parallel bun test
\* files do not stampede or fully queue browser startup".
NoLaunchQueuesForEver == \A t \in Task : on[t] = "ask" ~> Settled(t)
=============================================================================
