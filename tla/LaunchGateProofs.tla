-------------------------- MODULE LaunchGateProofs --------------------------
(***************************************************************************)
(* The export probe lock and the launch gate for all constants.  The gate    *)
(* takes no step of the probe lock that the lock does not allow, so what is  *)
(* proved of the lock holds of the gate as well: probes exclude each other   *)
(* until the aggressive reclaim or a kill, and the depth of a process counts *)
(* its probes.  Launches of a process exclude each other, and a launch keeps *)
(* its slot.                                                               *)
(***************************************************************************)
EXTENDS LaunchGate, FiniteSetTheorems, SequenceTheorems, TLAPS

LEMMA ProbeTyped ==
  ASSUME ProbeTypeOK, [ProbeNext]_probeVars
  PROVE  ProbeTypeOK'
<1> USE ProbeAssumption DEF ProbeTypeOK, Place, Enter, AddDepth, Proc
<1>1. CASE ProbeTick
  <2>1. lapsed' \in BOOLEAN
    BY <1>1, Zenon DEF ProbeTick
  <2> QED
    BY <1>1, <2>1 DEF ProbeTick
<1>2. ASSUME NEW t \in Task, AskProbe(t)
      PROVE  ProbeTypeOK'
  BY <1>2 DEF AskProbe
<1>3. ASSUME NEW t \in Task, ProbeAttempt(t)
      PROVE  ProbeTypeOK'
  <2>1. CASE OpenSucceeds(t)
    BY <2>1 DEF OpenSucceeds
  <2>2. CASE OpenFails(t)
    BY <2>2 DEF OpenFails
  <2>3. ASSUME CountPoll(t)
        PROVE  at' \in [Task -> Place] /\ polls' \in [Task -> 0..PollThreshold - 1]
    BY <2>3 DEF CountPoll
  <2>4. CASE StatStale(t)
    BY <2>3, <2>4 DEF StatStale
  <2>5. CASE UnlinkStale(t)
    BY <2>3, <2>5 DEF UnlinkStale
  <2>6. CASE StatAged(t)
    BY <2>6 DEF StatAged
  <2>7. CASE UnlinkAged(t)
    BY <2>7 DEF UnlinkAged
  <2> QED
    BY <1>3, <2>1, <2>2, <2>4, <2>5, <2>6, <2>7 DEF ProbeAttempt
<1>4. ASSUME NEW t \in Task, EndProbe(t)
      PROVE  ProbeTypeOK'
  BY <1>4 DEF EndProbe
<1>5. ASSUME NEW p \in Proc, KillProbes(p)
      PROVE  ProbeTypeOK'
  <2>1. lapsed' \in BOOLEAN
    BY <1>5, Zenon DEF KillProbes
  <2> QED
    BY <1>5, <2>1 DEF KillProbes
<1>6. CASE UNCHANGED probeVars
  BY <1>6 DEF probeVars
<1> QED
  BY <1>1, <1>2, <1>3, <1>4, <1>5, <1>6 DEF ProbeNext

LEMMA ProbeInitTyped ==
  ASSUME ProbeInit
  PROVE  ProbeTypeOK
<1>1. lapsed \in BOOLEAN
  BY DEF ProbeInit
<1> QED
  BY <1>1, ProbeAssumption DEF ProbeInit, ProbeTypeOK, Place

\* Every reachable state of the probe lock has the right shape.
THEOREM ProbeTypeCorrect == ProbeSpec => []ProbeTypeOK
<1>1. ProbeInit => ProbeTypeOK
  BY ProbeInitTyped
<1>2. ProbeTypeOK /\ [ProbeNext]_probeVars => ProbeTypeOK'
  BY ProbeTyped
<1> QED
  BY <1>1, <1>2, PTL DEF ProbeSpec

\* Until a holder is killed or outlasts the aggressive age, the file belongs to
\* the one probe that is locked, is not old, and nobody has found it old.
LockedInv ==
  ~lapsed =>
    /\ \A t \in Task : at[t] = "locked" => file = t
    /\ file # NoFile => at[file] = "locked" /\ age <= AggressiveAge
    /\ \A t \in Task : at[t] \notin {"unlink", "agedUnlink"}

LEMMA LockedInductive ==
  ASSUME ProbeTypeOK, LockedInv, [ProbeNext]_probeVars
  PROVE  LockedInv'
<1> USE ProbeAssumption DEF ProbeTypeOK, LockedInv, Enter, Proc
<1>1. CASE ProbeTick
  <2>1. ASSUME ~lapsed'
        PROVE  ~lapsed /\ \A t \in Inside : ~(file = t /\ age >= AggressiveAge)
    BY <1>1, <2>1, Zenon DEF ProbeTick
  <2> QED
    BY <1>1, <2>1 DEF ProbeTick, Inside
<1>2. ASSUME NEW t \in Task, AskProbe(t)
      PROVE  LockedInv'
  BY <1>2 DEF AskProbe
<1>3. ASSUME NEW t \in Task, ProbeAttempt(t)
      PROVE  LockedInv'
  <2>1. CASE OpenSucceeds(t)
    BY <2>1 DEF OpenSucceeds
  <2>2. CASE OpenFails(t)
    BY <2>2 DEF OpenFails
  <2>3. CASE StatStale(t)
    BY <2>3 DEF StatStale, CountPoll, OlderThan
  <2>4. CASE UnlinkStale(t)
    BY <2>4 DEF UnlinkStale
  <2>5. CASE StatAged(t)
    BY <2>5 DEF StatAged, OlderThan
  <2>6. CASE UnlinkAged(t)
    BY <2>6 DEF UnlinkAged
  <2> QED
    BY <1>3, <2>1, <2>2, <2>3, <2>4, <2>5, <2>6 DEF ProbeAttempt
<1>4. ASSUME NEW t \in Task, EndProbe(t)
      PROVE  LockedInv'
  BY <1>4 DEF EndProbe
<1>5. ASSUME NEW p \in Proc, KillProbes(p)
      PROVE  LockedInv'
  <2>1. ASSUME ~lapsed'
        PROVE  ~lapsed /\ \A t \in Task : ~(ProcOf[t] = p /\ at[t] = "locked")
    BY <1>5, <2>1, Zenon DEF KillProbes
  <2> QED
    BY <1>5, <2>1 DEF KillProbes
<1>6. CASE UNCHANGED probeVars
  BY <1>6 DEF probeVars
<1> QED
  BY <1>1, <1>2, <1>3, <1>4, <1>5, <1>6 DEF ProbeNext

\* Locked probes exclude each other until a holder is killed or keeps the lock
\* longer than the aggressive age.
THEOREM LockedExclude == ProbeSpec => []ProbesExclusive
<1>1. ProbeInit => LockedInv
  BY DEF ProbeInit, LockedInv
<1>2. ProbeTypeOK /\ LockedInv /\ [ProbeNext]_probeVars => LockedInv'
  BY LockedInductive
<1>3. LockedInv => ProbesExclusive
  BY DEF LockedInv, ProbesExclusive
<1> QED
  BY <1>1, <1>2, <1>3, ProbeTypeCorrect, PTL DEF ProbeSpec

-----------------------------------------------------------------------------

\* The creator of the lock file is still locked, or was killed.
OwnerInv == file # NoFile => at[file] \in {"locked", "dead"}

LEMMA OwnerKept ==
  ASSUME ProbeTypeOK, OwnerInv, [ProbeNext]_probeVars
  PROVE  OwnerInv'
<1> USE ProbeAssumption DEF ProbeTypeOK, OwnerInv, Enter
<1>1. CASE ProbeTick
  BY <1>1 DEF ProbeTick
<1>2. ASSUME NEW t \in Task, AskProbe(t) \/ ProbeAttempt(t)
      PROVE  OwnerInv'
  BY <1>2 DEF AskProbe, ProbeAttempt, OpenSucceeds, OpenFails, StatStale, CountPoll, UnlinkStale,
     StatAged, UnlinkAged
<1>3. ASSUME NEW t \in Task, EndProbe(t)
      PROVE  OwnerInv'
  BY <1>3 DEF EndProbe
<1>4. ASSUME NEW p \in Proc, KillProbes(p)
      PROVE  OwnerInv'
  BY <1>4 DEF KillProbes
<1>5. CASE UNCHANGED probeVars
  BY <1>5 DEF probeVars
<1> QED
  BY <1>1, <1>2, <1>3, <1>4, <1>5 DEF ProbeNext

LEMMA ProbeSerialStep ==
  ASSUME ProbeTypeOK, LockedInv, OwnerInv, [ProbeNext]_probeVars
  PROVE  [Abstract!Next]_(Abstract!vars)
<1> DEFINE phase == [t \in Task |-> PhaseOf(t)]
<1>1. CASE ProbeTick
  <2>1. phase' = phase
    BY <1>1 DEF ProbeTick, PhaseOf
  <2>2. CASE lapsed' = lapsed
    BY <2>1, <2>2 DEF Abstract!vars
  <2>3. CASE lapsed' # lapsed
    <3>1. PICK t \in Inside : file = t /\ lapsed' = TRUE
      BY <1>1, <2>3 DEF ProbeTick, ProbeTypeOK
    <3>2. t \in Task /\ phase[t] = "in"
      BY <3>1, ProbeAssumption DEF Inside, OwnerInv, PhaseOf
    <3> QED
      BY <2>1, <3>1, <3>2 DEF Abstract!Next, Abstract!Outstay
  <2> QED
    BY <2>2, <2>3
<1>2. ASSUME NEW t \in Task, AskProbe(t) \/ ProbeAttempt(t) \/ EndProbe(t)
      PROVE  [Abstract!Next]_(Abstract!vars)
  <2> DEFINE into(p) == phase' = [phase EXCEPT ![t] = p]
  <2>a. phase[t] = PhaseOf(t) /\ lapsed' = lapsed
    BY <1>2 DEF AskProbe, ProbeAttempt, EndProbe, OpenSucceeds, OpenFails, StatStale, UnlinkStale,
       StatAged, UnlinkAged
  <2>b. ASSUME NEW p, Enter(t, p)
        PROVE  into(PhaseOf(t)') /\ at'[t] = p
    <3>1. \A u \in Task : u # t => PhaseOf(u)' = PhaseOf(u)
      BY <2>b DEF Enter, PhaseOf, ProbeTypeOK
    <3> QED
      BY <2>b, <3>1 DEF Enter, ProbeTypeOK
  <2>c. phase = [phase EXCEPT ![t] = phase[t]]
    OBVIOUS
  <2> HIDE DEF phase
  <2>1. CASE AskProbe(t)
    <3>1. PhaseOf(t) = "out" /\ (into("waiting") \/ into("out"))
      BY <2>1, <2>b DEF AskProbe, PhaseOf, MidAttempt
    <3>2. CASE into("waiting")
      BY <2>a, <3>1, <3>2 DEF phase, Abstract!Next, Abstract!Ask, Abstract!Become
    <3>3. CASE into("out")
      BY <2>a, <2>c, <3>1, <3>3 DEF phase, Abstract!vars
    <3> QED
      BY <3>1, <3>2, <3>3
  <2>2. CASE OpenSucceeds(t)
    <3>1. PhaseOf(t) = "waiting" /\ into("in")
      BY <2>2, <2>b DEF OpenSucceeds, PhaseOf, MidAttempt
    <3>2. lapsed \/ \A u \in Task : phase[u] # "in"
      BY <2>2, ProbeAssumption DEF OpenSucceeds, LockedInv, phase, PhaseOf
    <3> QED
      BY <2>a, <3>1, <3>2 DEF phase, Abstract!Next, Abstract!Enter, Abstract!Become
  <2>3. CASE OpenFails(t) \/ StatStale(t) \/ UnlinkStale(t) \/ StatAged(t) \/ UnlinkAged(t)
    <3>1. PhaseOf(t) = "waiting" /\ into("waiting")
      BY <2>3, <2>b DEF OpenFails, StatStale, CountPoll, UnlinkStale, StatAged, UnlinkAged, PhaseOf,
         MidAttempt
    <3> QED
      BY <2>a, <2>c, <3>1 DEF phase, Abstract!vars
  <2>4. CASE EndProbe(t)
    <3>1. into("out")
      BY <2>4, <2>b DEF EndProbe, PhaseOf, MidAttempt
    <3>2. CASE at[t] = "locked"
      BY <2>a, <3>1, <3>2 DEF PhaseOf, phase, Abstract!Next, Abstract!Leave, Abstract!Become
    <3>3. CASE at[t] = "unlocked"
      BY <2>a, <2>c, <3>1, <3>3 DEF PhaseOf, MidAttempt, phase, Abstract!vars
    <3> QED
      BY <2>4, <3>2, <3>3 DEF EndProbe
  <2> QED
    BY <1>2, <2>1, <2>2, <2>3, <2>4 DEF ProbeAttempt
<1>3. ASSUME NEW p \in Proc, KillProbes(p)
      PROVE  [Abstract!Next]_(Abstract!vars)
  <2> DEFINE W == {t \in Task : ProcOf[t] = p /\ phase[t] # "out"}
  <2>1. W \in SUBSET Task /\ \A t \in W : phase[t] # "out"
    OBVIOUS
  <2>2. \A t \in Task : PhaseOf(t)' = IF t \in W THEN "out" ELSE PhaseOf(t)
    BY <1>3 DEF KillProbes, PhaseOf, MidAttempt
  <2>3. phase' = [t \in Task |-> IF t \in W THEN "out" ELSE phase[t]]
    BY <2>2
  <2>4. (\E t \in Task : ProcOf[t] = p /\ at[t] = "locked") <=> \E t \in W : phase[t] = "in"
    BY DEF PhaseOf
  <2>5. lapsed' = (lapsed \/ \E t \in W : phase[t] = "in")
    <3>1. lapsed' = (lapsed \/ \E t \in Task : ProcOf[t] = p /\ at[t] = "locked")
      BY <1>3 DEF KillProbes
    <3> HIDE DEF W
    <3> QED
      BY <2>4, <3>1
  <2> HIDE DEF W
  <2> QED
    BY <2>1, <2>3, <2>5 DEF Abstract!Next, Abstract!Perish
<1>4. CASE UNCHANGED probeVars
  BY <1>4 DEF probeVars, PhaseOf, Abstract!vars
<1> QED
  BY <1>1, <1>2, <1>3, <1>4 DEF ProbeNext

\* The probe lock implements the abstract serializer: reclaiming, at either age, and
\* a kill of all tasks of a process break its promise in no other way than a holder
\* that dies inside or stays too long, and probes that bypass it take no part.
THEOREM ProbeLockSerializes == ProbeSpec => Serializes
<1>1. ProbeInit => LockedInv /\ OwnerInv /\ Abstract!Init
  BY DEF ProbeInit, LockedInv, OwnerInv, Abstract!Init, PhaseOf, MidAttempt
<1>2. ProbeTypeOK /\ LockedInv /\ OwnerInv /\ [ProbeNext]_probeVars => (LockedInv /\ OwnerInv)'
  BY LockedInductive, OwnerKept
<1>3. ProbeTypeOK /\ LockedInv /\ OwnerInv /\ [ProbeNext]_probeVars
        => [Abstract!Next]_(Abstract!vars)
  BY ProbeSerialStep
<1> QED
  BY <1>1, <1>2, <1>3, ProbeTypeCorrect, PTL DEF ProbeSpec, Serializes, Abstract!Spec

-----------------------------------------------------------------------------

ProbesIn(p) == {t \in Inside : ProcOf[t] = p}

\* The depth of a process is the number of its tasks that are inside a probe.
DepthInv == \A p \in Proc : depth[p] = Cardinality(ProbesIn(p))

LEMMA ProbesFinite ==
  ASSUME NEW p
  PROVE  IsFiniteSet(ProbesIn(p))
BY FS_Subset, ProbeAssumption DEF ProbesIn, Inside

\* A task enters a probe, and the depth of its process grows by one.
LEMMA Deeper ==
  ASSUME ProbeTypeOK, DepthInv, NEW t \in Task, NEW place \in {"locked", "unlocked"},
         t \notin Inside, Enter(t, place), AddDepth(t, 1)
  PROVE  DepthInv'
<1> SUFFICES ASSUME NEW p \in Proc
             PROVE  depth'[p] = Cardinality(ProbesIn(p)')
  BY DEF DepthInv
<1>1. Inside' = Inside \cup {t}
  BY DEF Inside, Enter, ProbeTypeOK
<1>2. CASE ProcOf[t] = p
  <2>1. ProbesIn(p)' = ProbesIn(p) \cup {t} /\ t \notin ProbesIn(p)
    BY <1>1, <1>2 DEF ProbesIn
  <2>2. Cardinality(ProbesIn(p)') = Cardinality(ProbesIn(p)) + 1
    BY <2>1, ProbesFinite, FS_AddElement
  <2> QED
    BY <1>2, <2>2 DEF AddDepth, DepthInv, ProbeTypeOK
<1>3. CASE ProcOf[t] # p
  <2>1. ProbesIn(p)' = ProbesIn(p)
    BY <1>1, <1>3 DEF ProbesIn
  <2> QED
    BY <1>3, <2>1 DEF AddDepth, DepthInv, ProbeTypeOK
<1> QED
  BY <1>2, <1>3

\* A task leaves its probe, and the depth of its process shrinks by one.
LEMMA Shallower ==
  ASSUME ProbeTypeOK, DepthInv, NEW t \in Task, t \in Inside, Enter(t, "over"),
         AddDepth(t, -1)
  PROVE  DepthInv'
<1> SUFFICES ASSUME NEW p \in Proc
             PROVE  depth'[p] = Cardinality(ProbesIn(p)')
  BY DEF DepthInv
<1>1. Inside' = Inside \ {t}
  BY DEF Inside, Enter, ProbeTypeOK
<1>2. CASE ProcOf[t] = p
  <2>1. ProbesIn(p)' = ProbesIn(p) \ {t} /\ t \in ProbesIn(p)
    BY <1>1, <1>2 DEF ProbesIn
  <2>2. Cardinality(ProbesIn(p)') = Cardinality(ProbesIn(p)) - 1
    BY <2>1, ProbesFinite, FS_RemoveElement
  <2> QED
    BY <1>2, <2>2 DEF AddDepth, DepthInv, ProbeTypeOK
<1>3. CASE ProcOf[t] # p
  <2>1. ProbesIn(p)' = ProbesIn(p)
    BY <1>1, <1>3 DEF ProbesIn
  <2> QED
    BY <1>3, <2>1 DEF AddDepth, DepthInv, ProbeTypeOK
<1> QED
  BY <1>2, <1>3

LEMMA DepthInductive ==
  ASSUME ProbeTypeOK, DepthInv, [ProbeNext]_probeVars
  PROVE  DepthInv'
<1> USE ProbeAssumption DEF ProbeTypeOK
<1>1. ASSUME UNCHANGED <<Inside, depth>>
      PROVE  DepthInv'
  <2>1. \A p : ProbesIn(p)' = ProbesIn(p)
    BY <1>1 DEF ProbesIn
  <2> QED
    BY <1>1, <2>1 DEF DepthInv
<1>2. CASE ProbeTick
  BY <1>1, <1>2 DEF ProbeTick, Inside
<1>3. ASSUME NEW t \in Task, AskProbe(t)
      PROVE  DepthInv'
  <2>1. t \notin Inside
    BY <1>3 DEF AskProbe, Inside
  <2>2. CASE ProcOf[t] \in Unserialized
    BY <1>3, <2>1, <2>2, Deeper DEF AskProbe
  <2>3. CASE ProcOf[t] \notin Unserialized
    BY <1>1, <1>3, <2>3 DEF AskProbe, Enter, Inside
  <2> QED
    BY <2>2, <2>3
<1>4. ASSUME NEW t \in Task, ProbeAttempt(t)
      PROVE  DepthInv'
  <2>1. CASE OpenSucceeds(t)
    BY <2>1, Deeper DEF OpenSucceeds, Inside
  <2>2. CASE ~OpenSucceeds(t)
    BY <1>1, <1>4, <2>2 DEF ProbeAttempt, OpenFails, StatStale, UnlinkStale, StatAged,
       UnlinkAged, CountPoll, Enter, Inside
  <2> QED
    BY <2>1, <2>2
<1>5. ASSUME NEW t \in Task, EndProbe(t)
      PROVE  DepthInv'
  BY <1>5, Shallower DEF EndProbe, Inside
<1>6. ASSUME NEW p \in Proc, KillProbes(p)
      PROVE  DepthInv'
  <2> SUFFICES ASSUME NEW q \in Proc
               PROVE  depth'[q] = Cardinality(ProbesIn(q)')
    BY DEF DepthInv
  <2>1. CASE q = p
    <3>1. ProbesIn(q)' = {}
      BY <1>6, <2>1 DEF KillProbes, ProbesIn, Inside
    <3> QED
      BY <1>6, <2>1, <3>1, FS_EmptySet DEF KillProbes
  <2>2. CASE q # p
    <3>1. ProbesIn(q)' = ProbesIn(q)
      BY <1>6, <2>2 DEF KillProbes, ProbesIn, Inside
    <3> QED
      BY <1>6, <2>2, <3>1 DEF KillProbes, DepthInv
  <2> QED
    BY <2>1, <2>2
<1>7. CASE UNCHANGED probeVars
  BY <1>1, <1>7 DEF probeVars, Inside
<1> QED
  BY <1>2, <1>3, <1>4, <1>5, <1>6, <1>7 DEF ProbeNext

\* A process that is inside no probe has depth 0, and one that is has not.
THEOREM DepthIsExact == ProbeSpec => []DepthCounts
<1>1. ProbeInit => DepthInv
  <2> SUFFICES ASSUME ProbeInit, NEW p \in Proc
               PROVE  depth[p] = Cardinality(ProbesIn(p))
    BY DEF DepthInv
  <2>1. ProbesIn(p) = {}
    BY DEF ProbeInit, ProbesIn, Inside
  <2> QED
    BY <2>1, FS_EmptySet DEF ProbeInit
<1>2. ProbeTypeOK /\ DepthInv /\ [ProbeNext]_probeVars => DepthInv'
  BY DepthInductive
<1>3. DepthInv => DepthCounts
  <2> SUFFICES ASSUME DepthInv, NEW p \in Proc
               PROVE  (depth[p] > 0) <=> (\E t \in Inside : ProcOf[t] = p)
    BY DEF DepthCounts
  <2>1. Cardinality(ProbesIn(p)) \in Nat /\ (Cardinality(ProbesIn(p)) = 0 <=> ProbesIn(p) = {})
    BY ProbesFinite, FS_EmptySet, FS_CardinalityType
  <2>2. ProbesIn(p) # {} <=> \E t \in Inside : ProcOf[t] = p
    BY DEF ProbesIn
  <2> QED
    BY <2>1, <2>2 DEF DepthInv
<1> QED
  BY <1>1, <1>2, <1>3, ProbeTypeCorrect, PTL DEF ProbeSpec

-----------------------------------------------------------------------------

LEMMA GateStep ==
  ASSUME [Next]_allVars
  PROVE  [ProbeNext]_probeVars
BY DEF Next, allVars, Tick, Probe, Launch, Kill, ProbeNext, Begin, Queue, SlotAttempt,
   PassGate, StatSlot, UnlinkSlot, OpenSlot, SlotThrows, Wake, LaunchSucceeds, LaunchFails

\* The launch gate uses the probe lock as it is: it implements its specification.
THEOREM GateImplementsLock == Spec => ProbeSpec
<1>1. Init => ProbeInit
  BY DEF Init
<1>2. [Next]_allVars => [ProbeNext]_probeVars
  BY GateStep
<1> QED
  BY <1>1, <1>2, PTL DEF Spec, ProbeSpec

Links == Task \X (1..MaxAttempts)

\* Stages of a task that has passed the gate of its process.
Past == {"slotStat", "slotUnlink", "slotOpen", "sleep", "launching"}

Queued(t, q) == \E i \in 1..Len(q) : q[i] = Link(t)
First(t, q) == Len(q) > 0 /\ q[1] = Link(t)

\* An attempt is left to who asks for one.  Who has queued has a link in the gate
\* of its process, and who has passed has the first.
GateInv ==
  /\ \A t \in Task : on[t] = "idle" => attempt[t] = 0
  /\ \A t \in Task : on[t] = "ask" => attempt[t] < MaxAttempts
  /\ \A t \in Task : on[t] = "queued" => Queued(t, gate[ProcOf[t]])
  /\ \A t \in Task : on[t] \in Past => First(t, gate[ProcOf[t]])

\* One task of a process at a time is past the gate.
LEMMA PastAlone ==
  ASSUME GateInv, NEW t \in Task, NEW u \in Task, on[t] \in Past, on[u] \in Past,
         ProcOf[t] = ProcOf[u]
  PROVE  t = u
BY DEF GateInv, First, Link

GateTyping == gate \in [Proc -> Seq(Links)]

\* What joining the gate of a process and settling its first link do to it.
Joins(t, p) ==
  /\ p \in Proc /\ GateTyping'
  /\ \A q \in Proc : q # p => gate'[q] = gate[q]
  /\ Len(gate'[p]) = Len(gate[p]) + 1 /\ Len(gate[p]) \in Nat
  /\ \A i \in 1..Len(gate[p]) : gate'[p][i] = gate[p][i]
  /\ gate'[p][Len(gate[p]) + 1] = Link(t)'

Leaves(p) ==
  /\ p \in Proc /\ GateTyping'
  /\ \A q \in Proc : q # p => gate'[q] = gate[q]
  /\ Len(gate[p]) = Len(gate'[p]) + 1 /\ Len(gate'[p]) \in Nat
  /\ \A i \in 1..Len(gate'[p]) : gate'[p][i] = gate[p][i + 1]

LEMMA GateJoined ==
  ASSUME LaunchTypeOK, GateInv, NEW t \in Task, Queue(t)
  PROVE  Joins(t, ProcOf[t])
<1> DEFINE p == ProcOf[t]
<1>1. p \in Proc /\ gate[p] \in Seq(Links)
  BY DEF Proc, LaunchTypeOK, Links
<1>2. Link(t)' \in Links
  BY LaunchAssumption DEF Link, Links, Queue, GateInv, LaunchTypeOK
<1>3. gate' = [gate EXCEPT ![p] = Append(gate[p], Link(t)')]
  BY DEF Queue
<1>4. Append(gate[p], Link(t)') \in Seq(Links)
  BY <1>1, <1>2, AppendProperties
<1>5. gate'[p] = Append(gate[p], Link(t)')
  BY <1>1, <1>3 DEF LaunchTypeOK
<1> HIDE DEF p
<1>6. gate' \in [Proc -> Seq(Links)] /\ \A q \in Proc : q # p => gate'[q] = gate[q]
  BY <1>1, <1>3, <1>4 DEF LaunchTypeOK, Links
<1> QED
  BY <1>1, <1>2, <1>5, <1>6, AppendProperties, LenProperties DEF p, Joins, GateTyping

LEMMA GateSettled ==
  ASSUME LaunchTypeOK, GateInv, NEW t \in Task, on[t] = "launching", Finally(t)
  PROVE  Leaves(ProcOf[t])
<1> DEFINE p == ProcOf[t]
<1>1. p \in Proc /\ gate[p] \in Seq(Links) /\ gate[p] # <<>>
  <2>1. p \in Proc /\ gate[p] \in Seq(Links) /\ Len(gate[p]) > 0
    BY DEF Proc, LaunchTypeOK, Links, GateInv, Past, First
  <2> QED
    BY <2>1, EmptySeq
<1>2. gate' = [gate EXCEPT ![p] = Tail(gate[p])]
  BY DEF Finally
<1>3. gate'[p] = Tail(gate[p])
  BY <1>1, <1>2 DEF LaunchTypeOK
<1> HIDE DEF p
<1>4. Tail(gate[p]) \in Seq(Links)
  BY <1>1, HeadTailProperties
<1>5. gate' \in [Proc -> Seq(Links)] /\ \A q \in Proc : q # p => gate'[q] = gate[q]
  BY <1>1, <1>2, <1>4 DEF LaunchTypeOK, Links
<1> QED
  BY <1>1, <1>3, <1>4, <1>5, HeadTailProperties, LenProperties DEF p, Leaves, GateTyping

LEMMA GateTyped ==
  ASSUME LaunchTypeOK, GateInv, [Next]_allVars
  PROVE  LaunchTypeOK'
<1>a. \A t \in Task : Queue(t) => Joins(t, ProcOf[t])
  BY GateJoined
<1>b. \A t \in Task : on[t] = "launching" /\ Finally(t) => Leaves(ProcOf[t])
  BY GateSettled
<1>c. \A q \in Proc : Len(gate[q]) \in Nat
  BY LenProperties DEF LaunchTypeOK
<1>d. \A q \in Proc : \A i \in 1..Len(gate[q]) : ProcOf[gate[q][i][1]] = q
  BY DEF LaunchTypeOK
<1> USE LaunchAssumption, ProbeAssumption DEF LaunchTypeOK, Stage, Reach, launchVars
<1>1. CASE Tick
  BY <1>1 DEF Tick, Launching
<1>2. ASSUME NEW t \in Task, Probe(t)
      PROVE  LaunchTypeOK'
  BY <1>2 DEF Probe
<1>3. ASSUME NEW t \in Task, Launch(t)
      PROVE  LaunchTypeOK'
  <2>1. CASE Begin(t)
    BY <2>1 DEF Begin
  <2>2. CASE Queue(t)
    <3>1. attempt' \in [Task -> 0..MaxAttempts] /\ on' \in [Task -> Stage]
      BY <2>2 DEF Queue, GateInv
    <3>2. Joins(t, ProcOf[t])
      BY <1>a, <2>2
    <3>3. \A p \in Proc : \A i \in 1..Len(gate'[p]) : ProcOf[gate'[p][i][1]] = p
      <4> SUFFICES ASSUME NEW p \in Proc, NEW i \in 1..Len(gate'[p])
                   PROVE  ProcOf[gate'[p][i][1]] = p
        OBVIOUS
      <4>1. CASE p # ProcOf[t]
        <5>1. gate'[p] = gate[p]
          BY <3>2, <4>1, Zenon DEF Joins
        <5> QED
          BY <1>d, <5>1, Zenon
      <4>2. CASE p = ProcOf[t] /\ i \in 1..Len(gate[p])
        <5>1. gate'[p][i] = gate[p][i]
          BY <3>2, <4>2 DEF Joins
        <5>2. ProcOf[gate[p][i][1]] = p
          BY <1>d, <4>2, Zenon
        <5> QED
          BY <5>1, <5>2, Zenon
      <4>3. CASE p = ProcOf[t] /\ i = Len(gate[p]) + 1
        BY SMTT(30), <3>2, <4>3 DEF Joins, Link
      <4> QED
        BY <1>c, <3>2, <4>1, <4>2, <4>3 DEF Joins
    <3> QED
      BY <2>2, <3>1, <3>2, <3>3 DEF Queue, Links, Joins, GateTyping
  <2>3. CASE PassGate(t)
    BY <2>3 DEF PassGate
  <2>4. CASE StatSlot(t)
    BY <2>4 DEF StatSlot
  <2>5. CASE UnlinkSlot(t)
    BY <2>5 DEF UnlinkSlot
  <2>6. CASE OpenSlot(t)
    <3>1. slot' \in Task \cup {NoSlot} /\ slotAge' \in 0..SlotStaleAge + 1
          /\ slotted' \subseteq Task /\ on' \in [Task -> Stage]
      BY <2>6 DEF OpenSlot
    <3> QED
      BY <2>6, <3>1 DEF OpenSlot
  <2>7. CASE SlotThrows(t)
    <3>1. on' \in [Task -> Stage] /\ shut' \subseteq Proc
      BY <2>7 DEF SlotThrows, RetryOrFail, Proc
    <3> QED
      BY <2>7, <3>1 DEF SlotThrows
  <2>8. CASE Wake(t)
    BY <2>8 DEF Wake
  <2>9. ASSUME on[t] = "launching", Finally(t)
        PROVE  /\ gate' \in [Proc -> Seq(Links)]
               /\ \A p \in Proc : \A i \in 1..Len(gate'[p]) : ProcOf[gate'[p][i][1]] = p
               /\ slot' \in Task \cup {NoSlot} /\ slotted' \subseteq Task
               /\ ran' \in [Task -> 0..LaunchBound]
    <3>0. Leaves(ProcOf[t])
      BY <1>b, <2>9
    <3>1. ASSUME NEW p \in Proc, NEW i \in 1..Len(gate'[p])
          PROVE  ProcOf[gate'[p][i][1]] = p
      <4>1. CASE p # ProcOf[t]
        BY ZenonT(60), <3>0, <4>1 DEF Leaves
      <4>2. CASE p = ProcOf[t]
        <5>1. gate'[p][i] = gate[p][i + 1] /\ i + 1 \in 1..Len(gate[p])
          BY <3>0, <4>2 DEF Leaves
        <5> QED
          BY <5>1
      <4> QED
        BY <4>1, <4>2
    <3>2. slot' \in Task \cup {NoSlot} /\ slotted' \subseteq Task
          /\ ran' \in [Task -> 0..LaunchBound]
      BY <2>9 DEF Finally
    <3> QED
      BY <3>0, <3>1, <3>2 DEF Leaves, GateTyping
  <2>10. CASE LaunchSucceeds(t)
    BY <2>9, <2>10 DEF LaunchSucceeds, Links
  <2>11. CASE LaunchFails(t)
    <3>1. on' \in [Task -> Stage]
      BY <2>11 DEF LaunchFails, RetryOrFail
    <3> QED
      BY <2>9, <2>11, <3>1 DEF LaunchFails, Links
  <2> QED
    BY <1>3, <2>1, <2>2, <2>3, <2>4, <2>5, <2>6, <2>7, <2>8, <2>10, <2>11
    DEF Launch, SlotAttempt
<1>4. ASSUME NEW p \in Proc, Kill(p)
      PROVE  LaunchTypeOK'
  <2>1. <<>> \in Seq(Links) /\ Len(<<>>) = 0
    BY EmptySeq
  <2>2. gate' = [gate EXCEPT ![p] = <<>>]
    BY <1>4 DEF Kill
  <2>3. gate' \in [Proc -> Seq(Links)]
    BY <2>1, <2>2 DEF Links
  <2>4. \A q \in Proc : \A i \in 1..Len(gate'[q]) : ProcOf[gate'[q][i][1]] = q
    BY SMTT(30), <2>1, <2>2
  <2>5. on' \in [Task -> Stage] /\ ran' \in [Task -> 0..LaunchBound] /\ slotted' \subseteq Task
    BY <1>4 DEF Kill
  <2> QED
    BY <1>4, <2>3, <2>4, <2>5 DEF Kill, Links
<1>5. CASE UNCHANGED allVars
  BY <1>5 DEF allVars
<1> QED
  BY <1>1, <1>2, <1>3, <1>4, <1>5 DEF Next

\* A task that neither queues nor settles goes to a stage it is ready for.
LEMMA Moved ==
  ASSUME LaunchTypeOK, GateInv, NEW t \in Task, NEW stage \in Stage \ {"idle", "queued"},
         Reach(t, stage), UNCHANGED <<attempt, gate>>,
         stage = "ask" => attempt[t] < MaxAttempts,
         stage \in Past => First(t, gate[ProcOf[t]])
  PROVE  GateInv'
<1>1. \A u \in Task : on'[u] = (IF u = t THEN stage ELSE on[u]) /\ Link(u)' = Link(u)
  BY DEF LaunchTypeOK, Reach, Link
<1>2. ASSUME NEW u \in Task
      PROVE  /\ on'[u] = "idle" => attempt'[u] = 0
             /\ on'[u] = "ask" => attempt'[u] < MaxAttempts
             /\ on'[u] = "queued" => Queued(u, gate[ProcOf[u]])'
             /\ on'[u] \in Past => First(u, gate[ProcOf[u]])'
  <2>0. /\ Queued(u, gate[ProcOf[u]])' <=> Queued(u, gate[ProcOf[u]])
        /\ First(u, gate[ProcOf[u]])' <=> First(u, gate[ProcOf[u]])
    BY <1>1 DEF Queued, First
  <2>1. CASE u = t
    BY <1>1, <2>0, <2>1
  <2>2. CASE u # t
    <3>1. on'[u] = on[u] /\ attempt'[u] = attempt[u]
      BY <1>1, <2>2
    <3>2. /\ on[u] = "idle" => attempt[u] = 0
          /\ on[u] = "ask" => attempt[u] < MaxAttempts
          /\ on[u] = "queued" => Queued(u, gate[ProcOf[u]])
          /\ on[u] \in Past => First(u, gate[ProcOf[u]])
      BY DEF GateInv
    <3> QED
      BY <2>0, <3>1, <3>2, Zenon
  <2> QED
    BY <2>1, <2>2
<1> QED
  BY <1>2 DEF GateInv, Past

LEMMA GateInductive ==
  ASSUME LaunchTypeOK, GateInv, [Next]_allVars
  PROVE  GateInv'
<1> USE LaunchAssumption
<1>1. ASSUME UNCHANGED <<on, attempt, gate>>
      PROVE  GateInv'
  BY <1>1 DEF GateInv, First, Queued, Link
<1>2. ASSUME NEW t \in Task, Queue(t)
      PROVE  GateInv'
  <2>1. attempt' = [attempt EXCEPT ![t] = @ + 1] /\ on' = [on EXCEPT ![t] = "queued"]
    BY <1>2 DEF Queue, Reach
  <2>2. \A u \in Task \ {t} : on'[u] = on[u] /\ attempt'[u] = attempt[u] /\ Link(u)' = Link(u)
    BY <2>1 DEF LaunchTypeOK, Link
  <2>0. Joins(t, ProcOf[t])
    BY <1>2, GateJoined
  <2>3. on'[t] = "queued" /\ Queued(t, gate[ProcOf[t]])'
    BY <2>0, <2>1 DEF LaunchTypeOK, Queued, Joins
  <2>4. ASSUME NEW u \in Task \ {t}
        PROVE  /\ Queued(u, gate[ProcOf[u]]) => Queued(u, gate[ProcOf[u]])'
               /\ First(u, gate[ProcOf[u]]) => First(u, gate[ProcOf[u]])'
    <3>1. ProcOf[u] \in Proc
      BY DEF Proc
    <3> QED
      BY SMTT(30), <2>0, <2>2, <3>1 DEF Queued, First, Joins
  <2> QED
    BY <2>2, <2>3, <2>4 DEF GateInv, Past
<1>3. ASSUME NEW t \in Task, on[t] = "launching", Finally(t), UNCHANGED attempt,
             NEW stage \in {"ask", "up", "failed"}, Reach(t, stage),
             stage = "ask" => attempt[t] < MaxAttempts
      PROVE  GateInv'
  <2>1. \A u \in Task : Link(u)' = Link(u) /\ on'[u] = IF u = t THEN stage ELSE on[u]
    BY <1>3 DEF LaunchTypeOK, Link, Reach
  <2>0. Leaves(ProcOf[t]) /\ \A u \in Task : ProcOf[u] \in Proc
    BY <1>3, GateSettled DEF Proc
  <2>2. ASSUME NEW u \in Task \ {t}, on[u] = "queued"
        PROVE  Queued(u, gate[ProcOf[u]])'
    <3>1. PICK i \in 1..Len(gate[ProcOf[u]]) : gate[ProcOf[u]][i] = Link(u)
      BY <2>2 DEF GateInv, Queued
    <3>2. CASE ProcOf[u] = ProcOf[t]
      <4>1. i # 1
        BY <1>3, <3>1, <3>2 DEF GateInv, First, Past, Link
      <4>2. i - 1 \in 1..Len(gate'[ProcOf[u]]) /\ gate'[ProcOf[u]][i - 1] = Link(u)
        BY SMTT(30), <2>0, <3>1, <3>2, <4>1 DEF Leaves
      <4> QED
        BY <2>1, <4>2 DEF Queued
    <3>3. CASE ProcOf[u] # ProcOf[t]
      BY <2>0, <2>1, <3>1, <3>3 DEF Queued, Leaves
    <3> QED
      BY <3>2, <3>3
  <2>3. ASSUME NEW u \in Task \ {t}, on[u] \in Past
        PROVE  First(u, gate[ProcOf[u]])'
    <3>1. ProcOf[u] # ProcOf[t]
      BY <1>3, <2>3, PastAlone DEF Past
    <3> QED
      BY <2>0, <2>1, <2>3, <3>1 DEF GateInv, First, Leaves
  <2> QED
    BY <1>3, <2>1, <2>2, <2>3 DEF GateInv, Past
<1>4. ASSUME NEW t \in Task, Launch(t)
      PROVE  GateInv'
  <2> USE DEF Stage, Past
  <2>1. CASE Begin(t)
    BY <2>1, Moved DEF Begin, GateInv
  <2>2. CASE PassGate(t)
    <3>1. First(t, gate[ProcOf[t]])
      <4>1. gate[ProcOf[t]] \in Seq(Links) /\ Len(gate[ProcOf[t]]) > 0
        <5>1. gate[ProcOf[t]] \in Seq(Links)
          BY DEF LaunchTypeOK, Proc, Links
        <5>2. \E i \in 1..Len(gate[ProcOf[t]]) : TRUE
          BY <2>2 DEF PassGate, GateInv, Queued
        <5> QED
          BY <5>1, <5>2, LenProperties
      <4> QED
        BY <2>2, <4>1 DEF PassGate, First
    <3> QED
      BY <2>2, <3>1, Moved DEF PassGate
  <2>3. CASE StatSlot(t)
    BY <2>3, Moved DEF StatSlot, GateInv
  <2>4. CASE UnlinkSlot(t)
    BY <2>4, Moved DEF UnlinkSlot, GateInv
  <2>5. CASE OpenSlot(t)
    BY <2>5, Moved DEF OpenSlot, GateInv
  <2>6. CASE SlotThrows(t)
    BY <2>6, Moved DEF SlotThrows, RetryOrFail, GateInv
  <2>7. CASE Wake(t)
    BY <2>7, Moved DEF Wake, GateInv
  <2>8. CASE LaunchSucceeds(t)
    BY <1>3, <2>8 DEF LaunchSucceeds
  <2>9. CASE LaunchFails(t)
    BY <1>3, <2>9 DEF LaunchFails, RetryOrFail
  <2> QED
    BY <1>2, <1>4, <2>1, <2>2, <2>3, <2>4, <2>5, <2>6, <2>7, <2>8, <2>9
    DEF Launch, SlotAttempt
<1>5. ASSUME NEW p \in Proc, Kill(p)
      PROVE  GateInv'
  <2>1. \A t \in Task : on'[t] = IF ProcOf[t] = p THEN "dead" ELSE on[t]
    BY <1>5 DEF Kill
  <2>2. \A t \in Task : ProcOf[t] # p => gate'[ProcOf[t]] = gate[ProcOf[t]]
    BY <1>5 DEF Kill, LaunchTypeOK, Proc
  <2>3. UNCHANGED attempt /\ \A t \in Task : Link(t)' = Link(t)
    BY <1>5 DEF Kill, Link
  <2> QED
    BY <2>1, <2>2, <2>3 DEF GateInv, Queued, First, Past
<1> QED
  BY <1>1, <1>4, <1>5 DEF Next, Tick, Probe, launchVars, allVars

LEMMA GateHolds == Spec => [](TypeOK /\ GateInv)
<1>1. Init => TypeOK /\ GateInv
  <2> SUFFICES ASSUME Init
               PROVE  TypeOK /\ GateInv
    OBVIOUS
  <2>1. ProbeTypeOK
    BY ProbeInitTyped DEF Init
  <2>2. \A p \in Proc : gate[p] = <<>> /\ gate[p] \in Seq(Links) /\ Len(gate[p]) = 0
    BY EmptySeq DEF Init
  <2>3. gate \in [Proc -> Seq(Links)]
    BY <2>2 DEF Init
  <2>4. LaunchTypeOK
    BY <2>2, <2>3, LaunchAssumption DEF Init, LaunchTypeOK, Links, Stage
  <2>5. GateInv
    BY LaunchAssumption DEF Init, GateInv, Past
  <2> QED
    BY <2>1, <2>4, <2>5 DEF TypeOK
<1>2. TypeOK /\ GateInv /\ [Next]_allVars => (TypeOK /\ GateInv)'
  BY ProbeTyped, GateStep, GateTyped, GateInductive DEF TypeOK
<1> QED
  BY <1>1, <1>2, PTL DEF Spec

\* Every reachable state of the gate has the right shape; a link is in the gate of
\* the process whose task it is.
THEOREM TypeCorrect == Spec => []TypeOK
BY GateHolds, PTL

\* Launches of a process are serialized, errors and retries included.
THEOREM LaunchesExclude == Spec => []OnePerProcess
<1>1. TypeOK /\ GateInv => OnePerProcess
  BY PastAlone DEF OnePerProcess, Launching, Past
<1> QED
  BY <1>1, GateHolds, PTL

-----------------------------------------------------------------------------

\* Until a process is killed, the slot file is the one of a launch that runs, and
\* as old as that launch: nobody has found it stale.
SlotInv ==
  (\A t \in Task : on[t] # "dead") =>
    /\ \A t \in slotted : on[t] = "launching" /\ slot = t /\ slotAge = ran[t]
    /\ slot # NoSlot => slot \in slotted
    /\ \A t \in Task : on[t] # "slotUnlink" /\ (on[t] # "launching" => ran[t] = 0)

LEMMA SlotInductive ==
  ASSUME LaunchTypeOK, SlotInv, [Next]_allVars
  PROVE  SlotInv'
<1> USE LaunchAssumption DEF LaunchTypeOK, SlotInv, Reach, launchVars
<1>1. CASE Tick
  BY <1>1 DEF Tick, Launching
<1>2. ASSUME NEW t \in Task, Probe(t)
      PROVE  SlotInv'
  BY <1>2 DEF Probe
<1>3. ASSUME NEW t \in Task, Launch(t)
      PROVE  SlotInv'
  <2>1. CASE Begin(t)
    BY <2>1 DEF Begin
  <2>2. CASE Queue(t)
    BY <2>2 DEF Queue
  <2>3. CASE PassGate(t)
    BY <2>3 DEF PassGate
  <2>4. CASE StatSlot(t)
    BY <2>4 DEF StatSlot, SlotStale
  <2>5. CASE UnlinkSlot(t)
    BY <2>5 DEF UnlinkSlot
  <2>6. CASE OpenSlot(t)
    BY <2>6 DEF OpenSlot
  <2>7. CASE SlotThrows(t)
    BY <2>7 DEF SlotThrows, RetryOrFail
  <2>8. CASE Wake(t)
    BY <2>8 DEF Wake
  <2>9. CASE LaunchSucceeds(t)
    BY <2>9 DEF LaunchSucceeds, Finally
  <2>10. CASE LaunchFails(t)
    BY <2>10 DEF LaunchFails, RetryOrFail, Finally
  <2> QED
    BY <1>3, <2>1, <2>2, <2>3, <2>4, <2>5, <2>6, <2>7, <2>8, <2>9, <2>10
    DEF Launch, SlotAttempt
<1>4. ASSUME NEW p \in Proc, Kill(p)
      PROVE  SlotInv'
  BY <1>4 DEF Kill, KillProbes
<1>5. CASE UNCHANGED allVars
  BY <1>5 DEF allVars
<1> QED
  BY <1>1, <1>2, <1>3, <1>4, <1>5 DEF Next

\* A slot file belongs to the launch that will remove it, until a process is killed.
THEOREM SlotsHeld == Spec => []SlotHeld
<1>1. Init => SlotInv
  BY DEF Init, SlotInv
<1>2. TypeOK /\ SlotInv /\ [Next]_allVars => SlotInv'
  BY SlotInductive DEF TypeOK
<1>3. SlotInv => SlotHeld
  BY DEF SlotInv, SlotHeld
<1> QED
  BY <1>1, <1>2, <1>3, TypeCorrect, PTL DEF Spec
=============================================================================
