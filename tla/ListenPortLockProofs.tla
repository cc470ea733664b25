----------------------- MODULE ListenPortLockProofs -----------------------
(***************************************************************************)
(* The listen-port lock for all constants: type correctness, mutual        *)
(* exclusion until a holder dies inside or outlasts the stale age, and the *)
(* implementation of the abstract serializer.                              *)
(***************************************************************************)
EXTENDS ListenPortLock, TLAPS

\* Every reachable state has the right shape, whatever the faults.
THEOREM TypeCorrect == Spec => []TypeOK
<1>1. Init => TypeOK
  <2>1. Init => lapsed \in BOOLEAN
    BY DEF Init
  <2> QED
    BY <2>1, ConstantsAssumption DEF Init, TypeOK, Location, Ages
<1>2. TypeOK /\ [Next]_vars => TypeOK'
  <2> SUFFICES ASSUME TypeOK, [Next]_vars
               PROVE  TypeOK'
    OBVIOUS
  <2> USE ConstantsAssumption DEF TypeOK, Location, Ages
  <2>1. CASE Tick
    BY <2>1 DEF Tick
  <2>2. ASSUME NEW w \in Worker, Step(w)
        PROVE  TypeOK'
    <3>1. CASE Request(w)
      BY <3>1 DEF Request, Goto
    <3>2. CASE OpenSucceeds(w)
      BY <3>2 DEF OpenSucceeds, Goto
    <3>3. CASE OpenFails(w)
      BY <3>3 DEF OpenFails, Goto
    <3>4. CASE Stat(w)
      BY <3>4 DEF Stat, Goto
    <3>5. CASE UnlinkStale(w)
      BY <3>5 DEF UnlinkStale, Goto
    <3>6. CASE Release(w)
      BY <3>6 DEF Release, Goto
    <3>7. CASE Crash(w)
      BY <3>7 DEF Crash, Goto
    <3>8. CASE Restart(w)
      BY <3>8 DEF Restart, Goto
    <3> QED
      BY <2>2, <3>1, <3>2, <3>3, <3>4, <3>5, <3>6, <3>7, <3>8
      DEF Step, Attempt
  <2>3. CASE UNCHANGED vars
    BY <2>3 DEF vars
  <2> QED
    BY <2>1, <2>2, <2>3 DEF Next
<1> QED
  BY <1>1, <1>2, PTL DEF Spec

-----------------------------------------------------------------------------

\* Until the promise lapses the holder is the creator of the file, the age of
\* the file is the time it has been running, and nobody has found it stale.
IInv ==
  ~lapsed =>
    /\ \A w \in Holders : file = w /\ age = held[w] /\ held[w] <= StaleAge
    /\ file # NoFile => file \in Holders
    /\ \A w \in Worker : pc[w] # "unlink"

LEMMA Inductive ==
  ASSUME TypeOK, IInv, [Next]_vars
  PROVE  IInv'
<1> USE ConstantsAssumption DEF TypeOK, Ages, IInv, Holders
<1>1. CASE Tick
  <2>1. ASSUME NEW w \in Worker, pc[w] = "held", ~lapsed'
        PROVE  age' = held'[w] /\ held'[w] <= StaleAge
    <3>1. ~lapsed /\ ~(held[w] >= StaleAge)
      BY <1>1, <2>1, Zenon DEF Tick
    <3>2. age = held[w] /\ held[w] < StaleAge
      BY <2>1, <3>1
    <3> QED
      BY <1>1, <2>1, <3>2 DEF Tick
  <2> QED
    BY <1>1, <2>1 DEF Tick
<1>2. ASSUME NEW w \in Worker, Step(w)
      PROVE  IInv'
  <2>1. CASE Request(w)
    BY <2>1 DEF Request, Goto
  <2>2. CASE OpenSucceeds(w)
    BY <2>2 DEF OpenSucceeds, Goto
  <2>3. CASE OpenFails(w)
    BY <2>3 DEF OpenFails, Goto
  <2>4. CASE Stat(w)
    <3>1. ~lapsed => ~Stale
      BY DEF Stale
    <3> QED
      BY <2>4, <3>1 DEF Stat, Goto
  <2>5. CASE UnlinkStale(w)
    BY <2>5 DEF UnlinkStale, Goto
  <2>6. CASE Release(w)
    BY <2>6 DEF Release, Goto
  <2>7. CASE Crash(w)
    BY <2>7 DEF Crash, Goto
  <2>8. CASE Restart(w)
    BY <2>8 DEF Restart, Goto
  <2> QED
    BY <1>2, <2>1, <2>2, <2>3, <2>4, <2>5, <2>6, <2>7, <2>8
    DEF Step, Attempt
<1>3. CASE UNCHANGED vars
  BY <1>3 DEF vars
<1> QED
  BY <1>1, <1>2, <1>3 DEF Next

LEMMA InvariantHolds == Spec => [](TypeOK /\ IInv)
<1>1. Init => IInv
  BY ConstantsAssumption DEF Init, IInv, Holders
<1>2. TypeOK /\ IInv /\ [Next]_vars => IInv'
  BY Inductive
<1> QED
  BY <1>1, <1>2, TypeCorrect, PTL DEF Spec

\* withVerifyListenPortLock admits one worker at a time until a holder dies
\* inside or outlasts the stale age.
THEOREM HoldersExclude == Spec => []MutualExclusion
<1>1. IInv => MutualExclusion
  BY DEF IInv, MutualExclusion
<1> QED
  BY <1>1, InvariantHolds, PTL

\* Until then nobody unlinks a holder's file under it.
THEOREM NobodyRobbed == Spec => NoTheft
<1> DEFINE Kept ==
      ~lapsed => \A w \in Holders : w \in Holders' => file = w /\ file' = w
<1>1. ASSUME TypeOK, IInv, [Next]_vars
      PROVE  [Kept]_vars
  <2> SUFFICES ASSUME ~lapsed, NEW w \in Holders, w \in Holders', Next
               PROVE  file = w /\ file' = w
    BY <1>1
  <2>1. file = w
    BY <1>1 DEF IInv
  <2>2. CASE lapsed'
    <3>1. UNCHANGED file
      BY <1>1, <2>2, ConstantsAssumption
      DEF Next, Step, Attempt, Tick, Request, OpenSucceeds, OpenFails, Stat,
          UnlinkStale, Release, Crash, Restart
    <3> QED
      BY <2>1, <3>1
  <2>3. CASE ~lapsed'
    <3>1. IInv'
      BY <1>1, Inductive
    <3> QED
      BY <2>1, <2>3, <3>1 DEF IInv
  <2> QED
    BY <2>2, <2>3
<1>2. TypeOK /\ IInv /\ [Next]_vars => [Kept]_vars
  BY <1>1
<1> QED
  BY <1>2, InvariantHolds, PTL DEF Spec, NoTheft

-----------------------------------------------------------------------------

\* The file lock implements the abstract serializer: every step is a step of
\* one worker's phase, lets the promise lapse, or leaves both alone.
THEOREM ImplementsSerializer == Spec => Serializes
<1> DEFINE phase == [w \in Worker |-> PhaseOf(w)]
<1>1. Init => Abstract!Init
  BY DEF Init, Abstract!Init, PhaseOf
<1>2. ASSUME TypeOK, IInv, [Next]_vars
      PROVE  [Abstract!Next]_(Abstract!vars)
  <2> USE <1>2 DEF TypeOK, Abstract!vars
  <2>1. CASE Tick
    <3>1. UNCHANGED phase
      BY <2>1 DEF Tick, PhaseOf
    <3>2. CASE UNCHANGED lapsed
      BY <3>1, <3>2
    <3>3. CASE ~UNCHANGED lapsed
      <4>1. lapsed' /\ \E w \in Worker : phase[w] = "in"
        BY <2>1, <3>3 DEF Tick, Holders, PhaseOf
      <4> QED
        BY <3>1, <4>1 DEF Abstract!Next, Abstract!Outstay
    <3> QED
      BY <3>2, <3>3
  <2>2. ASSUME NEW w \in Worker, Step(w)
        PROVE  [Abstract!Next]_(Abstract!vars)
    <3> DEFINE Moves(p) == phase' = [phase EXCEPT ![w] = p]
    <3>0. ASSUME NEW location \in Location, Goto(w, location)
          PROVE  Moves(IF location = "held" THEN "in"
                      ELSE IF location \in {"idle", "dead"} THEN "out"
                      ELSE "waiting")
      BY <3>0 DEF Goto, PhaseOf
    <3>1. CASE Request(w)
      <4>1. Moves("waiting") /\ phase[w] = "out" /\ UNCHANGED lapsed
        BY <3>0, <3>1 DEF Request, Location, PhaseOf
      <4> QED
        BY <4>1 DEF Abstract!Next, Abstract!Ask, Abstract!Become
    <3>2. CASE OpenSucceeds(w)
      <4>1. Moves("in") /\ phase[w] = "waiting" /\ UNCHANGED lapsed
        BY <3>0, <3>2 DEF OpenSucceeds, Location, PhaseOf
      <4>2. lapsed \/ \A v \in Worker : phase[v] # "in"
        BY <3>2, ConstantsAssumption DEF OpenSucceeds, PhaseOf, IInv, Holders
      <4> QED
        BY <4>1, <4>2 DEF Abstract!Next, Abstract!Enter, Abstract!Become
    <3>3. CASE Release(w)
      <4>1. Moves("out") /\ phase[w] = "in" /\ UNCHANGED lapsed
        BY <3>0, <3>3 DEF Release, Location, PhaseOf
      <4> QED
        BY <4>1 DEF Abstract!Next, Abstract!Leave, Abstract!Become
    <3>4. CASE OpenFails(w)
      BY <3>4 DEF OpenFails, Goto, PhaseOf
    <3>5. CASE Stat(w)
      BY <3>5 DEF Stat, Goto, PhaseOf
    <3>6. CASE UnlinkStale(w)
      BY <3>6 DEF UnlinkStale, Goto, PhaseOf
    <3>7. CASE Restart(w)
      BY <3>7 DEF Restart, Goto, PhaseOf
    <3>8. CASE Crash(w)
      <4>1. Moves("out") /\ lapsed' = (lapsed \/ phase[w] = "in")
        BY <3>0, <3>8 DEF Crash, Location, PhaseOf
      <4>2. CASE phase[w] = "out"
        BY <4>1, <4>2
      <4>3. CASE phase[w] # "out"
        BY <4>1, <4>3 DEF Abstract!Next, Abstract!Die, Abstract!Become
      <4> QED
        BY <4>2, <4>3
    <3> QED
      BY <2>2, <3>1, <3>2, <3>3, <3>4, <3>5, <3>6, <3>7, <3>8
      DEF Step, Attempt
  <2>3. CASE UNCHANGED vars
    BY <2>3 DEF vars, PhaseOf
  <2> QED
    BY <2>1, <2>2, <2>3 DEF Next
<1> QED
  BY <1>1, <1>2, InvariantHolds, PTL DEF Spec, Serializes, Abstract!Spec
=============================================================================
