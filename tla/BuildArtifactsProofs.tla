------------------------ MODULE BuildArtifactsProofs ------------------------
(***************************************************************************)
(* The build locks and the artifacts for all constants: type correctness,    *)
(* exclusion of builds of one kind until one is killed or outlasts the stale *)
(* age, what a stamp and a fresh build promise, who may take a served export *)
(* away, how long a builder waits, and that the lock of each kind implements *)
(* the abstract lock.                                                      *)
(***************************************************************************)
EXTENDS SerializedBuilds, TLAPS

\* What the steps of the artifacts do to the locks.
LockStep(b) == Request(b) \/ Attempt(b) \/ OpenSucceeds(b) \/ Release(b) \/ Crash(b)

LEMMA LockNext ==
  ASSUME [Next]_allVars
  PROVE  Tick \/ (\E b \in Builder : LockStep(b)) \/ UNCHANGED lockVars
BY DEF Next, allVars, Ask, ExportMatches, Locked, Wait, StartCompile, FinishCompile,
   FailCompile, Stamp, Unlock, CheckExport, StopServing, Kill, Edit, EditAgain, Commit,
   Change, LockStep

\* No build has lasted longer than the longest.
LongestInv == \A b \in Builder : held[b] <= longest

LEMMA LockTyped ==
  ASSUME LockTypeOK, LongestInv, [Next]_allVars
  PROVE  LockTypeOK' /\ LongestInv'
<1> USE ConstantsAssumption DEF LockTypeOK, LongestInv, Location, Goto, Unlink
<1>1. CASE Tick
  <2>1. ASSUME NEW b \in Builder
        PROVE  held'[b] \in 0..HoldBound /\ held'[b] <= longest'
    BY <1>1, <2>1 DEF Tick, Building
  <2>2. longest' \in 0..HoldBound
    BY <1>1 DEF Tick, Building
  <2> QED
    BY <1>1, <2>1, <2>2 DEF Tick
<1>2. ASSUME NEW b \in Builder, LockStep(b)
      PROVE  LockTypeOK' /\ LongestInv'
  <2>1. CASE Request(b)
    BY <2>1 DEF Request
  <2>2. CASE Stat(b)
    BY <2>2 DEF Stat
  <2>3. CASE UnlinkStale(b)
    BY <2>3 DEF UnlinkStale
  <2>4. CASE OpenFails(b)
    BY <2>4 DEF OpenFails
  <2>5. CASE OpenSucceeds(b)
    BY <2>5 DEF OpenSucceeds, Met
  <2>6. CASE Release(b)
    BY <2>6 DEF Release
  <2>7. CASE Crash(b)
    BY <2>7 DEF Crash
  <2> QED
    BY <1>2, <2>1, <2>2, <2>3, <2>4, <2>5, <2>6, <2>7 DEF LockStep, Attempt
<1>3. CASE UNCHANGED lockVars
  BY <1>3 DEF lockVars
<1> QED
  BY <1>1, <1>2, <1>3, LockNext

\* Until a process is killed or a build outlasts the stale age, the file of a
\* kind belongs to the one that builds it, is as old as its build, and nobody has
\* found it stale.
LockInv ==
  crashes = 0 /\ longest <= StaleAge =>
    /\ \A b \in Building : file[KindOf[b]] = b /\ age[KindOf[b]] = held[b]
    /\ \A k \in Kind : file[k] # NoFile => file[k] \in Building /\ KindOf[file[k]] = k
    /\ \A k \in Kind : file[k] = NoFile => age[k] = 0
    /\ \A b \in Builder : pc[b] # "unlink" /\ (pc[b] # "building" => held[b] = 0)

LEMMA LockInductive ==
  ASSUME LockTypeOK, LongestInv, LockInv, [Next]_allVars
  PROVE  LockInv'
<1> USE ConstantsAssumption DEF LockTypeOK, LongestInv, LockInv, Goto, Unlink, Building
<1>1. CASE Tick
  BY <1>1 DEF Tick
<1>2. ASSUME NEW b \in Builder, LockStep(b)
      PROVE  LockInv'
  <2>1. CASE Request(b)
    BY <2>1 DEF Request
  <2>2. CASE Stat(b)
    BY <2>2 DEF Stat, Stale
  <2>3. CASE UnlinkStale(b)
    BY <2>3 DEF UnlinkStale
  <2>4. CASE OpenFails(b)
    BY <2>4 DEF OpenFails
  <2>5. CASE OpenSucceeds(b)
    BY <2>5 DEF OpenSucceeds
  <2>6. CASE Release(b)
    BY <2>6 DEF Release
  <2>7. CASE Crash(b)
    BY <2>7 DEF Crash
  <2> QED
    BY <1>2, <2>1, <2>2, <2>3, <2>4, <2>5, <2>6, <2>7 DEF LockStep, Attempt
<1>3. CASE UNCHANGED lockVars
  BY <1>3 DEF lockVars
<1> QED
  BY <1>1, <1>2, <1>3, LockNext

LEMMA ArtTyped ==
  ASSUME LockTypeOK, ArtTypeOK, [Next]_allVars
  PROVE  ArtTypeOK'
<1> USE ConstantsAssumption, ArtifactsAssumption DEF ArtTypeOK, Step, Versions, Becomes, Forget,
        allVars, artVars
<1>1. CASE Tick /\ UNCHANGED artVars
  BY <1>1 DEF Tick
<1>2. ASSUME NEW b \in Builder,
             Ask(b) \/ ExportMatches(b) \/ Locked(b) \/ Wait(b) \/ StartCompile(b) \/ FinishCompile(b)
             \/ FailCompile(b) \/ Stamp(b) \/ Unlock(b) \/ CheckExport(b) \/ StopServing(b) \/ Kill(b)
      PROVE  ArtTypeOK'
  <2>1. CASE Ask(b)
    BY <2>1 DEF Ask
  <2>2. CASE ExportMatches(b)
    BY <2>2 DEF ExportMatches
  <2>3. CASE Locked(b)
    BY <2>3 DEF Locked
  <2>4. CASE Wait(b)
    BY <2>4 DEF Wait
  <2>5. CASE StartCompile(b)
    BY <2>5 DEF StartCompile
  <2>6. CASE FinishCompile(b)
    BY <2>6 DEF FinishCompile
  <2>7. CASE FailCompile(b)
    BY <2>7 DEF FailCompile
  <2>8. CASE Stamp(b)
    BY <2>8 DEF Stamp
  <2>9. CASE Unlock(b)
    BY <2>9 DEF Unlock
  <2>10. CASE CheckExport(b)
    BY <2>10 DEF CheckExport
  <2>11. CASE StopServing(b)
    BY <2>11 DEF StopServing
  <2>12. CASE Kill(b)
    BY <2>12 DEF Kill
  <2> QED
    BY <1>2, <2>1, <2>2, <2>3, <2>4, <2>5, <2>6, <2>7, <2>8, <2>9, <2>10, <2>11, <2>12
<1>3. CASE Edit \/ EditAgain \/ Commit
  <2>1. PICK content \in {source.content, source.content + 1},
             status \in {source.status, source.status + 1} : Change(content, status)
    BY <1>3 DEF Edit, EditAgain, Commit
  <2>2. source' \in [content : 0..MaxEdits, status : 0..MaxEdits]
    BY <2>1 DEF Change
  <2>3. blind' \in BOOLEAN
    BY <2>1, Zenon DEF Change
  <2> QED
    BY <2>1, <2>2, <2>3 DEF Change
<1>4. CASE UNCHANGED allVars
  BY <1>4 DEF lockVars
<1> QED
  BY <1>1, <1>2, <1>3, <1>4 DEF Next

LEMMA TypesHold == Spec => [](TypeOK /\ LongestInv)
<1>1. Init => TypeOK /\ LongestInv
  <2> SUFFICES ASSUME Init
               PROVE  LockTypeOK /\ LongestInv /\ ArtTypeOK
    BY DEF TypeOK
  <2> USE ConstantsAssumption, ArtifactsAssumption
  <2>1. LockTypeOK /\ LongestInv
    BY DEF Init, LockInit, LockTypeOK, LongestInv, Location
  <2>2. next \in [from : Versions \cup {-1}, done : BOOLEAN] /\ mixed \in BOOLEAN /\ blind \in BOOLEAN
    BY DEF Init
  <2>3. ArtTypeOK
    BY <2>2 DEF Init, ArtTypeOK, Step, Versions
  <2> QED
    BY <2>1, <2>3
<1>2. TypeOK /\ LongestInv /\ [Next]_allVars => (TypeOK /\ LongestInv)'
  BY LockTyped, ArtTyped DEF TypeOK
<1> QED
  BY <1>1, <1>2, PTL DEF Spec

\* Every reachable state of the locks and the artifacts has the right shape.
THEOREM TypeCorrect == Spec => []TypeOK
BY TypesHold, PTL

\* Builds of one kind exclude each other until a process is killed or a build
\* outlasts the stale age.
THEOREM BuildsExclude == Spec => []SameKindExclusive
<1>1. Init => LockInv
  BY ConstantsAssumption DEF Init, LockInit, LockInv, Building
<1>2. TypeOK /\ LongestInv /\ LockInv /\ [Next]_allVars => LockInv'
  BY LockInductive DEF TypeOK
<1>3. LockInv => SameKindExclusive
  BY DEF LockInv, SameKindExclusive
<1> QED
  BY <1>1, <1>2, <1>3, TypesHold, PTL DEF Spec

-----------------------------------------------------------------------------

\* A stamp only ever marks a complete .next/.
THEOREM StampsMarkComplete == Spec => []StampedIsComplete
<1>1. Init => StampedIsComplete
  BY DEF Init, StampedIsComplete
<1>2. TypeOK /\ StampedIsComplete /\ [Next]_allVars => StampedIsComplete'
  <2> SUFFICES ASSUME TypeOK, StampedIsComplete, [Next]_allVars
               PROVE  StampedIsComplete'
    OBVIOUS
  <2> QED
    BY DEF StampedIsComplete, TypeOK, ArtTypeOK, Next, Ask, ExportMatches, Locked, Wait,
       StartCompile, FinishCompile, FailCompile, Stamp, Unlock, CheckExport, StopServing,
       Kill, Edit, EditAgain, Commit, Change, allVars, artVars
<1> QED
  BY <1>1, <1>2, TypeCorrect, PTL DEF Spec

\* Unless two builds were compiling at once or the sources have changed unseen:
\* who compiles has read the sources as they are, and a complete .next/ is of
\* them while it may still be stamped, or as long as its stamp is theirs.
FreshInv ==
  /\ stamp <= source.status
  /\ ~mixed => \A a, b \in Compiling : a = b
  /\ ~mixed /\ ~blind =>
       /\ \A b \in Compiling : snapshot[b] = source.content
       /\ next.done /\ (Unstamped \/ stamp = source.status) => next.from = source.content

LEMMA FreshInductive ==
  ASSUME TypeOK, FreshInv, [Next]_allVars
  PROVE  FreshInv'
<1> USE DEF FreshInv, TypeOK, ArtTypeOK, Versions, Becomes, Forget, Compiling, Unstamped,
        allVars, artVars
<1>1. CASE Tick /\ UNCHANGED artVars
  BY <1>1 DEF Tick
<1>2. ASSUME NEW b \in Builder,
             Ask(b) \/ ExportMatches(b) \/ Locked(b) \/ Wait(b) \/ StartCompile(b) \/ FinishCompile(b)
             \/ FailCompile(b) \/ Stamp(b) \/ Unlock(b) \/ CheckExport(b) \/ StopServing(b) \/ Kill(b)
      PROVE  FreshInv'
  <2>1. CASE Ask(b)
    BY <2>1 DEF Ask
  <2>2. CASE ExportMatches(b)
    BY <2>2 DEF ExportMatches
  <2>3. CASE Locked(b)
    BY <2>3 DEF Locked
  <2>4. CASE Wait(b)
    BY <2>4 DEF Wait
  <2>5. CASE StartCompile(b)
    <3>1. ~mixed' => Compiling = {}
      BY <2>5, Zenon DEF StartCompile
    <3>2. stamp' = -1 /\ ~next'.done /\ source' = source
      BY <2>5 DEF StartCompile
    <3>3. ~mixed' => Compiling' = {b} /\ snapshot'[b] = source.content
      BY <2>5, <3>1 DEF StartCompile
    <3> QED
      BY <3>2, <3>3
  <2>6. CASE FinishCompile(b)
    BY <2>6 DEF FinishCompile
  <2>7. CASE FailCompile(b)
    BY <2>7 DEF FailCompile
  <2>8. CASE Stamp(b)
    BY <2>8 DEF Stamp
  <2>9. CASE Unlock(b)
    BY <2>9 DEF Unlock
  <2>10. CASE CheckExport(b)
    BY <2>10 DEF CheckExport
  <2>11. CASE StopServing(b)
    BY <2>11 DEF StopServing
  <2>12. CASE Kill(b)
    BY <2>12 DEF Kill
  <2> QED
    BY <1>2, <2>1, <2>2, <2>3, <2>4, <2>5, <2>6, <2>7, <2>8, <2>9, <2>10, <2>11, <2>12
<1>3. CASE Edit \/ EditAgain \/ Commit
  <2>1. PICK content \in {source.content, source.content + 1},
             status \in {source.status, source.status + 1} :
               Change(content, status) /\ (content = source.content => status # source.status)
    BY <1>3 DEF Edit, EditAgain, Commit
  <2>2. ~blind' => ~blind /\ ~Unseen(content, status)
    BY <2>1, Zenon DEF Change
  <2>3. source'.content = content /\ source'.status = status
    BY <2>1 DEF Change
  <2>4. UNCHANGED <<next, stamp, step, snapshot, mixed>>
    BY <2>1 DEF Change
  <2> QED
    BY <2>1, <2>2, <2>3, <2>4 DEF Unseen
<1>4. CASE UNCHANGED allVars
  BY <1>4 DEF lockVars
<1> QED
  BY <1>1, <1>2, <1>3, <1>4 DEF Next

\* A build called fresh is of the sources as they are, unless two builds wrote it
\* or the sources changed where no stamp can show it.
THEOREM FreshIsCurrent == Spec => []FreshBuildIsCurrent
<1>1. Init => FreshInv
  BY DEF Init, FreshInv, Compiling, Unstamped
<1>2. TypeOK /\ FreshInv /\ [Next]_allVars => FreshInv'
  BY FreshInductive
<1>3. FreshInv => FreshBuildIsCurrent
  BY DEF FreshInv, FreshBuildIsCurrent, Fresh
<1> QED
  BY <1>1, <1>2, <1>3, TypeCorrect, PTL DEF Spec

-----------------------------------------------------------------------------

\* Who holds a lock builds, and who builds holds a lock; who waits for one to
\* export has found another page, or none, and is early if there is one now.
ServedInv ==
  \A b \in Builder :
    /\ step[b] \in {"start", "compiling", "stamping", "built", "failed"} <=> pc[b] = "building"
    /\ step[b] \in {"check", "serving"} => pc[b] = "idle"
    /\ KindOf[b] = "export" /\ pc[b] # "idle" /\ step[b] \in {"none", "start"} =>
         out # BaseOf[b] \/ b \in early

LEMMA ServedInductive ==
  ASSUME TypeOK, ServedInv, [Next]_allVars
  PROVE  ServedInv'
<1> USE ArtifactsAssumption DEF ServedInv, TypeOK, LockTypeOK, ArtTypeOK, Becomes, Goto,
        allVars, artVars
<1>1. CASE Tick /\ UNCHANGED artVars
  BY <1>1 DEF Tick
<1>2. ASSUME NEW b \in Builder,
             Ask(b) \/ ExportMatches(b) \/ Locked(b) \/ Wait(b) \/ StartCompile(b) \/ FinishCompile(b)
             \/ FailCompile(b) \/ Stamp(b) \/ Unlock(b) \/ CheckExport(b) \/ StopServing(b) \/ Kill(b)
      PROVE  ServedInv'
  <2>1. CASE Ask(b)
    BY <2>1 DEF Ask, Request
  <2>2. CASE ExportMatches(b)
    BY <2>2 DEF ExportMatches, lockVars
  <2>3. CASE Locked(b)
    BY <2>3 DEF Locked, OpenSucceeds, Step
  <2>4. CASE Wait(b)
    BY <2>4 DEF Wait, Attempt, Stat, UnlinkStale, OpenFails
  <2>5. CASE StartCompile(b)
    BY <2>5 DEF StartCompile, lockVars
  <2>6. CASE FinishCompile(b)
    BY <2>6 DEF FinishCompile, lockVars
  <2>7. CASE FailCompile(b)
    BY <2>7 DEF FailCompile, lockVars
  <2>8. CASE Stamp(b)
    BY <2>8 DEF Stamp, lockVars
  <2>9. CASE Unlock(b)
    BY <2>9 DEF Unlock, Release
  <2>10. CASE CheckExport(b)
    BY <2>10 DEF CheckExport, lockVars
  <2>11. CASE StopServing(b)
    BY <2>11 DEF StopServing, lockVars
  <2>12. CASE Kill(b)
    BY <2>12 DEF Kill, Crash
  <2> QED
    BY <1>2, <2>1, <2>2, <2>3, <2>4, <2>5, <2>6, <2>7, <2>8, <2>9, <2>10, <2>11, <2>12
<1>3. CASE Edit \/ EditAgain \/ Commit
  BY <1>3 DEF Edit, EditAgain, Commit, Change, lockVars
<1>4. CASE UNCHANGED allVars
  BY <1>4 DEF lockVars
<1> QED
  BY <1>1, <1>2, <1>3, <1>4 DEF Next

\* A served export is taken away only by who had asked for a build before it was
\* there, or builds for another base path.
THEOREM ServedKept == Spec => ServedExportKept
<1> DEFINE Kept == \A c \in Builder :
             step[c] = "serving" /\ out = BaseOf[c] /\ out' # out =>
               \E b \in Builder :
                 /\ step'[b] # step[b]
                 /\ (step[b] = "start" /\ b \in early) \/ BaseOf[b] # BaseOf[c]
<1>1. Init => ServedInv
  BY DEF Init, LockInit, ServedInv
<1>2. TypeOK /\ ServedInv /\ [Next]_allVars => ServedInv'
  BY ServedInductive
<1>3. ASSUME TypeOK, ServedInv, [Next]_allVars, NEW c \in Builder,
             step[c] = "serving", out = BaseOf[c], out' # out
      PROVE  \E b \in Builder :
               /\ step'[b] # step[b]
               /\ (step[b] = "start" /\ b \in early) \/ BaseOf[b] # BaseOf[c]
  <2>1. PICK b \in Builder : StartCompile(b) \/ FinishCompile(b)
    BY <1>3 DEF Next, Ask, ExportMatches, Locked, Wait, FailCompile, Stamp, Unlock,
       CheckExport, StopServing, Kill, Edit, EditAgain, Commit, Change, allVars, artVars
  <2>2. CASE StartCompile(b)
    BY <1>3, <2>2 DEF StartCompile, Becomes, ServedInv, TypeOK, ArtTypeOK
  <2>3. CASE FinishCompile(b)
    BY <1>3, <2>3 DEF FinishCompile, Becomes, TypeOK, ArtTypeOK
  <2> QED
    BY <2>1, <2>2, <2>3
<1>4. TypeOK /\ ServedInv /\ [Next]_allVars => [Kept]_allVars
  BY <1>3
<1> QED
  BY <1>1, <1>2, <1>4, TypeCorrect, PTL DEF Spec, ServedExportKept
-----------------------------------------------------------------------------
(* How long a builder waits                                                *)

\* Nobody builds who created the lock file of kind k.
Dead(k) == file[k] # NoFile /\ pc[file[k]] # "building"

\* A lock file has the kind and at most the age of its creator's build, and only
\* a crash leaves one without a build; who does not wait has not waited.
FileInv ==
  /\ \A k \in Kind : IF file[k] = NoFile THEN age[k] = 0 ELSE KindOf[file[k]] = k
  /\ \A k \in Kind : Dead(k) => crashes > 0
  /\ \A b \in Builder : pc[b] # "building" => held[b] = 0
  /\ \A b \in Builder : pc[b] = "building" /\ file[KindOf[b]] = b => age[KindOf[b]] <= held[b]
  /\ \A b \in Builder : pc[b] \in {"idle", "building"} => waited[b] = 0

\* What the locks b has met explain of a wait: all at the stale age, or all at the
\* longest build with a stale age for each crash.
ByAge(b) == ahead[b] * (StaleAge + 1)
ByBuilds(b) == ahead[b] * (longest + 1) + crashes * (StaleAge + 1)

\* Once the locks it has met are gone, a waiter has not waited longer than they
\* explain, and less while it sleeps; while the last of them is there, not longer
\* than the others explain and this one is old.
Explained(b) ==
  LET k == KindOf[b] IN
  IF file[k] = NoFile
  THEN LET asleep == IF pc[b] = "sleep" THEN 1 ELSE 0 IN
       /\ waited[b] + asleep <= ByAge(b)
       /\ waited[b] + asleep <= ByBuilds(b)
  ELSE /\ ahead[b] > 0
       /\ waited[b] + StaleAge + 1 <= ByAge(b) + age[k]
       /\ waited[b] + longest + 1 + (IF Dead(k) THEN StaleAge + 1 ELSE 0) <= ByBuilds(b) + age[k]

WaitInv(b) ==
  /\ pc[b] \in {"open", "sleep"} => age[KindOf[b]] <= StaleAge
  /\ b \in Waiting => Explained(b)
  /\ pc[b] = "timedOut" => MaxWait < ByAge(b) /\ MaxWait < ByBuilds(b)
LEMMA FileKept ==
  ASSUME LockTypeOK, FileInv, [Next]_allVars
  PROVE  FileInv'
<1> USE ConstantsAssumption DEF LockTypeOK, FileInv, Dead, Goto, Unlink, Building
<1>1. CASE Tick
  BY <1>1 DEF Tick
<1>2. ASSUME NEW b \in Builder, LockStep(b)
      PROVE  FileInv'
  <2>1. CASE Request(b)
    BY <2>1 DEF Request
  <2>2. CASE Stat(b)
    BY <2>2 DEF Stat
  <2>3. CASE UnlinkStale(b)
    BY <2>3 DEF UnlinkStale
  <2>4. CASE OpenFails(b)
    BY <2>4 DEF OpenFails
  <2>5. CASE OpenSucceeds(b)
    BY <2>5 DEF OpenSucceeds
  <2>6. CASE Release(b)
    BY <2>6 DEF Release
  <2>7. CASE Crash(b)
    BY <2>7 DEF Crash
  <2> QED
    BY <1>2, <2>1, <2>2, <2>3, <2>4, <2>5, <2>6, <2>7 DEF LockStep, Attempt
<1>3. CASE UNCHANGED lockVars
  BY <1>3 DEF lockVars
<1> QED
  BY <1>1, <1>2, <1>3, LockNext

LEMMA Products ==
  ASSUME NEW a \in Nat, NEW x \in Nat
  PROVE  /\ a * x \in Nat
         /\ (a + 1) * x = a * x + x
         /\ a * (x + 1) = a * x + a
         /\ 1 * x = x /\ 0 * x = 0
OBVIOUS
LEMMA Successor ==
  ASSUME NEW n \in Nat
  PROVE  n + 1 \in Nat
OBVIOUS
\* How what the locks explain grows.
LEMMA Explanations ==
  ASSUME LockTypeOK, LockTypeOK', NEW b \in Builder
  PROVE  /\ ByAge(b) \in Nat /\ ByBuilds(b) \in Nat
         /\ ByAge(b)' \in Nat /\ ByBuilds(b)' \in Nat
         /\ ahead'[b] = ahead[b] =>
              /\ ByAge(b)' = ByAge(b)
              /\ longest' = longest /\ crashes' = crashes => ByBuilds(b)' = ByBuilds(b)
              /\ longest' = longest + 1 /\ crashes' = crashes =>
                   ByBuilds(b)' = ByBuilds(b) + ahead[b]
              /\ longest' = longest /\ crashes' = crashes + 1 =>
                   ByBuilds(b)' = ByBuilds(b) + StaleAge + 1
         /\ ahead'[b] = ahead[b] + 1 =>
              /\ ByAge(b)' = ByAge(b) + StaleAge + 1
              /\ longest' = longest /\ crashes' = crashes =>
                   ByBuilds(b)' = ByBuilds(b) + longest + 1
         /\ ahead'[b] = 1 =>
              /\ ByAge(b)' = StaleAge + 1
              /\ longest' = longest /\ crashes' = crashes =>
                   ByBuilds(b)' = longest + 1 + crashes * (StaleAge + 1)
         /\ crashes * (StaleAge + 1) \in Nat
         /\ crashes > 0 => crashes * (StaleAge + 1) >= StaleAge + 1
<1> DEFINE a == ahead[b]
           x == StaleAge + 1
           y == longest + 1
<1>1. a \in Nat /\ ahead'[b] \in Nat /\ x \in Nat /\ y \in Nat /\ crashes \in Nat /\ longest \in Nat
  BY ConstantsAssumption DEF LockTypeOK
<1>2. /\ ByAge(b) = a * x /\ ByBuilds(b) = a * y + crashes * x
      /\ ByAge(b)' = ahead'[b] * x /\ ByBuilds(b)' = ahead'[b] * y' + crashes' * x
      /\ y' = longest' + 1
  BY DEF ByAge, ByBuilds
<1> HIDE DEF a
<1>3. /\ a * x \in Nat /\ a * y \in Nat /\ crashes * x \in Nat
      /\ (a + 1) * x = a * x + x /\ (a + 1) * y = a * y + y
      /\ (crashes + 1) * x = crashes * x + x
      /\ a * (y + 1) = a * y + a /\ 1 * x = x /\ 1 * y = y
  BY <1>1, Products
<1>4. crashes > 0 => crashes * x >= x
  <2> SUFFICES ASSUME crashes > 0
               PROVE  crashes * x >= x
    OBVIOUS
  <2>1. PICK c \in Nat : crashes = c + 1
    <3>1. crashes - 1 \in Nat /\ crashes = (crashes - 1) + 1
      BY <1>1
    <3> QED
      BY <3>1
  <2>2. (c + 1) * x = c * x + x /\ c * x \in Nat
    BY <1>1, <2>1, Products
  <2> QED
    BY <1>1, <2>1, <2>2
<1>5. ASSUME ahead'[b] = a
      PROVE  /\ ByAge(b)' = ByAge(b)
             /\ longest' = longest /\ crashes' = crashes => ByBuilds(b)' = ByBuilds(b)
             /\ longest' = longest + 1 /\ crashes' = crashes => ByBuilds(b)' = ByBuilds(b) + a
             /\ longest' = longest /\ crashes' = crashes + 1 =>
                  ByBuilds(b)' = ByBuilds(b) + StaleAge + 1
  <2>1. ByAge(b)' = ByAge(b)
    BY <1>2, <1>5
  <2>2. longest' = longest /\ crashes' = crashes => ByBuilds(b)' = ByBuilds(b)
    BY <1>2, <1>5
  <2>3. longest' = longest + 1 /\ crashes' = crashes => ByBuilds(b)' = ByBuilds(b) + a
    <3> SUFFICES ASSUME longest' = longest + 1, crashes' = crashes
                 PROVE  ByBuilds(b)' = ByBuilds(b) + a
      OBVIOUS
    <3>1. ByBuilds(b)' = a * (y + 1) + crashes * x
      BY <1>1, <1>2, <1>5
    <3> HIDE DEF x, y
    <3> QED
      BY <1>1, <1>2, <1>3, <3>1
  <2>4. longest' = longest /\ crashes' = crashes + 1 =>
          ByBuilds(b)' = ByBuilds(b) + StaleAge + 1
    <3> SUFFICES ASSUME longest' = longest, crashes' = crashes + 1
                 PROVE  ByBuilds(b)' = ByBuilds(b) + StaleAge + 1
      OBVIOUS
    <3>1. ByBuilds(b)' = a * y + (crashes + 1) * x /\ x = StaleAge + 1
      BY <1>1, <1>2, <1>5
    <3>2. StaleAge \in Nat
      BY ConstantsAssumption
    <3> HIDE DEF x, y
    <3> QED
      BY <1>1, <1>2, <1>3, <3>1, <3>2
  <2> QED
    BY <2>1, <2>2, <2>3, <2>4
<1>6. ASSUME ahead'[b] = a + 1
      PROVE  /\ ByAge(b)' = ByAge(b) + x
             /\ longest' = longest /\ crashes' = crashes => ByBuilds(b)' = ByBuilds(b) + y
  <2> HIDE DEF x, y
  <2>1. ByAge(b)' = ByAge(b) + x
    BY <1>2, <1>3, <1>6
  <2>2. longest' = longest => y' = y
    BY DEF y
  <2>3. longest' = longest /\ crashes' = crashes => ByBuilds(b)' = ByBuilds(b) + y
    BY <1>1, <1>2, <1>3, <1>6, <2>2
  <2> QED
    BY <2>1, <2>3
<1>7. ASSUME ahead'[b] = 1
      PROVE  /\ ByAge(b)' = x
             /\ longest' = longest /\ crashes' = crashes => ByBuilds(b)' = y + crashes * x
  BY <1>2, <1>3, <1>7
<1>8. /\ ByAge(b) \in Nat /\ ByBuilds(b) \in Nat
      /\ ByAge(b)' \in Nat /\ ByBuilds(b)' \in Nat
  <2>1. y' \in Nat /\ crashes' \in Nat
    <3>1. longest' \in Nat /\ crashes' \in Nat
      BY ConstantsAssumption DEF LockTypeOK
    <3>2. longest' + 1 \in Nat
      BY <3>1, Successor
    <3>3. y' = longest' + 1
      BY <1>2
    <3> HIDE DEF y
    <3> QED
      BY <3>1, <3>2, <3>3
  <2> HIDE DEF x, y
  <2>2. ahead'[b] * x \in Nat /\ ahead'[b] * y' \in Nat /\ crashes' * x \in Nat
    BY <1>1, <2>1, Products
  <2> QED
    BY <1>2, <1>3, <2>2
<1>9. ByAge(b) + x = ByAge(b) + StaleAge + 1 /\ ByBuilds(b) + y = ByBuilds(b) + longest + 1
  BY <1>1, <1>8, ConstantsAssumption
<1> QED
  BY <1>3, <1>4, <1>5, <1>6, <1>7, <1>8, <1>9 DEF a
\* What is known of the numbers that concern a builder, before and after a step.
WaitTypes(b) ==
  /\ KindOf[b] \in Kind /\ ahead[b] \in Nat /\ waited[b] \in Nat
  /\ age[KindOf[b]] \in 0..StaleAge + 1
  /\ StaleAge \in Nat /\ MaxWait \in Nat /\ longest \in Nat /\ crashes \in Nat
  /\ ByAge(b) \in Nat /\ ByBuilds(b) \in Nat

LEMMA WaitTyped ==
  ASSUME LockTypeOK, LockTypeOK', NEW b \in Builder
  PROVE  WaitTypes(b) /\ WaitTypes(b)'
<1>1. /\ ByAge(b) \in Nat /\ ByBuilds(b) \in Nat
      /\ ByAge(b)' \in Nat /\ ByBuilds(b)' \in Nat
  BY Explanations
<1> QED
  BY <1>1, ConstantsAssumption DEF WaitTypes, LockTypeOK

\* A live lock is no older than the longest build.
LEMMA LiveIsYoung ==
  ASSUME LockTypeOK, LongestInv, FileInv, NEW k \in Kind, file[k] # NoFile, ~Dead(k)
  PROVE  age[k] <= longest
<1> DEFINE c == file[k]
<1>1. c \in Builder /\ pc[c] = "building" /\ KindOf[c] = k
  BY DEF LockTypeOK, FileInv, Dead
<1>2. age[k] <= held[c] /\ held[c] <= longest /\ held[c] \in Nat
  BY <1>1 DEF FileInv, LongestInv, LockTypeOK
<1> QED
  BY <1>1, <1>2, ConstantsAssumption DEF LockTypeOK

\* A step of others that b does not notice.
LEMMA Unnoticed ==
  ASSUME LockTypeOK, LockTypeOK', NEW b \in Builder, WaitInv(b),
         pc'[b] = pc[b], waited'[b] = waited[b], ahead'[b] = ahead[b],
         file'[KindOf[b]] = file[KindOf[b]], age'[KindOf[b]] = age[KindOf[b]],
         Dead(KindOf[b])' <=> Dead(KindOf[b]), longest' = longest, crashes' = crashes
  PROVE  WaitInv(b)'
<1>1. ByAge(b)' = ByAge(b) /\ ByBuilds(b)' = ByBuilds(b)
  BY Explanations
<1>2. Explained(b)' <=> Explained(b)
  BY <1>1 DEF Explained
<1> QED
  BY <1>1, <1>2 DEF WaitInv, Waiting

\* The lock that b waits for goes away.
LEMMA Vanishes ==
  ASSUME LockTypeOK, LockTypeOK', LongestInv, FileInv, NEW b \in Builder, WaitInv(b),
         pc[b] \in {"idle", "building"} => pc'[b] \in {"idle", "building"},
         b \in Waiting => b \in Waiting' /\ (pc'[b] = "sleep" => pc[b] = "sleep"),
         pc[b] = "timedOut" => pc'[b] = "timedOut",
         waited'[b] = waited[b], ahead'[b] = ahead[b],
         file'[KindOf[b]] = NoFile, age'[KindOf[b]] = 0,
         longest' = longest, crashes' = crashes
  PROVE  WaitInv(b)'
<1> DEFINE k == KindOf[b]
<1>1. ByAge(b)' = ByAge(b) /\ ByBuilds(b)' = ByBuilds(b)
  BY Explanations
<1>2. WaitTypes(b)
  BY WaitTyped
<1>3. CASE b \in Waiting
  <2>1. Explained(b) /\ (pc[b] = "sleep" => age[k] <= StaleAge)
    BY <1>3 DEF WaitInv
  <2>2. LET asleep == IF pc[b] = "sleep" THEN 1 ELSE 0 IN
        waited[b] + asleep <= ByAge(b) /\ waited[b] + asleep <= ByBuilds(b)
    <3>1. CASE file[k] = NoFile
      BY <2>1, <3>1 DEF Explained
    <3>2. CASE file[k] # NoFile
      <4>1. ~Dead(k) => age[k] <= longest
        BY <1>2, <3>2, LiveIsYoung DEF WaitTypes
      <4> QED
        BY <1>2, <2>1, <3>2, <4>1 DEF Explained, WaitTypes
    <3> QED
      BY <3>1, <3>2
  <2>3. Explained(b)'
    BY <1>1, <1>2, <1>3, <2>2 DEF Explained, WaitTypes
  <2>4. pc'[b] # "timedOut"
    BY <1>3 DEF Waiting
  <2> QED
    BY <1>2, <2>3, <2>4 DEF WaitInv, WaitTypes
<1>4. CASE pc[b] = "timedOut"
  <2>1. pc'[b] = "timedOut"
    BY <1>4
  <2> QED
    BY <1>1, <1>4, <2>1 DEF WaitInv, Waiting
<1>5. CASE pc[b] \in {"idle", "building"}
  BY <1>5 DEF WaitInv, Waiting
<1> QED
  BY <1>3, <1>4, <1>5 DEF LockTypeOK, Location, Waiting

LEMMA WaitKeptByTick ==
  ASSUME LockTypeOK, LockTypeOK', NEW b \in Builder, WaitInv(b),
         Tick
  PROVE  WaitInv(b)'
<1> DEFINE k == KindOf[b]
<1>a. /\ k \in Kind /\ ahead[b] \in Nat /\ waited[b] \in Nat /\ age[k] \in 0..StaleAge + 1
      /\ waited'[b] \in Nat /\ age'[k] \in 0..StaleAge + 1
      /\ StaleAge \in Nat /\ MaxWait \in Nat /\ longest \in Nat /\ crashes \in Nat
  BY WaitTyped DEF WaitTypes
<1>b. ByAge(b) \in Nat /\ ByBuilds(b) \in Nat
  BY Explanations
<1>1. /\ pc'[b] = (IF pc[b] = "sleep" THEN "stat" ELSE pc[b])
      /\ file' = file /\ ahead' = ahead /\ crashes' = crashes
      /\ age'[k] = IF file[k] = NoFile \/ age[k] > StaleAge THEN age[k] ELSE age[k] + 1
      /\ waited'[b] <= waited[b] + (IF pc[b] = "sleep" THEN 1 ELSE 0)
      /\ b \in Waiting => pc[b] = "sleep"
  BY <1>a DEF Tick, LockTypeOK
<1>2. longest' = longest \/ longest' = longest + 1
  BY DEF Tick
<1>3. Dead(k)' <=> Dead(k)
  BY <1>a DEF Tick, Dead, LockTypeOK
<1>4. ByAge(b)' = ByAge(b)
  BY <1>1, Explanations
<1>5. \/ longest' = longest /\ ByBuilds(b)' = ByBuilds(b)
      \/ longest' = longest + 1 /\ ByBuilds(b)' = ByBuilds(b) + ahead[b]
  BY <1>1, <1>2, Explanations
<1>6. pc'[b] \notin {"open", "sleep"}
  BY <1>1 DEF Waiting
<1>7. b \in Waiting' => Explained(b)'
  <2> SUFFICES ASSUME b \in Waiting'
               PROVE  Explained(b)'
    OBVIOUS
  <2>1. pc[b] = "sleep" /\ pc'[b] = "stat"
    BY <1>1 DEF Waiting
  <2>2. Explained(b) /\ age[k] <= StaleAge
    BY <2>1 DEF WaitInv, Waiting
  <2>3. CASE file[k] = NoFile
    BY <1>a, <1>b, <1>1, <1>4, <1>5, <2>1, <2>2, <2>3 DEF Explained
  <2>4. CASE file[k] # NoFile
    <3>1. age'[k] = age[k] + 1 /\ waited'[b] <= waited[b] + 1
      BY <1>1, <2>1, <2>2, <2>4, <1>a
    <3>2. /\ ahead[b] > 0
          /\ waited[b] + StaleAge + 1 <= ByAge(b) + age[k]
          /\ waited[b] + longest + 1 + (IF Dead(k) THEN StaleAge + 1 ELSE 0)
               <= ByBuilds(b) + age[k]
      BY <2>2, <2>4 DEF Explained
    <3>3. waited'[b] + StaleAge + 1 <= ByAge(b)' + age'[k]
      BY <1>a, <1>b, <1>4, <3>1, <3>2
    <3>4. waited'[b] + longest' + 1 + (IF Dead(k)' THEN StaleAge + 1 ELSE 0)
            <= ByBuilds(b)' + age'[k]
      BY <1>a, <1>b, <1>3, <1>5, <3>1, <3>2
    <3> QED
      BY <1>1, <2>4, <3>2, <3>3, <3>4 DEF Explained
  <2> QED
    BY <2>3, <2>4
<1>8. pc'[b] = "timedOut" => MaxWait < ByAge(b)' /\ MaxWait < ByBuilds(b)'
  <2>1. pc'[b] = "timedOut" => MaxWait < ByAge(b) /\ MaxWait < ByBuilds(b)
    BY <1>1 DEF WaitInv
  <2> QED
    BY <1>a, <1>b, <1>4, <1>5, <2>1
<1> QED
  BY <1>6, <1>7, <1>8 DEF WaitInv
LEMMA WaitKeptByStep ==
  ASSUME LockTypeOK, LockTypeOK', LongestInv, FileInv, NEW b \in Builder, WaitInv(b),
         NEW c \in Builder, LockStep(c)
  PROVE  WaitInv(b)'
<1> DEFINE k == KindOf[b]
<1>a. WaitTypes(b) /\ WaitTypes(b)' /\ k \in Kind
  BY WaitTyped DEF WaitTypes
<1>b. file[k] # NoFile => KindOf[file[k]] = k
  BY <1>a DEF FileInv
<1>1. CASE Request(c)
  <2>1. /\ pc[c] = "idle" /\ pc' = [pc EXCEPT ![c] = "stat"]
        /\ ahead' = [ahead EXCEPT ![c] = IF file[KindOf[c]] = NoFile THEN 0 ELSE 1]
        /\ UNCHANGED <<file, age, waited, crashes, longest>>
    BY <1>1 DEF Request, Goto
  <2>2. Dead(k)' <=> Dead(k)
    BY <1>a, <2>1 DEF Dead, LockTypeOK
  <2>3. CASE c # b
    BY <2>1, <2>2, <2>3, Unnoticed DEF LockTypeOK
  <2>4. CASE c = b
    <3>1. /\ pc'[b] = "stat" /\ waited'[b] = 0
          /\ ahead'[b] = IF file[k] = NoFile THEN 0 ELSE 1
      BY <2>1, <2>4 DEF FileInv, LockTypeOK
    <3>2. CASE file[k] = NoFile
      <4>1. Explained(b)'
        BY <1>a, <2>1, <3>1, <3>2 DEF Explained, WaitTypes
      <4> QED
        BY <3>1, <4>1 DEF WaitInv
    <3>3. CASE file[k] # NoFile
      <4>1. /\ ByAge(b)' = StaleAge + 1
            /\ ByBuilds(b)' = longest + 1 + crashes * (StaleAge + 1)
            /\ crashes * (StaleAge + 1) \in Nat
            /\ crashes > 0 => crashes * (StaleAge + 1) >= StaleAge + 1
        BY <2>1, <3>1, <3>3, Explanations
      <4>2. Dead(k) => crashes > 0
        BY <1>a DEF FileInv
      <4>3. waited'[b] + StaleAge + 1 <= ByAge(b)' + age'[k]
        <5>1. ByAge(b)' = StaleAge + 1
          BY <4>1
        <5>2. age'[k] \in Nat /\ StaleAge \in Nat
          BY <1>a, <2>1 DEF WaitTypes
        <5> QED
          BY <3>1, <5>1, <5>2
      <4>4. waited'[b] + longest' + 1 + (IF Dead(k)' THEN StaleAge + 1 ELSE 0)
              <= ByBuilds(b)' + age'[k]
        <5> DEFINE due == crashes * (StaleAge + 1)
        <5>1. due \in Nat /\ (Dead(k) => due >= StaleAge + 1)
              /\ ByBuilds(b)' = longest + 1 + due
          BY <4>1, <4>2
        <5> HIDE DEF due
        <5> QED
          BY <1>a, <2>1, <2>2, <3>1, <5>1 DEF WaitTypes
      <4>5. Explained(b)'
        BY <2>1, <3>1, <3>3, <4>3, <4>4 DEF Explained
      <4> QED
        BY <3>1, <4>5 DEF WaitInv
    <3> QED
      BY <3>2, <3>3
  <2> QED
    BY <2>3, <2>4
<1>2. CASE Stat(c)
  <2>1. /\ pc[c] = "stat"
        /\ pc' = [pc EXCEPT ![c] = IF Stale(KindOf[c]) THEN "unlink" ELSE "open"]
        /\ UNCHANGED <<file, age, waited, crashes, longest, ahead>>
    BY <1>2 DEF Stat, Goto
  <2>2. Dead(k)' <=> Dead(k)
    BY <1>a, <2>1 DEF Dead, LockTypeOK
  <2>3. CASE c # b
    BY <2>1, <2>2, <2>3, Unnoticed DEF LockTypeOK
  <2>4. CASE c = b
    <3>1. pc[b] = "stat" /\ pc'[b] = IF Stale(k) THEN "unlink" ELSE "open"
      BY <2>1, <2>4 DEF LockTypeOK
    <3>2. ByAge(b)' = ByAge(b) /\ ByBuilds(b)' = ByBuilds(b)
      BY <2>1, Explanations
    <3>3. Explained(b)
      BY <3>1 DEF WaitInv, Waiting
    <3>4. Explained(b)'
      BY <2>1, <2>2, <3>1, <3>2, <3>3 DEF Explained
    <3>5. ~Stale(k) => age[k] <= StaleAge
      BY <1>a DEF Stale, FileInv, WaitTypes
    <3> QED
      BY <2>1, <3>1, <3>4, <3>5 DEF WaitInv
  <2> QED
    BY <2>3, <2>4
<1>3. CASE UnlinkStale(c)
  <2>1. /\ pc[c] = "unlink" /\ pc' = [pc EXCEPT ![c] = "open"]
        /\ file' = [file EXCEPT ![KindOf[c]] = NoFile] /\ age' = [age EXCEPT ![KindOf[c]] = 0]
        /\ UNCHANGED <<waited, crashes, longest, ahead>>
    BY <1>3 DEF UnlinkStale, Unlink, Goto
  <2>2. CASE KindOf[c] = k
    <3>1. file'[k] = NoFile /\ age'[k] = 0
      BY <1>a, <2>1, <2>2 DEF LockTypeOK
    <3>2. pc'[b] = IF c = b THEN "open" ELSE pc[b]
      BY <2>1 DEF LockTypeOK
    <3> QED
      BY <2>1, <3>1, <3>2, Vanishes DEF Waiting
  <2>3. CASE KindOf[c] # k
    <3>1. file'[k] = file[k] /\ age'[k] = age[k] /\ pc'[b] = pc[b]
      BY <1>a, <2>1, <2>3 DEF LockTypeOK
    <3>2. Dead(k)' <=> Dead(k)
      BY <1>a, <1>b, <2>1, <2>3, <3>1 DEF Dead, LockTypeOK
    <3> QED
      BY <2>1, <3>1, <3>2, Unnoticed
  <2> QED
    BY <2>2, <2>3
<1>4. CASE OpenSucceeds(c)
  <2>1. /\ pc[c] = "open" /\ pc' = [pc EXCEPT ![c] = "building"]
        /\ file[KindOf[c]] = NoFile /\ file' = [file EXCEPT ![KindOf[c]] = c]
        /\ waited' = [waited EXCEPT ![c] = 0]
        /\ UNCHANGED <<age, crashes, longest>>
        /\ ahead'[b] = IF c = b THEN 0
                       ELSE IF b \in Waiting /\ k = KindOf[c] THEN ahead[b] + 1 ELSE ahead[b]
    BY <1>4 DEF OpenSucceeds, Goto, Met
  <2>2. CASE c = b
    <3>1. pc'[b] = "building"
      BY <2>1, <2>2 DEF LockTypeOK
    <3> QED
      BY <3>1 DEF WaitInv, Waiting
  <2>3. CASE c # b /\ KindOf[c] # k
    <3>1. /\ file'[k] = file[k] /\ pc'[b] = pc[b] /\ waited'[b] = waited[b]
          /\ ahead'[b] = ahead[b] /\ age'[k] = age[k]
      BY <1>a, <2>1, <2>3 DEF LockTypeOK
    <3>2. Dead(k)' <=> Dead(k)
      BY <1>a, <1>b, <2>1, <2>3, <3>1 DEF Dead, LockTypeOK
    <3> QED
      BY <2>1, <3>1, <3>2, Unnoticed
  <2>4. CASE c # b /\ KindOf[c] = k
    <3>1. /\ file[k] = NoFile /\ age[k] = 0 /\ age'[k] = 0 /\ file'[k] = c /\ c # NoFile
          /\ pc'[b] = pc[b] /\ pc'[c] = "building" /\ waited'[b] = waited[b]
      BY <1>a, <2>1, <2>4, ConstantsAssumption DEF LockTypeOK, FileInv
    <3>2. ~Dead(k)'
      BY <3>1 DEF Dead
    <3>3. CASE b \in Waiting
      <4>1. /\ ahead'[b] = ahead[b] + 1 /\ ByAge(b)' = ByAge(b) + StaleAge + 1
            /\ ByBuilds(b)' = ByBuilds(b) + longest + 1
        BY <2>1, <2>4, <3>3, Explanations
      <4>2. waited[b] <= ByAge(b) /\ waited[b] <= ByBuilds(b)
        BY <1>a, <3>1, <3>3 DEF WaitInv, Explained, WaitTypes
      <4>3. Explained(b)'
        BY <1>a, <2>1, <3>1, <3>2, <4>1, <4>2 DEF Explained, WaitTypes
      <4>4. pc'[b] # "timedOut" /\ age'[k] <= StaleAge
        BY <1>a, <3>1, <3>3 DEF Waiting, WaitTypes
      <4> QED
        BY <4>3, <4>4 DEF WaitInv
    <3>4. CASE b \notin Waiting
      <4>1. /\ ahead'[b] = ahead[b] /\ ByAge(b)' = ByAge(b) /\ ByBuilds(b)' = ByBuilds(b)
        BY <2>1, <2>4, <3>4, Explanations
      <4> QED
        BY <3>1, <3>4, <4>1 DEF WaitInv, Waiting
    <3> QED
      BY <3>3, <3>4
  <2> QED
    BY <2>2, <2>3, <2>4
<1>5. CASE OpenFails(c)
  <2>1. /\ pc[c] = "open" /\ file[KindOf[c]] # NoFile
        /\ pc' = [pc EXCEPT ![c] = IF waited[c] >= MaxWait THEN "timedOut" ELSE "sleep"]
        /\ UNCHANGED <<file, age, waited, crashes, longest, ahead>>
    BY <1>5 DEF OpenFails, Goto
  <2>2. Dead(k)' <=> Dead(k)
    BY <1>a, <2>1 DEF Dead, LockTypeOK
  <2>3. CASE c # b
    BY <2>1, <2>2, <2>3, Unnoticed DEF LockTypeOK
  <2>4. CASE c = b
    <3>1. /\ pc[b] = "open" /\ file[k] # NoFile
          /\ pc'[b] = IF waited[b] >= MaxWait THEN "timedOut" ELSE "sleep"
      BY <2>1, <2>4 DEF LockTypeOK
    <3>2. ByAge(b)' = ByAge(b) /\ ByBuilds(b)' = ByBuilds(b)
      BY <2>1, Explanations
    <3>3. Explained(b) /\ age[k] <= StaleAge
      BY <3>1 DEF WaitInv, Waiting
    <3>4. Explained(b)'
      BY <2>1, <2>2, <3>1, <3>2, <3>3 DEF Explained
    <3>5. waited[b] < ByAge(b) /\ waited[b] < ByBuilds(b)
      <4>1. ~Dead(k) => age[k] <= longest
        BY <1>a, <3>1, LiveIsYoung
      <4> QED
        BY <1>a, <3>1, <3>3, <4>1 DEF Explained, WaitTypes
    <3>6. waited[b] >= MaxWait => MaxWait < ByAge(b) /\ MaxWait < ByBuilds(b)
      BY <1>a, <3>5 DEF WaitTypes
    <3> QED
      BY <2>1, <3>1, <3>2, <3>3, <3>4, <3>6 DEF WaitInv
  <2> QED
    BY <2>3, <2>4
<1>6. CASE Release(c)
  <2>1. /\ pc[c] = "building" /\ pc' = [pc EXCEPT ![c] = "idle"]
        /\ file' = [file EXCEPT ![KindOf[c]] = NoFile] /\ age' = [age EXCEPT ![KindOf[c]] = 0]
        /\ UNCHANGED <<waited, crashes, longest, ahead>>
    BY <1>6 DEF Release, Unlink, Goto
  <2>2. CASE KindOf[c] = k
    <3>1. file'[k] = NoFile /\ age'[k] = 0
      BY <1>a, <2>1, <2>2 DEF LockTypeOK
    <3>2. pc'[b] = IF c = b THEN "idle" ELSE pc[b]
      BY <2>1 DEF LockTypeOK
    <3> QED
      BY <2>1, <3>1, <3>2, Vanishes DEF Waiting
  <2>3. CASE KindOf[c] # k
    <3>1. file'[k] = file[k] /\ age'[k] = age[k] /\ pc'[b] = pc[b]
      BY <1>a, <2>1, <2>3 DEF LockTypeOK
    <3>2. Dead(k)' <=> Dead(k)
      BY <1>a, <1>b, <2>1, <2>3, <3>1 DEF Dead, LockTypeOK
    <3> QED
      BY <2>1, <3>1, <3>2, Unnoticed
  <2> QED
    BY <2>2, <2>3
<1>7. CASE Crash(c)
  <2>1. /\ pc' = [pc EXCEPT ![c] = "idle"] /\ crashes' = crashes + 1
        /\ waited' = [waited EXCEPT ![c] = 0] /\ ahead' = [ahead EXCEPT ![c] = 0]
        /\ UNCHANGED <<file, age, longest>>
    BY <1>7 DEF Crash, Goto
  <2>2. CASE c = b
    <3>1. pc'[b] = "idle"
      BY <2>1, <2>2 DEF LockTypeOK
    <3> QED
      BY <3>1 DEF WaitInv, Waiting
  <2>3. CASE c # b
    <3>1. pc'[b] = pc[b] /\ waited'[b] = waited[b] /\ ahead'[b] = ahead[b]
      BY <2>1, <2>3 DEF LockTypeOK
    <3>2. ByAge(b)' = ByAge(b) /\ ByBuilds(b)' = ByBuilds(b) + StaleAge + 1
      BY <2>1, <3>1, Explanations
    <3>3. CASE b \in Waiting
      <4>1. Explained(b)
        BY <3>3 DEF WaitInv
      <4>2. CASE file[k] = NoFile
        BY <1>a, <2>1, <3>1, <3>2, <3>3, <4>1, <4>2 DEF Explained, WaitTypes, WaitInv, Waiting
      <4>3. CASE file[k] # NoFile
        <5>1. /\ ahead[b] > 0 /\ waited[b] + StaleAge + 1 <= ByAge(b) + age[k]
              /\ waited[b] + longest + 1 <= ByBuilds(b) + age[k]
          BY <1>a, <4>1, <4>3 DEF Explained, WaitTypes
        <5>2. waited'[b] + longest' + 1 + (IF Dead(k)' THEN StaleAge + 1 ELSE 0)
                <= ByBuilds(b)' + age'[k]
          BY <1>a, <2>1, <3>1, <3>2, <5>1 DEF WaitTypes
        <5>3. Explained(b)'
          BY <2>1, <3>1, <3>2, <4>3, <5>1, <5>2 DEF Explained
        <5> QED
          BY <2>1, <3>1, <3>3, <5>3 DEF WaitInv, Waiting
      <4> QED
        BY <4>2, <4>3
    <3>4. CASE b \notin Waiting
      BY <1>a, <3>1, <3>2, <3>4 DEF WaitInv, Waiting, WaitTypes
    <3> QED
      BY <3>3, <3>4
  <2> QED
    BY <2>2, <2>3
<1> QED
  BY <1>1, <1>2, <1>3, <1>4, <1>5, <1>6, <1>7 DEF LockStep, Attempt

\* However builders of a kind come, build, hang and are killed, a builder that
\* reaches the deadline of acquireStaticExportBuildLockSync has met locks that
\* account for its whole wait: at the stale age each, and also at the longest build
\* each with one stale age for every crash.
THEOREM WaitsAccounted == Spec => []WaitAccountedFor
<1> DEFINE Inv == FileInv /\ \A b \in Builder : WaitInv(b)
<1>1. Init => Inv
  <2> SUFFICES ASSUME Init
               PROVE  Inv
    OBVIOUS
  <2>1. \A b \in Builder : pc[b] = "idle" /\ waited[b] = 0 /\ held[b] = 0
    BY DEF Init, LockInit
  <2>2. \A k \in Kind : file[k] = NoFile /\ age[k] = 0
    BY DEF Init, LockInit
  <2>3. FileInv
    BY <2>1, <2>2 DEF FileInv, Dead
  <2>4. \A b \in Builder : WaitInv(b)
    BY <2>1 DEF WaitInv, Waiting
  <2> QED
    BY <2>3, <2>4
<1>2. TypeOK /\ TypeOK' /\ LongestInv /\ Inv /\ [Next]_allVars => Inv'
  <2> SUFFICES ASSUME TypeOK, TypeOK', LongestInv, Inv, [Next]_allVars
               PROVE  Inv'
    OBVIOUS
  <2>1. LockTypeOK /\ LockTypeOK'
    BY DEF TypeOK
  <2>2. FileInv'
    BY <2>1, FileKept
  <2>3. ASSUME NEW b \in Builder
        PROVE  WaitInv(b)'
    <3>1. CASE Tick
      BY <2>1, <3>1, WaitKeptByTick
    <3>2. ASSUME NEW c \in Builder, LockStep(c)
          PROVE  WaitInv(b)'
      BY <2>1, <3>2, WaitKeptByStep
    <3>3. CASE UNCHANGED lockVars
      BY <2>1, <3>3, Unnoticed DEF lockVars, Dead
    <3> QED
      BY <3>1, <3>2, <3>3, LockNext
  <2> QED
    BY <2>2, <2>3
<1>3. Inv => WaitAccountedFor
  BY DEF WaitInv, WaitAccountedFor, ByAge, ByBuilds
<1> HIDE DEF Inv
<1> QED
  BY <1>1, <1>2, <1>3, TypesHold, PTL DEF Spec
-----------------------------------------------------------------------------
(* Each lock serializes the builds of its kind                             *)

\* As long as the promise for kind k holds, its file belongs to the one that builds
\* it, is as old as this build and not stale, and nobody has found it stale.
KindInv(k) ==
  ~lapsed[k] =>
    /\ \A b \in Building : KindOf[b] = k =>
         file[k] = b /\ age[k] = held[b] /\ held[b] <= StaleAge
    /\ file[k] # NoFile => file[k] \in Building /\ KindOf[file[k]] = k
    /\ file[k] = NoFile => age[k] = 0
    /\ \A b \in Builder : KindOf[b] = k =>
         pc[b] # "unlink" /\ (pc[b] # "building" => held[b] = 0)

HistoryTyped == lapsed \in [Kind -> BOOLEAN]

\* What the history adds to a step.
LEMMA HistoryStep ==
  ASSUME HistoryTyped, HistoryNext, NEW k \in Kind
  PROVE  /\ Next /\ HistoryTyped'
         /\ lapsed'[k] <=> lapsed[k] \/ KilledInside(k) \/ Overdue(k)
<1>1. \A j \in Kind : lapsed[j] \in BOOLEAN
  BY DEF HistoryTyped
<1>2. lapsed' = [j \in Kind |-> lapsed[j] \/ KilledInside(j) \/ Overdue(j)]
  BY DEF HistoryNext
<1>3. HistoryTyped'
  <2>1. \A j \in Kind : (lapsed[j] \/ KilledInside(j) \/ Overdue(j)) \in BOOLEAN
    OBVIOUS
  <2> HIDE DEF KilledInside, Overdue
  <2> QED
    BY <1>2, <2>1, Zenon DEF HistoryTyped
<1>4. lapsed'[k] <=> lapsed[k] \/ KilledInside(k) \/ Overdue(k)
  BY <1>1, <1>2, Zenon
<1> QED
  BY <1>3, <1>4 DEF HistoryNext

\* A step of a builder of another kind, or of no builder, changes nothing here.
Elsewhere(k) ==
  /\ \A b \in Builder : KindOf[b] = k => pc'[b] = pc[b] /\ held'[b] = held[b]
  /\ file'[k] = file[k] /\ age'[k] = age[k]

LEMMA ElsewhereStep ==
  ASSUME LockTypeOK, NEW k \in Kind,
         UNCHANGED lockVars \/ \E b \in Builder : LockStep(b) /\ KindOf[b] # k
  PROVE  Elsewhere(k)
<1>1. CASE UNCHANGED lockVars
  BY <1>1 DEF lockVars, Elsewhere
<1>2. ASSUME NEW b \in Builder, LockStep(b), KindOf[b] # k
      PROVE  Elsewhere(k)
  <2> USE ConstantsAssumption DEF LockTypeOK, Elsewhere, Goto, Unlink
  <2>1. CASE Request(b)
    BY <1>2, <2>1 DEF Request
  <2>2. CASE Stat(b)
    BY <1>2, <2>2 DEF Stat
  <2>3. CASE UnlinkStale(b)
    BY <1>2, <2>3 DEF UnlinkStale
  <2>4. CASE OpenFails(b)
    BY <1>2, <2>4 DEF OpenFails
  <2>5. CASE OpenSucceeds(b)
    BY <1>2, <2>5 DEF OpenSucceeds
  <2>6. CASE Release(b)
    BY <1>2, <2>6 DEF Release
  <2>7. CASE Crash(b)
    BY <1>2, <2>7 DEF Crash
  <2> QED
    BY <1>2, <2>1, <2>2, <2>3, <2>4, <2>5, <2>6, <2>7 DEF LockStep, Attempt
<1> QED
  BY <1>1, <1>2

\* There the promise holds on or stays lapsed.
LEMMA ElsewhereKept ==
  ASSUME LockTypeOK, HistoryTyped, NEW k \in Kind, KindInv(k), HistoryNext, Elsewhere(k)
  PROVE  KindInv(k)' /\ lapsed'[k] = lapsed[k]
<1>1. ~KilledInside(k)
  BY DEF KilledInside, Elsewhere, Building
<1>2. Overdue(k) => lapsed[k]
  BY ConstantsAssumption DEF Overdue, Elsewhere, KindInv, Building, LockTypeOK
<1>3. lapsed'[k] <=> lapsed[k]
  BY <1>1, <1>2, HistoryStep
<1>4. lapsed'[k] = lapsed[k]
  BY <1>3, HistoryStep DEF HistoryTyped
<1>5. ASSUME ~lapsed[k]
      PROVE  /\ \A b \in Building' : KindOf[b] = k =>
                  file'[k] = b /\ age'[k] = held'[b] /\ held'[b] <= StaleAge
             /\ file'[k] # NoFile => file'[k] \in Building' /\ KindOf[file'[k]] = k
             /\ file'[k] = NoFile => age'[k] = 0
             /\ \A b \in Builder : KindOf[b] = k =>
                  pc'[b] # "unlink" /\ (pc'[b] # "building" => held'[b] = 0)
  BY <1>5 DEF Elsewhere, KindInv, Building
<1> QED
  BY <1>4, <1>5 DEF KindInv

LEMMA KindKept ==
  ASSUME LockTypeOK, HistoryTyped, NEW k \in Kind, KindInv(k), HistoryNext
  PROVE  KindInv(k)'
<1> SUFFICES ASSUME ~lapsed'[k]
             PROVE  KindInv(k)'
  BY DEF KindInv
<1>1. ~lapsed[k] /\ ~KilledInside(k) /\ ~Overdue(k) /\ [Next]_allVars
  BY HistoryStep
<1>2. /\ \A b \in Building : KindOf[b] = k =>
           file[k] = b /\ age[k] = held[b] /\ held[b] <= StaleAge
      /\ file[k] # NoFile => file[k] \in Building /\ KindOf[file[k]] = k
      /\ file[k] = NoFile => age[k] = 0
      /\ \A b \in Builder : KindOf[b] = k =>
           pc[b] # "unlink" /\ (pc[b] # "building" => held[b] = 0)
  BY <1>1 DEF KindInv
<1> USE ConstantsAssumption DEF LockTypeOK, KindInv, Goto, Unlink, Building
<1>3. CASE Tick
  BY <1>1, <1>2, <1>3 DEF Tick, Overdue
<1>4. ASSUME NEW b \in Builder, LockStep(b), KindOf[b] = k
      PROVE  KindInv(k)'
  <2>1. CASE Request(b)
    BY <1>2, <1>4, <2>1 DEF Request
  <2>2. CASE Stat(b)
    BY <1>2, <1>4, <2>2 DEF Stat, Stale
  <2>3. CASE UnlinkStale(b)
    BY <1>2, <1>4, <2>3 DEF UnlinkStale
  <2>4. CASE OpenFails(b)
    BY <1>2, <1>4, <2>4 DEF OpenFails
  <2>5. CASE OpenSucceeds(b)
    BY <1>2, <1>4, <2>5 DEF OpenSucceeds
  <2>6. CASE Release(b)
    BY <1>2, <1>4, <2>6 DEF Release
  <2>7. CASE Crash(b)
    BY <1>1, <1>2, <1>4, <2>7 DEF Crash, KilledInside
  <2> QED
    BY <1>4, <2>1, <2>2, <2>3, <2>4, <2>5, <2>6, <2>7 DEF LockStep, Attempt
<1>5. CASE UNCHANGED lockVars \/ \E b \in Builder : LockStep(b) /\ KindOf[b] # k
  BY <1>5, ElsewhereStep, ElsewhereKept
<1> QED
  BY <1>1, <1>3, <1>4, <1>5, LockNext

\* What the abstract lock of kind k sees of a step of builder b.
LEMMA PhaseStep ==
  ASSUME NEW k \in Kind, NEW b \in Builder, NEW p,
         LockTypeOK, pc' = [pc EXCEPT ![b] = p], KindOf[b] = k
  PROVE  LET phase == [c \in OfKind(k) |-> PhaseOf(c)] IN
         /\ b \in OfKind(k)
         /\ phase' = [phase EXCEPT ![b] = PhaseOf(b)']
         /\ phase[b] = PhaseOf(b)
<1>1. \A c \in OfKind(k) : c # b => PhaseOf(c)' = PhaseOf(c)
  BY DEF PhaseOf, Waiting, OfKind, LockTypeOK
<1> QED
  BY <1>1 DEF OfKind

\* What b's own step does to the promise of its kind.
LEMMA OwnLapse ==
  ASSUME LockTypeOK, HistoryTyped, HistoryNext, NEW k \in Kind, KindInv(k), NEW b \in Builder,
         KindOf[b] = k, LockStep(b)
  PROVE  /\ Crash(b) /\ pc[b] = "building" => lapsed'[k] = TRUE
         /\ ~(Crash(b) /\ pc[b] = "building") => lapsed'[k] = lapsed[k]
<1>1. lapsed'[k] \in BOOLEAN /\ lapsed[k] \in BOOLEAN
  BY HistoryStep DEF HistoryTyped
<1>2. ASSUME Crash(b), pc[b] = "building"
      PROVE  lapsed'[k] = TRUE
  <2>1. KilledInside(k)
    BY <1>2 DEF Crash, Goto, KilledInside, Building, LockTypeOK
  <2> QED
    BY <1>1, <2>1, HistoryStep
<1>3. ASSUME ~(Crash(b) /\ pc[b] = "building")
      PROVE  lapsed'[k] = lapsed[k]
  <2> USE ConstantsAssumption DEF LockTypeOK, Goto, Unlink, Building
  <2>1. ~KilledInside(k)
    BY <1>3 DEF LockStep, Attempt, Request, Stat, UnlinkStale, OpenFails, OpenSucceeds, Release,
       Crash, KilledInside
  <2>2. \A c \in Builder : held'[c] = held[c] \/ held'[c] = 0
    BY DEF LockStep, Attempt, Request, Stat, UnlinkStale, OpenFails, OpenSucceeds, Release, Crash
  <2>3. Overdue(k) => lapsed[k]
    BY <2>2 DEF Overdue, KindInv
  <2> QED
    BY <1>1, <2>1, <2>3, HistoryStep
<1> QED
  BY <1>2, <1>3

LEMMA SerialStep ==
  ASSUME LockTypeOK, HistoryTyped, NEW k \in Kind, KindInv(k), HistoryNext
  PROVE  [Serial(k)!Next]_(Serial(k)!vars)
<1> DEFINE phase == [c \in OfKind(k) |-> PhaseOf(c)]
<1>1. CASE Tick
  <2>1. phase' = phase
    BY <1>1 DEF Tick, PhaseOf, Waiting, OfKind, LockTypeOK
  <2>2. ~KilledInside(k)
    BY <1>1 DEF Tick, KilledInside
  <2>3. CASE lapsed'[k] = lapsed[k]
    BY <2>1, <2>3 DEF Serial!vars
  <2>4. CASE lapsed'[k] # lapsed[k]
    <3>1. Overdue(k) /\ lapsed'[k] = TRUE
      BY <2>2, <2>4, HistoryStep DEF HistoryTyped
    <3>2. \E c \in OfKind(k) : phase[c] = "in"
      BY <3>1 DEF Overdue, Building, OfKind, PhaseOf
    <3> QED
      BY <2>1, <3>1, <3>2 DEF Serial!Next, Serial!Outstay
  <2> QED
    BY <2>3, <2>4
<1>2. ASSUME NEW b \in Builder, LockStep(b), KindOf[b] = k
      PROVE  [Serial(k)!Next]_(Serial(k)!vars)
  <2> DEFINE into(p) == phase' = [phase EXCEPT ![b] = p]
  <2>a. b \in OfKind(k) /\ phase[b] = PhaseOf(b)
    BY <1>2 DEF OfKind
  <2>b. ASSUME NEW p, pc' = [pc EXCEPT ![b] = p]
        PROVE  into(PhaseOf(b)') /\ pc'[b] = p
    BY <1>2, <2>b, PhaseStep DEF LockTypeOK
  <2>c. phase = [phase EXCEPT ![b] = phase[b]]
    OBVIOUS
  <2> HIDE DEF phase
  <2>1. CASE Request(b)
    <3>1. PhaseOf(b) = "out" /\ into("waiting") /\ lapsed'[k] = lapsed[k]
      BY <1>2, <2>1, <2>b, OwnLapse DEF Request, Goto, PhaseOf, Waiting, Crash
    <3> QED
      BY <2>a, <3>1 DEF phase, Serial!Next, Serial!Ask, Serial!Become
  <2>2. CASE Stat(b) \/ UnlinkStale(b) \/ OpenFails(b)
    <3>1. PhaseOf(b) = "waiting" /\ lapsed'[k] = lapsed[k]
      BY <1>2, <2>2, OwnLapse DEF Stat, UnlinkStale, OpenFails, Goto, PhaseOf, Waiting, Crash,
         LockTypeOK
    <3>2. into("waiting") \/ into("out")
      BY <1>2, <2>2, <2>b DEF Stat, UnlinkStale, OpenFails, Goto, PhaseOf, Waiting
    <3>3. CASE into("waiting")
      BY <2>a, <2>c, <3>1, <3>3 DEF phase, Serial!vars
    <3>4. CASE into("out")
      <4>1. lapsed'[k] = (lapsed[k] \/ PhaseOf(b) = "in")
        BY <3>1 DEF HistoryTyped
      <4> QED
        BY <2>a, <3>1, <3>4, <4>1 DEF phase, Serial!Next, Serial!Die, Serial!Become
    <3> QED
      BY <3>2, <3>3, <3>4
  <2>3. CASE OpenSucceeds(b)
    <3>1. PhaseOf(b) = "waiting" /\ into("in") /\ lapsed'[k] = lapsed[k]
      BY <1>2, <2>3, <2>b, OwnLapse DEF OpenSucceeds, Goto, PhaseOf, Waiting, Crash
    <3>2. lapsed[k] \/ \A c \in OfKind(k) : phase[c] # "in"
      BY <1>2, <2>3, ConstantsAssumption
      DEF OpenSucceeds, KindInv, phase, PhaseOf, OfKind, Building, LockTypeOK
    <3> QED
      BY <2>a, <3>1, <3>2 DEF phase, Serial!Next, Serial!Enter, Serial!Become
  <2>4. CASE Release(b)
    <3>1. PhaseOf(b) = "in" /\ into("out")
      <4>1. pc[b] = "building" /\ pc' = [pc EXCEPT ![b] = "idle"]
        BY <2>4 DEF Release, Goto
      <4>2. into(PhaseOf(b)') /\ pc'[b] = "idle"
        BY <2>b, <4>1
      <4> QED
        BY <4>1, <4>2 DEF PhaseOf, Waiting
    <3>2. lapsed'[k] = lapsed[k]
      <4>1. ~Crash(b)
        BY <2>4, ConstantsAssumption DEF Release, Crash, LockTypeOK
      <4> QED
        BY <1>2, <4>1, OwnLapse
    <3> QED
      BY <2>a, <3>1, <3>2 DEF phase, Serial!Next, Serial!Leave, Serial!Become
  <2>5. CASE Crash(b)
    <3>1. into("out")
      BY <2>5, <2>b DEF Crash, Goto, PhaseOf, Waiting
    <3>2. CASE PhaseOf(b) = "out"
      <4>1. lapsed'[k] = lapsed[k]
        BY <1>2, <3>2, OwnLapse DEF PhaseOf
      <4> QED
        BY <2>a, <2>c, <3>1, <3>2, <4>1 DEF phase, Serial!vars
    <3>3. CASE PhaseOf(b) # "out"
      <4>1. lapsed'[k] = (lapsed[k] \/ PhaseOf(b) = "in")
        BY <1>2, <2>5, OwnLapse DEF PhaseOf, HistoryTyped
      <4> QED
        BY <2>a, <3>1, <3>3, <4>1 DEF phase, Serial!Next, Serial!Die, Serial!Become
    <3> QED
      BY <3>2, <3>3
  <2> QED
    BY <1>2, <2>1, <2>2, <2>3, <2>4, <2>5 DEF LockStep, Attempt
<1>3. CASE UNCHANGED lockVars \/ \E b \in Builder : LockStep(b) /\ KindOf[b] # k
  <2>1. Elsewhere(k) /\ lapsed'[k] = lapsed[k]
    BY <1>3, ElsewhereStep, ElsewhereKept
  <2>2. phase' = phase
    BY <2>1 DEF Elsewhere, PhaseOf, Waiting, OfKind
  <2> QED
    BY <2>1, <2>2 DEF Serial!vars
<1>4. [Next]_allVars
  BY DEF HistoryNext
<1> QED
  BY <1>1, <1>2, <1>3, <1>4, LockNext

\* The history takes no part in what the builders do.
LEMMA HistoryAside == HistorySpec => Spec
<1>1. HistoryInit => Init
  BY DEF HistoryInit
<1>2. [HistoryNext]_historyVars => [Next]_allVars
  BY DEF HistoryNext, historyVars
<1> QED
  BY <1>1, <1>2, PTL DEF HistorySpec, Spec

KindHolds(k) == HistoryTyped /\ KindInv(k)

LEMMA KindStands ==
  ASSUME NEW k \in Kind
  PROVE  HistorySpec => [](TypeOK /\ KindHolds(k))
<1>1. HistoryInit => KindHolds(k)
  BY DEF HistoryInit, HistoryTyped, Init, LockInit, KindInv, Building, KindHolds
<1>2. TypeOK /\ KindHolds(k) /\ [HistoryNext]_historyVars => KindHolds(k)'
  <2> SUFFICES ASSUME TypeOK, KindHolds(k), [HistoryNext]_historyVars
               PROVE  KindHolds(k)'
    OBVIOUS
  <2>1. CASE HistoryNext
    BY <2>1, HistoryStep, KindKept DEF TypeOK, KindHolds
  <2>2. CASE UNCHANGED historyVars
    BY <2>2 DEF historyVars, allVars, lockVars, HistoryTyped, KindInv, Building, KindHolds
  <2> QED
    BY <2>1, <2>2
<1> QED
  BY <1>1, <1>2, HistoryAside, TypeCorrect, PTL DEF HistorySpec

\* The build lock of each kind serializes the builds of its kind, as the abstract
\* lock does: the file lock breaks the promise of acquire...BuildLockSync in no other
\* way than by a process killed in a build or a build that outlasts the stale age,
\* of this kind; what waiters and builds of the other kind do cannot break it.
THEOREM LocksSerialize ==
  ASSUME NEW k \in Kind
  PROVE  HistorySpec => Serial(k)!Spec
<1>1. HistoryInit => Serial(k)!Init
  BY DEF Serial!Init, HistoryInit, OfKind, PhaseOf, Init, LockInit, Waiting
<1>2. TypeOK /\ KindHolds(k) /\ [HistoryNext]_historyVars => [Serial(k)!Next]_(Serial(k)!vars)
  <2> SUFFICES ASSUME TypeOK, KindHolds(k), [HistoryNext]_historyVars
               PROVE  [Serial(k)!Next]_(Serial(k)!vars)
    OBVIOUS
  <2>1. CASE HistoryNext
    BY <2>1, SerialStep DEF TypeOK, KindHolds
  <2>2. CASE UNCHANGED historyVars
    BY <2>2 DEF historyVars, allVars, lockVars, PhaseOf, Waiting, OfKind, Serial!vars
  <2> QED
    BY <2>1, <2>2
<1> QED
  BY <1>1, <1>2, KindStands, PTL DEF HistorySpec, Serial!Spec

\* So builds of a kind exclude each other until one of them is killed or outlasts
\* the stale age: a waiter that is killed, and builds of the other kind that are
\* killed or hang, do not matter.
THEOREM KindsExclude ==
  ASSUME NEW k \in Kind
  PROVE  HistorySpec => []Serial(k)!Exclusive
<1>1. KindHolds(k) => Serial(k)!Exclusive
  BY DEF KindHolds, KindInv, Serial!Exclusive, OfKind, PhaseOf, Building
<1> QED
  BY <1>1, KindStands, PTL
=============================================================================
