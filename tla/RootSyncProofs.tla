--------------------------- MODULE RootSyncProofs ---------------------------
(***************************************************************************)
(* The root checkout for all constants: type correctness, no edit of the     *)
(* root is lost, main moves forward, the work of the lanes is kept, and a    *)
(* setup that meets nothing unusual succeeds.                               *)
(***************************************************************************)
EXTENDS RootSync, TLAPS

\* A remote's commit up to main of the remote.
OnRemote(commit) ==
  commit # NoCommit => commit.by = "remote" /\ commit.at <= origin

\* Of the refs: what is checked out or about to be merged exists, what a setup or a fetch knows of the
\* remote is no later than the remote, main has at most a commit of the root on
\* top of it, and a setup about to write main goes forward from what it has seen.
RefsInv ==
  /\ onMain => main # NoCommit
  /\ \A l \in Lane : worktree[l] = "whole" => branch[l] # NoCommit
  /\ lag # "no" => tracking # NoCommit
  /\ OnRemote(tracking) /\ \A l \in Lane : OnRemote(target[l])
  /\ main # NoCommit => main.by \in {"remote", "root"} /\ main.at <= origin
  /\ \A l \in Lane : pc[l] \in {"read", "write"} => target[l] # NoCommit
  /\ \A l \in Lane :
       pc[l] = "write" => seen[l] = NoCommit \/ Descends(target[l], seen[l])

\* Of a setup that has met nothing unusual so far: it is the only one, it has
\* stashed what the root directory showed, it knows the remote's main as it is,
\* and it leaves its own main there.
CalmInv ==
  \A l \in Lane : calm = l =>
    /\ \A m \in Lane \ {l} : pc[m] = "idle"
    /\ pc[l] \in {"fetch", "lsRemote", "read", "write"} => dirty = {} /\ ~Lags
    /\ pc[l] \in {"lsRemote", "read", "write"} => tracking = Remote(origin)
    /\ pc[l] \in {"read", "write"} => target[l] = Remote(origin)
    /\ pc[l] = "worktree" =>
         main # NoCommit /\ (main = Remote(origin) \/ main.by = "root")

LEMMA RemoteIsCommit ==
  ASSUME NEW n \in 0..MaxMerges
  PROVE  /\ Remote(n) \in Commit /\ Remote(n) # NoCommit
         /\ Remote(n).at = n /\ Remote(n).by = "remote"
BY RootAssumption, NoCommitAssumption DEF Remote, Commit

LEMMA Owned ==
  ASSUME NEW c \in Commit, NEW who \in {"remote", "root"} \cup Lane
  PROVE  LET own == [c EXCEPT !.by = who] IN
         own \in Commit /\ own # NoCommit /\ own.at = c.at /\ own.by = who
BY RootAssumption, NoCommitAssumption DEF Commit

\* The shapes and the facts about refs hold at first.
LEMMA InitTyped ==
  ASSUME Init
  PROVE  TypeOK /\ RefsInv
<1> USE RootAssumption, NoCommitAssumption
<1>1. 0 \in 0..MaxMerges
  OBVIOUS
<1>2. Remote(0) \in Commit /\ Remote(0) # NoCommit /\ Remote(0).at = 0 /\ Remote(0).by = "remote"
  BY <1>1, RemoteIsCommit
<1>3. onMain \in BOOLEAN /\ {tracking, main, index} \subseteq Ref
  BY <1>2 DEF Init, Ref
<1>4. branch \in [Lane -> Ref] /\ worktree \in [Lane -> Path]
  BY <1>2 DEF Init, Ref, Path
<1>5. DOMAIN found \subseteq Lane /\ found \in [DOMAIN found -> {"remove", "gone"}]
  BY DEF Init, NothingFound
<1>6. TypeOK
  BY <1>3, <1>4, <1>5 DEF Init, TypeOK, RootTypeOK, RefTypeOK, SetupTypeOK, LaneTypeOK,
     SweepTypeOK, Ref, Step
<1>7. RefsInv
  BY <1>2 DEF Init, RefsInv, OnRemote
<1> QED
  BY <1>6, <1>7

LEMMA Typed ==
  ASSUME TypeOK, RefsInv, [Next]_vars
  PROVE  TypeOK'
<1> USE RootAssumption DEF TypeOK, vars, rootVars, refVars, setupVars, laneVars,
        sweepVars, Goto, Leave, Calm, Disturbed
<1>0. Remote(origin) \in Ref /\ NoCommit \in Ref
  BY RemoteIsCommit DEF Ref, RefTypeOK
<1>1. ASSUME NEW l \in Lane, Setup(l)
      PROVE  TypeOK'
  <2>1. CASE StashRoot(l)
    <3>1. RootTypeOK'
      BY <1>0, <2>1 DEF StashRoot, RootTypeOK, RefTypeOK
    <3>2. SetupTypeOK'
      BY <1>0, <2>1 DEF StashRoot, SetupTypeOK, Step
    <3> QED
      BY <2>1, <3>1, <3>2 DEF StashRoot, RefTypeOK, LaneTypeOK, SweepTypeOK
  <2>2. CASE Fetch(l)
    <3>1. RefTypeOK'
      BY <1>0, <2>2 DEF Fetch, RefTypeOK
    <3>2. SetupTypeOK'
      BY <1>0, <2>2 DEF Fetch, SetupTypeOK, Step
    <3> QED
      BY <2>2, <3>1, <3>2 DEF Fetch, RootTypeOK, LaneTypeOK, SweepTypeOK
  <2>3. CASE FetchFails(l)
    <3>1. SetupTypeOK'
      BY <1>0, <2>3 DEF FetchFails, SetupTypeOK, Step, RefTypeOK
    <3> QED
      BY <2>3, <3>1 DEF FetchFails, RootTypeOK, RefTypeOK, LaneTypeOK, SweepTypeOK
  <2>4. CASE LsRemote(l)
    <3>1. SetupTypeOK'
      BY <1>0, <2>4 DEF LsRemote, SetupTypeOK, Step
    <3> QED
      BY <2>4, <3>1 DEF LsRemote, RootTypeOK, RefTypeOK, LaneTypeOK, SweepTypeOK
  <2>5. CASE LsRemoteFails(l)
    <3>1. SetupTypeOK'
      BY <1>0, <2>5 DEF LsRemoteFails, SetupTypeOK, Step
    <3> QED
      BY <2>5, <3>1 DEF LsRemoteFails, RootTypeOK, RefTypeOK, LaneTypeOK, SweepTypeOK
  <2>6. CASE ReadMain(l)
    <3>1. SetupTypeOK'
      BY <1>0, <2>6 DEF ReadMain, SetupTypeOK, Step, RefTypeOK
    <3> QED
      BY <2>6, <3>1 DEF ReadMain, RootTypeOK, RefTypeOK, LaneTypeOK, SweepTypeOK
  <2>7. CASE WriteMain(l)
    <3>1. RefTypeOK'
      BY <1>0, <2>7 DEF WriteMain, RefTypeOK, SetupTypeOK
    <3>2. SetupTypeOK'
      BY <1>0, <2>7 DEF WriteMain, SetupTypeOK, Step
    <3> QED
      BY <2>7, <3>1, <3>2 DEF WriteMain, RootTypeOK, LaneTypeOK, SweepTypeOK
  <2>8. CASE Reuse(l)
    <3>1. SetupTypeOK'
      BY <1>0, <2>8 DEF Reuse, SetupTypeOK, Step
    <3>2. LaneTypeOK'
      BY <1>0, <2>8 DEF Reuse, LaneTypeOK, Pruned
    <3> QED
      BY <2>8, <3>1, <3>2 DEF Reuse, RootTypeOK, RefTypeOK, SweepTypeOK
  <2>9. CASE RemoveStale(l)
    <3>1. SetupTypeOK'
      BY <1>0, <2>9 DEF RemoveStale, SetupTypeOK, Step
    <3>2. LaneTypeOK'
      BY <1>0, <2>9 DEF RemoveStale, LaneTypeOK, Path, Pruned
    <3> QED
      BY <2>9, <3>1, <3>2 DEF RemoveStale, RootTypeOK, RefTypeOK, SweepTypeOK
  <2>10. CASE AddWorktree(l)
    <3>1. SetupTypeOK'
      BY <1>0, <2>10 DEF AddWorktree, SetupTypeOK, Step
    <3>2. LaneTypeOK'
      <4>1. Start(l) \in Ref
        BY RemoteIsCommit DEF Start, LaneTypeOK, RefTypeOK, Ref, Commit
      <4> QED
        BY <2>10, <4>1 DEF AddWorktree, LaneTypeOK, Path, Pruned, MayAdd
    <3> QED
      BY <2>10, <3>1, <3>2 DEF AddWorktree, RootTypeOK, RefTypeOK, SweepTypeOK
  <2>11. CASE Fail(l)
    <3>1. SetupTypeOK'
      BY <1>0, <2>11 DEF Fail, SetupTypeOK, Step
    <3> QED
      BY <2>11, <3>1 DEF Fail, RootTypeOK, RefTypeOK, LaneTypeOK, SweepTypeOK
  <2> QED
    BY <1>1, <2>1, <2>2, <2>3, <2>4, <2>5, <2>6, <2>7, <2>8, <2>9, <2>10, <2>11 DEF Setup
<1>2. ASSUME NEW l \in Lane, Work(l)
      PROVE  TypeOK'
  <2>1. LaneTypeOK'
    BY <1>0, <1>2 DEF Work, LaneTypeOK
  <2> QED
    BY <1>2, <2>1 DEF Work, RootTypeOK, RefTypeOK, SetupTypeOK, SweepTypeOK
<1>3. ASSUME NEW l \in Lane, CommitWork(l)
      PROVE  TypeOK'
  <2>1. LaneTypeOK'
    <3>1. [branch[l] EXCEPT !.by = l] \in Commit
      BY <1>3, Owned DEF CommitWork, RefsInv, LaneTypeOK, Ref
    <3> QED
      BY <1>3, <3>1 DEF CommitWork, LaneTypeOK, Ref
  <2> QED
    BY <1>3, <2>1 DEF CommitWork, RootTypeOK, RefTypeOK, SetupTypeOK, SweepTypeOK
<1>4. ASSUME NEW l \in Lane, RemoveMerged(l)
      PROVE  TypeOK'
  <2>1. SetupTypeOK'
    BY <1>0, <1>4 DEF RemoveMerged, SetupTypeOK
  <2>2. LaneTypeOK'
    BY <1>0, <1>4 DEF RemoveMerged, LaneTypeOK, Path, ToRemove
  <2>3. SweepTypeOK'
    BY <1>0, <1>4 DEF RemoveMerged, SweepTypeOK
  <2> QED
    BY <1>4, <2>1, <2>2, <2>3 DEF RemoveMerged, RootTypeOK, RefTypeOK
<1>5. ASSUME NEW l \in Lane, Refused(l)
      PROVE  TypeOK'
  <2>1. SweepTypeOK'
    BY <1>0, <1>5 DEF Refused, SweepTypeOK, SweepOver, NothingFound
  <2> QED
    BY <1>5, <2>1 DEF Refused, RootTypeOK, RefTypeOK, SetupTypeOK, LaneTypeOK
<1>6. CASE Merge
  <2>1. RefTypeOK'
    BY <1>0, <1>6 DEF Merge, RefTypeOK
  <2>2. SetupTypeOK'
    BY <1>0, <1>6 DEF Merge, SetupTypeOK
  <2>3. LaneTypeOK'
    <3>1. CASE UNCHANGED branch
      BY <1>6, <3>1 DEF Merge, LaneTypeOK
    <3>2. CASE ~UNCHANGED branch
      <4>1. Remote(origin + 1) \in Ref
        BY <1>6, RemoteIsCommit DEF Merge, RefTypeOK, Ref
      <4> QED
        BY <1>6, <3>2, <4>1 DEF Merge, LaneTypeOK
    <3> QED
      BY <3>1, <3>2
  <2> QED
    BY <1>6, <2>1, <2>2, <2>3 DEF Merge, RootTypeOK, SweepTypeOK
<1>7. CASE EditRoot
  <2>1. RootTypeOK'
    BY <1>0, <1>7 DEF EditRoot, RootTypeOK
  <2>2. SetupTypeOK'
    BY <1>0, <1>7 DEF EditRoot, SetupTypeOK
  <2> QED
    BY <1>7, <2>1, <2>2 DEF EditRoot, RefTypeOK, LaneTypeOK, SweepTypeOK
<1>8. CASE CommitRoot
  <2>0. [main EXCEPT !.by = "root"] \in Ref
    BY <1>8, Owned DEF CommitRoot, RefsInv, RefTypeOK, Ref
  <2>1. RootTypeOK'
    BY <1>8, <2>0 DEF CommitRoot, RootTypeOK
  <2>2. RefTypeOK'
    BY <1>8, <2>0 DEF CommitRoot, RefTypeOK
  <2>3. SetupTypeOK'
    BY <1>0, <1>8 DEF CommitRoot, SetupTypeOK
  <2> QED
    BY <1>8, <2>1, <2>2, <2>3 DEF CommitRoot, LaneTypeOK, SweepTypeOK
<1>9. CASE ListMerged
  <2>1. SweepTypeOK'
    BY <1>0, <1>9 DEF ListMerged, SweepTypeOK, Candidates, Verdict, Status, LaneTypeOK
  <2> QED
    BY <1>9, <2>1 DEF ListMerged, RootTypeOK, RefTypeOK, SetupTypeOK, LaneTypeOK
<1>10. CASE EndSweep
  <2>1. LaneTypeOK'
    BY <1>0, <1>10 DEF EndSweep, LaneTypeOK, Pruned
  <2>2. SweepTypeOK'
    BY <1>0, <1>10 DEF EndSweep, SweepTypeOK, SweepOver, NothingFound
  <2> QED
    BY <1>10, <2>1, <2>2 DEF EndSweep, RootTypeOK, RefTypeOK, SetupTypeOK
<1>11. CASE DecideSync
  <2>1. SweepTypeOK'
    BY <1>0, <1>11 DEF DecideSync, SweepTypeOK, BeginReconciliation
  <2> QED
    BY <1>11, <2>1 DEF DecideSync, RootTypeOK, RefTypeOK, SetupTypeOK, LaneTypeOK
<1>12. CASE RecordNote
  <2>1. RootTypeOK'
    BY <1>0, <1>12 DEF RecordNote, RootTypeOK
  <2>2. SetupTypeOK'
    BY <1>0, <1>12 DEF RecordNote, SetupTypeOK
  <2>3. SweepTypeOK'
    BY <1>0, <1>12 DEF RecordNote, SweepTypeOK, BeginReconciliation
  <2> QED
    BY <1>12, <2>1, <2>2, <2>3 DEF RecordNote, RefTypeOK, LaneTypeOK
<1>13. CASE FetchForSync
  <2>1. RefTypeOK'
    BY <1>0, <1>13 DEF FetchForSync, RefTypeOK
  <2>2. SweepTypeOK'
    BY <1>0, <1>13 DEF FetchForSync, SweepTypeOK
  <2> QED
    BY <1>13, <2>1, <2>2 DEF FetchForSync, RootTypeOK, SetupTypeOK, LaneTypeOK
<1>14. CASE MergeForward
  <2>1. RootTypeOK'
    BY <1>0, <1>14 DEF MergeForward, RootTypeOK, RefTypeOK
  <2>2. RefTypeOK'
    BY <1>0, <1>14 DEF MergeForward, RefTypeOK
  <2>3. SetupTypeOK'
    BY <1>0, <1>14 DEF MergeForward, SetupTypeOK
  <2>4. SweepTypeOK'
    BY <1>0, <1>14 DEF MergeForward, SweepTypeOK
  <2> QED
    BY <1>14, <2>1, <2>2, <2>3, <2>4 DEF MergeForward, LaneTypeOK
<1>15. CASE UNCHANGED vars
  BY <1>15 DEF RootTypeOK, RefTypeOK, SetupTypeOK, LaneTypeOK, SweepTypeOK
<1> QED
  BY <1>1, <1>2, <1>3, <1>4, <1>5, <1>6, <1>7, <1>8, <1>9, <1>10, <1>11, <1>12, <1>13, <1>14, <1>15 DEF Next, Reconciliation

LEMMA RefsInductive ==
  ASSUME TypeOK, RefsInv, [Next]_vars
  PROVE  RefsInv'
<1> USE RootAssumption DEF TypeOK, RootTypeOK, RefTypeOK, SetupTypeOK, LaneTypeOK, SweepTypeOK, RefsInv, OnRemote, vars, rootVars,
        refVars, setupVars, laneVars, sweepVars, Goto, Leave, Ref
<1>0. /\ Remote(origin) # NoCommit
      /\ Remote(origin).by = "remote" /\ Remote(origin).at = origin
  BY RemoteIsCommit
<1>1. ASSUME NEW l \in Lane, Setup(l)
      PROVE  RefsInv'
  <2>1. CASE StashRoot(l)
    BY <1>0, <2>1 DEF StashRoot
  <2>2. CASE Fetch(l)
    BY <1>0, <2>2 DEF Fetch
  <2>3. CASE FetchFails(l)
    BY <1>0, <2>3 DEF FetchFails
  <2>4. CASE LsRemote(l)
    BY <1>0, <2>4 DEF LsRemote
  <2>5. CASE LsRemoteFails(l)
    BY <1>0, <2>5 DEF LsRemoteFails
  <2>6. CASE ReadMain(l)
    BY <1>0, <2>6 DEF ReadMain, MayForward
  <2>7. CASE WriteMain(l)
    BY <1>0, <2>7 DEF WriteMain
  <2>8. CASE Reuse(l)
    BY <1>0, <2>8 DEF Reuse
  <2>9. CASE RemoveStale(l)
    BY <1>0, <2>9 DEF RemoveStale
  <2>10. CASE AddWorktree(l)
    BY <1>0, <2>10 DEF AddWorktree, MayAdd
  <2>11. CASE Fail(l)
    BY <1>0, <2>11 DEF Fail
  <2> QED
    BY <1>1, <2>1, <2>2, <2>3, <2>4, <2>5, <2>6, <2>7, <2>8, <2>9, <2>10, <2>11 DEF Setup
<1>2. ASSUME NEW l \in Lane, Work(l)
      PROVE  RefsInv'
  BY <1>0, <1>2 DEF Work
<1>3. ASSUME NEW l \in Lane, CommitWork(l)
      PROVE  RefsInv'
  <2>1. [branch[l] EXCEPT !.by = l] # NoCommit
    BY <1>3, Owned DEF CommitWork
  <2> QED
    BY <1>3, <2>1 DEF CommitWork
<1>4. ASSUME NEW l \in Lane, RemoveMerged(l)
      PROVE  RefsInv'
  BY <1>0, <1>4 DEF RemoveMerged
<1>5. ASSUME NEW l \in Lane, Refused(l)
      PROVE  RefsInv'
  BY <1>0, <1>5 DEF Refused
<1>6. CASE Merge
  <2>1. Remote(origin + 1) # NoCommit
    BY <1>6, RemoteIsCommit DEF Merge
  <2>2. \A l \in Lane : branch[l] # NoCommit => branch'[l] # NoCommit
    BY <1>6, <2>1 DEF Merge
  <2>3. UNCHANGED <<rootVars, refVars, setupVars, sweepVars, worktree>> /\ origin' = origin + 1
    BY <1>6 DEF Merge
  <2> QED
    BY <2>2, <2>3 DEF Commit
<1>7. CASE EditRoot
  BY <1>0, <1>7 DEF EditRoot
<1>8. CASE CommitRoot
  <2>1. LET own == [main EXCEPT !.by = "root"] IN
        own # NoCommit /\ own.by = "root" /\ own.at = main.at
    BY <1>8, Owned DEF CommitRoot
  <2> QED
    BY <1>8, <2>1 DEF CommitRoot
<1>9. CASE ListMerged
  BY <1>0, <1>9 DEF ListMerged
<1>10. CASE EndSweep
  BY <1>0, <1>10 DEF EndSweep
<1>11. CASE DecideSync
  BY <1>0, <1>11 DEF DecideSync, BeginReconciliation
<1>12. CASE RecordNote
  BY <1>0, <1>12 DEF RecordNote, BeginReconciliation
<1>13. CASE FetchForSync
  BY <1>0, <1>13 DEF FetchForSync
<1>14. CASE MergeForward
  BY <1>0, <1>14 DEF MergeForward, Head
<1>15. CASE UNCHANGED vars
  BY <1>15
<1> QED
  BY <1>1, <1>2, <1>3, <1>4, <1>5, <1>6, <1>7, <1>8, <1>9, <1>10, <1>11, <1>12, <1>13, <1>14, <1>15 DEF Next, Reconciliation

LEMMA RefsHold == Spec => [](TypeOK /\ RefsInv)
<1>1. Init => TypeOK /\ RefsInv
  BY InitTyped
<1>2. TypeOK /\ RefsInv /\ [Next]_vars => (TypeOK /\ RefsInv)'
  BY Typed, RefsInductive
<1> QED
  BY <1>1, <1>2, PTL DEF Spec

\* Every reachable state has the right shape, for any lanes and any bounds.
THEOREM TypeCorrect == Spec => []TypeOK
BY RefsHold, PTL

-----------------------------------------------------------------------------

LEMMA EditsInductive ==
  ASSUME TypeOK, EditsKept, [Next]_vars
  PROVE  EditsKept'
<1> USE RootAssumption DEF TypeOK, RootTypeOK, EditsKept, vars, rootVars
<1>1. ASSUME NEW l \in Lane, Setup(l)
      PROVE  EditsKept'
  <2>1. CASE StashRoot(l)
    BY <2>1 DEF StashRoot
  <2>2. CASE Fetch(l)
    BY <2>2 DEF Fetch
  <2>3. CASE FetchFails(l)
    BY <2>3 DEF FetchFails
  <2>4. CASE LsRemote(l)
    BY <2>4 DEF LsRemote
  <2>5. CASE LsRemoteFails(l)
    BY <2>5 DEF LsRemoteFails
  <2>6. CASE ReadMain(l)
    BY <2>6 DEF ReadMain
  <2>7. CASE WriteMain(l)
    BY <2>7 DEF WriteMain
  <2>8. CASE Reuse(l)
    BY <2>8 DEF Reuse
  <2>9. CASE RemoveStale(l)
    BY <2>9 DEF RemoveStale
  <2>10. CASE AddWorktree(l)
    BY <2>10 DEF AddWorktree
  <2>11. CASE Fail(l)
    BY <2>11 DEF Fail
  <2> QED
    BY <1>1, <2>1, <2>2, <2>3, <2>4, <2>5, <2>6, <2>7, <2>8, <2>9, <2>10, <2>11 DEF Setup
<1>2. ASSUME NEW l \in Lane, Work(l)
      PROVE  EditsKept'
  BY <1>2 DEF Work
<1>3. ASSUME NEW l \in Lane, CommitWork(l)
      PROVE  EditsKept'
  BY <1>3 DEF CommitWork
<1>4. ASSUME NEW l \in Lane, RemoveMerged(l)
      PROVE  EditsKept'
  BY <1>4 DEF RemoveMerged
<1>5. ASSUME NEW l \in Lane, Refused(l)
      PROVE  EditsKept'
  BY <1>5 DEF Refused
<1>6. CASE Merge
  BY <1>6 DEF Merge
<1>7. CASE EditRoot
  BY <1>7 DEF EditRoot
<1>8. CASE CommitRoot
  BY <1>8 DEF CommitRoot
<1>9. CASE ListMerged
  BY <1>9 DEF ListMerged
<1>10. CASE EndSweep
  BY <1>10 DEF EndSweep
<1>11. CASE DecideSync
  BY <1>11 DEF DecideSync
<1>12. CASE RecordNote
  BY <1>12 DEF RecordNote
<1>13. CASE FetchForSync
  BY <1>13 DEF FetchForSync
<1>14. CASE MergeForward
  BY <1>14 DEF MergeForward
<1>15. CASE UNCHANGED vars
  BY <1>15
<1> QED
  BY <1>1, <1>2, <1>3, <1>4, <1>5, <1>6, <1>7, <1>8, <1>9, <1>10, <1>11, <1>12, <1>13, <1>14, <1>15 DEF Next, Reconciliation

\* No edit made in the root directory is lost, whatever setups, commits, clean-ups
\* and reconciliations overlap and wherever they fail.
THEOREM RootEditsKept == Spec => []EditsKept
<1>1. Init => EditsKept
  BY DEF Init, EditsKept
<1>2. TypeOK /\ EditsKept /\ [Next]_vars => EditsKept'
  BY EditsInductive
<1> QED
  BY <1>1, <1>2, TypeCorrect, PTL DEF Spec

-----------------------------------------------------------------------------

\* Main goes back only where it has been moved between a setup's check and its
\* update-ref.
THEOREM MainForward == Spec => MainMovesForward
<1> DEFINE Forward ==
      \/ main = NoCommit \/ Descends(main', main)
      \/ \E l \in Lane : pc[l] = "write" /\ pc'[l] = "worktree" /\ seen[l] # main
<1>1. ASSUME TypeOK, RefsInv, [Next]_vars
      PROVE  [Forward]_main
  <2> SUFFICES ASSUME main' # main, main # NoCommit
               PROVE  Forward
    OBVIOUS
  <2> USE DEF TypeOK, RefTypeOK, SetupTypeOK
  <2>1. \/ \E l \in Lane : WriteMain(l)
        \/ CommitRoot \/ MergeForward
    BY <1>1 DEF Next, Setup, Reconciliation, vars, rootVars, refVars, StashRoot, Fetch,
       FetchFails, LsRemote, LsRemoteFails, ReadMain, Reuse, RemoveStale, AddWorktree,
       Fail, Work, CommitWork, RemoveMerged, Refused, Merge, EditRoot, ListMerged,
       EndSweep, DecideSync, RecordNote, FetchForSync
  <2>2. ASSUME NEW l \in Lane, WriteMain(l)
        PROVE  Forward
    <3>1. pc[l] = "write" /\ pc'[l] = "worktree" /\ main' = target[l]
      BY <1>1, <2>2 DEF WriteMain, Leave, Goto
    <3>2. CASE seen[l] = main
      BY <1>1, <3>1, <3>2 DEF RefsInv
    <3> QED
      BY <3>1, <3>2
  <2>3. CASE CommitRoot
    <3>1. main \in Commit
      BY <1>1 DEF Ref
    <3>2. main'.at = main.at /\ main.by = "remote" /\ main.at \in Nat
      BY <2>3, <3>1, Owned, RootAssumption DEF CommitRoot, Commit
    <3> QED
      BY <3>2 DEF Descends
  <2>4. CASE MergeForward
    BY <2>4 DEF MergeForward, Head
  <2> QED
    BY <2>1, <2>2, <2>3, <2>4
<1>2. TypeOK /\ RefsInv /\ [Next]_vars => [Forward]_main
  BY <1>1
<1> QED
  BY <1>2, RefsHold, PTL DEF Spec, MainMovesForward

-----------------------------------------------------------------------------

\* The work of a lane goes with a forced clean-up only, and the commits of its
\* branch stay until they are merged.
THEOREM WorkKept == Spec => LaneWorkKept
<1> DEFINE Saved(l) ==
             unsaved[l] # "none" /\ unsaved'[l] = "none" =>
               sweep = "force" \/ branch'[l].by = l
           Stays(l) ==
             branch[l] # NoCommit /\ branch[l].by = l =>
               \/ branch'[l] = branch[l]
               \/ branch'[l] = Remote(origin') /\ origin' > origin
           Kept == \A l \in Lane :
             /\ unsaved[l] # "none" /\ unsaved'[l] = "none" =>
                  sweep = "force" \/ branch'[l].by = l
             /\ branch[l] # NoCommit /\ branch[l].by = l =>
                  branch'[l] = branch[l] \/ (branch'[l] = Remote(origin') /\ origin' > origin)
<1>1. ASSUME TypeOK, RefsInv, [Next]_vars, NEW l \in Lane
      PROVE  Saved(l)
  <2> SUFFICES ASSUME unsaved[l] # "none", unsaved'[l] = "none"
               PROVE  sweep = "force" \/ branch'[l].by = l
    OBVIOUS
  <2>1. CommitWork(l) \/ RemoveMerged(l)
    BY <1>1 DEF Next, Setup, Reconciliation, vars, laneVars, StashRoot, Fetch,
       FetchFails, LsRemote, LsRemoteFails, ReadMain, WriteMain, Reuse, RemoveStale,
       AddWorktree, Fail, Work, CommitWork, RemoveMerged, Refused, Merge, EditRoot,
       CommitRoot, ListMerged, EndSweep, DecideSync, RecordNote, FetchForSync,
       MergeForward, TypeOK, LaneTypeOK
  <2>2. CASE CommitWork(l)
    <3>1. branch[l] \in Commit
      BY <1>1, <2>2 DEF CommitWork, RefsInv, TypeOK, LaneTypeOK, Ref
    <3>2. branch'[l] = [branch[l] EXCEPT !.by = l]
      BY <1>1, <2>2 DEF CommitWork, TypeOK, LaneTypeOK
    <3> QED
      BY <3>1, <3>2, Owned
  <2>3. CASE RemoveMerged(l)
    BY <2>3 DEF RemoveMerged, Removable
  <2> QED
    BY <2>1, <2>2, <2>3
<1>2. ASSUME TypeOK, RefsInv, [Next]_vars, NEW l \in Lane
      PROVE  Stays(l)
  <2> SUFFICES ASSUME branch[l] # NoCommit, branch[l].by = l, branch'[l] # branch[l]
               PROVE  branch'[l] = Remote(origin') /\ origin' > origin
    OBVIOUS
  <2>1. AddWorktree(l) \/ CommitWork(l) \/ Merge
    BY <1>2 DEF Next, Setup, Reconciliation, vars, laneVars, StashRoot, Fetch,
       FetchFails, LsRemote, LsRemoteFails, ReadMain, WriteMain, Reuse, RemoveStale,
       AddWorktree, Fail, Work, CommitWork, RemoveMerged, Refused, EditRoot,
       CommitRoot, ListMerged, EndSweep, DecideSync, RecordNote, FetchForSync,
       MergeForward, TypeOK, LaneTypeOK
  <2>2. CASE AddWorktree(l)
    BY <1>2, <2>2 DEF AddWorktree, Start, TypeOK, LaneTypeOK
  <2>3. CASE CommitWork(l)
    <3>1. branch[l] \in Commit
      BY <1>2 DEF TypeOK, LaneTypeOK, Ref
    <3>2. branch'[l] = [branch[l] EXCEPT !.by = l]
      BY <1>2, <2>3 DEF CommitWork, TypeOK, LaneTypeOK
    <3>3. branch'[l] = branch[l]
      BY <3>1, <3>2 DEF Commit
    <3> QED
      BY <3>3
  <2>4. CASE Merge
    BY <1>2, <2>4, RootAssumption DEF Merge, TypeOK, LaneTypeOK, RefTypeOK
  <2> QED
    BY <2>1, <2>2, <2>3, <2>4
<1>3. TypeOK /\ RefsInv /\ [Next]_vars => [Kept]_vars
  BY <1>1, <1>2
<1> QED
  BY <1>3, RefsHold, PTL DEF Spec, LaneWorkKept

-----------------------------------------------------------------------------

LEMMA CalmInductive ==
  ASSUME TypeOK, RefsInv, CalmInv, [Next]_vars
  PROVE  CalmInv'
<1> USE RootAssumption DEF TypeOK, RootTypeOK, RefTypeOK, SetupTypeOK, CalmInv, Lags, vars, rootVars, refVars,
        setupVars, Goto, Leave, Calm, Disturbed
<1>0. /\ Remote(origin) # NoCommit
      /\ Remote(origin).by = "remote" /\ Remote(origin).at = origin
  BY RemoteIsCommit
<1>1. ASSUME NEW l \in Lane, Setup(l)
      PROVE  CalmInv'
  <2>1. CASE StashRoot(l)
    BY <2>1 DEF StashRoot
  <2>2. CASE Fetch(l)
    BY <2>2 DEF Fetch
  <2>3. CASE FetchFails(l)
    BY <2>3 DEF FetchFails
  <2>4. CASE LsRemote(l)
    BY <2>4 DEF LsRemote
  <2>5. CASE LsRemoteFails(l)
    BY <2>5 DEF LsRemoteFails
  <2>6. CASE ReadMain(l)
    <3>1. CASE main = NoCommit \/ MayForward(l)
      BY <2>6, <3>1 DEF ReadMain
    <3>2. ASSUME ~(main = NoCommit \/ MayForward(l)), calm = l
          PROVE  main = Remote(origin) \/ main.by = "root"
      <4>1. target[l] = Remote(origin) /\ tracking = Remote(origin) /\ dirty = {} /\ ~Lags
        BY <2>6, <3>2 DEF ReadMain
      <4>2. main = Remote(origin) \/ ~Descends(Remote(origin), main)
        BY <1>0, <3>2, <4>1 DEF MayForward, Fetched, Descends
      <4> QED
        BY <1>0, <3>2, <4>2 DEF Descends, RefsInv
    <3> QED
      BY <2>6, <3>1, <3>2 DEF ReadMain
  <2>7. CASE WriteMain(l)
    BY <1>0, <2>7 DEF WriteMain
  <2>8. CASE Reuse(l)
    BY <2>8 DEF Reuse
  <2>9. CASE RemoveStale(l)
    BY <2>9 DEF RemoveStale
  <2>10. CASE AddWorktree(l)
    BY <2>10 DEF AddWorktree
  <2>11. CASE Fail(l)
    BY <2>11 DEF Fail
  <2> QED
    BY <1>1, <2>1, <2>2, <2>3, <2>4, <2>5, <2>6, <2>7, <2>8, <2>9, <2>10, <2>11 DEF Setup
<1>2. ASSUME NEW l \in Lane, Work(l)
      PROVE  CalmInv'
  BY <1>2 DEF Work
<1>3. ASSUME NEW l \in Lane, CommitWork(l)
      PROVE  CalmInv'
  BY <1>3 DEF CommitWork
<1>4. ASSUME NEW l \in Lane, RemoveMerged(l)
      PROVE  CalmInv'
  BY <1>4 DEF RemoveMerged
<1>5. ASSUME NEW l \in Lane, Refused(l)
      PROVE  CalmInv'
  BY <1>5 DEF Refused
<1>6. CASE Merge
  BY <1>6 DEF Merge
<1>7. CASE EditRoot
  BY <1>7 DEF EditRoot
<1>8. CASE CommitRoot
  BY <1>8 DEF CommitRoot
<1>9. CASE ListMerged
  BY <1>9 DEF ListMerged
<1>10. CASE EndSweep
  BY <1>10 DEF EndSweep
<1>11. CASE DecideSync
  BY <1>11 DEF DecideSync
<1>12. CASE RecordNote
  BY <1>12 DEF RecordNote
<1>13. CASE FetchForSync
  BY <1>13 DEF FetchForSync
<1>14. CASE MergeForward
  BY <1>14 DEF MergeForward
<1>15. CASE UNCHANGED vars
  BY <1>15
<1> QED
  BY <1>1, <1>2, <1>3, <1>4, <1>5, <1>6, <1>7, <1>8, <1>9, <1>10, <1>11, <1>12, <1>13, <1>14, <1>15 DEF Next, Reconciliation

LEMMA CalmHolds == Spec => [](TypeOK /\ RefsInv /\ CalmInv)
<1>1. Init => CalmInv
  BY RootAssumption DEF Init, CalmInv
<1>2. TypeOK /\ RefsInv /\ CalmInv /\ [Next]_vars => CalmInv'
  BY CalmInductive
<1> QED
  BY <1>1, <1>2, RefsHold, PTL DEF Spec

\* A setup that meets nothing unusual itself brings main to where the remote's is
\* and ends with the worktree of its lane, whatever others have left.
THEOREM CalmSucceeds == Spec => CalmSetupSucceeds
<1> DEFINE Succeeds == \A l \in Lane :
             calm = l /\ calm' = l /\ pc[l] = "worktree" /\ pc'[l] # "worktree" =>
               /\ main = Remote(origin) \/ main.by = "root"
               /\ pc'[l] = "add" \/ (worktree'[l] = "whole" /\ branch'[l] # NoCommit)
<1>1. ASSUME TypeOK, RefsInv, CalmInv, [Next]_vars, NEW l \in Lane, calm = l, calm' = l,
             pc[l] = "worktree", pc'[l] # "worktree"
      PROVE  /\ main = Remote(origin) \/ main.by = "root"
             /\ pc'[l] = "add" \/ (worktree'[l] = "whole" /\ branch'[l] # NoCommit)
  <2> USE RootAssumption DEF TypeOK, SetupTypeOK, LaneTypeOK, Goto, Calm, Disturbed
  <2>1. main # NoCommit /\ (main = Remote(origin) \/ main.by = "root")
    BY <1>1 DEF CalmInv
  <2>2. Setup(l)
    BY <1>1 DEF Next, Setup, Reconciliation, vars, setupVars, StashRoot, Fetch,
       FetchFails, LsRemote, LsRemoteFails, ReadMain, WriteMain, Reuse, RemoveStale,
       AddWorktree, Fail, Leave, Work, CommitWork, RemoveMerged, Refused, Merge,
       EditRoot, CommitRoot, ListMerged, EndSweep, DecideSync, RecordNote,
       FetchForSync, MergeForward
  <2>3. Reuse(l) \/ RemoveStale(l) \/ AddWorktree(l)
    BY <1>1, <2>2 DEF Setup, StashRoot, Fetch, FetchFails, LsRemote, LsRemoteFails,
       ReadMain, WriteMain, Fail
  <2>4. CASE Reuse(l)
    BY <1>1, <2>1, <2>4 DEF Reuse, RefsInv
  <2>5. CASE RemoveStale(l)
    BY <1>1, <2>1, <2>5 DEF RemoveStale
  <2>6. CASE AddWorktree(l)
    <3>1. MayAdd(l, Pruned)
      <4>1. [at |-> 0, by |-> l] # NoCommit
        BY NoCommitAssumption DEF Commit
      <4> QED
        BY <1>1, <2>1, <2>6, <4>1 DEF AddWorktree, MayAdd, Pruned, Start
    <3> QED
      BY <1>1, <2>1, <2>6, <3>1 DEF AddWorktree, MayAdd
  <2> QED
    BY <2>3, <2>4, <2>5, <2>6
<1>2. TypeOK /\ RefsInv /\ CalmInv /\ [Next]_vars => [Succeeds]_vars
  BY <1>1
<1> QED
  BY <1>2, CalmHolds, PTL DEF Spec, CalmSetupSucceeds
=============================================================================
