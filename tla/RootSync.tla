------------------------------ MODULE RootSync ------------------------------
(***************************************************************************)
(* The root checkout of the factory: runs of factory/scripts/                *)
(* setup-workspace.py, one for a lane and any number at a time, which share  *)
(* its directory, its stash and its branch main; people and agents who edit *)
(* and commit in it; the worktrees of the lanes; and                         *)
(* scripts/cleanup-merged-worktrees.sh, which removes them; and the report    *)
(* that brings a root which lags behind the remote's main up to date.        *)
(*                                                                         *)
(* A git command is one step.  An edit made between git add and git stash is *)
(* either taken by the stash or left, as if made before the one or after the *)
(* other, so the two commands are one step as well.  A root without a remote *)
(* behaves as one whose fetch fails.  The files a setup copies into the      *)
(* worktree and the record it stamps there are ignored by git; LaneRecord    *)
(* has them.                                                               *)
(***************************************************************************)
EXTENDS Naturals

CONSTANTS
  Lane,          \* lanes: work items, their branches and their worktrees
  Theirs,        \* lanes whose branch the remote has from an earlier life
  Left,          \* lanes whose worktree an earlier setup may have left half made
  Attended,      \* lanes whose agent is at work during the behaviour
  NoCommit,      \* a ref that does not exist
  NoLane,        \* no lane
  MaxMerges,     \* pull requests merged on the remote
  MaxEdits,      \* edits in the root directory
  MaxRuns,       \* MaxRuns[l]: setups of lane l
  MaxSweeps      \* runs of the clean-up or of the reconciliation, with --apply

ASSUME RootAssumption ==
  /\ {MaxMerges, MaxEdits, MaxSweeps} \subseteq Nat /\ MaxRuns \in [Lane -> Nat]
  /\ Theirs \subseteq Lane /\ Left \subseteq Lane /\ Attended \subseteq Lane
  /\ NoLane \notin Lane
  /\ {"remote", "root"} \cap (Lane \cup {NoLane}) = {}

\* The remote's main has commits 0, 1, ...; on top of one of them the root or
\* a lane may have a commit of its own.
Commit == [at : 0..MaxMerges, by : {"remote", "root"} \cup Lane]
Ref == Commit \cup {NoCommit}
ASSUME NoCommitAssumption == NoCommit \notin Commit

Remote(n) == [at |-> n, by |-> "remote"]

\* git merge-base --is-ancestor a d
Descends(d, a) == a = d \/ (a.by = "remote" /\ a.at <= d.at)

VARIABLES
  origin,      \* main on the remote: its latest commit
  tracking,    \* refs/remotes/origin/main
  main,        \* refs/heads/main of the root
  onMain,      \* whether the root directory has main checked out
  index,       \* the commit the files of the root directory were checked out from
  edits,       \* edits made in the root directory so far
  dirty,       \* those the directory shows
  stashed,     \* those in the stash
  committed,   \* those in commits made in the root directory
  pc,          \* pc[l]: the next step of the setup of l
  target,      \* target[l]: remote_sha of the setup of l
  seen,        \* seen[l]: its local_sha
  runs,        \* runs[l]: setups of l begun
  calm,        \* history: the lane whose setup has met nothing unusual so far
  worktree,    \* worktree[l]: what is at the path of l's worktree
  known,       \* lanes whose worktree git knows
  branch,      \* branch[l]: refs/heads/l, where the commits of l are
  unsaved,     \* unsaved[l]: changes in l's worktree that are in no commit
  found,       \* found[l]: what a clean-up has to do about candidate l
  sweep,       \* a clean-up runs: "no", "plain" or "force"
  sweeps,      \* clean-ups and reconciliations begun
  lag          \* the next git command of a reconciliation, or "no"

rootVars == <<onMain, index, edits, dirty, stashed, committed>>
refVars == <<tracking, main>>
setupVars == <<pc, target, seen, runs>>
laneVars == <<worktree, known, branch, unsaved>>
sweepVars == <<found, sweep, sweeps, lag>>
vars == <<origin, rootVars, refVars, setupVars, laneVars, sweepVars, calm>>

Step == {"idle", "fetch", "lsRemote", "read", "write", "worktree", "add"}

\* Nothing, a directory without .git, one with .git only, a worktree.
Path == {"none", "husk", "partial", "whole"}

Status == {"clean", "dirty", "missing"}
NothingFound == [l \in {} |-> "gone"]

RootTypeOK ==
  /\ onMain \in BOOLEAN /\ index \in Ref /\ edits \in 0..MaxEdits
  /\ dirty \subseteq 1..edits /\ stashed \subseteq 1..edits
  /\ committed \subseteq 1..edits

RefTypeOK == origin \in 0..MaxMerges /\ tracking \in Ref /\ main \in Ref

SetupTypeOK ==
  /\ pc \in [Lane -> Step]
  /\ runs \in [Lane -> Nat] /\ \A l \in Lane : runs[l] <= MaxRuns[l]
  /\ target \in [Lane -> Ref] /\ seen \in [Lane -> Ref]
  /\ calm \in Lane \cup {NoLane}

LaneTypeOK ==
  /\ worktree \in [Lane -> Path] /\ known \subseteq Lane
  /\ branch \in [Lane -> Ref]
  /\ unsaved \in [Lane -> {"none", "new", "tracked"}]

SweepTypeOK ==
  /\ sweep \in {"no", "plain", "force"} /\ sweeps \in 0..MaxSweeps
  /\ lag \in {"no", "fetch", "merge"}
  /\ DOMAIN found \subseteq Lane /\ found \in [DOMAIN found -> {"remove", "gone"}]

TypeOK == RootTypeOK /\ RefTypeOK /\ SetupTypeOK /\ LaneTypeOK /\ SweepTypeOK

\* A root with main checked out and up to date, or a clone with another branch
\* and no main of its own, which knows the remote's main or not.
Init ==
  /\ origin = 0 /\ onMain \in BOOLEAN
  /\ main = IF onMain THEN Remote(0) ELSE NoCommit
  /\ tracking \in {Remote(0)} \cup (IF onMain THEN {} ELSE {NoCommit})
  /\ index = Remote(0) /\ edits = 0
  /\ dirty = {} /\ stashed = {} /\ committed = {}
  /\ pc = [l \in Lane |-> "idle"] /\ runs = [l \in Lane |-> 0]
  /\ target = [l \in Lane |-> NoCommit] /\ seen = [l \in Lane |-> NoCommit]
  /\ known \in SUBSET Left
  /\ worktree = [l \in Lane |-> IF l \in known THEN "partial" ELSE "none"]
  /\ branch = [l \in Lane |-> IF l \in known THEN Remote(0) ELSE NoCommit]
  /\ unsaved = [l \in Lane |-> "none"]
  /\ found = NothingFound /\ sweep = "no" /\ sweeps = 0 /\ lag = "no"
  /\ calm = NoLane

\* Main is checked out and has been moved since.
Lags == onMain /\ index # main

Calm(l) == calm' = IF calm = l THEN l ELSE NoLane
Disturbed == calm' = NoLane

-----------------------------------------------------------------------------
(* Setup *)

Goto(l, step) == pc' = [pc EXCEPT ![l] = step]

\* main() goes on, with what sync_main() knew forgotten.
Leave(l, step) ==
  /\ Goto(l, step)
  /\ target' = [target EXCEPT ![l] = NoCommit] /\ seen' = [seen EXCEPT ![l] = NoCommit]

\* The script is killed, or a command fails that may not.
Fail(l) ==
  /\ pc[l] # "idle" /\ Leave(l, "idle") /\ Disturbed
  /\ UNCHANGED <<runs, origin, rootVars, refVars, laneVars, sweepVars>>

\* Mutant: local changes are left in place.
StashRootNot(l) ==
  /\ pc[l] = "idle" /\ runs[l] < MaxRuns[l]
  /\ runs' = [runs EXCEPT ![l] = @ + 1] /\ Goto(l, "fetch")
  /\ calm' = IF \A m \in Lane : pc[m] = "idle" THEN l ELSE NoLane
  /\ UNCHANGED <<target, seen, origin, rootVars, refVars, laneVars, sweepVars>>

\* git add -A, and git stash push, which takes the edits and, when main has been
\* moved under the directory, the difference to it.  It may fail, and then
\* everything stays.
StashRoot(l) ==
  /\ pc[l] = "idle" /\ runs[l] < MaxRuns[l]
  /\ runs' = [runs EXCEPT ![l] = @ + 1] /\ Goto(l, "fetch")
  /\ \/ /\ stashed' = stashed \cup dirty /\ dirty' = {}
        /\ index' = IF onMain THEN main ELSE index
        /\ calm' = IF \A m \in Lane : pc[m] = "idle" THEN l ELSE NoLane
     \/ UNCHANGED <<stashed, dirty, index>> /\ Disturbed
  /\ UNCHANGED <<target, seen, onMain, edits, committed, origin, refVars, laneVars, sweepVars>>

Fetch(l) ==
  /\ pc[l] = "fetch" /\ Goto(l, "lsRemote") /\ Calm(l)
  /\ tracking' = Remote(origin)
  /\ UNCHANGED <<target, seen, runs, main, origin, rootVars, laneVars, sweepVars>>

\* Without a main of its own the root takes what it fetched last.
FetchFails(l) ==
  /\ pc[l] = "fetch" /\ Disturbed
  /\ \/ main # NoCommit /\ Goto(l, "worktree") /\ UNCHANGED target
     \/ main = NoCommit /\ tracking = NoCommit /\ Goto(l, "idle") /\ UNCHANGED target
     \/ /\ main = NoCommit /\ tracking # NoCommit
        /\ Goto(l, "read") /\ target' = [target EXCEPT ![l] = tracking]
  /\ UNCHANGED <<seen, runs, origin, rootVars, refVars, laneVars, sweepVars>>

\* The remote may have moved since the fetch.
LsRemote(l) ==
  /\ pc[l] = "lsRemote" /\ Goto(l, "read") /\ Calm(l)
  /\ target' = [target EXCEPT ![l] = Remote(origin)]
  /\ UNCHANGED <<seen, runs, origin, rootVars, refVars, laneVars, sweepVars>>

LsRemoteFails(l) ==
  /\ pc[l] = "lsRemote" /\ Disturbed
  /\ Goto(l, IF main # NoCommit THEN "worktree" ELSE "idle")
  /\ UNCHANGED <<target, seen, runs, origin, rootVars, refVars, laneVars, sweepVars>>

\* Its objects have been fetched.
Fetched(commit) == tracking # NoCommit /\ Descends(tracking, commit)

\* Mutant: the move is checked not to change what is checked out only.
MayForwardAny(l) == ~(onMain /\ (dirty # {} \/ Lags)) /\ Fetched(target[l])

\* is_main_checked_out_with_local_changes, can_fast_forward_main
MayForward(l) ==
  /\ ~(onMain /\ (dirty # {} \/ Lags))
  /\ Fetched(target[l]) /\ main # target[l] /\ Descends(target[l], main)

ReadMain(l) ==
  /\ pc[l] = "read" /\ Calm(l)
  /\ IF main = NoCommit \/ MayForward(l)
     THEN Goto(l, "write") /\ seen' = [seen EXCEPT ![l] = main] /\ UNCHANGED target
     ELSE Leave(l, "worktree")
  /\ UNCHANGED <<runs, origin, rootVars, refVars, laneVars, sweepVars>>

\* Mutant: the files of the directory are brought up to the new main.
WriteMainReset(l) ==
  /\ pc[l] = "write" /\ Fetched(target[l]) /\ Leave(l, "worktree") /\ Calm(l)
  /\ main' = target[l]
  /\ IF onMain THEN index' = target[l] /\ dirty' = {} ELSE UNCHANGED <<index, dirty>>
  /\ UNCHANGED <<runs, tracking, origin, onMain, edits, stashed, committed,
                 laneVars, sweepVars>>

\* git update-ref, whatever main is by now.
WriteMain(l) ==
  /\ pc[l] = "write" /\ Fetched(target[l]) /\ Leave(l, "worktree") /\ Calm(l)
  /\ main' = target[l]
  /\ UNCHANGED <<runs, tracking, origin, rootVars, laneVars, sweepVars>>

\* Mutant: worktrees git misses are not pruned.
PrunedNot == known

\* git worktree prune, which the setup runs before it looks at the path.
Pruned == {l \in known : worktree[l] \in {"partial", "whole"}}

\* The branch is checked out and pulled.
Reuse(l) ==
  /\ pc[l] = "worktree" /\ worktree[l] = "whole" /\ Goto(l, "idle") /\ Calm(l)
  /\ known' = Pruned
  /\ UNCHANGED <<target, seen, runs, worktree, branch, unsaved, origin, rootVars,
                 refVars, sweepVars>>

\* shutil.rmtree, which may be cut short.
RemoveStale(l) ==
  /\ pc[l] = "worktree" /\ worktree[l] \in {"husk", "partial"}
  /\ known' = Pruned
  /\ \/ Goto(l, "add") /\ worktree' = [worktree EXCEPT ![l] = "none"] /\ Calm(l)
     \/ Goto(l, "idle") /\ worktree' = [worktree EXCEPT ![l] = "husk"] /\ Disturbed
  /\ UNCHANGED <<target, seen, runs, branch, unsaved, origin, rootVars, refVars, sweepVars>>

\* Mutant: the branch is made anew whenever the worktree is.
StartAlwaysMain(l) == main

\* Where the branch of a new worktree starts.
Start(l) ==
  IF branch[l] # NoCommit THEN branch[l]
  ELSE IF l \in Theirs /\ tracking # NoCommit THEN [at |-> 0, by |-> l]
  ELSE main

\* git refuses a path it still knows, and a start that does not exist.
MayAdd(l, registered) == l \notin registered /\ Start(l) # NoCommit

\* git worktree add, which may be cut short before it has checked out a file.
AddWorktree(l) ==
  /\ pc[l] \in {"worktree", "add"} /\ worktree[l] = "none" /\ Goto(l, "idle")
  /\ LET registered == IF pc[l] = "worktree" THEN Pruned ELSE known IN
     \/ /\ MayAdd(l, registered)
        /\ known' = registered \cup {l}
        /\ branch' = [branch EXCEPT ![l] = Start(l)]
        /\ \/ worktree' = [worktree EXCEPT ![l] = "whole"] /\ Calm(l)
           \/ worktree' = [worktree EXCEPT ![l] = "partial"] /\ Disturbed
     \/ /\ ~MayAdd(l, registered) /\ Calm(l)
        /\ known' = registered /\ UNCHANGED <<branch, worktree>>
  /\ UNCHANGED <<target, seen, runs, unsaved, origin, rootVars, refVars, sweepVars>>

Setup(l) ==
  \/ StashRoot(l) \/ Fetch(l) \/ FetchFails(l) \/ LsRemote(l) \/ LsRemoteFails(l)
  \/ ReadMain(l) \/ WriteMain(l) \/ Reuse(l) \/ RemoveStale(l)
  \/ AddWorktree(l) \/ Fail(l)

-----------------------------------------------------------------------------
(* The remote, the root directory, and the agents of the lanes *)

\* Mutant: the bound on merges is ignored.
MergeUnbounded ==
  /\ origin' = origin + 1 /\ Disturbed
  /\ UNCHANGED <<branch, worktree, known, unsaved, rootVars, refVars, setupVars, sweepVars>>

\* A pull request is merged, perhaps the lane's, and perhaps by squashing.
Merge ==
  /\ origin < MaxMerges /\ origin' = origin + 1
  /\ \/ UNCHANGED branch
     \/ \E l \in Lane : /\ branch[l] # NoCommit /\ branch[l].by = l
                        /\ branch' = [branch EXCEPT ![l] = Remote(origin + 1)]
  /\ Disturbed
  /\ UNCHANGED <<worktree, known, unsaved, rootVars, refVars, setupVars, sweepVars>>

EditRoot ==
  /\ edits < MaxEdits /\ edits' = edits + 1 /\ dirty' = dirty \cup {edits + 1}
  /\ Disturbed
  /\ UNCHANGED <<onMain, index, stashed, committed, origin, refVars, setupVars,
                 laneVars, sweepVars>>

CommitRoot ==
  /\ onMain /\ dirty # {} /\ main.by = "remote"
  /\ main' = [main EXCEPT !.by = "root"] /\ index' = main'
  /\ committed' = committed \cup dirty /\ dirty' = {}
  /\ Disturbed
  /\ UNCHANGED <<onMain, edits, stashed, tracking, origin, setupVars, laneVars, sweepVars>>

\* The agent of l writes a new file or changes one git tracks.
Work(l) ==
  /\ l \in Attended /\ worktree[l] = "whole" /\ unsaved[l] # "tracked"
  /\ \E u \in {"new", "tracked"} \ {unsaved[l]} : unsaved' = [unsaved EXCEPT ![l] = u]
  /\ UNCHANGED <<worktree, known, branch, origin, rootVars, refVars, setupVars, sweepVars, calm>>

CommitWork(l) ==
  /\ worktree[l] = "whole" /\ unsaved[l] # "none"
  /\ unsaved' = [unsaved EXCEPT ![l] = "none"]
  /\ branch' = [branch EXCEPT ![l].by = l]
  /\ UNCHANGED <<worktree, known, origin, rootVars, refVars, setupVars, sweepVars, calm>>

-----------------------------------------------------------------------------
(* Clean-up *)

\* git status finds no repository in a husk but the root's, whatever it shows.
Statuses(l) ==
  CASE worktree[l] = "none" -> {"missing"}
    [] worktree[l] = "husk" -> {"clean", "dirty"}
    [] worktree[l] = "partial" -> {"dirty"}
    [] worktree[l] = "whole" -> {IF unsaved[l] = "tracked" THEN "dirty" ELSE "clean"}

Candidates == {l \in known : Descends(main, branch[l])}

\* What is to be done about a candidate of that status.
Verdict(status, how) ==
  CASE status = "missing" -> "gone"
    [] status = "dirty" /\ how = "plain" -> "skip"
    [] OTHER -> "remove"

\* A clean-up that finds nothing to remove and nothing missing changes nothing.
ListMerged ==
  /\ sweep = "no" /\ sweeps < MaxSweeps /\ sweeps' = sweeps + 1
  /\ main # NoCommit
  /\ \E how \in {"plain", "force"}, status \in [Candidates -> Status] :
       /\ \A l \in Candidates : status[l] \in Statuses(l)
       /\ LET listed == {l \in Candidates : Verdict(status[l], how) # "skip"} IN
          /\ listed # {} /\ sweep' = how
          /\ found' = [l \in listed |-> Verdict(status[l], how)]
  /\ UNCHANGED <<lag, origin, rootVars, refVars, setupVars, laneVars, calm>>

\* Mutant: the status the list has is taken for the status.
RemovableAsListed(l) == worktree[l] \in {"partial", "whole"}

\* What git worktree remove does, with --force and without.
Removable(l) ==
  /\ worktree[l] \in {"partial", "whole"}
  /\ sweep = "force" \/ (worktree[l] = "whole" /\ unsaved[l] = "none")

ToRemove == {l \in DOMAIN found : found[l] = "remove"}

RemoveMerged(l) ==
  /\ l \in ToRemove /\ Removable(l)
  /\ found' = [found EXCEPT ![l] = "gone"]
  /\ worktree' = [worktree EXCEPT ![l] = "none"] /\ known' = known \ {l}
  /\ unsaved' = [unsaved EXCEPT ![l] = "none"]
  /\ Disturbed
  /\ UNCHANGED <<branch, sweep, sweeps, lag, origin, rootVars, refVars, setupVars>>

SweepOver == sweep' = "no" /\ found' = NothingFound

\* git refuses, and the script ends with it.
Refused(l) ==
  /\ l \in ToRemove /\ ~Removable(l) /\ SweepOver
  /\ UNCHANGED <<sweeps, lag, origin, rootVars, refVars, setupVars, laneVars, calm>>

EndSweep ==
  /\ sweep # "no" /\ ToRemove = {} /\ SweepOver
  /\ known' = Pruned
  /\ UNCHANGED <<sweeps, lag, worktree, branch, unsaved, origin, rootVars, refVars,
                 setupVars, calm>>

-----------------------------------------------------------------------------
(* Reconciliation of a root that lags: the directory and the refs are looked  *)
(* at once, before the fetch and the merge.                                *)

BeginReconciliation == lag = "no" /\ sweeps < MaxSweeps /\ sweeps' = sweeps + 1

\* What is checked out in the root.
Head == IF onMain THEN main ELSE index

\* A clean directory behind the refs as they are, and no note that says
\* otherwise.
DecideSync ==
  /\ BeginReconciliation /\ lag' = "fetch"
  /\ dirty = {} /\ ~Lags
  /\ tracking \notin {NoCommit, Head} /\ Descends(tracking, Head)
  /\ UNCHANGED <<found, sweep, origin, rootVars, refVars, setupVars, laneVars, calm>>

\* Any other outcome is written into a report that git tracks.
RecordNote ==
  /\ BeginReconciliation /\ tracking # NoCommit
  /\ edits < MaxEdits /\ edits' = edits + 1 /\ dirty' = dirty \cup {edits + 1}
  /\ Disturbed
  /\ UNCHANGED <<lag, found, sweep, onMain, index, stashed, committed, origin,
                 refVars, setupVars, laneVars>>

\* Whether it succeeds is not asked.
FetchForSync ==
  /\ lag = "fetch" /\ lag' = "merge"
  /\ tracking' \in {tracking, Remote(origin)}
  /\ UNCHANGED <<found, sweep, sweeps, main, origin, rootVars, setupVars, laneVars, calm>>

\* Mutant: the directory is reset to what was fetched.
MergeForwardReset ==
  /\ lag = "merge" /\ lag' = "no"
  /\ index' = tracking /\ dirty' = {}
  /\ main' = IF onMain THEN tracking ELSE main
  /\ UNCHANGED <<found, sweep, sweeps, onMain, edits, stashed, committed,
                 tracking, origin, setupVars, laneVars, calm>>

\* git merge --ff-only, of the branch and the directory as they are by now.  It
\* keeps edits it does not touch, and refuses when it would touch one, as it
\* does when the directory has fallen behind its branch.
MergeForward ==
  /\ lag = "merge" /\ lag' = "no"
  /\ \/ /\ Descends(tracking, Head) /\ index \in {Head, tracking}
        /\ index' = tracking
        /\ main' = IF onMain THEN tracking ELSE main
        /\ Disturbed
     \/ UNCHANGED <<index, main, calm>>
  /\ UNCHANGED <<found, sweep, sweeps, onMain, edits, dirty, stashed, committed,
                 tracking, origin, setupVars, laneVars>>

Reconciliation == DecideSync \/ RecordNote \/ FetchForSync \/ MergeForward

Next ==
  \/ \E l \in Lane : Setup(l) \/ Work(l) \/ CommitWork(l) \/ RemoveMerged(l) \/ Refused(l)
  \/ Merge \/ EditRoot \/ CommitRoot \/ ListMerged \/ EndSweep
  \/ Reconciliation

Spec == Init /\ [][Next]_vars

-----------------------------------------------------------------------------

\* Main goes back, or loses a commit made in the root directory, only where it
\* has been moved between a setup's check and its update-ref.
MainMovesForward ==
  [][\/ main = NoCommit \/ Descends(main', main)
     \/ \E l \in Lane : pc[l] = "write" /\ pc'[l] = "worktree" /\ seen[l] # main]_main

\* Whatever setups overlap, and wherever they fail, an edit made in the root
\* directory is in it, in its stash or in a commit.
EditsKept == 1..edits = dirty \cup stashed \cup committed

\* A setup that meets nothing unusual itself, whatever overlapping, failed and
\* killed setups have left, brings main to where the remote's is, unless main
\* has a commit of its own, and ends with the worktree of its lane; or it takes
\* away what a killed one left there, and git may refuse the path this once.
CalmSetupSucceeds ==
  [][\A l \in Lane :
       calm = l /\ calm' = l /\ pc[l] = "worktree" /\ pc'[l] # "worktree" =>
         /\ main = Remote(origin) \/ main.by = "root"
         /\ pc'[l] = "add" \/ (worktree'[l] = "whole" /\ branch'[l] # NoCommit)]_vars

\* The work of a lane is never lost: what is in no commit goes with a forced
\* clean-up only, whatever the agent did between the list and the removal, and
\* the commits of its branch stay until they are merged.
LaneWorkKept ==
  [][\A l \in Lane :
       /\ unsaved[l] # "none" /\ unsaved'[l] = "none" =>
            sweep = "force" \/ branch'[l].by = l
       /\ branch[l] # NoCommit /\ branch[l].by = l =>
            branch'[l] = branch[l] \/ (branch'[l] = Remote(origin') /\ origin' > origin)]_vars
=============================================================================
