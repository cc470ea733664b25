----------------------------- MODULE LaneRecord -----------------------------
(***************************************************************************)
(* The lane record of a work item: .claude/lane-metadata.json in the       *)
(* worktree of the item.                                                   *)
(*                                                                         *)
(* factory/scripts/setup-workspace.py stamps it when it prepares the        *)
(* worktree.  The planner reports, run with --refresh-metadata, discover    *)
(* the worktrees, ask GitHub for the open pull request of each lane         *)
(* (src/lib/factory/active-pr-mergeability-watchdog.ts), and bring the      *)
(* record up to date (worktree-lane-metadata.ts).  Each is a process of its *)
(* own; nothing orders them.  A record is read, changed and written back,   *)
(* and a write empties the file first.                                     *)
(*                                                                         *)
(* The seen, before, late, outdated and lost variables are history.        *)
(***************************************************************************)
EXTENDS Naturals, Sequences

CONSTANTS
  Process,     \* processes that run a setup or a report
  Lane,        \* lanes; each names a work item, its worktree and its branch
  Branch,      \* branches, those named after lanes among them
  NoBranch,    \* a detached worktree, or no branch name at all
  PrdBranch,   \* PrdBranch[n]: branchName in the PRD of n
  NoLane,      \* a process that works on no lane
  NoFile,      \* the worktree has no record
  Garbled,     \* its record is empty or no JSON
  MaxPulls,    \* pull requests that are opened
  MaxSwitches, \* times an agent checks out another branch
  MaxSetups,   \* setups that are run
  MaxKills     \* processes that end too early

ASSUME LaneAssumption ==
  /\ Lane # {} /\ Lane \subseteq Branch /\ NoBranch \notin Branch /\ NoLane \notin Lane
  /\ PrdBranch \in [Lane -> Branch \cup {NoBranch}]
  /\ MaxPulls \in Nat /\ MaxSwitches \in Nat
  /\ MaxSetups \in Nat /\ MaxKills \in Nat

NoPull == 0

Pull == 1..MaxPulls

\* What the properties need of WorktreeLaneMetadataRecord: branchName,
\* pullRequest with the status of its linkage, and createdAtUtc, here the
\* number of the setup that created the record.
Record ==
  [branch : Branch, pull : {NoPull}, status : {"missing"}, born : 1..MaxSetups]
  \cup
  [branch : Branch, pull : Pull, status : {"current", "stale"},
   born : 1..MaxSetups]

ASSUME FileAssumption ==
  NoFile \notin Record /\ Garbled \notin Record /\ NoFile # Garbled

VARIABLES
  file,        \* file[n]: the record in the worktree of n
  made,        \* worktrees that exist
  head,        \* head[n]: the branch checked out in the worktree of n
  open,        \* open[b]: the open pull request of branch b
  pulls,       \* pull requests opened so far
  switches,    \* branches checked out by agents so far
  setups,      \* setups run so far
  kills,       \* processes that ended too early
  pc,          \* pc[p]: where process p is
  at,          \* at[p]: the worktree it works on
  todo,        \* todo[p]: branches it has still to ask GitHub about
  found,       \* found[p]: branch and pull request it will record
  draft,       \* draft[p]: the record it is about to write
  dirty,       \* another process wrote since p emptied the file
  seen,        \* seen[n]: what GitHub said of n since its last stamp
  before,      \* before[n]: what it had said earlier
  late,        \* a report that began before the last stamp wrote after it
  outdated,    \* reports that began before the last stamp
  lost         \* lanes one of whose setups met a garbled record

world == <<head, made, open, pulls, switches>>
work == <<pc, at, todo, found, draft, dirty>>
history == <<seen, before, late, outdated, lost>>
vars == <<file, world, setups, kills, work, history>>

Readable(f) == f \notin {NoFile, Garbled}

Reporting == {"looking", "found", "refreshing", "rewriting"}

Stage == Reporting \cup {"idle", "copied", "stamping", "writing"}

Pair == Branch \X Pull

TypeOK ==
  /\ file \in [Lane -> Record \cup {NoFile, Garbled}]
  /\ made \subseteq Lane
  /\ head \in [Lane -> Branch \cup {NoBranch}]
  /\ open \in [Branch -> Pull \cup {NoPull}]
  /\ pulls \in 0..MaxPulls /\ switches \in 0..MaxSwitches
  /\ setups \in 0..MaxSetups /\ kills \in 0..MaxKills
  /\ pc \in [Process -> Stage]
  /\ at \in [Process -> Lane \cup {NoLane}]
  /\ todo \in [Process -> Seq(Branch)]
  /\ found \in [Process -> [branch : Branch \cup {NoBranch},
                            pull : Pull \cup {NoPull}, live : BOOLEAN]]
  /\ draft \in [Process -> Record \cup {NoFile}]
  /\ dirty \subseteq Process
  /\ seen \in [Lane -> SUBSET Pair] /\ before \in [Lane -> SUBSET Pair]
  /\ late \subseteq Lane /\ lost \subseteq Lane
  /\ outdated \subseteq Process

Nothing == [branch |-> NoBranch, pull |-> NoPull, live |-> FALSE]

Init ==
  /\ file = [n \in Lane |-> NoFile]
  /\ made = {}
  /\ head = [n \in Lane |-> NoBranch]
  /\ open = [b \in Branch |-> NoPull]
  /\ pulls = 0 /\ switches = 0 /\ setups = 0 /\ kills = 0
  /\ pc = [p \in Process |-> "idle"]
  /\ at = [p \in Process |-> NoLane]
  /\ todo = [p \in Process |-> <<>>]
  /\ found = [p \in Process |-> Nothing]
  /\ draft = [p \in Process |-> NoFile]
  /\ dirty = {}
  /\ seen = [n \in Lane |-> {}] /\ before = [n \in Lane |-> {}]
  /\ late = {} /\ outdated = {} /\ lost = {}

Go(p, stage) == pc' = [pc EXCEPT ![p] = stage]

\* The process has nothing left to do.
Rest(p) ==
  /\ Go(p, "idle")
  /\ at' = [at EXCEPT ![p] = NoLane]
  /\ todo' = [todo EXCEPT ![p] = <<>>]
  /\ found' = [found EXCEPT ![p] = Nothing]
  /\ draft' = [draft EXCEPT ![p] = NoFile]

-----------------------------------------------------------------------------
(* Around the records: agents in the worktrees, GitHub, and the end of      *)
(* processes.                                                              *)

\* Git checks a branch out in one worktree only.
FreeBranch(n, b) == \A m \in made \ {n} : head[m] # b

SwitchBranch(n, b) ==
  /\ n \in made
  /\ switches < MaxSwitches /\ switches' = switches + 1
  /\ b = NoBranch \/ FreeBranch(n, b)
  /\ head' = [head EXCEPT ![n] = b]
  /\ UNCHANGED <<file, made, open, pulls, setups, kills, work, history>>

OpenPull(b) ==
  /\ open[b] = NoPull /\ pulls < MaxPulls
  /\ pulls' = pulls + 1
  /\ open' = [open EXCEPT ![b] = pulls + 1]
  /\ UNCHANGED <<file, head, made, switches, setups, kills, work, history>>

\* Merged or closed.
ClosePull(b) ==
  /\ open[b] # NoPull
  /\ open' = [open EXCEPT ![b] = NoPull]
  /\ UNCHANGED <<file, head, made, pulls, switches, setups, kills, work, history>>

\* A setup or a report is killed or fails, at any step.
EndEarly(p) ==
  /\ pc[p] # "idle" /\ kills < MaxKills
  /\ kills' = kills + 1
  /\ Rest(p)
  /\ dirty' = dirty \ {p} /\ outdated' = outdated \ {p}
  /\ UNCHANGED <<file, world, setups, seen, before, late, lost>>

-----------------------------------------------------------------------------
(* setup-workspace.py                                                      *)

\* The worktree is created, or reused with its branch checked out, and the PRD
\* copied into it.  A lane has one plan token, so one setup at a time.
Prepare(p, n) ==
  /\ pc[p] = "idle" /\ setups < MaxSetups
  /\ \A q \in Process : at[q] = n => pc[q] \notin {"copied", "stamping", "writing"}
  /\ FreeBranch(n, n)
  /\ setups' = setups + 1
  /\ made' = made \cup {n}
  /\ head' = [head EXCEPT ![n] = n]
  /\ at' = [at EXCEPT ![p] = n]
  /\ Go(p, "copied")
  /\ UNCHANGED <<file, open, pulls, switches, kills, todo, found, draft, dirty,
                 history>>

Stamp(n, born) ==
  [branch |-> n, pull |-> NoPull, status |-> "missing", born |-> born]

\* Mutant: the old record is read after the file has been emptied.
ReadBirthLate(p) ==
  /\ pc[p] = "copied"
  /\ draft' = [draft EXCEPT ![p] = Stamp(at[p], setups)]
  /\ Go(p, "stamping")
  /\ UNCHANGED <<file, world, setups, kills, at, todo, found, dirty, history>>

\* The new record keeps the time of creation of an old one that can be read.
ReadBirth(p) ==
  LET old == file[at[p]] IN
  /\ pc[p] = "copied"
  /\ draft' = [draft EXCEPT ![p] =
                 Stamp(at[p], IF Readable(old) THEN old.born ELSE setups)]
  /\ lost' = IF old = Garbled THEN lost \cup {at[p]} ELSE lost
  /\ Go(p, "stamping")
  /\ UNCHANGED <<file, world, setups, kills, at, todo, found, dirty,
                 seen, before, late, outdated>>

-----------------------------------------------------------------------------
(* discoverActivePrLaneReport                                              *)

RecordedBranch(n) ==
  IF Readable(file[n]) THEN file[n].branch
  ELSE IF head[n] # NoBranch THEN head[n]
  ELSE PrdBranch[n]

Aliases(n) == {n, RecordedBranch(n), PrdBranch[n]}

\* collectWorktreeBranchCandidates: the recorded, the checked out and the
\* planned branch, each once.
Candidates(n) ==
  LET second == head[n] # RecordedBranch(n)
      third  == PrdBranch[n] \notin {RecordedBranch(n), head[n]}
      Known(take, b) == IF take /\ b # NoBranch THEN <<b>> ELSE <<>>
  IN Known(TRUE, RecordedBranch(n)) \o Known(second, head[n])
       \o Known(third, PrdBranch[n])

\* The worktree of lane n is any one that has its name for an alias: the order
\* in which the directory is read decides.  A linkage that is current is kept
\* for the case that no lookup finds one.
Discover(p, n) ==
  /\ pc[p] = "idle"
  /\ \E w \in made :
       /\ n \in Aliases(w)
       /\ at' = [at EXCEPT ![p] = w]
       /\ todo' = [todo EXCEPT ![p] = Candidates(w)]
       /\ found' = [found EXCEPT ![p] =
            [branch |-> RecordedBranch(w), live |-> FALSE,
             pull |-> IF Readable(file[w]) /\ file[w].status = "current"
                      THEN file[w].pull ELSE NoPull]]
  /\ Go(p, "looking")
  /\ UNCHANGED <<file, world, setups, kills, draft, dirty, history>>

\* `gh pr list` answers with the open pull request of the branch.
LookUpFinds(p) ==
  /\ pc[p] = "looking" /\ todo[p] # <<>>
  /\ LET asked == Head(todo[p]) IN
     /\ open[asked] # NoPull
     /\ found' = [found EXCEPT ![p] =
                    [branch |-> asked, pull |-> open[asked], live |-> TRUE]]
     /\ seen' = [seen EXCEPT ![at[p]] = @ \cup {<<asked, open[asked]>>}]
  /\ Go(p, "found")
  /\ UNCHANGED <<file, world, setups, kills, at, todo, draft, dirty,
                 before, late, outdated, lost>>

\* It knows of none, or fails: the next branch is tried, unless the failure was
\* one of access.
LookUpFails(p) ==
  /\ pc[p] = "looking" /\ todo[p] # <<>>
  /\ \E rest \in {Tail(todo[p]), <<>>} :
       /\ todo' = [todo EXCEPT ![p] = rest]
       /\ Go(p, IF rest = <<>> THEN "found" ELSE "looking")
  /\ UNCHANGED <<file, world, setups, kills, at, found, draft, dirty, history>>

\* Nothing is known of a branch to ask for.
NothingToAsk(p) ==
  /\ pc[p] = "looking" /\ todo[p] = <<>>
  /\ Go(p, "found")
  /\ UNCHANGED <<file, world, setups, kills, at, todo, found, draft, dirty,
                 history>>

-----------------------------------------------------------------------------
(* refreshWorktreeLaneMetadata                                             *)

\* Mutant: the recorded branch goes before the branch the answer is about.
RefreshedOldBranch(r, f) ==
  IF f.branch = NoBranch THEN r
  ELSE [branch |-> r.branch, born |-> r.born,
        pull |-> IF f.pull # NoPull THEN f.pull ELSE r.pull,
        status |-> IF f.pull # NoPull THEN "current"
                   ELSE IF r.pull # NoPull THEN "stale" ELSE "missing"]

\* Mutant: the status of the linkage is that of the lookup.
RefreshedByLookup(r, f) ==
  IF f.branch = NoBranch THEN r
  ELSE [branch |-> f.branch, born |-> r.born,
        pull |-> IF f.pull # NoPull THEN f.pull ELSE r.pull,
        status |-> IF f.pull # NoPull THEN "current" ELSE "missing"]

\* Record r brought up to date with what was found.
Refreshed(r, f) ==
  IF f.branch = NoBranch THEN r
  ELSE [branch |-> f.branch, born |-> r.born,
        pull |-> IF f.pull # NoPull THEN f.pull ELSE r.pull,
        status |-> IF f.pull # NoPull THEN "current"
                   ELSE IF r.pull # NoPull THEN "stale" ELSE "missing"]

\* The record is read again; a record that cannot be read is left alone.
ReadAgain(p) ==
  /\ pc[p] = "found"
  /\ IF Readable(file[at[p]])
     THEN /\ draft' = [draft EXCEPT ![p] = Refreshed(file[at[p]], found[p])]
          /\ Go(p, "refreshing")
          /\ UNCHANGED <<at, todo, found, outdated>>
     ELSE Rest(p) /\ outdated' = outdated \ {p}
  /\ UNCHANGED <<file, world, setups, kills, dirty, seen, before, late, lost>>

-----------------------------------------------------------------------------
(* Both write the record in place.                                         *)

Truncate(p) ==
  /\ pc[p] \in {"stamping", "refreshing"}
  /\ file' = [file EXCEPT ![at[p]] = Garbled]
  /\ Go(p, IF pc[p] = "stamping" THEN "writing" ELSE "rewriting")
  /\ UNCHANGED <<world, setups, kills, at, todo, found, draft, dirty, history>>

\* A shorter record over a longer one that another process has written since
\* leaves the end of that one.
Content(p) == {draft[p]} \cup IF p \in dirty THEN {Garbled} ELSE {}

Writers(n) == {q \in Process : at[q] = n /\ pc[q] \in {"writing", "rewriting"}}

Reports(n) == {q \in Process : at[q] = n /\ pc[q] \in Reporting}

\* A stamp forgets what was known of the lane.
WriteStamp(p) ==
  /\ pc[p] = "writing"
  /\ \E f \in Content(p) : file' = [file EXCEPT ![at[p]] = f]
  /\ Rest(p)
  /\ dirty' = (dirty \cup Writers(at[p])) \ {p}
  /\ seen' = [seen EXCEPT ![at[p]] = {}]
  /\ before' = [before EXCEPT ![at[p]] = @ \cup seen[at[p]]]
  /\ late' = late \ {at[p]}
  /\ outdated' = outdated \cup Reports(at[p])
  /\ UNCHANGED <<world, setups, kills, lost>>

WriteRefresh(p) ==
  /\ pc[p] = "rewriting"
  /\ \E f \in Content(p) : file' = [file EXCEPT ![at[p]] = f]
  /\ Rest(p)
  /\ dirty' = (dirty \cup Writers(at[p])) \ {p}
  /\ late' = IF p \in outdated THEN late \cup {at[p]} ELSE late
  /\ outdated' = outdated \ {p}
  /\ UNCHANGED <<world, setups, kills, seen, before, lost>>

-----------------------------------------------------------------------------

Setup(p) ==
  \/ \E n \in Lane : Prepare(p, n)
  \/ ReadBirth(p) \/ WriteStamp(p)

Report(p) ==
  \/ \E n \in Lane : Discover(p, n)
  \/ LookUpFinds(p) \/ LookUpFails(p) \/ NothingToAsk(p)
  \/ ReadAgain(p) \/ WriteRefresh(p)

World ==
  \/ \E n \in Lane, b \in Branch \cup {NoBranch} : SwitchBranch(n, b)
  \/ \E b \in Branch : OpenPull(b) \/ ClosePull(b)

Next ==
  \/ World
  \/ \E p \in Process : Setup(p) \/ Report(p) \/ Truncate(p) \/ EndEarly(p)

Spec == Init /\ [][Next]_vars

-----------------------------------------------------------------------------

\* "resolved pullRequest evidence from live lookup ... or current stamped lane
\* metadata": a record that calls a pull request current names one that GitHub
\* has given for that very branch since the lane was stamped, or earlier if a
\* report that began before the stamp has written after it.
EvidenceIsReal ==
  \A n \in Lane :
    Readable(file[n]) /\ file[n].status = "current" =>
      <<file[n].branch, file[n].pull>> \in
        seen[n] \cup IF n \in late THEN before[n] ELSE {}

\* "Preserve the original creation timestamp when metadata already exists":
\* whatever is in the file or about to be written there has the same time of
\* creation, unless a setup met a record it could not read.
BirthKept ==
  \A n \in Lane \ lost :
    LET records == {f \in {file[n]} \cup {draft[p] : p \in {q \in Process : at[q] = n}}
                      : Readable(f)}
    IN \A r, s \in records : r.born = s.born

\* "preserves last known linkage and marks explicit stale gaps when refresh
\* fails": a report none of whose lookups found an open pull request does not
\* write that the linkage is current.
StaleWhenRefreshFails ==
  \A p \in Process :
    /\ pc[p] \in {"refreshing", "rewriting"}
    /\ found[p].branch # NoBranch /\ ~found[p].live
    => draft[p].status # "current"
=============================================================================
