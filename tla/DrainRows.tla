----------------------------- MODULE DrainRows -----------------------------
(***************************************************************************)
(* Drain rows of merged pull requests, src/lib/factory/                      *)
(* merged-pr-drain-rows-reconciliation.ts and live-queue-snapshot.ts: a      *)
(* report reads the queue page by page while the factory works, decides from *)
(* that reading whether the drain idea of a content lane may be closed, and  *)
(* then moves it.                                                            *)
(*                                                                         *)
(* Of the engine is assumed, beyond FactoryWorkflow: items are listed in the *)
(* order of their creation, an item at work in the state it was taken from,  *)
(* and an item at work cannot be moved.  The rows of the code are a fixed     *)
(* list, written when the lane and its drain idea had been submitted.        *)
(***************************************************************************)
EXTENDS FactoryWorkflow, SequencesExt

CONSTANTS
  Lane,         \* a content lane, and the idea that drains it:
  Drain,        \* one of MERGED_PR_DRAIN_ROW_DEFINITIONS
  MaxMoves      \* moves asked for

ASSUME DrainAssumption ==
  /\ {Lane, Drain} \subseteq Lanes \ {Loopback} /\ Lane # Drain
  /\ Kinds[Drain] = {"idea"}
  /\ MaxMoves \in Nat

\* The types of the items under a name, in the order of creation.
Created == <<"idea", "plan", "task", "review">>

NoReport ==
  [lane |-> 0, drain |-> 0, end |-> FALSE,
   terminal |-> FALSE, initial |-> FALSE, drained |-> FALSE]

Status == {"executed", "already-complete", "failed"}

VARIABLES
  merged,     \* the lane's pull request is merged into origin/main
  report,     \* what the pages read so far say of the row
  moves       \* outcomes of the moves of the drain idea

allVars == <<work, running, visits, submitted, cron, broken, merged, report, moves>>

RowTypeOK ==
  /\ TypeOK
  /\ merged \in BOOLEAN
  /\ report \in [lane : 0..Len(Created), drain : 0..Len(Created), end : BOOLEAN,
                 terminal : BOOLEAN, initial : BOOLEAN, drained : BOOLEAN]
  /\ moves \in BoundedSeq(Status, MaxMoves)

RowInit == Init /\ merged = FALSE /\ report = NoReport /\ moves = <<>>

-----------------------------------------------------------------------------

\* The states in which `you work list` shows items of the type and name.
Listed(type, name) ==
  {s \in States[type] :
     \/ work[Item(type, s, name)] > 0
     \/ \E run \in running :
          Item(type, s, name) \in Items(run.station, run.names, Stations[run.station].inputs)}

\* Mutant: the review is looked at, the task is not.
UnfinishedReview(types) ==
  \E type \in types \cap {"review"} : Listed(type, Lane) \ {"complete"} # {}

\* hasUnfinishedImplementation or hasUnfinishedReview.
Unfinished(types) ==
  \E type \in types \cap {"task", "review"} : Listed(type, Lane) \ {"complete"} # {}

TerminalComplete(types, name) == \E type \in types : "complete" \in Listed(type, name)

\* The outcome is consume for a drain row with an item in init, else complete if
\* none of its items is.
ConsumeOrComplete(row) == row.terminal /\ (row.initial \/ ~row.drained)

-----------------------------------------------------------------------------

\* The planner, at work on a thought, makes the report.
Planning == \E run \in running : run.station = "ideafy"

MergePullRequest ==
  /\ ~merged /\ merged' = TRUE
  /\ UNCHANGED <<vars, report, moves>>

\* Where a page can end among the items of a name of which `read` were read: an
\* item created later comes on a later page.
PageEnds(read, name) ==
  {read} \cup {i \in read + 1 .. Len(Created) : Listed(Created[i], name) # {}}

Types(read, last) == {Created[i] : i \in read + 1 .. last}

\* The classifiers' evidence, with the items of one more page.
Evidence(lane, drain, end) ==
  LET ofDrain == Types(report.drain, drain) IN
  [lane     |-> lane, drain |-> drain, end |-> end,
   terminal |-> report.terminal \/ TerminalComplete(Types(report.lane, lane), Lane),
   initial  |-> report.initial \/ \E type \in ofDrain : "init" \in Listed(type, Drain),
   drained  |-> report.drained \/ TerminalComplete(ofDrain, Drain)]

\* The row as the report now has it, or no report when unfinished work or the
\* end of the list shows that the row is left alone.
Read(lane, drain, end) ==
  LET row == Evidence(lane, drain, end) IN
  IF Unfinished(Types(report.lane, lane)) \/ (end /\ ~ConsumeOrComplete(row))
  THEN NoReport ELSE row

\* readCompleteLiveWorkListSnapshotJson: a page, or the rest of the list.
ReadPage ==
  /\ Planning /\ {Lane, Drain} \subseteq submitted
  /\ Len(moves) < MaxMoves /\ ~report.end
  /\ \/ \E lane \in PageEnds(report.lane, Lane), drain \in PageEnds(report.drain, Drain) :
          report' = Read(lane, drain, FALSE)
     \/ report' = Read(Len(Created), Len(Created), TRUE)
  /\ UNCHANGED <<vars, merged, moves>>

\* classifyMergedPrDrainRowOutcome after the queue: the pull request cannot be
\* looked up or is not merged, or the worktree's record is of another one or,
\* for a completion, missing.
LeaveRow ==
  /\ report.end
  /\ report' = NoReport
  /\ UNCHANGED <<vars, merged, moves>>

\* Mutant: the lane counts as merged once the report says complete.
MergedAnyway == TRUE

\* pullRequestTruth, looked up when the queue has been read.
MergedIntoOriginMain == merged

\* `you work move` of the first item listed under the drain's name, the idea.
MoveDrain ==
  /\ IF \E s \in States["idea"] : work[Item("idea", s, Drain)] > 0
     THEN \E s \in States["idea"] :
            /\ work[Item("idea", s, Drain)] > 0
            /\ work' = [work EXCEPT ![Item("idea", s, Drain)] = @ - 1,
                                    ![Item("idea", "complete", Drain)] = @ + 1]
            /\ moves' = Append(moves, IF s = "complete" THEN "already-complete" ELSE "executed")
     ELSE work' = work /\ moves' = Append(moves, "failed")
  /\ report' = NoReport
  /\ UNCHANGED <<running, visits, submitted, cron, broken, merged>>

ExecuteConsume == report.end /\ MergedIntoOriginMain /\ report.initial /\ MoveDrain

ExecuteComplete == report.end /\ MergedIntoOriginMain /\ ~report.initial /\ MoveDrain

\* The report ends with the planner that makes it.
FactoryStep ==
  /\ Next
  /\ report' = IF Planning' THEN report ELSE NoReport
  /\ UNCHANGED <<merged, moves>>

RowNext ==
  \/ FactoryStep
  \/ MergePullRequest
  \/ ReadPage
  \/ LeaveRow
  \/ ExecuteConsume
  \/ ExecuteComplete

RowSpec == RowInit /\ [][RowNext]_allVars /\ Fairness

-----------------------------------------------------------------------------

\* Something of the lane is complete and no task or review of it is left.
LaneSettled ==
  /\ TerminalComplete(Range(Created), Lane)
  /\ ~Unfinished(Range(Created))

\* A drain idea is closed by hand only when, at the time of the move and not only
\* of the reading, its lane's pull request is merged and its lane is finished,
\* although the list is read in pages while items move.
DrainMoveJustified ==
  [][moves' # moves /\ Last(moves') = "executed" => merged /\ LaneSettled]_allVars
=============================================================================
