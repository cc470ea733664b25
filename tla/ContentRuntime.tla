--------------------------- MODULE ContentRuntime ---------------------------
(***************************************************************************)
(* The generated content runtime: modules derived from src/content, which   *)
(* the site, the type checker and the tests import.                         *)
(*                                                                         *)
(* Almost every package script runs prepare:content-runtime before its main *)
(* part (src/lib/content/content-runtime-preparation.ts): the modules git   *)
(* ignores are deleted, then a generator per module scans the content and   *)
(* writes the module in place.  Two modules are committed.  The content PR   *)
(* doctor (content-pr-doctor.ts) prepares three times, once itself and once *)
(* in front of each of its validations, and calls the branch ready for      *)
(* review if git finds the tracked paths clean in between.  No lock orders   *)
(* the commands of a worktree, nor the edits of its author.                 *)
(*                                                                         *)
(* .source, which fumadocs-mdx generates, is left out.  The alone and        *)
(* incomplete variables are history.                                       *)
(***************************************************************************)
EXTENDS Naturals, Sequences

CONSTANTS
  Process,      \* shells that run commands in the worktree
  Page,         \* files of src/content
  Steps,        \* the generated modules in the order of their generators
  Committed,    \* those kept in git
  Compared,     \* those written only if they have changed
  Lists,        \* Lists[m]: the files that show in module m
  Validations,  \* validations of the doctor, each after a preparation
  MaxEdits,     \* edits and commits of the author
  MaxFailures   \* commands that fail or are killed

Module == {Steps[i] : i \in DOMAIN Steps}

ASSUME RuntimeAssumption ==
  /\ Steps \in Seq(Module) /\ Steps # <<>>
  /\ \A i, j \in DOMAIN Steps : Steps[i] = Steps[j] => i = j
  /\ Committed \subseteq Module /\ Compared \subseteq Module
  /\ Lists \in [Module -> SUBSET Page]
  /\ Validations \in Nat \ {0} /\ MaxEdits \in Nat /\ MaxFailures \in Nat

CONSTANTS
  Missing,      \* the module does not exist
  Torn          \* it is empty, half written or not yet formatted

ASSUME FileAssumption ==
  Missing # Torn /\ \A c \in SUBSET Page : c # Missing /\ c # Torn

VARIABLES
  work,         \* content files in the working tree
  head,         \* content files of the last commit
  out,          \* out[m]: the files that show in module m
  headOut,      \* the committed modules in the last commit
  pc,           \* pc[p]: stage of the command of p
  step,         \* step[p]: the generator that runs
  left,         \* left[p]: preparations the doctor has still to go through
  draft,        \* draft[p]: what the generator will write
  unlinked,     \* processes that write to a file since deleted
  edits,        \* edits and commits so far
  failures,     \* failures so far
  alone,        \* nobody else has changed a file since p last began to prepare
  incomplete    \* no preparation since the last one that was cut short

author == <<work, head, headOut, edits>>
history == <<alone, incomplete>>
vars == <<author, out, pc, step, left, draft, unlinked, failures, history>>

Ignored == Module \ Committed

Writing == {"scan", "compare", "write", "fill"}

Stage == Writing \cup
  {"idle", "invalidate", "main", "check", "verify", "validate", "final", "proved"}

File == {Missing, Torn} \cup SUBSET Page

FilesTypeOK ==
  /\ work \subseteq Page /\ head \subseteq Page
  /\ out \in [Module -> File] /\ headOut \in [Committed -> File]

StageTypeOK ==
  /\ pc \in [Process -> Stage]
  /\ step \in [Process -> 0..Len(Steps)]
  /\ left \in [Process -> 0..Validations + 1]
  /\ \A p \in Process : pc[p] \in Writing \cup {"invalidate"} => step[p] > 0

DraftTypeOK == draft \in [Process -> SUBSET Page] /\ unlinked \subseteq Process

CountTypeOK ==
  /\ edits \in 0..MaxEdits /\ failures \in 0..MaxFailures
  /\ alone \subseteq Process /\ incomplete \in BOOLEAN

TypeOK == FilesTypeOK /\ StageTypeOK /\ DraftTypeOK /\ CountTypeOK

Listing(m, content) == content \cap Lists[m]

\* A fresh checkout of a branch with all its modules committed.
Init ==
  /\ head \in SUBSET Page /\ work = head
  /\ headOut = [m \in Committed |-> Listing(m, head)]
  /\ out = [m \in Module |-> IF m \in Committed THEN headOut[m] ELSE Missing]
  /\ pc = [p \in Process |-> "idle"]
  /\ step = [p \in Process |-> 0]
  /\ left = [p \in Process |-> 0]
  /\ draft = [p \in Process |-> {}]
  /\ unlinked = {} /\ edits = 0 /\ failures = 0
  /\ alone = {} /\ incomplete = TRUE

\* p has begun to change the modules and has not finished.
Preparing(p) == pc[p] \in Writing \/ (pc[p] = "invalidate" /\ step[p] > 1)

Go(p, stage) == pc' = [pc EXCEPT ![p] = stage]

\* A preparation begins with the first of the steps.
Begin(p) == Go(p, "invalidate") /\ step' = [step EXCEPT ![p] = 1]

Rest(p) ==
  /\ Go(p, "idle")
  /\ step' = [step EXCEPT ![p] = 0]
  /\ left' = [left EXCEPT ![p] = 0]
  /\ draft' = [draft EXCEPT ![p] = {}]
  /\ unlinked' = unlinked \ {p}

\* git status --untracked-files=no over the content and the committed modules.
Clean ==
  /\ head \subseteq work
  /\ \A m \in Committed : out[m] = headOut[m]

-----------------------------------------------------------------------------
(* The author of the branch                                                *)

Edit ==
  /\ edits < MaxEdits /\ edits' = edits + 1
  /\ alone' = {}
  /\ UNCHANGED <<out, pc, step, left, draft, unlinked, failures, incomplete>>

AddFile(a) ==
  /\ a \notin work /\ work' = work \cup {a}
  /\ Edit
  /\ UNCHANGED <<head, headOut>>

DeleteFile(a) ==
  /\ a \in work /\ work' = work \ {a}
  /\ Edit
  /\ UNCHANGED <<head, headOut>>

\* With every content file, or those that git knows.
Commit ==
  /\ head' \in {work, work \cap head}
  /\ headOut' = [m \in Committed |-> out[m]]
  /\ Edit
  /\ UNCHANGED work

-----------------------------------------------------------------------------
(* prepare:content-runtime                                                 *)

\* A script with a pre-script starts.
StartCommand(p) ==
  /\ pc[p] = "idle"
  /\ Begin(p)
  /\ UNCHANGED <<author, out, left, draft, unlinked, failures, history>>

\* The ignored modules are deleted one by one.  Who has one open goes on
\* writing to the deleted file.
Invalidate(p) ==
  LET m == Steps[step[p]]
      first == step[p] = 1
      last == step[p] = Len(Steps) IN
  /\ pc[p] = "invalidate"
  /\ IF m \in Ignored
     THEN /\ out' = [out EXCEPT ![m] = Missing]
          /\ unlinked' = unlinked \cup
               {q \in Process : pc[q] = "fill" /\ Steps[step[q]] = m}
     ELSE UNCHANGED <<out, unlinked>>
  /\ Go(p, IF last THEN "scan" ELSE "invalidate")
  /\ step' = [step EXCEPT ![p] = IF last THEN 1 ELSE @ + 1]
  /\ alone' = IF ~first THEN alone
              ELSE IF \E q \in Process \ {p} : Preparing(q) THEN {} ELSE {p}
  /\ incomplete' = (incomplete /\ ~first)
  /\ UNCHANGED <<author, left, draft, failures>>

\* Mutant: the scan takes what git knows for the content.
ScanCommitted(p) ==
  LET m == Steps[step[p]] IN
  /\ pc[p] = "scan"
  /\ draft' = [draft EXCEPT ![p] = Listing(m, work \cap head)]
  /\ Go(p, IF m \in Compared THEN "compare" ELSE "write")
  /\ UNCHANGED <<author, out, step, left, unlinked, failures, history>>

\* The generator of a module scans the content.
Scan(p) ==
  LET m == Steps[step[p]] IN
  /\ pc[p] = "scan"
  /\ draft' = [draft EXCEPT ![p] = Listing(m, work)]
  /\ Go(p, IF m \in Compared THEN "compare" ELSE "write")
  /\ UNCHANGED <<author, out, step, left, unlinked, failures, history>>

\* Mutant: the last generator of the list never runs.
StepDoneEarly(p) ==
  IF step[p] < Len(Steps) - 1
  THEN Go(p, "scan") /\ step' = [step EXCEPT ![p] = @ + 1]
  ELSE /\ Go(p, IF left[p] = 0 THEN "main"
                ELSE IF left[p] = Validations + 1 THEN "check" ELSE "validate")
       /\ step' = [step EXCEPT ![p] = 0]

\* Mutant: off by one at the end of the list.
StepDoneLate(p) ==
  IF step[p] <= Len(Steps)
  THEN Go(p, "scan") /\ step' = [step EXCEPT ![p] = @ + 1]
  ELSE /\ Go(p, IF left[p] = 0 THEN "main"
                ELSE IF left[p] = Validations + 1 THEN "check" ELSE "validate")
       /\ step' = [step EXCEPT ![p] = 0]

\* After the last generator a script goes on to its main part, the doctor to
\* its checks or, in front of a validation, to the validation.
StepDone(p) ==
  IF step[p] < Len(Steps)
  THEN Go(p, "scan") /\ step' = [step EXCEPT ![p] = @ + 1]
  ELSE /\ Go(p, IF left[p] = 0 THEN "main"
                ELSE IF left[p] = Validations + 1 THEN "check" ELSE "validate")
       /\ step' = [step EXCEPT ![p] = 0]

Compare(p) ==
  LET m == Steps[step[p]] IN
  /\ pc[p] = "compare"
  /\ IF out[m] = draft[p]
     THEN StepDone(p)
     ELSE Go(p, "write") /\ UNCHANGED step
  /\ UNCHANGED <<author, out, left, draft, unlinked, failures, history>>

OpenToWrite(p) ==
  /\ pc[p] = "write"
  /\ out' = [out EXCEPT ![Steps[step[p]]] = Torn]
  /\ Go(p, "fill")
  /\ UNCHANGED <<author, step, left, draft, unlinked, failures, history>>

\* A shorter text over a longer one that somebody has put there meanwhile
\* leaves the end of that one.
Fill(p) ==
  LET m == Steps[step[p]] IN
  /\ pc[p] = "fill"
  /\ IF p \in unlinked THEN UNCHANGED out
     ELSE \E f \in {draft[p]} \cup IF out[m] \in {Torn, draft[p]} THEN {} ELSE {Torn} :
            out' = [out EXCEPT ![m] = f]
  /\ StepDone(p)
  /\ unlinked' = unlinked \ {p}
  /\ UNCHANGED <<author, left, draft, failures, history>>

\* The main part of the script reads the modules.
Main(p) ==
  /\ pc[p] = "main"
  /\ Rest(p)
  /\ UNCHANGED <<author, out, failures, history>>

\* A generator, a validation or a main part fails, or is killed.
Fail(p) ==
  /\ pc[p] # "idle" /\ failures < MaxFailures
  /\ failures' = failures + 1
  /\ Rest(p)
  /\ incomplete' = (incomplete \/ Preparing(p))
  /\ UNCHANGED <<author, out, alone>>

-----------------------------------------------------------------------------
(* doctor:content-pr                                                       *)

StartDoctor(p) ==
  /\ pc[p] = "idle" /\ Clean
  /\ left' = [left EXCEPT ![p] = Validations + 1]
  /\ Begin(p)
  /\ UNCHANGED <<author, out, draft, unlinked, failures, history>>

\* git status after the doctor's own preparation.
CheckDrift(p) ==
  /\ pc[p] = "check"
  /\ IF Clean THEN Go(p, "verify") /\ UNCHANGED <<step, left, draft, unlinked>>
              ELSE Rest(p)
  /\ UNCHANGED <<author, out, failures, history>>

\* verifyContentRuntimeCompleteness: the modules exist.
VerifyCompleteness(p) ==
  /\ pc[p] = "verify"
  /\ IF \A m \in Module : out[m] # Missing
     THEN /\ Begin(p)
          /\ left' = [left EXCEPT ![p] = @ - 1]
          /\ UNCHANGED <<draft, unlinked>>
     ELSE Rest(p)
  /\ UNCHANGED <<author, out, failures, history>>

\* A validation passes.
Validate(p) ==
  /\ pc[p] = "validate"
  /\ left' = [left EXCEPT ![p] = @ - 1]
  /\ IF left[p] = 1 THEN Go(p, "final") /\ UNCHANGED step ELSE Begin(p)
  /\ UNCHANGED <<author, out, draft, unlinked, failures, history>>

\* Mutant: the last check is left to the one after the preparation.
FinalUnchecked(p) ==
  /\ pc[p] = "final"
  /\ Go(p, "proved") /\ UNCHANGED <<step, left, draft, unlinked>>
  /\ UNCHANGED <<author, out, failures, history>>

\* git status once more; then the branch is ready for review.
Final(p) ==
  /\ pc[p] = "final"
  /\ IF Clean THEN Go(p, "proved") /\ UNCHANGED <<step, left, draft, unlinked>>
              ELSE Rest(p)
  /\ UNCHANGED <<author, out, failures, history>>

Report(p) ==
  /\ pc[p] = "proved"
  /\ Rest(p)
  /\ UNCHANGED <<author, out, failures, history>>

-----------------------------------------------------------------------------

Author ==
  \/ \E a \in Page : AddFile(a) \/ DeleteFile(a)
  \/ Commit

Prepare(p) == Invalidate(p) \/ Scan(p) \/ Compare(p) \/ OpenToWrite(p) \/ Fill(p)

Doctor(p) ==
  \/ StartDoctor(p) \/ CheckDrift(p) \/ VerifyCompleteness(p) \/ Validate(p)
  \/ Final(p) \/ Report(p)

Next ==
  \/ Author
  \/ \E p \in Process :
       StartCommand(p) \/ Prepare(p) \/ Main(p) \/ Doctor(p) \/ Fail(p)

Spec == Init /\ [][Next]_vars

-----------------------------------------------------------------------------

\* A script's main part, a check or a validation that nobody else has disturbed
\* since its preparation began sees every module as its content generates it,
\* whatever earlier commands left behind.
RuntimeFresh ==
  \A p \in alone :
    pc[p] \in {"main", "check", "verify", "validate", "final", "proved"} =>
      \A m \in Module : out[m] = Listing(m, work)

\* However preparations overlap, a module is missing only while some
\* preparation has still to generate it or after one was cut short.
NothingMissing ==
  \A i \in DOMAIN Steps :
    out[Steps[i]] = Missing =>
      \/ incomplete
      \/ \E p \in Process :
           Preparing(p) /\ (pc[p] = "invalidate" \/ step[p] <= i)

\* "Review-ready proof": if nobody disturbed the doctor and no content file is
\* untracked, the committed modules are those the committed content generates.
ReviewReady ==
  \A p \in alone :
    pc[p] = "proved" /\ work \subseteq head =>
      \A m \in Committed : headOut[m] = Listing(m, head)
=============================================================================
