--------------------------- MODULE BuildArtifacts ---------------------------
(***************************************************************************)
(* What the builds under the build locks do to the directories they share: *)
(* both `bun run build` and `bun run build:export` compile into .next/ and  *)
(* stamp it with a source fingerprint, the export also fills out/, and     *)
(* ensureExportSearchArtifacts decides from out/search.html whether to run *)
(* an export at all, before the tests that called it serve out/.           *)
(***************************************************************************)
EXTENDS BuildLock

CONSTANTS
  BaseOf,            \* BaseOf[b]: base path builder b exports and serves
  NoBase,            \* out/ is missing or half written
  MaxEdits           \* bound on changes of the sources

ASSUME ArtifactsAssumption ==
  /\ MaxEdits \in Nat
  /\ \A b \in Builder : BaseOf[b] # NoBase

VARIABLES
  source,   \* .content: what is on disk; .status: what the fingerprint hashes
  next,     \* .next: .from content compiled, .done complete
  stamp,    \* .next/verify-build-source-fingerprint, -1 when missing
  out,      \* base path of out/search.html, or NoBase
  step,     \* step[b]: what b's build, or its call of ensure..., is doing
  snapshot, \* snapshot[b]: content b's build reads
  early,    \* history: builders that had asked before the page in out/ was built
  mixed,    \* history: two builds were compiling into .next at once
  blind     \* history: a change since .next was emptied that no stamp can show

artVars == <<source, next, stamp, out, step, snapshot, early, mixed, blind>>
allVars == <<lockVars, artVars>>

Step == {"none", "start", "compiling", "stamping", "built", "failed",
         "check", "serving"}

Versions == 0..MaxEdits

ArtTypeOK ==
  /\ source \in [content : Versions, status : Versions]
  /\ next \in [from : Versions \cup {-1}, done : BOOLEAN]
  /\ stamp \in Versions \cup {-1}
  /\ out \in {BaseOf[b] : b \in Builder} \cup {NoBase}
  /\ step \in [Builder -> Step]
  /\ snapshot \in [Builder -> Versions]
  /\ early \subseteq Builder /\ mixed \in BOOLEAN /\ blind \in BOOLEAN

TypeOK == LockTypeOK /\ ArtTypeOK

Init ==
  /\ LockInit
  /\ source = [content |-> 0, status |-> 0]
  /\ next = [from |-> -1, done |-> FALSE]
  /\ stamp = -1
  /\ out = NoBase
  /\ step = [b \in Builder |-> "none"]
  /\ snapshot = [b \in Builder |-> 0]
  /\ early = {}
  /\ mixed = FALSE
  /\ blind = FALSE

Becomes(b, s) == step' = [step EXCEPT ![b] = s]

Forget(b) == snapshot' = [snapshot EXCEPT ![b] = 0]

Compiling == {b \in Builder : step[b] = "compiling"}

-----------------------------------------------------------------------------
(* Asking for a build.                                                      *)

\* Mutant: the page is not looked at.
AskAnyway(b) ==
  /\ step[b] = "none"
  /\ Request(b)
  /\ early' = early \ {b}
  /\ UNCHANGED <<source, next, stamp, out, step, snapshot, mixed, blind>>

\* runNextProductionBuild asks for the lock at once; ensure... looks at the
\* exported page first and asks only when it does not match.
Ask(b) ==
  /\ step[b] = "none"
  /\ KindOf[b] = "export" => out # BaseOf[b]
  /\ Request(b)
  /\ early' = early \ {b}
  /\ UNCHANGED <<source, next, stamp, out, step, snapshot, mixed, blind>>

ExportMatches(b) ==
  /\ pc[b] = "idle" /\ step[b] = "none"
  /\ KindOf[b] = "export"
  /\ out = BaseOf[b]
  /\ Becomes(b, "serving")
  /\ UNCHANGED <<lockVars, source, next, stamp, out, snapshot, early, mixed, blind>>

Locked(b) ==
  /\ OpenSucceeds(b)
  /\ Becomes(b, "start")
  /\ UNCHANGED <<source, next, stamp, out, snapshot, early, mixed, blind>>

Wait(b) == Attempt(b) /\ UNCHANGED artVars

-----------------------------------------------------------------------------
(* The build, between taking the lock and releasing it.                     *)

\* next build empties .next/, stamp included; an export empties out/.
StartCompile(b) ==
  /\ step[b] = "start"
  /\ Becomes(b, "compiling")
  /\ snapshot' = [snapshot EXCEPT ![b] = source.content]
  /\ next' = [from |-> -1, done |-> FALSE]
  /\ mixed' = (Compiling # {})
  /\ blind' = FALSE
  /\ stamp' = -1
  /\ out' = IF KindOf[b] = "export" THEN NoBase ELSE out
  /\ UNCHANGED <<lockVars, source, early>>

FinishCompile(b) ==
  /\ step[b] = "compiling"
  /\ Becomes(b, "stamping")
  /\ next' = [from |-> snapshot[b], done |-> TRUE]
  /\ IF KindOf[b] = "export"
     THEN /\ out' = BaseOf[b]
          /\ early' = {c \in Builder \ {b} : pc[c] # "idle"}
     ELSE UNCHANGED <<out, early>>
  /\ Forget(b)
  /\ UNCHANGED <<lockVars, source, stamp, mixed, blind>>

FailCompile(b) ==
  /\ step[b] = "compiling"
  /\ Becomes(b, "failed")
  /\ Forget(b)
  /\ UNCHANGED <<lockVars, source, next, stamp, out, early, mixed, blind>>

\* Mutant: the stamp is written without looking at the artifacts.
StampAlways(b) ==
  /\ step[b] = "stamping"
  /\ Becomes(b, "built")
  /\ stamp' = source.status
  /\ UNCHANGED <<lockVars, source, next, out, snapshot, early, mixed, blind>>

\* write-build-source-fingerprint.ts refuses an incomplete .next/ and stamps
\* it with the fingerprint of the sources as they are now; it fails after the
\* write if they are already different.
Stamp(b) ==
  /\ step[b] = "stamping"
  /\ IF next.done
     THEN /\ \E result \in {"built", "failed"} : Becomes(b, result)
          /\ stamp' = source.status
     ELSE Becomes(b, "failed") /\ UNCHANGED stamp
  /\ UNCHANGED <<lockVars, source, next, out, snapshot, early, mixed, blind>>

\* The lock is released; an export goes on to look at its page again.
Unlock(b) ==
  /\ step[b] \in {"built", "failed"}
  /\ Release(b)
  /\ Becomes(b, IF KindOf[b] = "export" /\ step[b] = "built"
                THEN "check" ELSE "none")
  /\ UNCHANGED <<source, next, stamp, out, snapshot, early, mixed, blind>>

\* A missing or mismatching page is an error, a matching one is served.
CheckExport(b) ==
  /\ step[b] = "check"
  /\ Becomes(b, IF out = BaseOf[b] THEN "serving" ELSE "none")
  /\ UNCHANGED <<lockVars, source, next, stamp, out, snapshot, early, mixed, blind>>

StopServing(b) ==
  /\ step[b] = "serving"
  /\ Becomes(b, "none")
  /\ UNCHANGED <<lockVars, source, next, stamp, out, snapshot, early, mixed, blind>>

Kill(b) ==
  /\ Crash(b)
  /\ Becomes(b, "none")
  /\ Forget(b)
  /\ UNCHANGED <<source, next, stamp, out, early, mixed, blind>>

-----------------------------------------------------------------------------
(* The sources.                                                             *)

\* Some build has read the sources and will stamp them later.
Unstamped == \E b \in Builder : step[b] \in {"compiling", "stamping"}

Unseen(content, status) ==
  content # source.content /\ (Unstamped \/ status = source.status)

\* Mutant: the bound on edits is ignored.
ChangeUnbounded(content, status) ==
  /\ source' = [content |-> content, status |-> status]
  /\ blind' = (blind \/ Unseen(content, status))
  /\ UNCHANGED <<lockVars, next, stamp, out, step, snapshot, early, mixed>>

Change(content, status) ==
  /\ content <= MaxEdits /\ status <= MaxEdits
  /\ source' = [content |-> content, status |-> status]
  /\ blind' = (blind \/ Unseen(content, status))
  /\ UNCHANGED <<lockVars, next, stamp, out, step, snapshot, early, mixed>>

\* An edit that changes what `git status --porcelain` lists.
Edit == Change(source.content + 1, source.status + 1)

\* Another edit of a file it lists already: its output stays the same.
EditAgain == Change(source.content + 1, source.status)

\* A commit changes HEAD and the listing, not the files.
Commit == Change(source.content, source.status + 1)

Next ==
  \/ Tick /\ UNCHANGED artVars
  \/ \E b \in Builder :
       \/ Ask(b) \/ ExportMatches(b) \/ Locked(b) \/ Wait(b)
       \/ StartCompile(b) \/ FinishCompile(b) \/ FailCompile(b) \/ Stamp(b)
       \/ Unlock(b) \/ CheckExport(b) \/ StopServing(b) \/ Kill(b)
  \/ Edit \/ EditAgain \/ Commit

Spec == Init /\ [][Next]_allVars

-----------------------------------------------------------------------------

\* Mutant: any stamp counts, as if the stored value were not compared.
FreshAnyStamp == next.done /\ stamp # -1

\* hasCompleteNextProductionBuild and isNextProductionBuildFresh.
Fresh == next.done /\ stamp = source.status

\* Two builds never compile into .next/ at the same time: the build locks
\* exist "so Bun workers do not race on shared .next artifacts".
NextDirExclusive == \A a, b \in Compiling : a = b

\* A build the gate calls fresh was compiled from the sources as they are, if
\* one build wrote it and the sources did not change between its snapshot and
\* its stamp, nor later in a file git listed already: "True when a completed
\* build was produced from the current source snapshot."
FreshBuildIsCurrent ==
  Fresh /\ ~mixed /\ ~blind => next.from = source.content

\* A stamp only ever marks a complete .next/, whoever kills, fails or overtakes
\* a build: write-build-source-fingerprint.ts refuses incomplete artifacts.
StampedIsComplete == stamp # -1 => next.done

\* An export that is being served is taken away under its servers only by who
\* had asked for a build before it was there, or builds for another base path:
\* it is ensured "without deleting shared artifacts other parallel tests may
\* still be serving".
ServedExportKept ==
  [][\A c \in Builder :
       step[c] = "serving" /\ out = BaseOf[c] /\ out' # out =>
         \E b \in Builder :
           /\ step'[b] # step[b]
           /\ (step[b] = "start" /\ b \in early) \/ BaseOf[b] # BaseOf[c]]_allVars
=============================================================================
