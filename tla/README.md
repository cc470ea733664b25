# Specifications of the repository's own machinery

The site itself is statically generated. What can go wrong in this repository
in ways that a test hardly reaches is the machinery around the site: the lock
files that keep parallel `bun test` workers apart, the servers and builds those
workers start, the records that several agents keep about their worktrees, the
generated modules every command rewrites, the root checkout all worktrees hang
from, and the workflow that hands work items from agent to agent. This directory holds TLA+ specifications of that
machinery, TLC configurations that check them on small instances, and TLAPS
proofs, for all values of the constants, of every safety property of the passing
runs.

    tlc -workers 2 -config ListenPortLock.cfg MCListenPortLock
    tlapm ListenPortLockProofs.tla

`PROJECT.json` lists the components, the runs, the lines of code each definition
stands for, a mutant for every property, the findings, the hazards and the
theorems.

Contents: 1 the parts of the system, 2 modules and code, 3 runs, 4 time and
fairness, 5 findings, 6 proofs, 7 what is not modelled, 8 plan.

## 1. The parts of the system

### Parts that are modelled

| part | state | operations | what makes it hard | what makes it correct |
|---|---|---|---|---|
| Listen-port lock | a file in the temporary directory, without an owner | exclusive open, stat, reclaim when stale, unlink on release | processes interleave between the system calls; they die inside; operations outlast the stale age | holders exclude each other and keep their file until somebody dies inside or stays too long; then somebody still gets in |
| Build locks | one such file per kind of build | reclaim, open, synchronous sleep, deadline | a crashed builder against the deadline of those that wait | builds of one kind exclude each other until one is killed or overlong; nobody gives up for a single lock that was left behind |
| Build artifacts | `.next/`, `out/`, the source fingerprint, the sources and what git says of them | build, stamp, check whether fresh, check whether exported, serve | builds that fail, are killed or overtaken; two kinds of build over one `.next/`; edits git does not show; a page that is checked before the lock is taken | a build called fresh is current; only complete builds are stamped; a served export goes only for a caller that had asked before it was there, or for another base path |
| Export probe lock | a lock file and a depth counter per process | attempt, regular and aggressive reclaim, probe, release | tasks of one process and tasks of others; probes longer than the aggressive age | probes exclude each other; the counter says whether a probe is running; nobody waits for ever |
| Playwright launch gate | a chain of promises per process, a slot file for all | queue, take the slot, launch, retry, release | an error between two of them; kills | launches of a process are serialized; a slot belongs to its launch; every launch settles |
| Verify server sessions | ports, child processes, the phase of each session | reserve, give up, spawn or listen, ask whether ready, retry, clean up, signal handler | the port belongs to nobody for a while; signals at any step | ended sessions leave no server; nobody is served by a peer's server; every start settles |
| Lane records | `.claude/lane-metadata.json` in each worktree | stamp, discover, look up, refresh | read, modify and write in place by processes nothing orders | a linkage called current rests on an answer of GitHub; the time of creation is kept |
| Content runtime and content PR doctor | content files, generated modules, the commit | invalidate, scan, compare, write, check, validate | commands overlap in one worktree while its author edits and commits | what a preparation leaves is current; "ready" means the committed modules are those of the committed content |
| Root checkout sync | the root's directory, stash, `main` and `origin/main`; the worktrees and what git knows of them | stash, fetch, ls-remote, the guarded move of `main`, prune, new, reused or damaged worktree | setups overlap in one root where people and agents edit and commit; every command may fail or be the last | no edit is lost; `main` goes back only for a setup whose check was overtaken; a setup that meets nothing unusual heals what others left |
| Worktree cleanup | the list of merged worktrees, found and not yet removed | list, remove one by one, refuse, prune | agents edit and commit between the list and the removal | work that is in no commit goes with `--force` only |
| Root main lag reconciliation | the verdict about the root, taken before the fetch | look, decide, fetch, merge forward, or write a note into a tracked report | the root changes between the verdict and the merge | as for the root checkout sync |
| Drain rows of merged pull requests | a report put together from pages of the work list; the moves made from it | read a page, classify, look up the pull request, move the drain idea | the list is read while the factory works, and moved from later | a drain idea is closed only for a lane that is merged and finished at the time of the move |
| Factory workflow | work items in states, visits, resources | every station of `factory/factory.json`, the clock | reviews are not tied to their task; loops and breakers; competing stations | items balance; a worktree has one agent; all work comes to rest |

How they interact:

- A verify session starts its server under the listen-port lock. A probe of an
  exported site runs under the probe lock and launches its browser through the
  launch gate, which asks the depth counter of the probe lock whether it needs
  a slot.
- A build runs under the build lock of its kind. The artifacts it leaves are
  read by the tests that serve them, without a lock.
- A work item of the factory workflow is set up by `setup-workspace.py`, which
  stamps the lane record of its worktree. The planner reports read and refresh
  the records. Setups, clean-ups and the reconciliation share the root checkout:
  its directory, its stash and its `main`. A report about drain rows moves work
  items of the workflow from outside. Inside the worktree the agent runs package scripts, each of
  which prepares the content runtime first.

### Parts that are not modelled

Page bundle generator, planner reports, content registry and validation, search index and results, locale
routing, navigation and collections, pages and interactive diagrams,
governance audits, convergence passes, link validation, component coverage
gate, continuous integration. Section 7 says why.

## 2. Modules and code

File names below are relative to `src/` of the repository (`lib/` there is
`src/lib/`).

| module | code | composes |
|---|---|---|
| `Serializer` | abstract: what a lock file without an owner can promise | |
| `ListenPortLock` | `lib/verify/verify-listen-port-lock.ts` | implements `Serializer` |
| `VerifySession` | `lib/verify/server-lifecycle.ts`, `http-harness.ts`, `static-export-http-server.ts` | `INSTANCE Serializer` as its lock |
| `BuildLock` | `lib/build/run-next-production-build.ts`, `run-static-export-build.ts` | |
| `SerializedBuilds` | the refinement mapping of the two build locks | `EXTENDS BuildArtifacts`; implements `Serializer` once per kind |
| `BuildArtifacts` | `lib/verify/build-source-fingerprint.ts`, `scripts/write-build-source-fingerprint.ts`, `lib/build/ensure-export-search-artifacts.ts`, the build scripts of `package.json` | `EXTENDS BuildLock` |
| `ProbeLock` | `lib/verify/export-integration-probe-lock.ts` | implements `Serializer` |
| `LaunchGate` | `lib/verify/launch-playwright-browser.ts` | `EXTENDS ProbeLock` |
| `LaneRecord` | `factory/scripts/setup-workspace.py`, `lib/factory/worktree-lane-metadata.ts`, `active-pr-mergeability-watchdog.ts` | |
| `ContentRuntime` | `lib/content/content-runtime-preparation.ts`, its generators, `content-pr-doctor.ts` | |
| `RootSync` | `factory/scripts/setup-workspace.py`, `scripts/cleanup-merged-worktrees.sh`, `lib/factory/planner-root-main-lag-current-truth-reconciliation.ts` | three components over one checkout |
| `FactoryWorkflow` | `factory/factory.json` | |
| `DrainRows` | `lib/factory/merged-pr-drain-rows-reconciliation.ts`, `live-queue-snapshot.ts` | `EXTENDS FactoryWorkflow` |
| `MC...` | instances for TLC | |
| `ListenPortLockProofs`, `VerifySessionProofs`, `BuildArtifactsProofs`, `LaunchGateProofs`, `LaneRecordProofs`, `ContentRuntimeProofs`, `RootSyncProofs`, `DrainRowsProofs` | theorems, about the composed module and the one it extends | `EXTENDS` the module they are about |

**Serializer.** A worker is out, waiting or in; it enters only while nobody is
in, unless the promise has `lapsed`. The promise lapses in two ways: a death
inside (`Die`, and `Perish` of workers that live in one process), and `Outstay`.
The code can promise no more: its lock files carry no owner, so age is all that
tells a dead holder from a slow one. Three locks of the code are shown to
implement it, and the sessions to use it as it is.

**ListenPortLock.** `OpenSucceeds` and `OpenFails` are the exclusive open,
`Stat` the age test after `EEXIST`, `UnlinkStale` the reclaim, `Release` the
unlink in the `finally`. Each is one system call, an action of its own. Both
unlinks are by path: they remove whatever file is there. `Crash` leaves the
file behind, `Restart` is the next run of the worker. `lapsed` is history: a
holder died inside or outlasted the stale age. `Abstract` maps the module to
`Serializer`: only a holder is in, idle and dead workers are out.

**VerifySession.** Uses the abstract `Serializer` in place of the file lock, as
that lock has been shown to implement it: the session module sees the promise
and every way it can lapse, not the file. Ports are 1..MaxPort, scanned in the
order of the code. A session reserves a port by binding it (`reserved`),
releases it, spawns a child or listens itself, and asks whoever is on the port
whether it is ready. The retry after `EADDRINUSE`, the cleanup (kill, wait for
the port), the signal handler, which keeps the cleanup of the first spawn only,
and foreign programs that bind a port are actions. `fooled` is history: whose
ready answer came from a server not its own.

**BuildLock.** Two locks from the same code, indexed by `Kind`. The order
differs from the listen-port lock: every attempt reclaims first, then opens,
then sleeps one poll interval, and the deadline is tested before the sleep.
Everything is synchronous. A tick is one poll interval, which a run may take at a
coarser scale. `longest` and `ahead` are history: the longest a build has lasted
so far, and the locks a builder has met since it computed its deadline, the one it
finds and every one another builder of its kind takes while it waits.

**SerializedBuilds.** A builder that builds is in, one that has timed out is out
again. Neither the file nor the builders remember that the promise for a kind has
lapsed, so `lapsed[k]` is a history variable beside the specification
(`HistorySpec`): a process was killed in a build of kind k, or such a build has
outlasted the stale age. It is used by the proofs only, so that the runs do
not pay for its states.

**BuildArtifacts.** Adds to `BuildLock` what a build does while it holds its
lock: empty `.next/`, read the sources (`snapshot`), compile, and stamp with
`source.status`, the fingerprint computed when the build is over. `source`
separates the content on disk from the part of it the fingerprint sees, which
hashes the names git lists and no contents. `mixed` and `blind` are history:
two builds compiled at once; the sources changed so that no stamp can show it;
`early` holds the callers that had asked before the page now in `out/` was
built. `ensureExportSearchArtifacts` looks at `out/` and then asks for a build
(`Ask`, `ExportMatches`), and its caller serves what it finds. `next build` itself is external: it empties `.next/`
and fills it, or fails.

**ProbeLock.** Tasks with a process each (`ProcOf`). Stat and unlink of an
attempt run without yielding, so tasks of one process do not interleave inside
an attempt, tasks of different processes do. Every `PollThreshold`-th failed
attempt reclaims by `AggressiveAge` as well. Processes in `Unserialized` are
coverage reruns, which take no lock. `Abstract` maps the module to `Serializer`: a
task with the lock is in, one that polls or is inside an attempt waits, and a
coverage rerun stays out.

**LaunchGate.** Adds the launch to `ProbeLock`: `gate[p]` is the chain of
promises of process p, one `Link` per attempt, as every attempt makes a promise
of its own and waits for the one before; `slot` is the slot file of all
processes, `slotted` the launches that took it. `SlotErrors` says whether taking the slot may throw; a
process in which it did is in `shut`, because the code then never opens the
gate.

**LaneRecord.** A setup copies, stamps and writes the record; a report
discovers the worktrees, asks GitHub branch by branch, drafts the refreshed
record and writes it. A write empties the file first (`Garbled`) and fills it
in a second step; another process may read or write in between. Agents switch
branches, pull requests open and close. `seen`, `before`, `late`, `outdated`
and `lost` are history of what GitHub answered and of who wrote after a stamp.
That a lane has one setup at a time is assumed here. `FactoryWorkflow` supports
it with `WorktreeExclusive`, given that a name is submitted once.

**ContentRuntime.** A command deletes the modules git ignores, then runs one
generator after the other: scan, comparison where the code has one, emptying,
writing. What a module says is the set of content files it lists. The doctor
prepares, checks with git that the tracked paths are clean, validates, each
validation with a preparation of its own in front, and checks again. The author
edits content and commits. `alone` and `incomplete` are history.

**FactoryWorkflow.** Every station of `factory.json` is a record with its
inputs, its resource and the outcomes it may leave; work items are counted per
type, state and name. `Dispatch` and `Finish` are the two ends of a station at
which an agent or a script works, `Move` is a logical move (`consume`, the
breakers), the clock starts the loop-back thought. The engine is not part of
the repository; the head of the module says what is assumed of it.

**RootSync.** Commits of the remote's `main` are numbered; the root or a lane
may have one of its own on top of one. `pc[l]` walks the setup of lane l through
its git commands: `StashRoot` (stage and stash, whatever the directory shows),
`Fetch`, `LsRemote`, `ReadMain` (the checks), `WriteMain` (`update-ref`, which
does not name the old value), then `Reuse`, `RemoveStale` and `AddWorktree`
after the prune. Each may fail, and `Fail` is a death anywhere. `main` can move
without the files of the directory: `index` is the commit they are from, and a
directory that lags shows the difference as changes, which the next setup
stashes. A worktree is `whole`, `partial` (it has a `.git` file), a `husk`, or
`none`, while `known` is what git has registered. `ListMerged` puts `found`
together, `RemoveMerged`, `Refused` and `EndSweep` go through it later, with the
status git finds then. `DecideSync`, `FetchForSync` and `MergeForward` are the
reconciliation of a root that lags, `RecordNote` its other outcomes. `calm` is
history: the lane whose setup has met nothing unusual so far.

**DrainRows.** Adds to the workflow the report a planner makes: `ReadPage`
collects what one more page of the work list says of the lane and of the idea
that drains it, at the time that page is read. When the list ends the row is classified, the pull request looked up
and the first item under the drain's name moved (`ExecuteConsume`,
`ExecuteComplete`). The report ends with the planner.

## 3. Runs

All bounds are constants of the modules and appear in guards only. `V` marks a
run whose property TLC finds violated (section 5).

| run | what it shows | states |
|---|---|---|
| `listen_lock` | `MutualExclusion`, `NoTheft`: until a holder dies inside or outlasts the stale age, holders exclude each other and no unlink takes a holder's file. `Serializes`: the lock implements `Serializer`. `Progress`: while somebody keeps asking, somebody gets in. | 42 488 |
| `artifacts` | `SameKindExclusive` until a kill or an overlong build, `WaitAccountedFor`: who reaches the deadline has met locks that account for its whole wait, so one crashed builder alone delays nobody that long. `FreshBuildIsCurrent`, `StampedIsComplete`, `ServedExportKept` with builds that fail, are killed and overtake each other, edits, and exports that are served. | 2 205 736 |
| `artifacts_two_kinds` V | `NextDirExclusive` does not hold between kinds. | |
| `probe_lock` | `ProbesExclusive` until a kill or an overlong probe, `DepthCounts` exactly, `ProbesEnd` for every task that asks. | 11 100 |
| `launch_gate` | `OnePerProcess`, `SlotHeld`, and `LaunchSettles` in every process in which taking a slot did not throw. | 71 022 |
| `launch_leak` V | without that exception launches may queue for ever. | |
| `verify_session` | `ServerStopped`, `PortsAccountedFor`, `NotFooledByPeer`, `StartSettles`. | 241 096 |
| `lane_record` | `EvidenceIsReal`, `BirthKept` for setups and reports in any order. | 431 832 |
| `lane_stale` V | `StaleWhenRefreshFails` does not hold. | |
| `content_runtime` | `RuntimeFresh`, `NothingMissing`, `ReviewReady`. | 2 325 712 |
| `root_sync` | `EditsKept`, `MainMovesForward`, `CalmSetupSucceeds`, `LaneWorkKept` with overlapping, failing and killed setups, a clean-up or a reconciliation, edits, commits and merges. | 1 998 470 |
| `factory_workflow` | `ReviewsAccountedFor`, `WorktreeExclusive`, `WorkSettles` of the workflow, `DrainMoveJustified` of the report that moves items in it. | 71 870 |

Bounds, and why they are enough:

- `listen_lock`: three workers, because the classic failure of reclaim by path
  takes a dead holder, one that reclaims and one that reclaims late. `StaleAge`
  2 < `HoldBound` 3: operations both shorter and longer than the stale age. One
  worker may die, any number of times.
- `artifacts`: a file is stale when it is older than one tick and the deadline is
  three, so with a tick of 150 s the stale age is the 300 s of the code and the
  deadline somewhat less than its 570 s. Builds last up to two ticks, longer than
  the stale age: some are overtaken, and `longest` tells the properties so. The
  code does not bound a build. The deadline is longer than one stale age and
  shorter than two, as in the code: builders that reach it occur, after a second
  lock. One production builder and two exports: of these
  one crashes, the other reclaims, and the rerun of the first waits. One build
  each, one crash, and an edit, or a hidden edit and a commit in either order.
  The two exporters are symmetric.
- `probe_lock`: four tasks in three processes: two share a process, one is a
  coverage rerun, one may be killed. `AggressiveAge` 1 < `StaleAge` 3, the
  aggressive reclaim every second poll; probes last as long as they like.
- `launch_gate`: three tasks in two processes, one inside a probe, two attempts
  each; ages of one tick, since what matters is before or after.
- `verify_session`: one spawning and one listening worker, two ports, two
  attempts, two sessions each (the second meets the signal handler left by the
  first), one foreign program.
- `lane_record`: two processes, one lane and a second branch, one pull request,
  one switch of branches, two setups, one early end. Lanes share nothing but
  the branches, which the second branch represents. The theorems of section 6
  cover every number of all of these.
- `content_runtime`: two shells, two content files, one module of each kind the
  code has (committed; ignored and always written; ignored and written only if
  changed), a file that shows in all and one that shows in two of them; two
  edits or commits and one failure. One validation of the doctor stands for the
  code's two, which differ in the script only.
- `root_sync`: lane a is set up twice, from nothing or over what a killed setup
  left, and lane b once, from a branch the remote already has: what a setup
  heals, what two of them do to each other, and all starts of a branch. Two
  merges let the remote move between two fetches, and `main` go back; one edit
  and one commit in the root; an agent at work in lane a, the one a setup meets
  again. The root has `main` checked out, or it is a clone
  on another branch without a `main`. One clean-up, plain or forced, or one
  reconciliation: they share the bound `MaxSweeps`, and meet only through the
  setups and edits both of them overlap.
- `factory_workflow`: a content lane submitted as an idea or as a plan, the idea
  that drains it, and one thought for the planner that makes the report; one
  executor slot, one planner slot, breakers from the second visit on, two moves.
  Two names are what a swap of reviews takes, and a page can end between any two
  items of either.

Deadlock is checked in `listen_lock` and `content_runtime`, where nothing ever
ends. In the other runs the bounded number of builds, probes, launches,
sessions, setups, edits and work items comes to an end, and the system really stops;
their liveness properties say that it does not stop early.

## 4. Time and fairness

Time is counted in ticks. The age of a file and the time inside saturate one
tick past the largest value the code compares them with. `HoldBound` and
`LaunchBound` limit how long an operation lasts; beyond the stale age the
modules let it be overtaken, as the code does.

Only the specifications that check liveness state fairness:

- `ListenPortLock`: weak fairness of the clock, of every worker's attempt and of
  its release. A poll is a timer of the event loop, which fires, and the
  release is in a `finally`. Deaths are never required.
- `ProbeLock`, `LaunchGate`: strong fairness per task. A task's attempt is
  enabled again and again, whenever no other task of its process is inside one;
  the event loop runs every callback that is ready, in order, so a task that
  polls for ever has its turn for ever.
- `VerifySession`: weak fairness of the steps of a start and of leaving the
  lock: timers fire, system calls return, a child reports or exits. Nothing is
  assumed of signals, foreign programs or of a session's end being asked for.
- `FactoryWorkflow`: something goes on while an agent or a script can end, a
  station can begin or an idea can be consumed, and the breakers of a task fire
  if they can again and again. The last is strong fairness: breaker and station
  compete for the same task, and the workflow relies on the engine preferring
  neither for ever. `WorkSettles` would not hold with less.
- `DrainRows`: that of the workflow. Nothing is assumed of the report or of
  merges: `WorkSettles` holds whether items are moved or not.

`BuildArtifacts`, `LaneRecord`, `RootSync` and `ContentRuntime` state no
fairness: their properties are safety properties.

## 5. Findings

1. `artifacts_two_kinds`: a production build and a static export take different
   lock files and compile into the same `.next/`. The comment at
   `src/lib/build/run-static-export-build.ts:114` says the lock is there "so
   integration tests do not race on shared `out/` and `.next/` directories".
2. `launch_leak`: `acquireLaunchSlot` is awaited before the `try` whose
   `finally` opens the gate of the process
   (`src/lib/verify/launch-playwright-browser.ts:214`). If it throws, the retry
   the code allows for `ENOENT`, and every later launch of the process, wait on
   a gate nobody will open.
3. `lane_stale`: when every lookup of a report fails, the pull request that the
   record calls current stands in for an answer and is written back as current
   (`src/lib/factory/active-pr-mergeability-watchdog.ts:669`). The test at
   `src/lib/factory/worktree-lane-metadata.test.ts:96` says that a refresh
   "marks explicit stale gaps when refresh fails"; for a record that is current
   it never does.

What the properties leave open on purpose, since no document promises more: the
locks exclude nobody once their promise has lapsed; an edit of a file git lists
already leaves a build called fresh (`blind`); an untracked content file shows in
the committed modules although it is not committed, and the doctor, whose
`git status` leaves untracked files out, passes (`ReviewReady` asks for a
working tree without one); a later spawn of a process, or a retried one, is not
stopped by its signal handler (`ServerStopped`); an idea whose task has failed
stays as it is (`WorkSettles`); an export that is served is taken away under its
servers by a caller that missed the page before it was there, because the page
is not checked again under the lock, and by one that builds for another base
path (`ServedExportKept`).

Met while modelling the root checkout, and left open in the same way:

- After the fast-forward of a `main` that is checked out, the files of the root
  lag behind it. The next setup stages and stashes the difference, and a commit
  made there before that would undo the work that was merged. The docstring at
  `factory/scripts/setup-workspace.py:201` has the sync work "without disturbing
  the working tree". No edit is lost (`EditsKept`), but nothing pops the stash.
- A setup killed half way leaves a path that git still knows and that is no
  working tree. The next setup removes the directory, not the registration, and
  `git worktree add` refuses once (`CalmSetupSucceeds` allows for it).
- A lane that has no commit yet counts as merged for the clean-up.
- The reconciliation's policy is to "defer fast-forward sync when the checkout is
  dirty"
  (`src/lib/factory/planner-root-main-lag-current-truth-reconciliation.ts:23`),
  but it looks once, before the fetch and the merge. What keeps an edit made in
  between is that `git merge --ff-only` refuses to overwrite one. Its evidence
  `userWorkReverted: false` (line 1100) is a constant. A note it writes into the
  tracked report makes the root dirty for the next reconciliation, until a setup
  stashes the note.

And about drain rows: only the first item found under the name is moved, the
idea, so a drain in progress is closed while its task goes on; an item of the
drain that is complete already counts, of whatever type; the no-op reason
"unsafe-root-checkout" is declared and never produced. That the report meets
every item of a lane rests on the order in which the engine lists them: newest
first, an item created between two pages would be missed.

## 6. Proofs

`tlapm` checks eight modules of theorems. They hold for every value of the
constants that satisfies the named assumptions of the module, which TLC
evaluates on every run of it.

| module | any number of | theorems |
|---|---|---|
| `ListenPortLockProofs` | workers, deaths | `TypeCorrect`, `HoldersExclude`, `NobodyRobbed`, `ImplementsSerializer` |
| `VerifySessionProofs` | workers, ports, sessions, attempts | `TypeCorrect`, `ServersStop`, `NothingStaysBound`, `PeersKeptApart`, `SessionsUseLock`, `PromiseExcludes` |
| `BuildArtifactsProofs` | builders, builds, crashes, edits, stale ages, deadlines | `TypeCorrect`, `BuildsExclude`, `StampsMarkComplete`, `FreshIsCurrent`, `ServedKept`, `WaitsAccounted`, `LocksSerialize`, `KindsExclude` |
| `LaunchGateProofs` | tasks, processes, attempts | `ProbeTypeCorrect`, `LockedExclude`, `ProbeLockSerializes`, `DepthIsExact`, `GateImplementsLock`, `TypeCorrect`, `LaunchesExclude`, `SlotsHeld` |
| `LaneRecordProofs` | lanes, branches, processes, pull requests | `TypeCorrect`, `EvidenceHolds`, `BirthHolds` |
| `ContentRuntimeProofs` | shells, modules, content files, edits, failures | `TypeCorrect`, `UndisturbedIsFresh`, `ModulesReturn`, `VerdictIsTrue` |
| `RootSyncProofs` | lanes, setups, merges, edits, clean-ups | `TypeCorrect`, `RootEditsKept`, `MainForward`, `WorkKept`, `CalmSucceeds` |
| `DrainRowsProofs` | names, resources, visits, moves | `TypeCorrect`, `ReviewsBalance`, `OneInAWorktree`, `MovesJustified` |

### Assumptions

Most say that the bounds are natural numbers and that the values standing for
"no file", "nobody" and the like are not workers, branches, records or commits
(`NoCommitAssumption` in `RootSync` among them). The ones that say more:

- `ProbeAssumption`: the tasks are finitely many, since the depth counter counts
  them; the aggressive age is at most the stale age (30 s and five minutes).
- `LaunchAssumption`: a launch is over, by its own timeout of two minutes, before
  its slot file is stale at five (`LaunchBound <= SlotStaleAge`). Without it
  `SlotHeld` is false.
- `SessionAssumption`: a static server is always started under the lock.
- `RuntimeAssumption`: no generator appears twice in the list.
- `LaneAssumption`: every lane has a branch of its name.
- `FactoryAssumption`: names are finitely many and resources have a unit at
  least; `DrainAssumption`: a drain idea is submitted as an idea, under another
  name than its lane's.

### Invariants

Hardly any property is inductive as it stands. What each proof adds, and why:

- *Listen-port lock*. Mutual exclusion keeps no waiter from holding a stale
  verdict about a file that has been replaced. `IInv`: until the promise lapses
  a holder is the creator of the file, the age of the file is the time it has
  been inside and at most the stale age, a file that exists has a holder, and so
  no worker stands before an unlink. `NoTheft` and the refinement of `Serializer`
  follow; of the refinement the open that succeeds is the case that needs it.
- *Builds*. `LockInv` is the same argument for two locks by one code, with the
  time its creator has been building as the age of a file; `LongestInv` ties
  `longest` to the builds that run. `FreshInv` says of whom compiles that it has
  read the sources as they are, and of a complete `.next/` that it is of them as
  long as it may still be stamped or its stamp is theirs, until two builds
  compile at once or the sources change unseen. `ServedInv` says that a caller
  that waits for an export has found another page or none, and is in `early` if
  there is one now.
  The wait of a builder is paid for by the locks it meets. `Explained` is the
  account: while the path is free, it has waited no longer than the locks it has met
  can have been there, and less if it sleeps; while there is a file, no longer than
  the others can have been there and this one is old. It is kept twice, once at
  one stale age for each lock, once at the longest build for each and one stale age
  for every crash, since only a crash leaves a file without a build (`FileInv`). As
  a builder reclaims before it opens, it never sleeps or gives up on a file that is
  stale, which is where the two accounts meet the deadline (`WaitInv`). So one
  lock left behind costs a waiter one stale age and never more. With a deadline of
  570 s and a stale age of 300 s it takes a second lock to make a waiter give up,
  and two are enough: on the instance of the run, too, who gives up has met two.
  `KindInv` is `LockInv` once more, for one kind and with the history of
  `SerializedBuilds`: a step of a builder of the other kind changes nothing it
  speaks of, a waiter that is killed leaves nothing behind. With it every step maps to
  one of `Serializer` for each kind (`LocksSerialize`).
- *Probe lock and launch gate*. `LockedInv` as above; `DepthInv` makes the depth
  of a process the number of its tasks inside a probe, of which `DepthCounts` is
  the sign. `GateImplementsLock` maps each step of the gate to one of the probe
  lock or to a stutter, so that both hold of the gate as well. `GateInv` places
  every task: who has queued has a link in the gate of its process, who has
  passed has the first, hence one task at a time. `OwnerInv`, that the creator
  of the file is locked or was killed, is what the refinement of `Serializer` adds:
  the promise lapses by time only while somebody is in. A kill takes all tasks
  of a process with it, in any phase: one step of the abstract lock. `SlotInv`: until a kill the
  slot file is that of a launch that runs and as old as that launch.
- *Verify sessions*. `Local` says which stages of a session have a child or a
  port, `Link` where the lock has let it, `Spawns` that its spawns are within its
  attempts, `BoundInv` that who binds a port is about to give it up or serves on
  it, `PeerInv` that, while nobody has been fooled, a ready server is listening
  already and a start has no port of a ready server. `SessionsUseLock` closes the
  chain: the sessions take no step with the lock that `Serializer` does not have, and
  `ListenPortLock` implements `Serializer`.
- *Lane records*. A draft is written to the file, so `EvidenceInv` extends the
  claim from the file to what every process carries: the pair it found, the draft
  it is about to write and, across a new stamp, answers given before it. `BirthInv`
  adds that drafts agree with the file, that a record once made is never removed,
  and that a lane has one setup at a time.
- *Content runtime*. `AloneInv` says of a command that nobody has disturbed that
  the modules it has passed are fresh, that what it is about to write is, and
  that nobody else prepares. `MissingInv` names, for every module that is
  missing, a command that will still write it, into a file nobody has deleted
  under its hands (`UnlinkedInv` says whose may be); the hand-over between
  overlapping commands is the hard case.
- *Root checkout*. `EditsKept` needs the types only. `RefsInv` is about a setup
  between its reads: what it knows of the remote is no later than the remote, and
  about to write it goes forward from the `main` it has seen, so that `main` goes
  back only if somebody else has moved it since. `CalmInv` follows a setup that
  has met nothing unusual from its stash to its worktree.
- *Factory workflow and drain rows*. `LineInv`: of a name there is at most one
  item on the way from idea to task, at rest or at work; every station takes one
  item of the line and leaves one at most. `BornInv`: of a lane with anything
  complete, or any review, there is a task. `CountsFollow` is about all names
  together: a step moves one unit of a type at most, so the numbers that
  `ReviewsAccountedFor` compares change by one, on both sides or on neither.
  `SettledStays`: a task that is
  complete, with its reviews, stays so. `ReportInv` puts these together for a
  report that is read page by page, which no moment of the queue need match: once
  the pages have reached the task it is complete, and once they are past the
  reviews nothing of the lane is left, whatever the factory has done in between.

The invariants were model-checked on the instances of the runs as well, the
history and the refinement of the build locks without edits of the sources. Two
attempts failed for a reason and changed the model. The gate of a process was a
chain of tasks: with a second attempt of a task whose first has left the chain
shut, the first link of a task is not the attempt that waits, and `GateInv` did
not hold; the code makes one promise per attempt, and so does the model now.
`ServedExportKept` held for callers with one base path only: a build
for another one takes an export away as well, which the property says now.

### What is model-checked only

- The liveness properties (`Progress`, `ProbesEnd`, `LaunchSettles`,
  `StartSettles`, `WorkSettles`): the prover treats neither liveness under
  fairness nor ENABLED.

Every other property of the passing runs is a theorem. Two had to be put
differently first. A sum over the names, by recursion over a set, is out of the
provers' reach; `Count` is now the cardinality of a set of units, told apart by
name and number, and `UnitsChange` says that one item more or less is one unit more
or less. And that nobody times out is no invariant for all constants: every
builder in the queue and every crash adds to the wait of the last one. What holds
for all of them is the account above, `WaitAccountedFor`.

The consumption of an idea is bound by name in `factory.json`; the pairing of
reviews is not. `WorktreeExclusive` and `DrainMoveJustified` are proved without
assuming that a review is of its task's name.

## 7. What is not modelled, and why

- *Page bundle generator*: existence checks and a sequence of writes without
  roll-back, by one process. What others make of a page half there is in
  `ContentRuntime`, whose author adds files one by one; that a repetition of the
  command refuses to overwrite what the first one wrote is not.
- *Planner reports*, but for those that change something (`DrainRows`,
  `LaneRecord`, `RootSync`): one-shot classifications of a snapshot of queue,
  worktrees and pull requests. Their rules are tables of state names and their
  tests list them, so a model would repeat the table. A reader should know of
  one: in the queue-health report a failed item is superseded by any complete or
  active item of its name, so the failed task of a lane whose idea or plan is
  complete is never recommended for repair. The deletion reconciliation has a
  `git restore` that its command line never asks for.
- *Content registry and validation*: schemas, lookups and walks over files that
  do not change meanwhile, once per build.
- *Search index and results*, *locale routing*: pure functions of one answer or
  one path; index, query engine and the hook that orders late answers belong to
  libraries.
- *Navigation*, *pages and diagrams*, *governance audits*, *link validation*,
  *component coverage gate*: derivations and scans at build time without state
  of their own.
- *Convergence passes*: sequences of checks against a session as `VerifySession`
  has it.
- *Continuous integration*: the same commands, one after the other, on a machine
  of their own.

The modules cover a small share of the repository's lines, and will: most of
it is pages, content, tables, and the reports and audits above, which run once
over a snapshot and keep nothing.

Inside the modelled parts, left out because no property depends on it: which
Chromium binary is launched, serving files, the text and order of reports, the
linkage status of a branch, the `.source` directory of fumadocs, DEPENDS_ON
relations of submitted batches, which planner notes conflict with git (a
choice in `RootSync`).

## 8. Plan

Proofs: a bound on `ahead`, the locks a builder meets, in terms of the number of
builders and what each of them asks for; that the launch slot, which a launch gives
back in any case, implements `Serializer` for processes that take one.

Models: an abstract build gate (asked, built from these sources, served) that
`BuildArtifacts` implements within one kind; the repetition of the page bundle
generator, composed with `ContentRuntime`; DEPENDS_ON of batches in
`FactoryWorkflow`.
