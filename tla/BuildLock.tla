----------------------------- MODULE BuildLock -----------------------------
(***************************************************************************)
(* The locks under which tests run production builds:                      *)
(* src/lib/build/run-next-production-build.ts and run-static-export-build.ts *)
(* are the same code over two lock paths, one per kind of build.           *)
(*                                                                         *)
(* Unlike the listen-port lock, an attempt reclaims a stale file before it *)
(* opens the path, the wait has a deadline, and everything is synchronous: *)
(* a waiting process sleeps one poll interval between two attempts.  A tick *)
(* is one such interval; system calls take none of it.                     *)
(***************************************************************************)
EXTENDS Integers

CONSTANTS
  Builder,      \* processes that run builds
  KindOf,       \* KindOf[b]: "next" or "export", what b builds
  NoFile,       \* the lock path does not exist
  StaleAge,     \* STALE_..._BUILD_LOCK_MAX_AGE_MS, in ticks
  MaxWait,      \* get...BuildLockMaxWaitMs(), in ticks
  HoldBound,    \* longest build, in ticks (spawnSync sets no limit)
  MaxBuilds,    \* builds one process asks for
  MaxCrashes    \* processes killed inside or outside a build

Kind == {"next", "export"}

ASSUME ConstantsAssumption ==
  /\ KindOf \in [Builder -> Kind]
  /\ NoFile \notin Builder
  /\ StaleAge \in Nat /\ MaxWait \in Nat /\ HoldBound \in Nat
  /\ MaxBuilds \in Nat /\ MaxCrashes \in Nat

VARIABLES
  pc,       \* pc[b]: where builder b is
  file,     \* file[k]: creator of the lock file of kind k, or NoFile
  age,      \* age[k]: time since its mtime, saturating past StaleAge
  waited,   \* waited[b]: time since b computed its deadline, 0 if not waiting
  held,     \* held[b]: how long b has been building, 0 if not building
  builds,   \* builds[b]: builds b has asked for
  crashes,  \* processes killed so far
  longest,  \* history: the longest a build has lasted
  ahead     \* history: ahead[b]: locks b has met since it computed its deadline

lockVars == <<pc, file, age, waited, held, builds, crashes, longest, ahead>>

Location == {"idle", "stat", "unlink", "open", "sleep", "building", "timedOut"}

LockTypeOK ==
  /\ pc \in [Builder -> Location]
  /\ file \in [Kind -> Builder \cup {NoFile}]
  /\ age \in [Kind -> 0..StaleAge + 1]
  /\ waited \in [Builder -> 0..MaxWait]
  /\ held \in [Builder -> 0..HoldBound]
  /\ builds \in [Builder -> 0..MaxBuilds]
  /\ crashes \in 0..MaxCrashes /\ longest \in 0..HoldBound
  /\ ahead \in [Builder -> Nat]

LockInit ==
  /\ pc = [b \in Builder |-> "idle"]
  /\ file = [k \in Kind |-> NoFile]
  /\ age = [k \in Kind |-> 0]
  /\ waited = [b \in Builder |-> 0]
  /\ held = [b \in Builder |-> 0]
  /\ builds = [b \in Builder |-> 0]
  /\ crashes = 0 /\ longest = 0
  /\ ahead = [b \in Builder |-> 0]

Goto(b, location) == pc' = [pc EXCEPT ![b] = location]

Request(b) ==
  /\ pc[b] = "idle"
  /\ builds[b] < MaxBuilds
  /\ builds' = [builds EXCEPT ![b] = @ + 1]
  /\ Goto(b, "stat")
  /\ ahead' = [ahead EXCEPT ![b] = IF file[KindOf[b]] = NoFile THEN 0 ELSE 1]
  /\ UNCHANGED <<file, age, waited, held, crashes, longest>>

\* Mutant: no file is ever stale.
StaleNever(k) == file[k] # NoFile /\ age[k] > StaleAge + 1

Stale(k) == file[k] # NoFile /\ age[k] > StaleAge

Stat(b) ==
  /\ pc[b] = "stat"
  /\ Goto(b, IF Stale(KindOf[b]) THEN "unlink" ELSE "open")
  /\ UNCHANGED <<file, age, waited, held, builds, crashes, longest, ahead>>

\* Removes whatever is at the path now; a missing file is ignored.
Unlink(k) ==
  /\ file' = [file EXCEPT ![k] = NoFile]
  /\ age' = [age EXCEPT ![k] = 0]

UnlinkStale(b) ==
  /\ pc[b] = "unlink"
  /\ Unlink(KindOf[b])
  /\ Goto(b, "open")
  /\ UNCHANGED <<waited, held, builds, crashes, longest, ahead>>

Waiting == {b \in Builder : pc[b] \in {"stat", "unlink", "open", "sleep"}}

\* Those who wait for the same kind have met b's lock.
Met(b) ==
  ahead' = [c \in Builder |->
              IF c = b THEN 0
              ELSE IF c \in Waiting /\ KindOf[c] = KindOf[b] THEN ahead[c] + 1
              ELSE ahead[c]]

\* Mutant: an open without O_EXCL.
OpenSucceedsShared(b) ==
  /\ pc[b] = "open"
  /\ file' = [file EXCEPT ![KindOf[b]] = b]
  /\ waited' = [waited EXCEPT ![b] = 0]
  /\ Goto(b, "building")
  /\ Met(b)
  /\ UNCHANGED <<age, held, builds, crashes, longest>>

OpenSucceeds(b) ==
  /\ pc[b] = "open"
  /\ file[KindOf[b]] = NoFile
  /\ file' = [file EXCEPT ![KindOf[b]] = b]
  /\ waited' = [waited EXCEPT ![b] = 0]
  /\ Goto(b, "building")
  /\ Met(b)
  /\ UNCHANGED <<age, held, builds, crashes, longest>>

\* EEXIST: give up at the deadline, otherwise sleep one interval.
OpenFails(b) ==
  /\ pc[b] = "open"
  /\ file[KindOf[b]] # NoFile
  /\ Goto(b, IF waited[b] >= MaxWait THEN "timedOut" ELSE "sleep")
  /\ UNCHANGED <<file, age, waited, held, builds, crashes, longest, ahead>>

\* The build process returns and the finally block unlinks the path.
Release(b) ==
  /\ pc[b] = "building"
  /\ Unlink(KindOf[b])
  /\ held' = [held EXCEPT ![b] = 0]
  /\ Goto(b, "idle")
  /\ UNCHANGED <<waited, builds, crashes, longest, ahead>>

\* The process is killed and a later run replaces it; its file stays.
Crash(b) ==
  /\ crashes < MaxCrashes
  /\ pc[b] # "idle"
  /\ crashes' = crashes + 1
  /\ Goto(b, "idle")
  /\ waited' = [waited EXCEPT ![b] = 0]
  /\ held' = [held EXCEPT ![b] = 0]
  /\ builds' = [builds EXCEPT ![b] = 0]
  /\ ahead' = [ahead EXCEPT ![b] = 0]
  /\ UNCHANGED <<file, age, longest>>

Building == {b \in Builder : pc[b] = "building"}

Tick ==
  /\ \A b \in Building : held[b] < HoldBound
  /\ \A b \in Waiting : pc[b] = "sleep"
  /\ pc' = [b \in Builder |-> IF pc[b] = "sleep" THEN "stat" ELSE pc[b]]
  /\ age' = [k \in Kind |-> IF file[k] = NoFile \/ age[k] > StaleAge
                           THEN age[k] ELSE age[k] + 1]
  /\ waited' = [b \in Builder |->
                  IF pc[b] = "sleep" /\ waited[b] < MaxWait
                  THEN waited[b] + 1 ELSE waited[b]]
  /\ held' = [b \in Builder |->
                IF pc[b] = "building" THEN held[b] + 1 ELSE held[b]]
  /\ longest' = IF \E b \in Building : held[b] >= longest THEN longest + 1 ELSE longest
  /\ UNCHANGED <<file, builds, crashes, ahead>>

\* One attempt of the loop in acquire...BuildLockSync, without the open that
\* succeeds: what the composed module must not extend.
Attempt(b) == Stat(b) \/ UnlinkStale(b) \/ OpenFails(b)

-----------------------------------------------------------------------------

\* Builds of one kind exclude each other until a process is killed or a build
\* outlasts the stale age: runStaticExportBuild "runs under a process-wide lock".
SameKindExclusive ==
  crashes = 0 /\ longest <= StaleAge =>
    \A a, b \in Building : KindOf[a] = KindOf[b] => a = b

\* Nobody gives up for one lock that was left behind ("so queued tests do
\* not stall until Bun timeout"): the locks a builder has met when it times out
\* account for its whole wait, each with one stale age; or, each with the longest
\* build there was, and one stale age for every crash.
WaitAccountedFor ==
  \A b \in Builder : pc[b] = "timedOut" =>
    /\ MaxWait < ahead[b] * (StaleAge + 1)
    /\ MaxWait < ahead[b] * (longest + 1) + crashes * (StaleAge + 1)
=============================================================================
