-------------------------- MODULE ListenPortLock --------------------------
(***************************************************************************)
(* The cross-process lock of src/lib/verify/verify-listen-port-lock.ts.    *)
(*                                                                         *)
(* The lock is a file in the temporary directory that carries no owner.    *)
(* It is taken by an exclusive open, released by an unlink that does not   *)
(* ask whose file it removes, and reclaimed by whoever finds it older than *)
(* the stale age.  The open, the stat and the unlink are separate system   *)
(* calls: the steps of two worker processes interleave between them.       *)
(*                                                                         *)
(* Time is counted in ticks.  HoldBound is how many ticks an operation run *)
(* under the lock may last; the code bounds it nowhere in this file, and   *)
(* the server startups it is used for outlast the stale age.               *)
(***************************************************************************)
EXTENDS Naturals

CONSTANTS
  Worker,       \* worker processes that call withVerifyListenPortLock
  NoFile,       \* the lock path does not exist
  StaleAge,     \* STALE_VERIFY_LISTEN_PORT_LOCK_MAX_AGE_MS, in ticks
  HoldBound,    \* longest operation, in ticks
  Crashable     \* workers that may die

ASSUME ConstantsAssumption ==
  /\ NoFile \notin Worker
  /\ StaleAge \in Nat
  /\ HoldBound \in Nat
  /\ Crashable \subseteq Worker

VARIABLES
  pc,       \* pc[w]: where worker w is
  file,     \* the worker that created the file at the lock path, or NoFile
  age,      \* time since the mtime of that file, saturating past StaleAge
  held,     \* held[w]: how long w has been running its operation
  lapsed    \* history: some holder died inside or outlasted the stale age

vars == <<pc, file, age, held, lapsed>>

(***************************************************************************)
(* "idle" not asking, "poll" about to open the path (first try, or asleep  *)
(* between two), "stat" got EEXIST and is about to stat, "unlink" saw a    *)
(* stale mtime and is about to unlink, "held" runs its operation, "dead".  *)
(***************************************************************************)
Location == {"idle", "poll", "stat", "unlink", "held", "dead"}

Ages == 0..StaleAge + 1

TypeOK ==
  /\ pc \in [Worker -> Location]
  /\ file \in Worker \cup {NoFile}
  /\ age \in Ages
  /\ held \in [Worker -> 0..HoldBound]
  /\ lapsed \in BOOLEAN

Init ==
  /\ pc = [w \in Worker |-> "idle"]
  /\ file = NoFile
  /\ age = 0
  /\ held = [w \in Worker |-> 0]
  /\ lapsed = FALSE

Goto(w, location) == pc' = [pc EXCEPT ![w] = location]

Request(w) ==
  /\ pc[w] = "idle"
  /\ Goto(w, "poll")
  /\ UNCHANGED <<file, age, held, lapsed>>

\* Mutants: an open without O_EXCL, and one that keeps an old mtime.
OpenSucceedsShared(w) ==
  /\ pc[w] = "poll"
  /\ Goto(w, "held")
  /\ file' = w
  /\ age' = 0
  /\ held' = [held EXCEPT ![w] = 0]
  /\ UNCHANGED lapsed

OpenSucceedsOldMtime(w) ==
  /\ pc[w] = "poll"
  /\ file = NoFile
  /\ Goto(w, "held")
  /\ file' = w
  /\ held' = [held EXCEPT ![w] = 0]
  /\ UNCHANGED <<age, lapsed>>

OpenSucceeds(w) ==
  /\ pc[w] = "poll"
  /\ file = NoFile
  /\ Goto(w, "held")
  /\ file' = w
  /\ age' = 0
  /\ held' = [held EXCEPT ![w] = 0]
  /\ UNCHANGED lapsed

OpenFails(w) ==
  /\ pc[w] = "poll"
  /\ file # NoFile
  /\ Goto(w, "stat")
  /\ UNCHANGED <<file, age, held, lapsed>>

\* Mutants: the stale age counted one tick short, and never reached.
StaleEarly == file # NoFile /\ age >= StaleAge

StaleNever == file # NoFile /\ age > StaleAge + 1

Stale == file # NoFile /\ age > StaleAge

\* A missing file (ENOENT) and a fresh one both end the attempt.
Stat(w) ==
  /\ pc[w] = "stat"
  /\ Goto(w, IF Stale THEN "unlink" ELSE "poll")
  /\ UNCHANGED <<file, age, held, lapsed>>

\* Removes whatever is at the path now; ENOENT is ignored.
UnlinkStale(w) ==
  /\ pc[w] = "unlink"
  /\ Goto(w, "poll")
  /\ file' = NoFile
  /\ UNCHANGED <<age, held, lapsed>>

\* The operation settles, well or badly, and the finally block releases.
Release(w) ==
  /\ pc[w] = "held"
  /\ Goto(w, "idle")
  /\ file' = NoFile
  /\ UNCHANGED <<age, held, lapsed>>

\* The process dies; its file, if it holds one, stays.
Crash(w) ==
  /\ w \in Crashable
  /\ pc[w] # "dead"
  /\ Goto(w, "dead")
  /\ lapsed' = (lapsed \/ pc[w] = "held")
  /\ UNCHANGED <<file, age, held>>

\* A later test run starts a new process in the dead one's place.
Restart(w) ==
  /\ pc[w] = "dead"
  /\ Goto(w, "idle")
  /\ UNCHANGED <<file, age, held, lapsed>>

Holders == {w \in Worker : pc[w] = "held"}

\* Mutant: the age of the file does not saturate.
TickUnbounded ==
  /\ \A w \in Worker : pc[w] = "held" => held[w] < HoldBound
  /\ age' = age + 1
  /\ held' = [w \in Worker |->
                IF pc[w] = "held" THEN held[w] + 1 ELSE held[w]]
  /\ lapsed' = (lapsed \/ \E w \in Holders : held[w] >= StaleAge)
  /\ UNCHANGED <<pc, file>>

Tick ==
  /\ \A w \in Worker : pc[w] = "held" => held[w] < HoldBound
  /\ age' = IF age > StaleAge THEN age ELSE age + 1
  /\ held' = [w \in Worker |->
                IF pc[w] = "held" THEN held[w] + 1 ELSE held[w]]
  /\ lapsed' = (lapsed \/ \E w \in Holders : held[w] >= StaleAge)
  /\ UNCHANGED <<pc, file>>

Attempt(w) ==
  OpenSucceeds(w) \/ OpenFails(w) \/ Stat(w) \/ UnlinkStale(w)

Step(w) ==
  Request(w) \/ Attempt(w) \/ Release(w) \/ Crash(w) \/ Restart(w)

Next == Tick \/ \E w \in Worker : Step(w)

Spec == Init /\ [][Next]_vars

(***************************************************************************)
(* Timers fire and system calls return, so an attempt that can go on does; *)
(* operations settle; time passes.  Nobody has to ask, die or restart.     *)
(***************************************************************************)
Fairness ==
  /\ WF_vars(Tick)
  /\ \A w \in Worker : WF_vars(Attempt(w)) /\ WF_vars(Release(w))

FairSpec == Spec /\ Fairness

-----------------------------------------------------------------------------

\* At most one worker runs its operation at a time, as long as none died inside
\* or outlasted the stale age: withVerifyListenPortLock "serializes default-path
\* verify server startup", and its test allows only one concurrent holder.
MutualExclusion == ~lapsed => \A v, w \in Holders : v = w

\* As long as none did, no unlink, neither a stale reclaim nor a release, takes
\* the file of a worker that is still inside its operation.
NoTheft ==
  [][~lapsed => \A w \in Holders : w \in Holders' => file = w /\ file' = w]_vars

\* While a worker keeps asking, somebody gets in: a lock left behind by a dead
\* process is reclaimed, and is so once it is old enough.
Progress ==
  \A w \in Worker :
    pc[w] = "poll" ~> pc[w] = "dead" \/ \E v \in Worker : pc[v] = "held"

PhaseOf(w) ==
  IF pc[w] = "held" THEN "in"
  ELSE IF pc[w] \in {"idle", "dead"} THEN "out" ELSE "waiting"

Abstract == INSTANCE Serializer WITH phase <- [w \in Worker |-> PhaseOf(w)]

\* The lock serializes its workers, as the abstract one does: the file lock
\* breaks the promise of withVerifyListenPortLock in no other way than by a
\* holder that dies inside or stays too long.
Serializes == Abstract!Spec
=============================================================================
